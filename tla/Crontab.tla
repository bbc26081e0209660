------------------------------- MODULE Crontab -------------------------------
(***************************************************************************)
(* The crontab schedules of the EventBus mock: what an expression stands   *)
(* for, Crontab.Next, which steps over the months, days and hours that do  *)
(* not match, and the loop of dueBoundaries that asks for one boundary     *)
(* after another.                                                          *)
(*                                                                         *)
(* Time is in minutes.  What they are called, and where the next month,    *)
(* day and hour begin, is the time package's to say: those are constants.  *)
(***************************************************************************)
EXTENDS Naturals, FiniteSets, Sequences

CONSTANTS
    Last,                       \* the last minute there is to think of
    Month, Day, Weekday, Hour, Minute,      \* the names of every minute
    NextMonth, NextDay, NextHour,           \* when the next one begins
    Fields,                     \* the expressions, as records of fields
    Windows,                    \* windows of a tick, as pairs <<from, to>>
    Starts,                     \* StartsAt of a schedule: a minute, and 1 if
                                \* it is some seconds later
    FiveYears,                  \* how far Next looks ahead
    MaxFiresPerTick

Minutes == 0 .. Last

\* What time.Date, AddDate and Add promise of the calendar.
Begins(next, name) ==
    \A t \in Minutes : t < next[t] /\ \A u \in Minutes : t <= u /\ u < next[t] => name[u] = name[t]

CalendarOK ==
    /\ {Month, Day, Weekday, Hour, Minute} \subseteq [Minutes -> Nat]
    /\ {NextMonth, NextDay, NextHour} \subseteq [Minutes -> Nat]
    /\ Begins(NextMonth, Month)
    /\ Begins(NextDay, Day) /\ Begins(NextDay, Weekday)
    /\ Begins(NextHour, Hour)

\* There is calendar enough for all that is asked.
BoundsOK ==
    /\ Last \in Nat /\ FiveYears \in Nat /\ MaxFiresPerTick \in Nat \ {0}
    /\ \A w \in Windows : /\ w \in Minutes \X Minutes
                          /\ \A t \in {w[1], w[2]} : t + 1 + FiveYears <= Last
    /\ \A s \in Starts : /\ s \in (Minutes \ {0}) \X {0, 1}
                         /\ s[1] + 1 + FiveYears <= Last

VARIABLES
    ct,                \* the Crontab
    window, starts,    \* dueBoundaries' arguments
    from,              \* the time Next was asked about
    cur, until,        \* Next's variables, until being its limit
    due,               \* dueBoundaries' result so far
    looking            \* what dueBoundaries is doing

cronVars == <<ct, window, starts, from, cur, until, due, looking>>

Highest(name) == CHOOSE n \in {name[t] : t \in Minutes} : \A t \in Minutes : name[t] <= n

\* The bits of a mask are values the field can have.
Masks ==
    [minute : SUBSET (0 .. Highest(Minute)), hour : SUBSET (0 .. Highest(Hour)),
     month : SUBSET (1 .. Highest(Month)),
     dom : [mask : SUBSET (1 .. Highest(Day)), star : BOOLEAN],
     dow : [mask : SUBSET (0 .. Highest(Weekday)), star : BOOLEAN]]

TypeOK ==
    /\ ct \in Masks
    /\ window \in Windows /\ starts \in Starts
    /\ from \in Nat /\ cur \in Nat /\ until \in Nat
    /\ due \in Seq(Minutes)
    /\ looking \in {"no", "next", "done"}

-----------------------------------------------------------------------------
(* ParseCrontab *)

\* Mutation: the last step of a range may go beyond it.
RangeMaskBeyond(lo, hi, n) == {v \in lo .. hi + n : (v - lo) % n = 0}

RangeMask(lo, hi, n) == {v \in lo .. hi : (v - lo) % n = 0}

\* A field is a list of parts <<lo, hi, n>>, the unrestricted star being the
\* empty one; a lone value is the range of itself, and a stepped star the
\* stepped range of all values.
Mask(field, min, max) ==
    IF field = <<>> THEN min .. max
    ELSE UNION {RangeMask(field[i][1], field[i][2], field[i][3]) : i \in DOMAIN field}

\* The values of a field, and whether it was the unrestricted star.
ParseCrontabField(field, min, max) ==
    [mask |-> Mask(field, min, max), star |-> field = <<>>]

ParseCrontab(expr) ==
    [minute |-> Mask(expr.minute, 0, Highest(Minute)),
     hour   |-> Mask(expr.hour, 0, Highest(Hour)),
     dom    |-> ParseCrontabField(expr.dom, 1, Highest(Day)),
     month  |-> Mask(expr.month, 1, Highest(Month)),
     dow    |-> ParseCrontabField(expr.dow, 0, Highest(Weekday))]

\* What the parser accepts: the range of a part is one of values of its field.
InRange(field, min, max) ==
    \A i \in DOMAIN field : field[i][1] .. field[i][2] \subseteq min .. max

FieldsOK ==
    \A expr \in Fields :
        /\ InRange(expr.minute, 0, Highest(Minute)) /\ InRange(expr.hour, 0, Highest(Hour))
        /\ InRange(expr.dom, 1, Highest(Day)) /\ InRange(expr.month, 1, Highest(Month))
        /\ InRange(expr.dow, 0, Highest(Weekday))

-----------------------------------------------------------------------------
(* Matches and Next *)

\* When both are restricted either will do.
DayMatches(t) ==
    LET domOK == Day[t] \in ct.dom.mask
        dowOK == Weekday[t] \in ct.dow.mask
    IN IF ct.dom.star THEN dowOK ELSE IF ct.dow.star THEN domOK ELSE domOK \/ dowOK

Matches(t) ==
    /\ Minute[t] \in ct.minute /\ Hour[t] \in ct.hour /\ Month[t] \in ct.month
    /\ DayMatches(t)

\* Next(t): t's minute is over when the next one begins.
Ask(t) ==
    /\ from' = t /\ cur' = t + 1 /\ until' = t + 1 + FiveYears

\* Mutation: asks from where the schedule starts.
AskedAtStart == IF starts[1] + starts[2] > window[1] THEN starts[1] ELSE window[1]

\* dueBoundaries: from the window's start, or just before the schedule's.
FirstAsked == IF starts[1] + starts[2] > window[1] THEN starts[1] - 1 ELSE window[1]

InWindow(t) == window[1] < t /\ t <= window[2] /\ starts[1] + starts[2] <= t

Start ==
    /\ looking = "no"
    /\ looking' = "next"
    /\ Ask(FirstAsked)
    /\ UNCHANGED <<ct, window, starts, due>>

\* Mutation: the hour is stepped over from where it is.
SkipSixtyMinutes ==
    IF Month[cur] \notin ct.month THEN NextMonth[cur]
    ELSE IF ~ DayMatches(cur) THEN NextDay[cur]
    ELSE IF Hour[cur] \notin ct.hour THEN cur + NextHour[0]
    ELSE cur + 1

\* Where the search goes on from a minute that does not match.
Skip ==
    IF Month[cur] \notin ct.month THEN NextMonth[cur]
    ELSE IF ~ DayMatches(cur) THEN NextDay[cur]
    ELSE IF Hour[cur] \notin ct.hour THEN NextHour[cur]
    ELSE cur + 1

Searching == looking = "next" /\ cur < until

NextStep ==
    /\ Searching /\ ~ Matches(cur)
    /\ cur' = Skip
    /\ UNCHANGED <<ct, window, starts, from, until, due, looking>>

\* Next returns a boundary to dueBoundaries, which wants no later one than the
\* window has, none before the schedule starts, and no more than the maximum.
Found ==
    /\ Searching /\ Matches(cur)
    /\ due' = IF cur <= window[2] /\ cur >= starts[1] + starts[2] THEN Append(due, cur) ELSE due
    /\ IF cur > window[2] \/ Len(due') >= MaxFiresPerTick
       THEN looking' = "done" /\ UNCHANGED <<from, cur, until>>
       ELSE Ask(cur) /\ UNCHANGED looking
    /\ UNCHANGED <<ct, window, starts>>

\* The zero time.
NotFound ==
    /\ looking = "next" /\ cur >= until
    /\ looking' = "done"
    /\ UNCHANGED <<ct, window, starts, from, cur, until, due>>

Init ==
    /\ ct \in {ParseCrontab(expr) : expr \in Fields}
    /\ window \in Windows /\ starts \in Starts
    /\ from = 0 /\ cur = 0 /\ until = 0
    /\ due = <<>>
    /\ looking = "no"

Next == Start \/ NextStep \/ Found \/ NotFound

Spec == Init /\ [][Next]_cronVars

-----------------------------------------------------------------------------
(* Properties *)

\* "The first time strictly after t at which the schedule fires": of all the
\* minutes that Next has passed without looking at them, none would fire.
NothingPassed ==
    looking = "next" => \A t \in Minutes : from < t /\ t < cur => ~ Matches(t)

\* dueBoundaries finds the boundaries of its window in order and without a gap;
\* what the maximum makes it drop, and what is too far ahead to be found, is
\* later than all it returns.
DueAreTheFirst ==
    /\ \A i, j \in DOMAIN due : i < j => due[i] < due[j]
    /\ \A i \in DOMAIN due : InWindow(due[i]) /\ Matches(due[i])
    /\ looking = "done" =>
         \A t \in Minutes :
            /\ InWindow(t) /\ Matches(t) /\ t \notin {due[i] : i \in DOMAIN due}
            => /\ Len(due) = MaxFiresPerTick \/ cur >= until
               /\ \A i \in DOMAIN due : due[i] < t
=============================================================================

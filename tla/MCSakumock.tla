----------------------------- MODULE MCSakumock -----------------------------
(***************************************************************************)
(* Sakumock with a calendar of ten days, two hours a day and two minutes   *)
(* an hour.  Months of two, three, two and three days are, in turn, the    *)
(* first and the second of their year, and weeks have two days: every      *)
(* field of a crontab has values that come again and some that do not.     *)
(* SimpleMQ's database has a clock of half seconds.                        *)
(*                                                                         *)
(* A runbook has a step with steps in it and one more, which may jump      *)
(* back; in the first there may be another with steps in it.               *)
(***************************************************************************)
EXTENDS Scenarios, Sequences, TLC

MCLast == 39

DayNumber(t) == t \div 4
FirstDays == <<0, 2, 5, 7, 10>>
MonthNumber(t) ==
    CHOOSE i \in 1 .. 4 : FirstDays[i] <= DayNumber(t) /\ DayNumber(t) < FirstDays[i + 1]

MCMonth == [t \in 0 .. MCLast |-> 2 - (MonthNumber(t) % 2)]
MCDay == [t \in 0 .. MCLast |-> DayNumber(t) - FirstDays[MonthNumber(t)] + 1]
MCWeekday == [t \in 0 .. MCLast |-> DayNumber(t) % 2]
MCHour == [t \in 0 .. MCLast |-> (t \div 2) % 2]
MCMinute == [t \in 0 .. MCLast |-> t % 2]
MCNextMonth == [t \in 0 .. MCLast |-> 4 * FirstDays[MonthNumber(t) + 1]]
MCNextDay == [t \in 0 .. MCLast |-> 4 * (DayNumber(t) + 1)]
MCNextHour == [t \in 0 .. MCLast |-> 2 * (t \div 2 + 1)]

\* "*", a value, a range or a range with a step.
Value(v) == << <<v, v, 1>> >>
MCFields ==
    [minute : {<<>>, Value(0), Value(1)}, hour : {<<>>, Value(0), Value(1)},
     dom : {<<>>, Value(1), << <<2, 3, 1>> >>, << <<1, 3, 2>> >>},
     month : {<<>>, Value(1), Value(2)}, dow : {<<>>, Value(0), Value(1)}]

MCWindows == {<<0, 5>>, <<3, 17>>}
MCStarts == {<<1, 0>>, <<3, 1>>, <<8, 0>>}

Plain(name, kind, next) == [name |-> name, kind |-> kind, next |-> next]
Holding(name, kind, body, except, next) ==
    [name |-> name, kind |-> kind, next |-> next, body |-> body,
     except |-> except, handler |-> 3]

MCFirst ==
    <<Holding("a", "switch", 2, None, None), Holding("a", "for", 2, None, None),
      Holding("a", "for", 2, None, "a"), Holding("a", "try", 2, None, None),
      Holding("a", "try", 2, None, "a"), Holding("a", "try", 2, "return", None),
      Holding("a", "try", 2, "steps", "b")>>
MCRest ==
    << <<>>, <<Plain("b", "call", None)>>, <<Plain("b", "next", "a")>>,
       <<Plain("b", "return", None)>> >>
MCInside ==
    <<Plain("c", "call", None), Plain("c", "next", "c"), Plain("c", "next", "a"),
      Plain("c", "return", None), Holding("c", "for", 3, None, None),
      Holding("c", "try", 3, None, None), Holding("c", "try", 3, "steps", None)>>
MCInmost == <<Plain("d", "call", None), Plain("d", "return", None), Plain("d", "call", "d")>>

\* Its own list, the one in its first step, and the one in that or of an except.
MCBooks ==
    [b \in (DOMAIN MCFirst) \X (DOMAIN MCRest) \X (DOMAIN MCInside) \X (DOMAIN MCInmost) |->
        << <<MCFirst[b[1]]>> \o MCRest[b[2]], <<MCInside[b[3]]>>, <<MCInmost[b[4]]>> >>]

\* The bounds are for five operands, or for three brackets in one another.
MCLongest ==
    ({"ident", "?", ":", "*", "**"} :> 9) @@
    ({"ident", "||", "&&", "==", "<", "*", "**"} :> 7) @@
    ({"ident", "-", "*", "(", ")"} :> 7) @@
    ({"ident", "[", "]", ",", "."} :> 7) @@ ({"ident", "{", "}", ":", ","} :> 7)

\* Half a second of visibility, or what a queue says; a second of life.
MCDefaults == {[vt |-> 1, me |-> 2]}
=============================================================================

------------------------------ MODULE Engines ------------------------------
(***************************************************************************)
(* The services, or parts of one, that do more than keep a store: Object   *)
(* Storage, which mirrors its buckets and its keys into the S3 gateway;    *)
(* the logins of the API gateway; the run of a runbook, its parallel steps *)
(* and the boundaries of a crontab, which run by themselves between two    *)
(* calls of the stores of Workflows and EventBus.  A process serves one of *)
(* them, or one of Stores.                                                 *)
(***************************************************************************)
EXTENDS Stores

CONSTANTS
    Buckets, Sites, Permissions, MaxKeys, MaxIssued, MaxContracts,  \* ObjectStorage
    Branches, MaxTurns,                                         \* Parallel
    Books, MaxRounds,                                           \* Runbook
    Last, Month, Day, Weekday, Hour, Minute,                    \* Crontab
    NextMonth, NextDay, NextHour, Fields, Windows, Starts, FiveYears,
    MaxFiresPerTick,
    States, SessionIDs, LoginTTL, SessionTTLs, Threshold, MaxNow    \* GatewayLogin

VARIABLES
    serving,           \* what the process serves
    buckets, contracts, listed, deleted, issued, users, dirs,   \* ObjectStorage
    calls, raced,
    limit, branch, turns, ch, closed, results, step, stepCtx,   \* Parallel
    book, frames, phase, result, cancelled, tardy, noticed,     \* Runbook
    caught,
    ct, window, starts, from, cur, until, due, looking,         \* Crontab
    now, pendingLogins, sessions, exchanging, randoms,          \* GatewayLogin
    loginOf

storageVars == <<buckets, contracts, listed, deleted, issued, users, dirs,
                 calls, raced>>
stepVars == <<limit, branch, turns, ch, closed, results, step, stepCtx>>
bookVars == <<book, frames, phase, result, cancelled, tardy, noticed, caught>>
cronVars == <<ct, window, starts, from, cur, until, due, looking>>
loginVars == <<now, pendingLogins, sessions, exchanging, randoms, loginOf>>

engineVars == <<storageVars, stepVars, bookVars, cronVars, loginVars>>

Storage == INSTANCE ObjectStorage WITH Sites <- {}, Permissions <- {}
Keys == INSTANCE ObjectStorage WITH Buckets <- {}
Step == INSTANCE Parallel
Run == INSTANCE Runbook
Cron == INSTANCE Crontab
Login == INSTANCE GatewayLogin WITH Callbacks <- Requests

ASSUME EngineAssumption ==
    /\ None \notin Storage!Call /\ None \notin Keys!Call
    /\ \A keys \in SUBSET Keys!Keys : keys # None
    /\ MaxKeys = 1 /\ MaxIssued \in Nat /\ MaxContracts \in Nat
    /\ Step!BoundsOK
    /\ Cron!CalendarOK /\ Cron!BoundsOK /\ Cron!FieldsOK
    /\ Run!BooksOK /\ MaxRounds \in Nat
    /\ LoginTTL \in Nat /\ SessionTTLs \subseteq Nat /\ MaxNow \in Nat

(* The state of a service that is not served *)

NoStorage ==
    /\ buckets = <<>> /\ contracts = <<>> /\ listed = <<>> /\ deleted = <<>>
    /\ issued = <<>> /\ users = <<>> /\ dirs = <<>> /\ calls = <<>>
    /\ raced = <<>>
NoStep ==
    /\ limit = <<>> /\ branch = <<>> /\ turns = <<>> /\ ch = <<>>
    /\ closed = <<>> /\ results = <<>> /\ step = <<>> /\ stepCtx = <<>>
NoRun ==
    /\ book = <<>> /\ frames = <<>> /\ phase = <<>> /\ result = <<>>
    /\ cancelled = <<>> /\ tardy = <<>> /\ noticed = <<>> /\ caught = <<>>
NoCron ==
    /\ ct = <<>> /\ window = <<>> /\ starts = <<>> /\ from = <<>>
    /\ cur = <<>> /\ until = <<>> /\ due = <<>> /\ looking = <<>>
NoLogin ==
    /\ now = <<>> /\ pendingLogins = <<>> /\ sessions = <<>>
    /\ exchanging = <<>> /\ randoms = <<>> /\ loginOf = <<>>

NoEngine == NoStorage /\ NoStep /\ NoRun /\ NoCron /\ NoLogin

EngineServices == {"buckets", "keys", "parallel", "runbook", "schedule", "login"}

EngineInit ==
    /\ \/ serving = "buckets" /\ Storage!Init
       \/ serving = "keys" /\ Keys!Init
       \/ serving \notin {"buckets", "keys"} /\ NoStorage
    /\ \/ serving = "parallel" /\ Step!Init
       \/ serving # "parallel" /\ NoStep
    /\ \/ serving = "runbook" /\ Run!Init
       \/ serving # "runbook" /\ NoRun
    /\ \/ serving = "schedule" /\ Cron!Init
       \/ serving # "schedule" /\ NoCron
    /\ \/ serving = "login" /\ Login!Init
       \/ serving # "login" /\ NoLogin

EngineNext ==
    \/ /\ \/ serving = "buckets" /\ Storage!Next
          \/ serving = "keys" /\ Keys!Next
       /\ UNCHANGED <<stepVars, bookVars, cronVars, loginVars>>
    \/ /\ serving = "parallel" /\ Step!Next
       /\ UNCHANGED <<storageVars, bookVars, cronVars, loginVars>>
    \/ /\ serving = "runbook" /\ Run!Next
       /\ UNCHANGED <<storageVars, stepVars, cronVars, loginVars>>
    \/ /\ serving = "schedule" /\ Cron!Next
       /\ UNCHANGED <<storageVars, stepVars, bookVars, loginVars>>
    \/ /\ serving = "login" /\ Login!Next
       /\ UNCHANGED <<storageVars, stepVars, bookVars, cronVars>>

\* Every goroutine of a run that can go on does: see Parallel and Runbook.
RunFairness ==
    /\ \A b \in Branches : WF_stepVars(serving = "parallel" /\ Step!BranchStep(b))
    /\ WF_stepVars(serving = "parallel" /\ Step!CloseChannel)
    /\ WF_stepVars(serving = "parallel" /\ Step!RunStep)
    /\ WF_bookVars(serving = "runbook" /\ Run!RunStep)

-----------------------------------------------------------------------------
(* Properties: those of the modules.  What each says, and of which code,    *)
(* stands where it is defined.                                              *)

\* What a runbook's run tells is so: a parallel step that succeeds has all its
\* results, having kept to its limit, and a run that was cancelled stops, and says
\* why, unless a try caught it.
OutcomesTrue ==
    /\ serving = "parallel" => Step!ResultsComplete /\ Step!LimitKept
    /\ serving = "runbook" => Run!StopsWhenCancelled /\ Run!CancelIsTold

\* However a parallel step ends, all its branches do; and a run ends that is
\* cancelled, or whose runbook does not jump.
RunbooksEnd ==
    <>[](/\ serving = "parallel" => Step!BranchesEnded
         /\ serving = "runbook" => Run!Ended)

\* Crontabs are read as meant: Next passes no boundary over, and the boundaries of
\* a tick are the first of its window, as many as the cap allows.
BoundariesFound == serving = "schedule" => Cron!NothingPassed /\ Cron!DueAreTheFirst

\* One login at the gateway's OIDC provider, one session.
LoginsUsedOnce == serving = "login" => Login!LoginsUsedOnce
=============================================================================

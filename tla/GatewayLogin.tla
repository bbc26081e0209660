---------------------------- MODULE GatewayLogin ----------------------------
(***************************************************************************)
(* The OIDC logins and sessions of the API Gateway's data plane.  A login  *)
(* under way is kept under its state and taken by the callback, in one     *)
(* critical section; the exchange of the code with the identity provider   *)
(* follows without a lock, and may fail; then a session is stored.  Both   *)
(* maps are swept when something is put into a map that has grown.         *)
(***************************************************************************)
EXTENDS Naturals, FiniteSets

CONSTANTS
    States,            \* the random login states there can be
    SessionIDs,        \* the random session IDs there can be
    Callbacks,         \* callbacks in flight
    None,
    LoginTTL,          \* loginStateTTL
    SessionTTLs,       \* how long sessions may last
    Threshold,         \* sweepThreshold
    MaxNow             \* bound on the clock

VARIABLES
    now,
    pendingLogins,     \* per state, when it expires
    sessions,          \* per session ID, when it expires
    exchanging,        \* per callback, the state it took
    randoms,           \* the states and session IDs issued so far
    loginOf            \* history: per session ID, the login it came from

loginVars == <<now, pendingLogins, sessions, exchanging, randoms, loginOf>>

TypeOK ==
    /\ now \in 0 .. MaxNow
    /\ pendingLogins \in [States -> Nat \cup {None}]
    /\ sessions \in [SessionIDs -> Nat \cup {None}]
    /\ exchanging \in [Callbacks -> States \cup {None}]
    /\ randoms \subseteq States \cup SessionIDs
    /\ loginOf \in [SessionIDs -> States \cup {None}]

Init ==
    /\ now = 0
    /\ pendingLogins = [s \in States |-> None]
    /\ sessions = [i \in SessionIDs |-> None]
    /\ exchanging = [c \in Callbacks |-> None]
    /\ randoms = {}
    /\ loginOf = [i \in SessionIDs |-> None]

Entries(m) == {k \in DOMAIN m : m[k] # None}
Expired(m) == {k \in Entries(m) : now > m[k]}

\* sweepExpired
SweepExpired(m) ==
    IF Cardinality(Entries(m)) < Threshold THEN m
    ELSE [k \in DOMAIN m |-> IF k \in Expired(m) THEN None ELSE m[k]]

Fresh(k) == k \notin randoms /\ randoms' = randoms \cup {k}

StartLogin(s) ==
    /\ Fresh(s)
    /\ pendingLogins' = [SweepExpired(pendingLogins) EXCEPT ![s] = now + LoginTTL]
    /\ UNCHANGED <<now, sessions, exchanging, loginOf>>

\* Mutation: the state is only looked up.
LookUpState(c, s) ==
    /\ exchanging[c] = None /\ s \in randoms
    /\ exchanging' = [exchanging EXCEPT ![c] =
            IF s \in Entries(pendingLogins) \ Expired(pendingLogins) THEN s ELSE None]
    /\ UNCHANGED <<now, pendingLogins, sessions, randoms, loginOf>>

\* finishLogin takes the state away, whatever comes of it; states come back
\* in any order and any number of times.
TakeState(c, s) ==
    /\ exchanging[c] = None /\ s \in randoms
    /\ pendingLogins' = [pendingLogins EXCEPT ![s] = None]
    /\ exchanging' = [exchanging EXCEPT ![c] =
            IF s \in Entries(pendingLogins) \ Expired(pendingLogins) THEN s ELSE None]
    /\ UNCHANGED <<now, sessions, randoms, loginOf>>

\* No token, or not one that verifies: the login has to start again.
ExchangeFails(c) ==
    /\ exchanging[c] # None
    /\ exchanging' = [exchanging EXCEPT ![c] = None]
    /\ UNCHANGED <<now, pendingLogins, sessions, randoms, loginOf>>

Establish(c, i, ttl) ==
    /\ exchanging[c] # None
    /\ Fresh(i)
    /\ sessions' = [SweepExpired(sessions) EXCEPT ![i] = now + ttl]
    /\ loginOf' = [loginOf EXCEPT ![i] = exchanging[c]]
    /\ exchanging' = [exchanging EXCEPT ![c] = None]
    /\ UNCHANGED <<now, pendingLogins>>

\* validSession forgets the session it finds expired.
ValidSession(i) ==
    /\ i \in Expired(sessions)
    /\ sessions' = [sessions EXCEPT ![i] = None]
    /\ UNCHANGED <<now, pendingLogins, exchanging, randoms, loginOf>>

Pass ==
    /\ now < MaxNow
    /\ now' = now + 1
    /\ UNCHANGED <<pendingLogins, sessions, exchanging, randoms, loginOf>>

LoginOps ==
    \E s \in States :
        \/ StartLogin(s)
        \/ \E c \in Callbacks : TakeState(c, s)

SessionOps ==
    \/ \E c \in Callbacks :
         \/ ExchangeFails(c)
         \/ \E i \in SessionIDs, ttl \in SessionTTLs : Establish(c, i, ttl)
    \/ \E i \in SessionIDs : ValidSession(i)

Next == LoginOps \/ SessionOps \/ Pass

Spec == Init /\ [][Next]_loginVars

-----------------------------------------------------------------------------
(* Properties *)

\* Who comes back once gets in once: a login gives rise to one session, if any,
\* however often and from wherever its callback is repeated.
LoginsUsedOnce ==
    /\ \A i, j \in SessionIDs : loginOf[i] # None /\ loginOf[i] = loginOf[j] => i = j
    /\ \A c, d \in Callbacks : exchanging[c] # None /\ exchanging[c] = exchanging[d] => c = d
    /\ \A c \in Callbacks, i \in SessionIDs :
         exchanging[c] # None => loginOf[i] # exchanging[c] /\ pendingLogins[exchanging[c]] = None
=============================================================================

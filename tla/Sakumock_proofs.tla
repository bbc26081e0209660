--------------------------- MODULE Sakumock_proofs ---------------------------
(***************************************************************************)
(* What is proved of the one process.  First the engines, of each an       *)
(* invariant of its own instance; then the process, which serves one       *)
(* engine or one store of Stores_proofs from its start to its end, so that *)
(* a step of it is a step of that.                                         *)
(***************************************************************************)
EXTENDS Sakumock, Stores_proofs, SequenceTheorems

-----------------------------------------------------------------------------
(* The gateway's logins *)

\* What is issued is never issued again, and whoever has taken a login has taken
\* it away: neither a session nor a pending login is left to share it with.
LoginInv ==
    /\ now \in Nat
    /\ pendingLogins \in [States -> Nat \cup {None}]
    /\ sessions \in [SessionIDs -> Nat \cup {None}]
    /\ exchanging \in [Requests -> States \cup {None}]
    /\ loginOf \in [SessionIDs -> States \cup {None}]
    /\ \A s \in States : pendingLogins[s] # None => s \in randoms
    /\ \A c \in Requests : exchanging[c] # None =>
         exchanging[c] \in randoms /\ pendingLogins[exchanging[c]] = None
    /\ \A i \in SessionIDs : loginOf[i] # None =>
         i \in randoms /\ loginOf[i] \in randoms /\ pendingLogins[loginOf[i]] = None
    /\ Login!LoginsUsedOnce

LoginBounds == LoginTTL \in Nat /\ SessionTTLs \subseteq Nat

\* A sweep leaves an entry alone or takes it away.
LEMMA Swept ==
  ASSUME NEW K, NEW m \in [K -> Nat \cup {None}]
  PROVE  /\ Login!SweepExpired(m) \in [K -> Nat \cup {None}]
         /\ \A k \in K : Login!SweepExpired(m)[k] \in {m[k], None}
  BY DEF Login!SweepExpired

LEMMA LoginStarts == ASSUME Login!Init PROVE LoginInv
  BY DEF Login!Init, LoginInv, Login!LoginsUsedOnce

LEMMA LoginSteps ==
  ASSUME LoginBounds, LoginInv, Login!Next \/ UNCHANGED loginVars
  PROVE  LoginInv'
<1>1. CASE UNCHANGED loginVars
  BY <1>1 DEF loginVars, LoginInv, Login!LoginsUsedOnce
<1>2. ASSUME NEW s \in States, Login!StartLogin(s) PROVE LoginInv'
  <2> DEFINE swept == Login!SweepExpired(pendingLogins)
  <2>1. /\ swept \in [States -> Nat \cup {None}]
        /\ \A k \in States : swept[k] \in {pendingLogins[k], None}
    BY Swept DEF LoginInv
  <2>2. /\ s \notin randoms /\ randoms' = randoms \cup {s}
        /\ pendingLogins' = [swept EXCEPT ![s] = now + LoginTTL]
        /\ UNCHANGED <<now, sessions, exchanging, loginOf>>
    BY <1>2 DEF Login!StartLogin, Login!Fresh
  <2> HIDE DEF swept
  <2>3. pendingLogins' \in [States -> Nat \cup {None}]
    BY <2>1, <2>2 DEF LoginInv, LoginBounds
  <2>4. \A k \in States : k # s => pendingLogins'[k] \in {pendingLogins[k], None}
    BY <2>1, <2>2
  <2> QED
    BY <2>2, <2>3, <2>4 DEF LoginInv, Login!LoginsUsedOnce
<1>3. ASSUME NEW s \in States, NEW c \in Requests, Login!TakeState(c, s) PROVE LoginInv'
  <2>1. /\ pendingLogins' = [pendingLogins EXCEPT ![s] = None]
        /\ UNCHANGED <<now, sessions, randoms, loginOf>>
    BY <1>3 DEF Login!TakeState
  <2>2. PICK t \in {s, None} :
          /\ exchanging' = [exchanging EXCEPT ![c] = t]
          /\ t # None => s \in States /\ pendingLogins[s] # None
    BY <1>3 DEF Login!TakeState, Login!Entries, LoginInv
  <2>3. /\ exchanging'[c] = t
        /\ \A d \in Requests : d # c => exchanging'[d] = exchanging[d]
        /\ exchanging' \in [Requests -> States \cup {None}]
    BY <2>2 DEF LoginInv
  <2>4. /\ pendingLogins'[s] = None
        /\ \A k \in States : k # s => pendingLogins'[k] = pendingLogins[k]
        /\ pendingLogins' \in [States -> Nat \cup {None}]
    BY <2>1 DEF LoginInv
  <2>5. t # None =>
          /\ t = s /\ s \in randoms
          /\ \A d \in Requests : exchanging[d] # s
          /\ \A i \in SessionIDs : loginOf[i] # s
    BY <2>2 DEF LoginInv, Login!LoginsUsedOnce
  <2>6. (Login!LoginsUsedOnce)'
    BY <2>1, <2>3, <2>4, <2>5 DEF LoginInv, Login!LoginsUsedOnce
  <2> QED
    BY <2>1, <2>3, <2>4, <2>5, <2>6 DEF LoginInv
<1>4. ASSUME NEW c \in Requests, Login!ExchangeFails(c) PROVE LoginInv'
  BY <1>4 DEF Login!ExchangeFails, LoginInv, Login!LoginsUsedOnce
<1>5. ASSUME NEW c \in Requests, NEW i \in SessionIDs, NEW ttl \in SessionTTLs,
             Login!Establish(c, i, ttl)
      PROVE  LoginInv'
  <2> DEFINE swept == Login!SweepExpired(sessions)
  <2>1. swept \in [SessionIDs -> Nat \cup {None}]
    BY Swept DEF LoginInv
  <2>2. /\ exchanging[c] # None
        /\ i \notin randoms /\ randoms' = randoms \cup {i}
        /\ sessions' = [swept EXCEPT ![i] = now + ttl]
        /\ loginOf' = [loginOf EXCEPT ![i] = exchanging[c]]
        /\ exchanging' = [exchanging EXCEPT ![c] = None]
        /\ UNCHANGED <<now, pendingLogins>>
    BY <1>5 DEF Login!Establish, Login!Fresh
  <2> HIDE DEF swept
  <2>3. now + ttl \in Nat
    BY DEF LoginInv, LoginBounds
  <2>4. sessions' \in [SessionIDs -> Nat \cup {None}]
    BY <2>1, <2>2, <2>3
  <2> QED
    BY <2>2, <2>4 DEF LoginInv, Login!LoginsUsedOnce
<1>6. ASSUME NEW i \in SessionIDs, Login!ValidSession(i) PROVE LoginInv'
  BY <1>6 DEF Login!ValidSession, LoginInv, Login!LoginsUsedOnce
<1>7. CASE Login!Pass
  BY <1>7 DEF Login!Pass, LoginInv, Login!LoginsUsedOnce
<1> QED
  BY <1>1, <1>2, <1>3, <1>4, <1>5, <1>6, <1>7
     DEF Login!Next, Login!LoginOps, Login!SessionOps
\* The clock stays within its bound, and what was drawn is what there is to draw.
LoginTyped == now \in 0 .. MaxNow /\ randoms \subseteq States \cup SessionIDs

LEMMA LoginStaysTyped ==
  ASSUME MaxNow \in Nat, LoginTyped, Login!Next \/ UNCHANGED loginVars
  PROVE  LoginTyped'
<1>1. CASE Login!Pass
  BY <1>1 DEF Login!Pass, LoginTyped
<1>2. CASE now' = now /\ (randoms' = randoms \/ \E k \in States \cup SessionIDs : Login!Fresh(k))
  BY <1>2 DEF Login!Fresh, LoginTyped
<1>3. Login!LoginOps =>
        now' = now /\ (randoms' = randoms \/ \E k \in States \cup SessionIDs : Login!Fresh(k))
  BY DEF Login!LoginOps, Login!StartLogin, Login!TakeState
<1>4. Login!SessionOps =>
        now' = now /\ (randoms' = randoms \/ \E k \in States \cup SessionIDs : Login!Fresh(k))
  BY DEF Login!SessionOps, Login!ExchangeFails, Login!Establish, Login!ValidSession
<1> QED
  BY <1>1, <1>2, <1>3, <1>4 DEF Login!Next, loginVars

LEMMA LoginTypes == ASSUME LoginInv, LoginTyped PROVE Login!TypeOK
BY DEF LoginInv, LoginTyped, Login!TypeOK

-----------------------------------------------------------------------------
(* A parallel step of a runbook, for any finite number of branches, any    *)
(* concurrency limit and any point at which a branch fails or the context  *)
(* is done.  What a branch sends is in the channel until it is collected,  *)
(* and a branch sends once (Sent).  So a step that has seen the channel    *)
(* closed and empty has collected a result of every branch, and a channel  *)
(* with room for all branches has room for the next one.                   *)

Finished == {b \in Branches : branch[b] \in {"sent", "done"}}

\* The channel has one entry of each of some branches that have sent; while the
\* step collects, those that are not in it were collected, and had no error.
Sent ==
    /\ \A i \in 1 .. Len(ch) : ch[i][1] \in Finished
    /\ \A i, j \in 1 .. Len(ch) : ch[i][1] = ch[j][1] => i = j
    /\ step = "collect" =>
         \A b \in Finished : b \in results \/ \E i \in 1 .. Len(ch) : ch[i][1] = b

\* A channel that is closed has no sender left.
Closed == closed => \A b \in Branches : branch[b] = "done"

TokensKept == Cardinality(Step!Holders) <= Step!Concurrency

StepInv == Step!TypeOK /\ Sent /\ Closed /\ TokensKept /\ Step!ResultsComplete

-----------------------------------------------------------------------------
(* The channel and the semaphore *)

\* What a module takes from the library is the library's.
LEMMA StepSets ==
  /\ \A S : Step!IsFiniteSet(S) <=> IsFiniteSet(S)
  /\ \A S : Step!Cardinality(S) = Cardinality(S)
<1>1. \A S : Step!IsFiniteSet(S) = IsFiniteSet(S)
  BY DEF Step!IsFiniteSet, IsFiniteSet
<1>2. \A S : Step!Cardinality(S) = Cardinality(S)
  BY DEF Step!Cardinality, Cardinality
<1> QED
  BY <1>1, <1>2

\* A parallel step has finitely many branches, so many that they can be counted.
LEMMA BranchesCounted ==
  ASSUME Step!BoundsOK
  PROVE  IsFiniteSet(Branches) /\ Cardinality(Branches) \in Nat /\ MaxTurns \in Nat
  BY StepSets, FS_CardinalityType DEF Step!BoundsOK

\* The entries of the channel are of different branches that have sent, so that
\* there is room for one that has not.
LEMMA RoomForOne ==
  ASSUME Step!BoundsOK, Step!TypeOK, Sent, NEW b \in Branches, b \notin Finished
  PROVE  Len(ch) < Cardinality(Branches)
<1> DEFINE f == [i \in 1 .. Len(ch) |-> ch[i][1]]
<1>1. Len(ch) \in Nat
  BY DEF Step!TypeOK
<1>2. f \in Injection(1 .. Len(ch), Finished)
  BY DEF Sent, Injection, IsInjective
<1>3. /\ IsFiniteSet(Finished) /\ Cardinality(Finished) \in Nat
      /\ Cardinality(Branches) \in Nat
      /\ Cardinality(Finished) < Cardinality(Branches)
  <2>1. /\ Finished \in SUBSET Branches
        /\ Finished # Branches
    BY DEF Finished
  <2>2. /\ IsFiniteSet(Finished)
        /\ Cardinality(Finished) <= Cardinality(Branches)
        /\ Cardinality(Finished) # Cardinality(Branches)
    BY <2>1, FS_Subset, BranchesCounted
  <2> QED
    BY <2>2, FS_CardinalityType, BranchesCounted
<1>4. Cardinality(1 .. Len(ch)) <= Cardinality(Finished)
  BY <1>2, <1>3, FS_Injection
<1>5. Cardinality(1 .. Len(ch)) = Len(ch)
  <2>1. 1 \in Int /\ Len(ch) \in Int
    BY <1>1
  <2>2. Cardinality(1 .. Len(ch)) = IF 1 > Len(ch) THEN 0 ELSE Len(ch) - 1 + 1
    BY ONLY <2>1, FS_Interval
  <2> QED
    BY <1>1, <2>2
<1> QED
  BY <1>1, <1>3, <1>4, <1>5

LEMMA HoldersCounted ==
  ASSUME Step!BoundsOK
  PROVE  /\ IsFiniteSet(Step!Holders) /\ Cardinality(Step!Holders) \in Nat
         /\ Cardinality(Branches) \in Nat
<1>1. Step!Holders \in SUBSET Branches
  BY DEF Step!Holders
<1>2. IsFiniteSet(Step!Holders)
  BY <1>1, FS_Subset, BranchesCounted
<1> QED
  BY <1>2, FS_CardinalityType, BranchesCounted

\* A branch that holds a token as before leaves the semaphore alone.
LEMMA TokensUnchanged ==
  ASSUME TokensKept, UNCHANGED limit, Step!Holders' = Step!Holders
  PROVE  TokensKept'
  BY DEF TokensKept, Step!Concurrency

\* A branch that goes on without having sent leaves the channel alone.
LEMMA SentUnchanged ==
  ASSUME Sent, UNCHANGED <<ch, results, step>>, Finished' = Finished
  PROVE  Sent'
  BY DEF Sent

-----------------------------------------------------------------------------
(* The steps of a branch *)

LEMMA AcquireStep ==
  ASSUME Step!BoundsOK, StepInv, NEW b \in Branches, Step!Acquire(b)
  PROVE  StepInv'
<1>1. /\ branch[b] = "waiting" /\ branch' = [branch EXCEPT ![b] = "clone"]
      /\ UNCHANGED <<limit, turns, ch, closed, results, step, stepCtx>>
  BY DEF Step!Acquire
<1>2. Step!TypeOK'
  BY <1>1 DEF StepInv, Step!TypeOK, Step!BranchPCs
<1>3. Finished' = Finished
  BY <1>1 DEF Finished, StepInv, Step!TypeOK
<1>4. TokensKept'
  <2>1. Step!Holders' = Step!Holders \cup {b} /\ b \notin Step!Holders
    BY <1>1 DEF Step!Holders, StepInv, Step!TypeOK
  <2>2. Cardinality(Step!Holders)' = Cardinality(Step!Holders) + 1
    BY <2>1, HoldersCounted, FS_AddElement
  <2>3. /\ Cardinality(Step!Holders) < Step!Concurrency
        /\ Step!Concurrency' = Step!Concurrency /\ Step!Concurrency \in Nat
    BY <1>1, HoldersCounted, StepSets DEF Step!Acquire, Step!Concurrency, StepInv, Step!TypeOK
  <2> QED
    BY <2>2, <2>3, HoldersCounted DEF TokensKept
<1>5. Closed' /\ Step!ResultsComplete'
  BY <1>1 DEF StepInv, Closed, Step!ResultsComplete
<1> QED
  BY <1>2, <1>3, <1>4, <1>5, <1>1, SentUnchanged DEF StepInv

\* CloneEnv and ExecStep.
LEMMA WorkStep ==
  ASSUME StepInv, NEW b \in Branches, NEW pc \in {"steps", "value", "error"},
         branch[b] \in {"clone", "steps"}, branch' = [branch EXCEPT ![b] = pc],
         turns' \in [Branches -> 0 .. MaxTurns],
         UNCHANGED <<limit, ch, closed, results, step, stepCtx>>
  PROVE  StepInv'
<1>1. Step!TypeOK'
  BY DEF StepInv, Step!TypeOK, Step!BranchPCs
<1>2. Finished' = Finished /\ Step!Holders' = Step!Holders
  BY DEF Finished, Step!Holders, StepInv, Step!TypeOK
<1>3. Closed' /\ Step!ResultsComplete'
  BY DEF StepInv, Closed, Step!ResultsComplete
<1> QED
  BY <1>1, <1>2, <1>3, SentUnchanged, TokensUnchanged DEF StepInv

LEMMA CloneEnvStep ==
  ASSUME StepInv, NEW b \in Branches, Step!CloneEnv(b)
  PROVE  StepInv'
<1>1. turns' \in [Branches -> 0 .. MaxTurns]
  BY DEF Step!CloneEnv, StepInv, Step!TypeOK
<1> QED
  BY <1>1, WorkStep DEF Step!CloneEnv

LEMMA ExecStepStep ==
  ASSUME Step!BoundsOK, StepInv, NEW b \in Branches, Step!ExecStep(b)
  PROVE  StepInv'
<1>1. turns' \in [Branches -> 0 .. MaxTurns]
  BY DEF Step!ExecStep, StepInv, Step!TypeOK, Step!BoundsOK
<1>2. PICK pc \in {"steps", "value", "error"} : branch' = [branch EXCEPT ![b] = pc]
  BY DEF Step!ExecStep, Step!Outcomes
<1> QED
  BY <1>1, <1>2, WorkStep DEF Step!ExecStep

LEMMA SendStep ==
  ASSUME Step!BoundsOK, StepInv, NEW b \in Branches, Step!Send(b)
  PROVE  StepInv'
<1> DEFINE entry == <<b, branch[b]>>
<1>1. /\ branch[b] \in Step!Outcomes /\ branch' = [branch EXCEPT ![b] = "sent"]
      /\ ch' = Append(ch, entry)
      /\ UNCHANGED <<limit, turns, closed, results, step, stepCtx>>
  BY DEF Step!Send
<1>2. /\ entry \in Branches \X Step!Outcomes /\ entry[1] = b
      /\ ch \in Seq(Branches \X Step!Outcomes)
  BY <1>1 DEF StepInv, Step!TypeOK
<1> HIDE DEF entry
<1>3. /\ ch' \in Seq(Branches \X Step!Outcomes) /\ Len(ch') = Len(ch) + 1
      /\ \A i \in 1 .. Len(ch) : ch'[i] = ch[i]
      /\ ch'[Len(ch) + 1] = entry
      /\ Len(ch) \in Nat
  BY <1>1, <1>2, AppendProperties
<1>4. Step!TypeOK'
  BY <1>1, <1>3 DEF StepInv, Step!TypeOK, Step!BranchPCs
<1>5. /\ Finished' = Finished \cup {b} /\ b \notin Finished
      /\ Step!Holders' = Step!Holders
  BY <1>1 DEF Finished, Step!Holders, Step!Outcomes, StepInv, Step!TypeOK
<1>6. Sent'
  <2>1. \A i \in 1 .. Len(ch') : i \in 1 .. Len(ch) \/ i = Len(ch) + 1
    BY <1>3
  <2>2. \A i \in 1 .. Len(ch) : ch'[i][1] \in Finished /\ ch'[i][1] # b
    BY <1>3, <1>5 DEF StepInv, Sent
  <2>3. ch'[Len(ch) + 1][1] = b
    BY <1>2, <1>3
  <2>4. \A i \in 1 .. Len(ch') : ch'[i][1] \in Finished'
    BY <1>5, <2>1, <2>2, <2>3
  <2>5. \A i, j \in 1 .. Len(ch') : ch'[i][1] = ch'[j][1] => i = j
    BY <1>3, <2>1, <2>2, <2>3 DEF StepInv, Sent
  <2>6. step = "collect" =>
          \A d \in Finished' : d \in results \/ \E i \in 1 .. Len(ch') : ch'[i][1] = d
    <3>1. \A i \in 1 .. Len(ch) + 1 : i \in 1 .. Len(ch')
      BY <1>3
    <3>2. \A i \in 1 .. Len(ch) : i \in 1 .. Len(ch') /\ ch'[i] = ch[i]
      BY <1>3
    <3>3. Len(ch) + 1 \in 1 .. Len(ch')
      BY <1>3
    <3> QED
      BY <1>5, <2>3, <3>2, <3>3 DEF StepInv, Sent
  <2> QED
    BY <1>1, <2>4, <2>5, <2>6 DEF Sent
<1>7. Closed' /\ Step!ResultsComplete'
  BY <1>1 DEF StepInv, Closed, Step!ResultsComplete, Step!Outcomes
<1> QED
  BY <1>1, <1>4, <1>5, <1>6, <1>7, TokensUnchanged DEF StepInv

LEMMA LeaveStep ==
  ASSUME Step!BoundsOK, StepInv, NEW b \in Branches, Step!Leave(b)
  PROVE  StepInv'
<1>1. /\ branch[b] = "sent" /\ branch' = [branch EXCEPT ![b] = "done"]
      /\ UNCHANGED <<limit, turns, ch, closed, results, step, stepCtx>>
  BY DEF Step!Leave
<1>2. Step!TypeOK'
  BY <1>1 DEF StepInv, Step!TypeOK, Step!BranchPCs
<1>3. Finished' = Finished
  BY <1>1 DEF Finished, StepInv, Step!TypeOK
<1>4. TokensKept'
  <2>1. Step!Holders' = Step!Holders \ {b} /\ b \in Step!Holders
    BY <1>1 DEF Step!Holders, StepInv, Step!TypeOK
  <2>2. Cardinality(Step!Holders)' = Cardinality(Step!Holders) - 1
    BY <2>1, HoldersCounted, FS_RemoveElement
  <2>3. Step!Concurrency' = Step!Concurrency /\ Step!Concurrency \in Nat
    BY <1>1, HoldersCounted, StepSets DEF Step!Concurrency, StepInv, Step!TypeOK
  <2> QED
    BY <2>2, <2>3, HoldersCounted DEF TokensKept, StepInv
<1>5. Closed' /\ Step!ResultsComplete'
  BY <1>1 DEF StepInv, Closed, Step!ResultsComplete
<1> QED
  BY <1>1, <1>2, <1>3, <1>4, <1>5, SentUnchanged DEF StepInv

-----------------------------------------------------------------------------
(* The steps of the run *)

LEMMA CollectStep ==
  ASSUME StepInv, Step!Collect
  PROVE  StepInv'
<1>1. /\ step = "collect" /\ ch # << >> /\ ch' = Tail(ch)
      /\ UNCHANGED <<limit, branch, turns, closed>>
      /\ IF Head(ch)[2] = "error"
         THEN step' = "failed" /\ Step!CancelCtx /\ UNCHANGED results
         ELSE results' = results \cup {Head(ch)[1]} /\ UNCHANGED <<step, stepCtx>>
  BY DEF Step!Collect
<1>2. ch \in Seq(Branches \X Step!Outcomes) /\ Head(ch) = ch[1] /\ 1 \in 1 .. Len(ch)
  BY <1>1 DEF StepInv, Step!TypeOK
<1>3. /\ Head(ch) \in Branches \X Step!Outcomes /\ ch' \in Seq(Branches \X Step!Outcomes)
      /\ Len(ch') = Len(ch) - 1
      /\ \A i \in 1 .. Len(ch') : ch'[i] = ch[i + 1]
      /\ Len(ch) \in Nat \ {0}
  BY <1>1, <1>2, HeadTailProperties
<1>4. Step!TypeOK'
  <2>1. Head(ch)[1] \in Branches
    BY <1>3
  <2> QED
    BY <1>1, <1>3, <2>1 DEF StepInv, Step!TypeOK, Step!StepPCs, Step!CancelCtx
<1>5. Finished' = Finished /\ Step!Holders' = Step!Holders
  BY <1>1 DEF Finished, Step!Holders
<1>6. Sent'
  <2>1. \A i \in 1 .. Len(ch') : i + 1 \in 1 .. Len(ch)
    BY <1>3
  <2>2. \A i \in 1 .. Len(ch') : ch'[i][1] \in Finished'
    BY <1>3, <1>5, <2>1 DEF StepInv, Sent
  <2>3. \A i, j \in 1 .. Len(ch') : ch'[i][1] = ch'[j][1] => i = j
    <3>1. TAKE i, j \in 1 .. Len(ch')
    <3>2. ch'[i] = ch[i + 1] /\ ch'[j] = ch[j + 1]
      BY <1>3
    <3>3. i + 1 \in 1 .. Len(ch) /\ j + 1 \in 1 .. Len(ch)
      BY <2>1
    <3>4. \A k, l \in 1 .. Len(ch) : ch[k][1] = ch[l][1] => k = l
      BY DEF StepInv, Sent
    <3>5. ch[i + 1][1] = ch[j + 1][1] => i + 1 = j + 1
      BY <3>3, <3>4
    <3> QED
      BY <3>2, <3>5
  <2>4. step' = "collect" =>
          \A d \in Finished : d \in results' \/ \E i \in 1 .. Len(ch') : ch'[i][1] = d
    <3> SUFFICES ASSUME step' = "collect", NEW d \in Finished
                 PROVE  d \in results' \/ \E i \in 1 .. Len(ch') : ch'[i][1] = d
      OBVIOUS
    <3>1. results' = results \cup {ch[1][1]}
      BY <1>1, <1>2
    <3>2. CASE d \in results
      BY <3>1, <3>2
    <3>3. CASE d \notin results
      <4>1. PICK i \in 1 .. Len(ch) : ch[i][1] = d
        BY <1>1, <3>3 DEF StepInv, Sent
      <4>2. CASE i = 1
        BY <3>1, <4>1, <4>2
      <4>3. CASE i # 1
        <5>1. i - 1 \in 1 .. Len(ch') /\ (i - 1) + 1 = i
          BY <1>3, <4>1, <4>3
        <5>2. ch'[i - 1] = ch[i]
          BY <1>3, <5>1
        <5> QED
          BY <4>1, <5>1, <5>2
      <4> QED
        BY <4>2, <4>3
    <3> QED
      BY <3>2, <3>3
  <2> QED
    BY <1>5, <2>2, <2>3, <2>4 DEF Sent
<1>7. Closed' /\ Step!ResultsComplete'
  BY <1>1 DEF StepInv, Closed, Step!ResultsComplete
<1> QED
  BY <1>1, <1>4, <1>5, <1>6, <1>7, TokensUnchanged DEF StepInv

LEMMA CollectEndStep ==
  ASSUME StepInv, Step!CollectEnd
  PROVE  StepInv'
<1>1. /\ step = "collect" /\ ch = << >> /\ closed /\ step' = "setResults"
      /\ UNCHANGED <<limit, branch, turns, ch, closed, results, stepCtx>>
  BY DEF Step!CollectEnd
<1>2. Step!TypeOK'
  BY <1>1 DEF StepInv, Step!TypeOK, Step!StepPCs
<1>3. Finished' = Finished /\ Step!Holders' = Step!Holders
  BY <1>1 DEF Finished, Step!Holders
<1>4. Sent'
  BY <1>1, <1>3 DEF StepInv, Sent
<1>5. Step!ResultsComplete'
  <2>1. \A b \in Branches : branch[b] = "done"
    BY <1>1 DEF StepInv, Closed
  <2>2. \A b \in Branches : b \in Finished
    BY <2>1 DEF Finished
  <2>3. \A b \in Branches : b \in results
    BY <1>1, <2>2 DEF StepInv, Sent
  <2> QED
    BY <1>1, <2>1, <2>3 DEF StepInv, Step!TypeOK, Step!ResultsComplete
<1>6. Closed'
  BY <1>1 DEF StepInv, Closed
<1> QED
  BY <1>1, <1>2, <1>3, <1>4, <1>5, <1>6, TokensUnchanged DEF StepInv

\* Every other step of the run, of the goroutine that closes the channel and of
\* the context.
LEMMA RestStep ==
  ASSUME StepInv,
         \/ Step!SetResults \/ Step!Propagate \/ Step!SetExcept \/ Step!CloseChannel
         \/ Step!Interrupt("cancelled") \/ Step!Interrupt("expired")
         \/ UNCHANGED stepVars
  PROVE  StepInv'
<1>1. /\ UNCHANGED <<limit, branch, turns, ch, results>>
      /\ step' = "collect" => step = "collect"
      /\ step' \in {"setResults", "succeeded"} => step \in {"setResults", "succeeded"}
  BY DEF Step!SetResults, Step!Propagate, Step!SetExcept, Step!CloseChannel,
         Step!Interrupt, stepVars
<1>2. Step!TypeOK'
  BY DEF Step!SetResults, Step!Propagate, Step!SetExcept, Step!CloseChannel,
         Step!Interrupt, stepVars, Step!CancelCtx,
         StepInv, Step!TypeOK, Step!StepPCs
<1>3. Finished' = Finished /\ Step!Holders' = Step!Holders
  BY <1>1 DEF Finished, Step!Holders
<1>4. Sent'
  BY <1>1, <1>3 DEF StepInv, Sent
<1>5. Closed'
  BY DEF Step!SetResults, Step!Propagate, Step!SetExcept, Step!CloseChannel,
         Step!Interrupt, stepVars, StepInv, Closed
<1>6. Step!ResultsComplete'
  BY <1>1 DEF StepInv, Step!ResultsComplete
<1> QED
  BY <1>1, <1>2, <1>3, <1>4, <1>5, <1>6, TokensUnchanged DEF StepInv

-----------------------------------------------------------------------------
(* The invariant *)

LEMMA StepStarts ==
  ASSUME Step!BoundsOK, Step!Init
  PROVE  StepInv
<1>1. /\ Cardinality(Branches) \in Nat /\ Step!Holders = {} /\ Finished = {}
      /\ Cardinality(Step!Holders) = 0
  <2>1. Step!Holders = {} /\ Finished = {}
    BY DEF Step!Init, Step!Holders, Finished
  <2> QED
    BY <2>1, HoldersCounted, FS_EmptySet
<1>2. Step!TypeOK
  <2>1. limit \in Nat
    BY <1>1 DEF Step!Init, Step!Limits
  <2>2. turns \in [Branches -> 0 .. MaxTurns]
    BY DEF Step!Init, Step!BoundsOK
  <2>3. ch \in Seq(Branches \X Step!Outcomes)
    BY DEF Step!Init
  <2> QED
    BY <2>1, <2>2, <2>3 DEF Step!Init, Step!TypeOK, Step!BranchPCs, Step!StepPCs
<1>3. TokensKept
  BY <1>1, <1>2, StepSets DEF TokensKept, Step!Concurrency, Step!TypeOK
<1> QED
  BY <1>1, <1>2, <1>3 DEF Step!Init, StepInv, Sent, Closed, Step!ResultsComplete

LEMMA StepSteps ==
  ASSUME Step!BoundsOK, StepInv, Step!Next \/ UNCHANGED stepVars
  PROVE  StepInv'
  BY AcquireStep, CloneEnvStep, ExecStepStep, SendStep, LeaveStep, CollectStep,
     CollectEndStep, RestStep
     DEF Step!Next, Step!BranchStep, Step!RunStep

\* No branch ever waits for its result to be received: what there is in the
\* channel is one entry each of other branches.
LEMMA LimitFollows ==
  ASSUME Step!BoundsOK, StepInv
  PROVE  Step!LimitKept
<1>1. \A b \in Branches : branch[b] \in Step!Outcomes => b \notin Finished
  BY DEF Step!Outcomes, Finished
<1> QED
  BY <1>1, RoomForOne, StepSets DEF StepInv, TokensKept, Step!LimitKept

-----------------------------------------------------------------------------
(* The run of a runbook *)

\* A step is announced after a look at the context, so that none was announced
\* since it was done; and an error that the context caused is on its way out, or
\* was caught.
RunInv ==
    /\ Run!StopsWhenCancelled
    /\ tardy \in Nat
    /\ cancelled \in BOOLEAN /\ noticed \in BOOLEAN /\ caught \in BOOLEAN
    /\ ~ cancelled => tardy = 0 /\ ~ noticed
    /\ phase = "announce" => tardy = 0
    /\ noticed /\ ~ caught =>
         phase \in {"ended", "leave", "over"} /\ result = "error"

LEMMA RunStarts == ASSUME Run!Init PROVE RunInv
<1>1. /\ phase = "check" /\ cancelled = FALSE /\ tardy = 0
      /\ noticed = FALSE /\ caught = FALSE
  BY DEF Run!Init
<1>2. tardy \in Nat /\ tardy <= 1
  BY ONLY <1>1
<1>3. phase # "announce" /\ ~ noticed
  BY <1>1
<1> QED
  BY ONLY <1>1, <1>2, <1>3, Zenon DEF RunInv, Run!StopsWhenCancelled

\* Whatever kind of step it is, execSteps' caller passes an error on or catches it.
LEMMA ErrorsAreKept ==
  ASSUME RunInv, Run!LeaveSteps
  PROVE  /\ phase' # "announce"
         /\ noticed' /\ ~ caught' => phase' = "ended" /\ result' = "error"
         /\ caught' \in BOOLEAN
<1>1. CASE Run!SwitchReturns
  BY <1>1 DEF Run!LeaveSteps, Run!SwitchReturns, Run!End, RunInv
<1>2. CASE Run!ForReturns
  BY <1>2 DEF Run!LeaveSteps, Run!ForReturns, Run!End, RunInv
<1>3. CASE Run!TryReturns
  <2>1. phase' \in {"ended", "check"} /\ caught' \in BOOLEAN
    BY <1>3 DEF Run!TryReturns, Run!End, RunInv
  <2>2. noticed' = noticed /\ (noticed => cancelled)
    BY DEF Run!LeaveSteps, RunInv
  <2>3. noticed => caught'
    <3>1. CASE result # "error"
      BY <1>3, <3>1 DEF Run!TryReturns, RunInv
    <3>2. CASE result = "error"
      <4>1. caught' = (caught \/ cancelled)
        BY <1>3, <3>2 DEF Run!TryReturns
      <4> QED
        BY <4>1, <2>2
    <3> QED
      BY <3>1, <3>2
  <2> QED
    BY <2>1, <2>2, <2>3
<1>4. CASE Run!ExceptReturns
  BY <1>4 DEF Run!LeaveSteps, Run!ExceptReturns, Run!End, RunInv
<1> QED
  BY <1>1, <1>2, <1>3, <1>4 DEF Run!LeaveSteps

LEMMA RunSteps ==
  ASSUME RunInv, Run!Next \/ UNCHANGED bookVars
  PROVE  RunInv'
<1>1. CASE UNCHANGED bookVars
  BY <1>1 DEF bookVars, RunInv, Run!StopsWhenCancelled
<1>2. CASE Run!Check
  BY <1>2 DEF Run!Check, Run!Leave, Run!Goto, RunInv, Run!StopsWhenCancelled
<1>3. CASE Run!Announce
  <2>1. /\ phase = "announce" /\ tardy' = IF cancelled THEN tardy + 1 ELSE tardy
        /\ UNCHANGED <<cancelled, noticed, caught>>
    BY <1>3 DEF Run!Announce
  <2>2. phase' \in {"call", "ended", "check", "item"}
    BY <1>3 DEF Run!Announce, Run!ExecStep, Run!Goto, Run!End, Run!Push
  <2> QED
    BY <2>1, <2>2 DEF RunInv, Run!StopsWhenCancelled
<1>4. CASE Run!Call
  BY <1>4 DEF Run!Call, Run!End, RunInv, Run!StopsWhenCancelled
<1>5. CASE Run!Item
  BY <1>5 DEF Run!Item, Run!End, RunInv, Run!StopsWhenCancelled
<1>6. CASE Run!EndStep
  BY <1>6 DEF Run!EndStep, Run!Leave, RunInv, Run!StopsWhenCancelled
<1>7. CASE Run!LeaveSteps
  BY <1>7, ErrorsAreKept DEF Run!LeaveSteps, RunInv, Run!StopsWhenCancelled
<1>8. CASE Run!Finish
  BY <1>8 DEF Run!Finish, RunInv, Run!StopsWhenCancelled
<1>9. CASE Run!Cancel
  BY <1>9 DEF Run!Cancel, RunInv, Run!StopsWhenCancelled
<1> QED
  BY <1>1, <1>2, <1>3, <1>4, <1>5, <1>6, <1>7, <1>8, <1>9 DEF Run!Next, Run!RunStep

-----------------------------------------------------------------------------
(* and where it is: the stack of its calls *)

\* A call stack: every frame but the innermost is at the step that called the next
\* one, and so is the innermost when it is at a step.
OnStep(f) == f.i \in 1 .. Len(Books[book][f.list])

Stack(fs) ==
    /\ fs \in Seq(Run!Frame) /\ fs # <<>>
    /\ \A k \in 1 .. Len(fs) : fs[k].i # 0
    /\ \A k \in 1 .. Len(fs) - 1 : OnStep(fs[k])

RunTyped ==
    /\ book \in DOMAIN Books
    /\ phase \in Run!Phases /\ result \in Run!Returned

StackInv ==
    /\ RunTyped
    /\ Stack(frames)
    /\ phase \in {"announce", "call", "item"} => OnStep(Run!Top)
    /\ phase = "item" => Run!Step.kind = "for"

\* What a step says of the lists in it.
LEMMA StepsSay ==
  ASSUME Run!BooksOK, book \in DOMAIN Books, NEW f \in Run!Frame, OnStep(f)
  PROVE  LET s == Books[book][f.list][f.i] IN
         /\ s.kind \in Run!Kinds
         /\ s.kind \in {"switch", "for", "try"} => s.body \in DOMAIN Books[book]
         /\ s.kind = "try" /\ s.except = "steps" => s.handler \in DOMAIN Books[book]
<1>1. f.list \in DOMAIN Books[book] /\ f.i \in Nat
  BY DEF Run!Frame
<1>. PICK l : l = Books[book][f.list]
  OBVIOUS
<1>2. l \in Seq(Run!Range(l)) /\ \A s \in Run!Range(l) :
         /\ s.kind \in Run!Kinds
         /\ s.kind \in {"switch", "for", "try"} => s.body \in DOMAIN Books[book]
         /\ s.kind = "try" /\ s.except = "steps" => s.handler \in DOMAIN Books[book]
  BY <1>1 DEF Run!BooksOK
<1>3. f.i \in 1 .. Len(l)
  BY DEF OnStep
<1>4. l[f.i] \in Run!Range(l)
  BY <1>2, <1>3
<1> QED
  BY <1>2, <1>4

LEMMA Entered ==
  ASSUME MaxRounds \in Nat, NEW l \in DOMAIN Books[book]
  PROVE  Run!Enter(l) \in Run!Frame /\ Run!Enter(l).i = 1 /\ Run!Enter(l).list = l
  BY DEF Run!Enter, Run!Frame

LEMMA TopChanged ==
  ASSUME NEW fs, Stack(fs), NEW f \in Run!Frame, f.i # 0,
         NEW gs, gs = [fs EXCEPT ![Len(fs)] = f]
  PROVE  Stack(gs) /\ Len(gs) = Len(fs) /\ gs[Len(gs)] = f
<1>. PICK n : n = Len(fs)
  OBVIOUS
<1>. PICK F : F = Run!Frame
  OBVIOUS
<1>1. fs \in Seq(F) /\ fs # <<>> /\ f \in F /\ gs = [fs EXCEPT ![n] = f]
  BY DEF Stack
<1>2. n \in Nat \ {0} /\ Len(gs) = n /\ gs \in Seq(F) /\ gs # <<>>
  BY <1>1
<1>3. gs[n] = f /\ \A k \in 1 .. n - 1 : gs[k] = fs[k]
  BY <1>1, <1>2
<1>4. \A k \in 1 .. n : k = n \/ k \in 1 .. n - 1
  BY <1>2
<1>5. /\ \A k \in 1 .. n - 1 : gs[k].i # 0 /\ OnStep(gs[k])
  BY <1>2, <1>3 DEF Stack
<1>6. \A k \in 1 .. n : gs[k].i # 0
  BY <1>3, <1>4, <1>5
<1> QED
  BY <1>2, <1>3, <1>5, <1>6 DEF Stack

LEMMA StackGrows ==
  ASSUME NEW fs, Stack(fs), OnStep(fs[Len(fs)]), NEW f \in Run!Frame, f.i # 0,
         NEW gs, gs = Append(fs, f)
  PROVE  Stack(gs)
<1>. PICK n : n = Len(fs)
  OBVIOUS
<1>. PICK F : F = Run!Frame
  OBVIOUS
<1>1. fs \in Seq(F) /\ fs # <<>> /\ f \in F /\ gs = Append(fs, f) /\ n \in Nat \ {0}
  BY DEF Stack
<1>2. Len(gs) = n + 1 /\ gs \in Seq(F) /\ gs # <<>>
  BY <1>1
<1>3. gs[n + 1] = f /\ \A k \in 1 .. n : gs[k] = fs[k]
  BY <1>1, <1>2
<1>4. \A k \in 1 .. n : k = n \/ k \in 1 .. n - 1
  BY <1>1
<1>5. \A k \in 1 .. n : gs[k].i # 0 /\ OnStep(gs[k])
  BY <1>3, <1>4 DEF Stack
<1>6. \A k \in 1 .. Len(gs) : k = n + 1 \/ k \in 1 .. n
  BY <1>1, <1>2
<1>7. Len(gs) - 1 = n
  BY <1>1, <1>2
<1>8. \A k \in 1 .. Len(gs) : gs[k].i # 0
  BY <1>3, <1>5, <1>6
<1> QED
  BY <1>2, <1>5, <1>7, <1>8 DEF Stack

LEMMA StackReturns ==
  ASSUME NEW fs, Stack(fs), Len(fs) > 1, NEW gs, gs = SubSeq(fs, 1, Len(fs) - 1)
  PROVE  /\ Stack(gs) /\ Len(gs) = Len(fs) - 1 /\ gs[Len(gs)] = fs[Len(fs) - 1]
         /\ OnStep(gs[Len(gs)])
<1>. PICK n : n = Len(fs)
  OBVIOUS
<1>. PICK F : F = Run!Frame
  OBVIOUS
<1>1. fs \in Seq(F) /\ n \in Nat /\ n > 1 /\ gs = SubSeq(fs, 1, n - 1)
  BY DEF Stack
<1>2. Len(gs) = n - 1 /\ \A k \in 1 .. n - 1 : gs[k] = fs[k] /\ gs[k] \in F
  BY <1>1
<1>3. gs \in Seq(F) /\ gs # <<>>
  <2>1. n - 1 <= Len(fs) /\ n - 1 \in Nat /\ 1 \in Nat
    BY <1>1
  <2>2. gs \in Seq(F)
    BY <1>1, <2>1, SubSeqProperties
  <2>3. Len(gs) # 0
    BY <1>1, <1>2
  <2> QED
    BY ONLY <2>2, <2>3
<1>4. \A k \in 1 .. n - 1 : gs[k].i # 0 /\ OnStep(gs[k])
  BY <1>1, <1>3 DEF Stack
<1>5. n - 1 \in 1 .. n - 1 /\ \A k \in 1 .. Len(gs) - 1 : k \in 1 .. n - 1
  BY <1>1, <1>2
<1> QED
  BY <1>2, <1>3, <1>4, <1>5 DEF Stack

\* The book does not change while it is run.
LEMMA SameBook ==
  ASSUME book' = book
  PROVE  /\ Stack(frames)' <=> Stack(frames')
         /\ OnStep(Run!Top)' <=> OnStep(Run!Top')
         /\ RunTyped' <=> phase' \in Run!Phases /\ result' \in Run!Returned /\ book \in DOMAIN Books
BY DEF OnStep, Run!Frame, Stack, RunTyped, Run!Phases, Run!Returned

LEMMA RunTypedAtStart ==
  ASSUME Run!BooksOK, MaxRounds \in Nat, Run!Init
  PROVE  StackInv
<1>1. 1 \in DOMAIN Books[book]
  BY DEF Run!BooksOK, Run!Init
<1>2. Run!Enter(1) \in Run!Frame /\ Run!Enter(1).i = 1
  BY <1>1, Entered
<1>3. Stack(frames)
  BY <1>2 DEF Stack, Run!Init
<1>4. RunTyped
  BY DEF RunTyped, Run!Init, Run!Phases, Run!Returned
<1>5. phase = "check"
  BY DEF Run!Init
<1> QED
  BY <1>3, <1>4, <1>5 DEF StackInv

LEMMA TopIs ==
  ASSUME StackInv
  PROVE  /\ Run!Top \in Run!Frame /\ Run!Top.i # 0 /\ Run!Top.i \in Nat
         /\ Run!Top.list \in DOMAIN Books[book] /\ Run!Depth \in Nat \ {0}
<1>1. frames \in Seq(Run!Frame) /\ frames # <<>> /\ Run!Depth \in 1 .. Len(frames)
  BY DEF StackInv, Stack, Run!Depth
<1>2. Run!Top \in Run!Frame
  BY <1>1 DEF Run!Top
<1> QED
  BY <1>1, <1>2 DEF StackInv, Stack, Run!Top, Run!Frame

LEMMA StepIs ==
  ASSUME Run!BooksOK, StackInv, OnStep(Run!Top)
  PROVE  /\ Run!Step.kind \in Run!Kinds
         /\ Run!Step.kind \in {"switch", "for", "try"} => Run!Step.body \in DOMAIN Books[book]
BY TopIs, StepsSay DEF StackInv, RunTyped, Run!Step, Run!Steps

\* The stack is left alone.
LEMMA StackStays ==
  ASSUME StackInv, book' = book, frames' = frames,
         phase' \in Run!Phases, result' \in Run!Returned,
         phase' \in {"announce", "call", "item"} => OnStep(Run!Top),
         phase' = "item" => Run!Step.kind = "for"
  PROVE  StackInv'
<1>1. Run!Top' = Run!Top /\ Run!Step' = Run!Step
  BY DEF Run!Top, Run!Step, Run!Steps, Run!Depth
<1>2. Stack(frames)' /\ RunTyped' /\ (OnStep(Run!Top)' <=> OnStep(Run!Top))
  BY <1>1, SameBook DEF StackInv, RunTyped
<1> QED
  BY <1>1, <1>2 DEF StackInv

\* The call of the steps in a step.
LEMMA StackPushed ==
  ASSUME MaxRounds \in Nat, StackInv, book' = book,
         NEW fs, Stack(fs), OnStep(fs[Len(fs)]), NEW l \in DOMAIN Books[book],
         frames' = Append(fs, Run!Enter(l)), phase' = "check", result' \in Run!Returned
  PROVE  StackInv'
<1>1. Run!Enter(l) \in Run!Frame /\ Run!Enter(l).i # 0
  BY Entered
<1>2. Stack(frames')
  BY <1>1, StackGrows
<1>3. RunTyped' /\ Stack(frames)'
  BY <1>2, SameBook DEF StackInv, RunTyped, Run!Phases
<1> QED
  BY <1>3 DEF StackInv

\* The return to the step that called.
LEMMA StackPopped ==
  ASSUME StackInv, book' = book, Len(frames) > 1, Run!Back,
         phase' \in {"ended", "item"}, result' \in Run!Returned,
         phase' = "item" => Run!Caller.kind = "for"
  PROVE  StackInv'
<1>1. /\ Stack(frames') /\ frames'[Len(frames')] = frames[Len(frames) - 1]
      /\ OnStep(frames'[Len(frames')])
  BY StackReturns DEF StackInv, Run!Back, Run!Depth
<1>2. Run!Top' = frames'[Len(frames')] /\ Run!Step' = Run!Caller
  BY <1>1 DEF Run!Top, Run!Step, Run!Steps, Run!Depth, Run!Caller
<1>3. RunTyped' /\ Stack(frames)' /\ OnStep(Run!Top)'
  BY <1>1, <1>2, SameBook DEF StackInv, RunTyped, Run!Phases
<1> QED
  BY <1>2, <1>3 DEF StackInv

\* The innermost call moves to another step, or takes up the items of a for.
LEMMA StackMoved ==
  ASSUME StackInv, book' = book, NEW f \in Run!Frame, f.i # 0,
         frames' = [frames EXCEPT ![Run!Depth] = f],
         phase' \in {"check", "item"}, result' \in Run!Returned,
         phase' = "item" => OnStep(f) /\ Books[book][f.list][f.i].kind = "for"
  PROVE  StackInv'
<1>1. Stack(frames') /\ frames'[Len(frames')] = f
  <2>1. Stack(frames) /\ frames' = [frames EXCEPT ![Len(frames)] = f]
    BY DEF StackInv, Run!Depth
  <2> HIDE DEF Stack
  <2> QED
    BY <2>1, TopChanged
<1>2. Run!Top' = f /\ Run!Step' = Books[book][f.list][f.i]
  BY <1>1 DEF Run!Top, Run!Step, Run!Steps, Run!Depth
<1>3. RunTyped' /\ Stack(frames)' /\ (OnStep(Run!Top)' <=> OnStep(f))
  BY <1>1, <1>2, SameBook DEF StackInv, RunTyped, Run!Phases
<1> QED
  BY <1>2, <1>3 DEF StackInv

LEMMA AnnounceKeeps ==
  ASSUME Run!BooksOK, MaxRounds \in Nat, StackInv, Run!Announce
  PROVE  StackInv'
<1>1. /\ book' = book /\ OnStep(Run!Top) /\ Run!ExecStep /\ result \in Run!Returned
      /\ phase = "announce"
  BY DEF Run!Announce, StackInv, RunTyped
<1>2. CASE Run!Goto("call")
  BY <1>1, <1>2, StackStays DEF Run!Goto, Run!Phases
<1>3. ASSUME NEW r \in Run!Returned, Run!End(r), frames' = frames
      PROVE  StackInv'
  BY <1>1, <1>3, StackStays DEF Run!End, Run!Phases
<1>4. CASE Run!Step.kind \in {"switch", "for", "try"} /\ Run!Push(Run!Step.body)
  <2>1. Run!Step.body \in DOMAIN Books[book]
    BY <1>1, <1>4, StepIs
  <2>2. Stack(frames) /\ OnStep(frames[Len(frames)])
    BY <1>1 DEF StackInv, Run!Top, Run!Depth
  <2>3. frames' = Append(frames, Run!Enter(Run!Step.body)) /\ phase' = "check" /\ result' = result
    BY <1>4 DEF Run!Push
  <2> QED
    BY <1>1, <2>1, <2>2, <2>3, StackPushed
<1>5. ASSUME NEW n \in 0 .. MaxRounds, frames' = [frames EXCEPT ![Run!Depth].left = n],
             Run!Step.kind = "for", phase' = "item", result' = result
      PROVE  StackInv'
  <2>. PICK f : f = [Run!Top EXCEPT !.left = n]
    OBVIOUS
  <2>1. f \in Run!Frame /\ f.i = Run!Top.i /\ f.list = Run!Top.list
    BY TopIs DEF Run!Frame
  <2>2. frames' = [frames EXCEPT ![Run!Depth] = f]
    BY <1>5 DEF Run!Top
  <2>3. OnStep(f) /\ Books[book][f.list][f.i].kind = "for" /\ f.i # 0
    BY <1>1, <1>5, <2>1, TopIs DEF OnStep, Run!Step, Run!Steps
  <2> QED
    BY <1>1, <1>5, <2>1, <2>2, <2>3, StackMoved
<1>6. {"ok", "error", "return", "next"} \subseteq Run!Returned /\ Run!GoOn \in Run!Returned
  BY DEF Run!Returned, Run!GoOn
<1>7. \A r : r \in {"return", "error"} \/ r \in {"ok", Run!GoOn, "error"} => r \in Run!Returned
  BY <1>6
<1> QED
  BY <1>1, <1>2, <1>3, <1>4, <1>5, <1>6, <1>7 DEF Run!ExecStep

LEMMA EndStepKeeps ==
  ASSUME Run!BooksOK, StackInv, Run!EndStep
  PROVE  StackInv'
<1>1. book' = book /\ result \in Run!Returned /\ "error" \in Run!Returned
  BY DEF Run!EndStep, StackInv, RunTyped, Run!Returned
<1>2. ASSUME NEW j \in Nat \ {0}, frames' = Run!At(j), phase' = "check", result' = result
      PROVE  StackInv'
  <2>. PICK f : f = [Run!Top EXCEPT !.i = j, !.excepting = FALSE]
    OBVIOUS
  <2>1. f \in Run!Frame /\ f.i = j
    BY TopIs DEF Run!Frame
  <2>2. frames' = [frames EXCEPT ![Run!Depth] = f]
    <3>1. frames \in Seq(Run!Frame) /\ Run!Depth \in DOMAIN frames
      BY DEF StackInv, Stack, Run!Depth
    <3> QED
      BY <1>2, <3>1 DEF Run!Top, Run!At
  <2> QED
    BY <1>1, <1>2, <2>1, <2>2, StackMoved
<1>3. ASSUME NEW r \in Run!Returned, Run!Leave(r)
      PROVE  StackInv'
  BY <1>1, <1>3, StackStays DEF Run!Leave, Run!Phases
<1>4. Run!Top.i + 1 \in Nat \ {0}
  BY TopIs
<1>5. \A j \in Run!Named(Run!Step.next) : j \in Nat \ {0}
  <2>. PICK l : l = Run!Steps
    OBVIOUS
  <2>1. Run!Named(Run!Step.next) \subseteq DOMAIN l
    BY DEF Run!Named
  <2>2. l \in Seq(Run!Range(l))
    BY TopIs DEF Run!BooksOK, StackInv, RunTyped, Run!Steps
  <2> QED
    BY <2>1, <2>2
<1> QED
  BY <1>1, <1>2, <1>3, <1>4, <1>5 DEF Run!EndStep

LEMMA ItemKeeps ==
  ASSUME Run!BooksOK, MaxRounds \in Nat, StackInv, Run!Item
  PROVE  StackInv'
<1>1. /\ book' = book /\ OnStep(Run!Top) /\ result \in Run!Returned /\ phase = "item"
      /\ Run!Step.kind = "for"
  BY DEF Run!Item, StackInv, RunTyped
<1>2. "error" \in Run!Returned /\ Run!GoOn \in Run!Returned
  BY DEF Run!Returned, Run!GoOn
<1>3. ASSUME NEW r \in Run!Returned, Run!End(r), frames' = frames
      PROVE  StackInv'
  BY <1>1, <1>3, StackStays DEF Run!End, Run!Phases
<1>4. ASSUME Run!Top.left # 0, phase' = "check", result' = result,
             frames' = Append([frames EXCEPT ![Run!Depth].left = @ - 1], Run!Enter(Run!Step.body))
      PROVE  StackInv'
  <2>. PICK f : f = [Run!Top EXCEPT !.left = @ - 1]
    OBVIOUS
  <2>. PICK fs : fs = [frames EXCEPT ![Run!Depth] = f]
    OBVIOUS
  <2>1. f \in Run!Frame /\ f.i = Run!Top.i /\ f.list = Run!Top.list
    BY <1>4, TopIs DEF Run!Frame
  <2>2. Stack(frames) /\ f \in Run!Frame /\ f.i # 0 /\ fs = [frames EXCEPT ![Len(frames)] = f]
    BY <2>1, TopIs DEF StackInv, Run!Depth
  <2>3. Stack(fs) /\ Len(fs) = Len(frames) /\ fs[Len(fs)] = f
    BY ONLY <2>2, TopChanged
  <2>4. OnStep(fs[Len(fs)])
    BY <1>1, <2>1, <2>3 DEF OnStep
  <2>5. frames' = Append(fs, Run!Enter(Run!Step.body))
    BY <1>4 DEF Run!Top
  <2>6. Run!Step.body \in DOMAIN Books[book]
    BY <1>1, StepIs
  <2> QED
    BY <1>1, <1>4, <2>3, <2>4, <2>5, <2>6, StackPushed
<1> QED
  BY <1>1, <1>2, <1>3, <1>4 DEF Run!Item

\* The except steps of a try are called from where its steps were.
LEMMA ExceptCalled ==
  ASSUME Run!BooksOK, MaxRounds \in Nat, StackInv, Len(frames) > 1, book' = book,
         Run!Caller.kind = "try", Run!Caller.except = "steps",
         frames' = [SubSeq(frames, 1, Run!Depth - 1) EXCEPT ![Run!Depth - 1].excepting = TRUE]
                      \o <<Run!Enter(Run!Caller.handler)>>,
         phase' = "check", result' = result
  PROVE  StackInv'
<1>. PICK n : n = Len(frames)
  OBVIOUS
<1>. PICK fs : fs = SubSeq(frames, 1, n - 1)
  OBVIOUS
<1>1. /\ Stack(fs) /\ Len(fs) = n - 1 /\ fs[Len(fs)] = frames[n - 1] /\ OnStep(fs[Len(fs)])
      /\ fs \in Seq(Run!Frame)
  BY StackReturns DEF StackInv, Stack
<1>. PICK g : g = frames[n - 1]
  OBVIOUS
<1>. PICK f : f = [g EXCEPT !.excepting = TRUE]
  OBVIOUS
<1>. PICK gs : gs = [fs EXCEPT ![Len(fs)] = f]
  OBVIOUS
<1>2. fs[n - 1] = g /\ g \in Run!Frame /\ g.i # 0 /\ OnStep(g)
  <2>1. n - 1 \in 1 .. Len(fs)
    BY <1>1 DEF StackInv, Stack
  <2>2. fs[n - 1] \in Run!Frame
    BY <1>1, <2>1
  <2> QED
    BY <1>1, <2>1, <2>2 DEF Stack
<1>3. f \in Run!Frame /\ f.i = g.i /\ f.list = g.list
  BY <1>2 DEF Run!Frame
<1>4. Stack(gs) /\ Len(gs) = n - 1 /\ gs[Len(gs)] = f
  <2>1. Stack(fs) /\ f \in Run!Frame /\ f.i # 0 /\ gs = [fs EXCEPT ![Len(fs)] = f]
    BY <1>1, <1>2, <1>3
  <2>2. Stack(gs) /\ Len(gs) = Len(fs) /\ gs[Len(gs)] = f
    BY ONLY <2>1, TopChanged
  <2> QED
    BY <1>1, <2>2
<1>5. OnStep(gs[Len(gs)])
  BY <1>2, <1>3, <1>4 DEF OnStep
<1>6. Run!Caller = Books[book][g.list][g.i]
  BY DEF Run!Caller, Run!Depth
<1>7. Run!Caller.handler \in DOMAIN Books[book]
  BY <1>2, <1>6, StepsSay DEF StackInv, RunTyped
<1>. PICK e : e = Run!Enter(Run!Caller.handler)
  OBVIOUS
<1>8. e \in Run!Frame
  BY <1>7, Entered
<1>9. frames' = gs \o <<e>>
  BY <1>1, <1>2 DEF Run!Depth
<1>10. gs \in Seq(Run!Frame)
  BY <1>4 DEF Stack
<1>11. gs \o <<e>> = Append(gs, e)
  BY <1>8, <1>10
<1>12. frames' = Append(gs, Run!Enter(Run!Caller.handler)) /\ result' \in Run!Returned
  BY <1>9, <1>11 DEF StackInv, RunTyped
<1> QED
  BY <1>4, <1>5, <1>7, <1>12, StackPushed

LEMMA LeaveStepsKeep ==
  ASSUME Run!BooksOK, MaxRounds \in Nat, StackInv, Run!LeaveSteps
  PROVE  StackInv'
<1>1. book' = book /\ result \in Run!Returned /\ Len(frames) > 1
  BY DEF Run!LeaveSteps, StackInv, RunTyped, Run!Depth
<1>2. /\ {"ok", "error", "return"} \subseteq Run!Returned /\ Run!CallerGoesOn \in Run!Returned
      /\ \A r : r \in {"return", "error"} => r \in Run!Returned
  BY DEF Run!Returned, Run!CallerGoesOn
<1>3. ASSUME NEW r \in Run!Returned, Run!Back, Run!End(r)
      PROVE  StackInv'
  BY <1>1, <1>3, StackPopped DEF Run!End
<1>4. CASE Run!SwitchReturns
  BY <1>1, <1>3, <1>4 DEF Run!SwitchReturns
<1>5. CASE Run!ForReturns
  <2>1. CASE phase' = "item" /\ result' = result
    BY <1>1, <1>5, <2>1, StackPopped DEF Run!ForReturns
  <2> QED
    BY <1>1, <1>3, <1>5, <2>1 DEF Run!ForReturns
<1>6. CASE Run!TryReturns
  BY <1>1, <1>2, <1>3, <1>6, ExceptCalled DEF Run!TryReturns
<1>7. CASE Run!ExceptReturns
  BY <1>1, <1>3, <1>7 DEF Run!ExceptReturns
<1> QED
  BY <1>4, <1>5, <1>6, <1>7 DEF Run!LeaveSteps

LEMMA RunStaysTyped ==
  ASSUME Run!BooksOK, MaxRounds \in Nat, StackInv, Run!Next \/ UNCHANGED bookVars
  PROVE  StackInv'
<1>1. phase \in Run!Phases /\ result \in Run!Returned
  BY DEF StackInv, RunTyped
<1>2. ASSUME book' = book, frames' = frames, result' = result, phase' = phase
      PROVE  StackInv'
  BY <1>1, <1>2, StackStays DEF StackInv
<1>3. CASE Run!Check
  <2>1. ASSUME NEW r \in {"ok", "error"}, Run!Leave(r), book' = book
        PROVE  StackInv'
    BY <2>1, StackStays DEF Run!Leave, Run!Phases, Run!Returned
  <2>2. CASE Run!Top.i <= Len(Run!Steps) /\ Run!Goto("announce")
    <3>. PICK l : l = Run!Steps
      OBVIOUS
    <3>1. Len(l) \in Nat
      BY TopIs DEF Run!BooksOK, StackInv, RunTyped, Run!Steps
    <3>2. OnStep(Run!Top)
      BY <2>2, <3>1, TopIs DEF OnStep, Run!Steps
    <3>3. book' = book /\ frames' = frames /\ phase' = "announce" /\ result' = result
      BY <1>3, <2>2 DEF Run!Check, Run!Goto
    <3> QED
      BY <1>1, <3>2, <3>3, StackStays DEF Run!Phases
  <2>3. Run!Top.i > Len(Run!Steps) \/ Run!Top.i <= Len(Run!Steps)
    <3>. PICK l : l = Run!Steps
      OBVIOUS
    <3>1. Len(l) \in Nat
      BY TopIs DEF Run!BooksOK, StackInv, RunTyped, Run!Steps
    <3> QED
      BY <3>1, TopIs
  <2> QED
    BY <1>3, <2>1, <2>2, <2>3 DEF Run!Check
<1>4. CASE Run!Call
  <2>1. Run!GoOn \in Run!Returned /\ "error" \in Run!Returned
    BY DEF Run!GoOn, Run!Returned
  <2>2. PICK r \in {Run!GoOn, "error"} : Run!End(r)
    BY <1>4 DEF Run!Call
  <2>3. book' = book /\ frames' = frames /\ phase' = "ended" /\ result' = r
    BY <1>4, <2>2 DEF Run!Call, Run!End
  <2> QED
    BY <2>1, <2>3, StackStays DEF Run!Phases
<1>5. CASE Run!Finish
  BY <1>1, <1>5, StackStays DEF Run!Finish, Run!Phases
<1>6. CASE Run!Cancel \/ UNCHANGED bookVars
  BY <1>2, <1>6 DEF Run!Cancel, bookVars
<1> QED
  BY <1>3, <1>4, <1>5, <1>6, AnnounceKeeps, EndStepKeeps, ItemKeeps, LeaveStepsKeep
  DEF Run!Next, Run!RunStep

LEMMA RunTypes ==
  ASSUME Run!BooksOK, RunInv, StackInv
  PROVE  Run!TypeOK
<1>1. \A l \in DOMAIN Books[book] : \A s \in Run!Range(Books[book][l]) : s.kind \in Run!Kinds
  BY DEF Run!BooksOK, StackInv, RunTyped
<1> QED
  BY <1>1 DEF RunInv, StackInv, RunTyped, Stack, Run!TypeOK

-----------------------------------------------------------------------------
(* The boundaries of a crontab, for every calendar in which a month, a day  *)
(* and an hour keep their name from where they begin to where the next one  *)
(* does, every expression and every window of a tick.                       *)
(*                                                                          *)
(* What the search jumps over has the month, the day or the hour of the     *)
(* minute it jumps from, and so does not match either (SkipIsSafe).  That   *)
(* dueBoundaries' answer has no gap then rests on its asking Next again     *)
(* from the boundary it got, and the first time from just before whatever   *)
(* the window and the schedule's start admit (Search).                      *)

GivenOut == {due[i] : i \in DOMAIN due}

\* What is known while Next is searching: how far the answers go, and that
\* neither they nor the search have passed a boundary over.
Search ==
    /\ from \in Nat /\ cur \in Nat /\ Cron!FirstAsked <= from /\ from < cur
    /\ until = from + 1 + FiveYears /\ until <= Last
    /\ Len(due) < MaxFiresPerTick
    /\ \A i \in DOMAIN due : due[i] <= from
    /\ \A t \in Cron!Minutes : Cron!InWindow(t) /\ Cron!Matches(t) /\ t <= from => t \in GivenOut

CronInv ==
    /\ window \in Windows /\ starts \in Starts
    /\ due \in Seq(Cron!Minutes)
    /\ looking \in {"no", "next", "done"}
    /\ looking = "no" => due = << >>
    /\ looking = "next" => Search
    /\ Cron!NothingPassed
    /\ Cron!DueAreTheFirst
-----------------------------------------------------------------------------
(* One call of Next *)

LEMMA Arguments ==
  ASSUME Cron!BoundsOK, window \in Windows, starts \in Starts
  PROVE  /\ Last \in Nat /\ FiveYears \in Nat /\ MaxFiresPerTick \in Nat \ {0}
         /\ window[1] \in Cron!Minutes /\ window[2] \in Cron!Minutes
         /\ starts[1] \in Cron!Minutes \ {0} /\ starts[2] \in {0, 1}
         /\ Cron!FirstAsked \in Nat /\ Cron!FirstAsked + 1 + FiveYears <= Last
         /\ window[2] + 1 + FiveYears <= Last
<1>1. /\ Last \in Nat /\ FiveYears \in Nat /\ MaxFiresPerTick \in Nat \ {0}
      /\ window \in Cron!Minutes \X Cron!Minutes
      /\ window[1] + 1 + FiveYears <= Last /\ window[2] + 1 + FiveYears <= Last
      /\ starts \in (Cron!Minutes \ {0}) \X {0, 1} /\ starts[1] + 1 + FiveYears <= Last
  BY DEF Cron!BoundsOK
<1>2. /\ window[1] \in Cron!Minutes /\ window[2] \in Cron!Minutes
      /\ starts[1] \in Cron!Minutes \ {0} /\ starts[2] \in {0, 1}
  BY <1>1
<1>3. Cron!FirstAsked \in Nat /\ Cron!FirstAsked + 1 + FiveYears <= Last
  BY <1>1, <1>2 DEF Cron!FirstAsked, Cron!Minutes
<1> QED
  BY <1>1, <1>2, <1>3

\* Where the search goes on is later, and nothing on the way matches: it has the
\* month, the day or the hour of the minute that does not.
LEMMA SkipIsSafe ==
  ASSUME Cron!CalendarOK, Last \in Nat, cur \in Cron!Minutes, ~ Cron!Matches(cur)
  PROVE  /\ Cron!Skip \in Nat /\ cur < Cron!Skip
         /\ \A t \in Cron!Minutes : cur <= t /\ t < Cron!Skip => ~ Cron!Matches(t)
<1>1. /\ NextMonth[cur] \in Nat /\ cur < NextMonth[cur]
      /\ \A t \in Cron!Minutes : cur <= t /\ t < NextMonth[cur] => Month[t] = Month[cur]
  BY DEF Cron!CalendarOK, Cron!Begins
<1>2. /\ NextDay[cur] \in Nat /\ cur < NextDay[cur]
      /\ \A t \in Cron!Minutes : cur <= t /\ t < NextDay[cur] =>
           Day[t] = Day[cur] /\ Weekday[t] = Weekday[cur]
  BY DEF Cron!CalendarOK, Cron!Begins
<1>3. /\ NextHour[cur] \in Nat /\ cur < NextHour[cur]
      /\ \A t \in Cron!Minutes : cur <= t /\ t < NextHour[cur] => Hour[t] = Hour[cur]
  BY DEF Cron!CalendarOK, Cron!Begins
<1>4. CASE Month[cur] \notin ct.month
  BY <1>1, <1>4 DEF Cron!Skip, Cron!Matches
<1>5. CASE Month[cur] \in ct.month /\ ~ Cron!DayMatches(cur)
  <2>1. \A t \in Cron!Minutes : cur <= t /\ t < NextDay[cur] => ~ Cron!DayMatches(t)
    BY <1>2, <1>5 DEF Cron!DayMatches
  <2> QED
    BY <1>2, <1>5, <2>1 DEF Cron!Skip, Cron!Matches
<1>6. CASE Month[cur] \in ct.month /\ Cron!DayMatches(cur) /\ Hour[cur] \notin ct.hour
  BY <1>3, <1>6 DEF Cron!Skip, Cron!Matches
<1>7. CASE Month[cur] \in ct.month /\ Cron!DayMatches(cur) /\ Hour[cur] \in ct.hour
  <2>1. Cron!Skip = cur + 1 /\ cur \in Nat
    BY <1>7 DEF Cron!Skip, Cron!Minutes
  <2>2. \A t \in Cron!Minutes : cur <= t /\ t < cur + 1 => t = cur
    BY <2>1 DEF Cron!Minutes
  <2> QED
    BY <2>1, <2>2
<1> QED
  BY <1>4, <1>5, <1>6, <1>7

\* The minutes the search looks at are in the calendar.
LEMMA SearchInside ==
  ASSUME Cron!BoundsOK, Search, cur < until
  PROVE  cur \in Cron!Minutes /\ Last \in Nat
  BY DEF Cron!BoundsOK, Search, Cron!Minutes

\* All that the properties read, but for what looking tells.
LEMMA SameMatches ==
  ASSUME UNCHANGED <<ct, window, starts>>
  PROVE  /\ \A t \in Cron!Minutes : Cron!Matches(t)' <=> Cron!Matches(t)
         /\ \A t \in Cron!Minutes : Cron!InWindow(t)' <=> Cron!InWindow(t)
         /\ Cron!FirstAsked' = Cron!FirstAsked
  BY DEF Cron!Matches, Cron!DayMatches, Cron!InWindow, Cron!FirstAsked

-----------------------------------------------------------------------------
(* The steps *)

LEMMA StartStep ==
  ASSUME Cron!BoundsOK, CronInv, Cron!Start
  PROVE  CronInv'
<1>1. /\ looking = "no" /\ looking' = "next" /\ due' = << >> /\ due = << >>
      /\ from' = Cron!FirstAsked /\ cur' = Cron!FirstAsked + 1 /\ until' = Cron!FirstAsked + 1 + FiveYears
      /\ UNCHANGED <<ct, window, starts, due>>
  BY DEF Cron!Start, Cron!Ask, CronInv
<1>2. /\ Cron!FirstAsked \in Nat /\ Cron!FirstAsked + 1 + FiveYears <= Last
      /\ Last \in Nat /\ MaxFiresPerTick \in Nat \ {0}
      /\ window[1] \in Cron!Minutes
      /\ starts[1] \in Cron!Minutes \ {0} /\ starts[2] \in {0, 1}
  BY Arguments DEF CronInv
<1>3. \A t \in Cron!Minutes : Cron!InWindow(t) => Cron!FirstAsked < t
  BY <1>2 DEF Cron!InWindow, Cron!FirstAsked, Cron!Minutes
<1>4. Search'
  <2>1. \A t \in Cron!Minutes : ~ (Cron!InWindow(t)' /\ t <= from')
    BY <1>1, <1>2, <1>3, SameMatches DEF Cron!Minutes
  <2>2. Len(due') = 0 /\ DOMAIN due' = {}
    BY <1>1
  <2> QED
    BY <1>1, <1>2, <2>1, <2>2, SameMatches DEF Search
<1>5. Cron!NothingPassed'
  BY <1>1, <1>2 DEF Cron!NothingPassed, Cron!Minutes
<1>6. Cron!DueAreTheFirst'
  BY <1>1 DEF Cron!DueAreTheFirst
<1> QED
  BY <1>1, <1>4, <1>5, <1>6 DEF CronInv

LEMMA NextStepStep ==
  ASSUME Cron!CalendarOK, Cron!BoundsOK, CronInv, Cron!NextStep
  PROVE  CronInv'
<1>1. /\ looking = "next" /\ cur < until /\ ~ Cron!Matches(cur) /\ cur' = Cron!Skip
      /\ UNCHANGED <<ct, window, starts, from, until, due, looking>>
  BY DEF Cron!NextStep, Cron!Searching
<1>2. Search
  BY <1>1 DEF CronInv
<1>3. cur \in Cron!Minutes /\ Last \in Nat
  BY <1>1, <1>2, SearchInside
<1>4. /\ Cron!Skip \in Nat /\ cur < Cron!Skip
      /\ \A t \in Cron!Minutes : cur <= t /\ t < Cron!Skip => ~ Cron!Matches(t)
  BY <1>1, <1>3, SkipIsSafe
<1>5. Search'
  BY <1>1, <1>2, <1>3, <1>4, SameMatches DEF Search, GivenOut, Cron!Minutes
<1>6. Cron!NothingPassed'
  <2>1. ASSUME NEW t \in Cron!Minutes, from < t, t < Cron!Skip
        PROVE  ~ Cron!Matches(t)
    <3>1. CASE t < cur
      BY <1>1, <2>1, <3>1 DEF CronInv, Cron!NothingPassed
    <3>2. CASE cur <= t
      BY <1>4, <2>1, <3>2
    <3> QED
      BY <1>3, <3>1, <3>2 DEF Cron!Minutes
  <2> QED
    BY <1>1, <2>1, SameMatches DEF Cron!NothingPassed
<1>7. Cron!DueAreTheFirst'
  BY <1>1, SameMatches DEF CronInv, Cron!DueAreTheFirst
<1> QED
  BY <1>1, <1>5, <1>6, <1>7 DEF CronInv

\* What Next has found, and whether dueBoundaries keeps it.
LEMMA FoundInOrder ==
  ASSUME Cron!BoundsOK, CronInv, Search, looking = "next", cur \in Cron!Minutes, Cron!Matches(cur),
         due' = IF cur <= window[2] /\ cur >= starts[1] + starts[2]
                THEN Append(due, cur) ELSE due
  PROVE  /\ due' \in Seq(Cron!Minutes)
         /\ due' = due \/ Len(due') = Len(due) + 1
         /\ \A i, j \in DOMAIN due' : i < j => due'[i] < due'[j]
         /\ \A i \in DOMAIN due' : Cron!InWindow(due'[i]) /\ Cron!Matches(due'[i]) /\ due'[i] <= cur
         /\ \A t \in Cron!Minutes : Cron!InWindow(t) /\ Cron!Matches(t) /\ t <= cur =>
              \E i \in DOMAIN due' : due'[i] = t
<1>1. due \in Seq(Cron!Minutes) /\ DOMAIN due = 1 .. Len(due) /\ Len(due) \in Nat
  BY DEF CronInv
<1>2. /\ window[1] \in Cron!Minutes /\ window[2] \in Cron!Minutes
      /\ starts[1] \in Cron!Minutes /\ starts[2] \in {0, 1}
      /\ Last \in Nat /\ cur \in Nat /\ from \in Nat
  BY Arguments DEF CronInv, Cron!Minutes, Search
<1>3. /\ \A i \in DOMAIN due : due[i] \in Cron!Minutes /\ due[i] <= from /\ due[i] < cur
      /\ \A i \in DOMAIN due : Cron!InWindow(due[i]) /\ Cron!Matches(due[i])
      /\ \A i, j \in DOMAIN due : i < j => due[i] < due[j]
  <2>1. \A i \in DOMAIN due : due[i] \in Cron!Minutes /\ due[i] <= from
    BY <1>1 DEF Search
  <2>2. from < cur
    BY DEF Search
  <2>3. \A i \in DOMAIN due : due[i] < cur
    BY <1>2, <2>1, <2>2 DEF Cron!Minutes
  <2> QED
    BY <2>1, <2>3 DEF CronInv, Cron!DueAreTheFirst
<1>4. \A t \in Cron!Minutes : Cron!InWindow(t) /\ Cron!Matches(t) /\ t < cur =>
        \E i \in DOMAIN due : due[i] = t
  <2> SUFFICES ASSUME NEW t \in Cron!Minutes, Cron!InWindow(t), Cron!Matches(t), t < cur
               PROVE  \E i \in DOMAIN due : due[i] = t
    OBVIOUS
  <2>1. ~ (from < t)
    BY DEF CronInv, Cron!NothingPassed
  <2>2. t <= from
    BY <1>2, <2>1 DEF Cron!Minutes
  <2> QED
    BY <2>2 DEF Search, GivenOut
<1>5. CASE cur <= window[2] /\ cur >= starts[1] + starts[2]
  <2>1. Cron!InWindow(cur)
    <3>1. Cron!FirstAsked <= from /\ from < cur
      BY DEF Search
    <3>2. Cron!FirstAsked = window[1] \/ starts[1] + starts[2] > window[1]
      BY DEF Cron!FirstAsked
    <3>3. window[1] \in Nat /\ starts[1] \in Nat /\ starts[2] \in Nat
      BY <1>2 DEF Cron!Minutes
    <3>4. window[1] < cur
      BY <1>2, <1>5, <3>1, <3>2, <3>3
    <3> QED
      BY <1>2, <1>5, <3>3, <3>4 DEF Cron!InWindow
  <2>2. /\ due' \in Seq(Cron!Minutes) /\ Len(due') = Len(due) + 1
        /\ \A i \in 1 .. Len(due) : due'[i] = due[i]
        /\ due'[Len(due) + 1] = cur
    BY <1>1, <1>5, AppendProperties
  <2>3. /\ DOMAIN due' = 1 .. Len(due) + 1
        /\ \A i \in DOMAIN due' : i \in DOMAIN due \/ i = Len(due) + 1
        /\ \A i \in DOMAIN due : i \in DOMAIN due' /\ due'[i] = due[i] /\ i < Len(due) + 1
        /\ Len(due) + 1 \in DOMAIN due'
    BY <1>1, <2>2
  <2>4. \A i, j \in DOMAIN due' : i < j => due'[i] < due'[j]
    <3> SUFFICES ASSUME NEW i \in DOMAIN due', NEW j \in DOMAIN due', i < j
                 PROVE  due'[i] < due'[j]
      OBVIOUS
    <3>1. i \in DOMAIN due
      BY <1>1, <2>3
    <3>2. CASE j \in DOMAIN due
      BY <1>3, <2>3, <3>1, <3>2
    <3>3. CASE j = Len(due) + 1
      BY <1>3, <2>2, <2>3, <3>1, <3>3
    <3> QED
      BY <2>3, <3>2, <3>3
  <2>5. \A i \in DOMAIN due' : Cron!InWindow(due'[i]) /\ Cron!Matches(due'[i]) /\ due'[i] <= cur
    <3>1. ASSUME NEW i \in DOMAIN due
          PROVE  Cron!InWindow(due'[i]) /\ Cron!Matches(due'[i]) /\ due'[i] <= cur
      <4>1. due'[i] = due[i] /\ due[i] \in Nat /\ due[i] < cur
        BY <1>3, <2>3 DEF Cron!Minutes
      <4>2. due'[i] <= cur
        BY <1>2, <4>1
      <4> QED
        BY <1>3, <4>1, <4>2
    <3>2. due'[Len(due) + 1] <= cur
      BY <1>2, <2>2
    <3> QED
      BY <2>1, <2>2, <2>3, <3>1, <3>2
  <2>6. \A t \in Cron!Minutes : Cron!InWindow(t) /\ Cron!Matches(t) /\ t <= cur =>
          \E i \in DOMAIN due' : due'[i] = t
    <3> SUFFICES ASSUME NEW t \in Cron!Minutes, Cron!InWindow(t), Cron!Matches(t), t <= cur
                 PROVE  \E i \in DOMAIN due' : due'[i] = t
      OBVIOUS
    <3>1. t < cur \/ t = cur
      BY <1>2 DEF Cron!Minutes
    <3> QED
      BY <1>4, <2>2, <2>3, <3>1
  <2> QED
    BY <2>2, <2>4, <2>5, <2>6
<1>6. CASE ~ (cur <= window[2] /\ cur >= starts[1] + starts[2])
  <2>1. ~ Cron!InWindow(cur) /\ due' = due
    BY <1>2, <1>6 DEF Cron!InWindow, Cron!Minutes
  <2>2. \A t \in Cron!Minutes : Cron!InWindow(t) /\ t <= cur => t < cur
    BY <1>2, <2>1 DEF Cron!Minutes
  <2>3. \A i \in DOMAIN due : due[i] <= cur
    BY <1>2, <1>3 DEF Cron!Minutes
  <2> QED
    BY <1>1, <1>3, <1>4, <2>1, <2>2, <2>3
<1> QED
  BY <1>5, <1>6

LEMMA FoundStep ==
  ASSUME Cron!BoundsOK, CronInv, Cron!Found
  PROVE  CronInv'
<1>1. /\ looking = "next" /\ cur < until /\ Cron!Matches(cur)
      /\ due' = IF cur <= window[2] /\ cur >= starts[1] + starts[2]
                THEN Append(due, cur) ELSE due
      /\ UNCHANGED <<ct, window, starts>>
  BY DEF Cron!Found, Cron!Searching
<1>2. Search
  BY <1>1 DEF CronInv
<1>3. cur \in Cron!Minutes
  BY <1>1, <1>2, SearchInside
<1>4. /\ due' \in Seq(Cron!Minutes)
      /\ due' = due \/ Len(due') = Len(due) + 1
      /\ \A i, j \in DOMAIN due' : i < j => due'[i] < due'[j]
      /\ \A i \in DOMAIN due' : Cron!InWindow(due'[i]) /\ Cron!Matches(due'[i]) /\ due'[i] <= cur
      /\ \A t \in Cron!Minutes : Cron!InWindow(t) /\ Cron!Matches(t) /\ t <= cur =>
           \E i \in DOMAIN due' : due'[i] = t
  BY <1>1, <1>2, <1>3, FoundInOrder
<1>5. /\ window[2] \in Nat /\ window[2] + 1 + FiveYears <= Last /\ Last \in Nat
      /\ FiveYears \in Nat /\ MaxFiresPerTick \in Nat /\ cur \in Nat /\ Cron!FirstAsked \in Nat
      /\ Len(due) \in Nat /\ Len(due') \in Nat
  <2>1. window \in Windows /\ starts \in Starts /\ due \in Seq(Cron!Minutes)
    BY DEF CronInv
  <2>2. /\ window[2] \in Cron!Minutes /\ window[2] + 1 + FiveYears <= Last /\ Last \in Nat
        /\ FiveYears \in Nat /\ MaxFiresPerTick \in Nat /\ Cron!FirstAsked \in Nat
    BY <2>1, Arguments
  <2>3. Cron!Minutes \subseteq Nat
    BY DEF Cron!Minutes
  <2>4. Len(due) \in Nat /\ Len(due') \in Nat
    BY <1>4, <2>1
  <2>5. window[2] \in Nat /\ cur \in Nat
    BY <1>3, <2>2, <2>3
  <2> QED
    BY <2>2, <2>4, <2>5
<1>6. \A i \in DOMAIN due' : due'[i] \in Cron!Minutes
  BY <1>4
<1>7. \A i \in DOMAIN due' : (Cron!InWindow(due[i]) /\ Cron!Matches(due[i]))'
  BY <1>1, <1>4 DEF Cron!InWindow, Cron!Matches, Cron!DayMatches
<1>8. CASE cur > window[2] \/ Len(due') >= MaxFiresPerTick
  <2>1. looking' = "done" /\ UNCHANGED <<from, cur, until>>
    BY <1>8 DEF Cron!Found
  <2>2. ASSUME NEW t \in Cron!Minutes, Cron!InWindow(t), Cron!Matches(t), t \notin {due'[i] : i \in DOMAIN due'}
        PROVE  Len(due') = MaxFiresPerTick /\ \A i \in DOMAIN due' : due'[i] < t
    <3>1. cur < t /\ t <= window[2] /\ t \in Nat
      BY <1>4, <1>5, <2>2 DEF Cron!InWindow, Cron!Minutes
    <3>2. Len(due') >= MaxFiresPerTick
      BY <1>5, <1>8, <3>1
    <3>3. Len(due') = MaxFiresPerTick
      BY <1>2, <1>4, <1>5, <3>2 DEF Search
    <3>4. \A i \in DOMAIN due' : due'[i] < t
      BY <1>4, <1>5, <1>6, <3>1 DEF Cron!Minutes
    <3> QED
      BY <3>3, <3>4
  <2>3. Cron!DueAreTheFirst'
    <3>1. \A t \in Cron!Minutes :
             (Cron!InWindow(t)' /\ Cron!Matches(t)' /\ t \notin {due'[i] : i \in DOMAIN due'})
             => Len(due') = MaxFiresPerTick /\ \A i \in DOMAIN due' : due'[i] < t
      BY <1>1, <2>2, SameMatches
    <3> QED
      BY <1>4, <1>7, <3>1 DEF Cron!DueAreTheFirst
  <2>4. Cron!NothingPassed'
    BY <2>1 DEF Cron!NothingPassed
  <2> QED
    BY <1>1, <1>4, <2>1, <2>3, <2>4 DEF CronInv
<1>9. CASE ~ (cur > window[2] \/ Len(due') >= MaxFiresPerTick)
  <2>1. /\ looking' = "next" /\ from' = cur /\ cur' = cur + 1
        /\ until' = cur + 1 + FiveYears
    BY <1>1, <1>9 DEF Cron!Found, Cron!Ask
  <2>2. Search'
    <3>1. \A t \in Cron!Minutes : Cron!InWindow(t)' /\ Cron!Matches(t)' /\ t <= from' => t \in GivenOut'
      BY <1>1, <1>4, <2>1, SameMatches DEF GivenOut
    <3>2. Cron!FirstAsked' <= from'
      BY <1>1, <1>2, <1>5, <2>1, SameMatches DEF Search
    <3>3. until' <= Last /\ Len(due') < MaxFiresPerTick
      BY <1>5, <1>9, <2>1
    <3> QED
      BY <1>4, <1>5, <2>1, <3>1, <3>2, <3>3 DEF Search
  <2>3. Cron!NothingPassed'
    BY <1>5, <2>1 DEF Cron!NothingPassed, Cron!Minutes
  <2>4. Cron!DueAreTheFirst'
    BY <1>4, <1>7, <2>1 DEF Cron!DueAreTheFirst
  <2> QED
    BY <1>1, <1>4, <2>1, <2>2, <2>3, <2>4 DEF CronInv
<1> QED
  BY <1>8, <1>9

LEMMA NotFoundStep ==
  ASSUME Cron!BoundsOK, CronInv, Cron!NotFound
  PROVE  CronInv'
<1>1. /\ looking = "next" /\ cur >= until /\ looking' = "done"
      /\ UNCHANGED <<ct, window, starts, from, cur, until, due>>
  BY DEF Cron!NotFound
<1>2. Search
  BY <1>1 DEF CronInv
<1>3. ASSUME NEW t \in Cron!Minutes, Cron!InWindow(t), Cron!Matches(t), t \notin GivenOut
      PROVE  \A i \in DOMAIN due : due[i] < t
  <2>1. ~ (t <= from) /\ \A i \in DOMAIN due : due[i] <= from
    BY <1>2, <1>3 DEF Search
  <2>2. \A i \in DOMAIN due : due[i] \in Cron!Minutes
    BY DEF CronInv
  <2> QED
    BY <1>2, <2>1, <2>2 DEF Search, Cron!Minutes
<1>4. Cron!DueAreTheFirst'
  <2>1. \A t \in Cron!Minutes :
           (Cron!InWindow(t)' /\ Cron!Matches(t)' /\ t \notin {due[i] : i \in DOMAIN due})
           => \A i \in DOMAIN due : due[i] < t
    BY <1>1, <1>3, SameMatches DEF GivenOut
  <2>2. \A i \in DOMAIN due : Cron!InWindow(due[i])' /\ Cron!Matches(due[i])'
    BY <1>1, SameMatches DEF CronInv, Cron!DueAreTheFirst
  <2> QED
    BY <1>1, <2>1, <2>2 DEF CronInv, Cron!DueAreTheFirst
<1>5. Cron!NothingPassed'
  BY <1>1 DEF Cron!NothingPassed
<1> QED
  BY <1>1, <1>4, <1>5 DEF CronInv

LEMMA CronStarts == ASSUME Cron!Init PROVE CronInv
  BY DEF Cron!Init, CronInv, Cron!NothingPassed, Cron!DueAreTheFirst

LEMMA CronStutters ==
  ASSUME CronInv, UNCHANGED cronVars
  PROVE  CronInv'
<1>1. /\ UNCHANGED <<ct, window, starts, from, cur, until, due, looking>>
  BY DEF cronVars
<1>2. Search => Search'
  BY <1>1, SameMatches DEF Search, GivenOut
<1>3. Cron!NothingPassed' /\ Cron!DueAreTheFirst'
  BY <1>1, SameMatches DEF CronInv, Cron!NothingPassed, Cron!DueAreTheFirst
<1> QED
  BY <1>1, <1>2, <1>3 DEF CronInv

LEMMA CronSteps ==
  ASSUME Cron!CalendarOK, Cron!BoundsOK, CronInv, Cron!Next \/ UNCHANGED cronVars
  PROVE  CronInv'
  BY StartStep, NextStepStep, FoundStep, NotFoundStep, CronStutters DEF Cron!Next

\* Where the search stands.
CronTyped == ct \in Cron!Masks /\ from \in Nat /\ cur \in Nat /\ until \in Nat

LEMMA MaskInside ==
  ASSUME NEW field, NEW min, NEW max, Cron!InRange(field, min, max)
  PROVE  Cron!Mask(field, min, max) \subseteq min .. max
<1>1. CASE field = << >>
  BY <1>1 DEF Cron!Mask
<1>2. CASE field # << >>
  <2>1. ASSUME NEW i \in DOMAIN field
        PROVE  Cron!RangeMask(field[i][1], field[i][2], field[i][3]) \subseteq min .. max
    <3>1. field[i][1] .. field[i][2] \subseteq min .. max
      BY <2>1 DEF Cron!InRange
    <3>2. Cron!RangeMask(field[i][1], field[i][2], field[i][3]) \subseteq field[i][1] .. field[i][2]
      BY DEF Cron!RangeMask
    <3> QED
      BY <3>1, <3>2
  <2> QED
    BY <1>2, <2>1 DEF Cron!Mask
<1> QED
  BY <1>1, <1>2

LEMMA CronTypedAtStart == ASSUME Cron!FieldsOK, Cron!Init PROVE CronTyped
<1>1. ASSUME NEW expr \in Fields PROVE Cron!ParseCrontab(expr) \in Cron!Masks
  <2>1. /\ Cron!Mask(expr.minute, 0, Cron!Highest(Minute)) \subseteq 0 .. Cron!Highest(Minute)
        /\ Cron!Mask(expr.hour, 0, Cron!Highest(Hour)) \subseteq 0 .. Cron!Highest(Hour)
        /\ Cron!Mask(expr.dom, 1, Cron!Highest(Day)) \subseteq 1 .. Cron!Highest(Day)
        /\ Cron!Mask(expr.month, 1, Cron!Highest(Month)) \subseteq 1 .. Cron!Highest(Month)
        /\ Cron!Mask(expr.dow, 0, Cron!Highest(Weekday)) \subseteq 0 .. Cron!Highest(Weekday)
    BY MaskInside DEF Cron!FieldsOK
  <2>2. /\ Cron!ParseCrontabField(expr.dom, 1, Cron!Highest(Day))
             \in [mask : SUBSET (1 .. Cron!Highest(Day)), star : BOOLEAN]
        /\ Cron!ParseCrontabField(expr.dow, 0, Cron!Highest(Weekday))
             \in [mask : SUBSET (0 .. Cron!Highest(Weekday)), star : BOOLEAN]
    BY <2>1 DEF Cron!ParseCrontabField
  <2> QED
    BY <2>1, <2>2 DEF Cron!ParseCrontab, Cron!Masks
<1> QED
  BY <1>1 DEF CronTyped, Cron!Init

LEMMA CronStaysTyped ==
  ASSUME Cron!CalendarOK, Cron!BoundsOK, CronInv, CronTyped, Cron!Next \/ UNCHANGED cronVars
  PROVE  CronTyped'
<1>1. CronInv' /\ FiveYears \in Nat
  BY CronSteps DEF Cron!BoundsOK
<1>2. CASE UNCHANGED cronVars
  BY <1>2 DEF cronVars, CronTyped
<1>3. CASE Cron!Start \/ Cron!NextStep \/ Cron!Found
  <2>1. looking' = "next" => CronTyped'
    BY <1>1, <1>3 DEF CronInv, Search, CronTyped, Cron!Start, Cron!NextStep, Cron!Found
  <2>2. looking' # "next" => UNCHANGED <<ct, from, cur, until>>
    BY <1>3 DEF Cron!Start, Cron!NextStep, Cron!Found, Cron!Searching
  <2> QED
    BY <2>1, <2>2 DEF CronTyped
<1>4. CASE Cron!NotFound
  BY <1>4 DEF Cron!NotFound, CronTyped
<1> QED
  BY <1>2, <1>3, <1>4 DEF Cron!Next

LEMMA CronTypes == ASSUME CronInv, CronTyped PROVE Cron!TypeOK
BY DEF CronInv, CronTyped, Cron!TypeOK

-----------------------------------------------------------------------------
(* Object Storage: requests that are about the same bucket or owner *)

\* Two requests about one thing have been noted as a race.
RacesNoted ==
    \A q, r \in Requests :
        q # r /\ calls[q] # None /\ calls[r] # None /\ calls[q].on = calls[r].on
            => calls[r].on \in raced

\* A request that goes on is about what it was, or what it takes up is noted as a
\* race unless no other request is about it.
LEMMA Proceeding ==
  ASSUME NEW C, None \notin C, calls \in [Requests -> C \cup {None}], RacesNoted,
         NEW r \in Requests, NEW call \in C,
         calls' = [calls EXCEPT ![r] = call],
         raced' = IF {q \in Requests : calls[q] # None /\ calls[q].on = call.on} \subseteq {r}
                  THEN raced ELSE raced \cup {call.on}
  PROVE  /\ calls' \in [Requests -> C \cup {None}] /\ RacesNoted'
         /\ raced \subseteq raced' /\ raced' \subseteq raced \cup {call.on}
         /\ calls'[r] = call /\ call # None
         /\ \A q \in Requests \ {r} : calls'[q] = calls[q]
         /\ call.on \notin raced' =>
              \A q \in Requests \ {r} : calls[q] # None => calls[q].on # call.on
<1>1. /\ raced \subseteq raced' /\ raced' \subseteq raced \cup {call.on}
      /\ call.on \notin raced' =>
           \A q \in Requests \ {r} : calls[q] # None => calls[q].on # call.on
  OBVIOUS
<1>2. /\ calls' \in [Requests -> C \cup {None}]
      /\ calls'[r] = call /\ call # None
      /\ \A q \in Requests \ {r} : calls'[q] = calls[q]
  OBVIOUS
<1>3. RacesNoted'
  BY <1>1, <1>2 DEF RacesNoted
<1> QED
  BY <1>1, <1>2, <1>3

LEMMA Answering ==
  ASSUME NEW C, calls \in [Requests -> C \cup {None}], RacesNoted,
         NEW r \in Requests, calls' = [calls EXCEPT ![r] = None], raced' = raced
  PROVE  /\ calls' \in [Requests -> C \cup {None}] /\ RacesNoted'
         /\ calls'[r] = None
         /\ \A q \in Requests \ {r} : calls'[q] = calls[q]
<1>1. /\ calls' \in [Requests -> C \cup {None}]
      /\ calls'[r] = None
      /\ \A q \in Requests \ {r} : calls'[q] = calls[q]
  OBVIOUS
<1> QED
  BY <1>1 DEF RacesNoted

-----------------------------------------------------------------------------
(* Buckets and their directories *)

\* While a request is alone with its bucket, what it removes the directory of is
\* not listed, and what it changes the plan of has its directory.
BucketCalls ==
    \A r \in Requests : calls[r] # None /\ calls[r].on \notin raced =>
        /\ calls[r].pc = "rmdir" => buckets[calls[r].on] = None
        /\ calls[r].pc \in {"delete", "create"} => calls[r].on \in dirs

\* BucketsServed, seen from a bucket.
Served ==
    \A b \in Buckets : buckets[b] # None /\ b \notin raced /\ b \notin dirs =>
        \E r \in Requests : calls[r] # None /\ calls[r].on = b

BucketInv == Storage!TypeOK /\ RacesNoted /\ BucketCalls /\ Served

StorageBounds == MaxContracts \in Nat

LEMMA BucketStarts == ASSUME StorageBounds, Storage!Init PROVE BucketInv
<1>1. Storage!TypeOK
  BY DEF Storage!Init, Storage!TypeOK, Storage!Owners, StorageBounds
<1> QED
  BY <1>1 DEF Storage!Init, BucketInv, RacesNoted, BucketCalls, Served

\* What a bucket's request does with its bucket.
LEMMA NewBucketMade ==
  ASSUME StorageBounds, Storage!TypeOK, NEW b \in Buckets, Storage!NewBucket(b)
  PROVE  /\ contracts' \in 0 .. MaxContracts
         /\ buckets' \in [Buckets -> Storage!Entry \cup {None}]
         /\ \A c \in Buckets \ {b} : buckets'[c] = buckets[c]
<1>1. contracts' \in 0 .. MaxContracts /\ contracts + 1 \in 1 .. MaxContracts
  BY DEF Storage!NewBucket, Storage!TypeOK, StorageBounds
<1>2. [contract |-> contracts + 1, settings |-> {}] \in Storage!Entry
  BY <1>1 DEF Storage!Entry
<1> QED
  BY <1>1, <1>2 DEF Storage!NewBucket, Storage!TypeOK

LEMMA NoBucketLeft ==
  ASSUME Storage!TypeOK, NEW b \in Buckets, Storage!NoBucket(b)
  PROVE  /\ contracts' = contracts
         /\ buckets' \in [Buckets -> Storage!Entry \cup {None}]
         /\ buckets'[b] = None
         /\ \A c \in Buckets \ {b} : buckets'[c] = buckets[c]
  BY DEF Storage!NoBucket, Storage!TypeOK

\* A step of request r that is about b, and about nothing else.
LEMMA BucketGoesOn ==
  ASSUME BucketInv, NEW r \in Requests, NEW call \in Storage!Call,
         call.on \in Buckets, Storage!Proceed(r, call),
         calls[r] # None => calls[r].on = call.on,
         contracts' \in 0 .. MaxContracts,
         buckets' \in [Buckets -> Storage!Entry \cup {None}],
         \A c \in Buckets \ {call.on} : buckets'[c] = buckets[c],
         UNCHANGED <<listed, deleted, issued, users, dirs>>,
         call.on \notin raced' => /\ call.pc = "rmdir" => buckets'[call.on] = None
                                  /\ call.pc \in {"delete", "create"} => call.on \in dirs
  PROVE  BucketInv'
<1>1. /\ calls' \in [Requests -> Storage!Call \cup {None}] /\ RacesNoted'
      /\ raced \subseteq raced' /\ raced' \subseteq raced \cup {call.on}
      /\ calls'[r] = call /\ call # None
      /\ \A q \in Requests \ {r} : calls'[q] = calls[q]
      /\ call.on \notin raced' =>
           \A q \in Requests \ {r} : calls[q] # None => calls[q].on # call.on
  <2>1. /\ calls' = [calls EXCEPT ![r] = call]
        /\ raced' = IF {q \in Requests : calls[q] # None /\ calls[q].on = call.on} \subseteq {r}
                    THEN raced ELSE raced \cup {call.on}
    BY DEF Storage!Proceed, Storage!About
  <2>2. calls \in [Requests -> Storage!Call \cup {None}] /\ RacesNoted
    BY DEF BucketInv, Storage!TypeOK
  <2> QED
    BY <2>1, <2>2, Proceeding, EngineAssumption
<1>2. Storage!TypeOK'
  BY <1>1 DEF BucketInv, Storage!TypeOK
<1>3. ASSUME NEW q \in Requests, calls'[q] # None
      PROVE  calls'[q].on \in Buckets
  BY <1>2, <1>3 DEF Storage!TypeOK, Storage!Call, Storage!Owners
<1>4. BucketCalls'
  <2> SUFFICES ASSUME NEW q \in Requests, calls'[q] # None, calls'[q].on \notin raced'
               PROVE  /\ calls'[q].pc = "rmdir" => buckets'[calls'[q].on] = None
                      /\ calls'[q].pc \in {"delete", "create"} => calls'[q].on \in dirs'
    BY DEF BucketCalls
  <2>1. CASE q = r
    BY <2>1, <1>1
  <2>2. CASE q # r
    BY <2>2, <1>1, <1>3 DEF BucketInv, BucketCalls
  <2> QED
    BY <2>1, <2>2
<1>5. Served'
  <2> SUFFICES ASSUME NEW b \in Buckets, buckets'[b] # None, b \notin raced', b \notin dirs'
               PROVE  \E q \in Requests : calls'[q] # None /\ calls'[q].on = b
    BY DEF Served
  <2>1. CASE b = call.on
    BY <2>1, <1>1
  <2>2. CASE b # call.on
    <3>1. PICK q \in Requests : calls[q] # None /\ calls[q].on = b
      BY <2>2, <1>1 DEF BucketInv, Served
    <3>2. q # r
      BY <2>2, <3>1
    <3> QED
      BY <3>1, <3>2, <1>1
  <2> QED
    BY <2>1, <2>2
<1> QED
  BY <1>1, <1>2, <1>4, <1>5 DEF BucketInv

\* The last step of request r.
LEMMA BucketAnswered ==
  ASSUME BucketInv, NEW r \in Requests, calls[r] # None, Storage!Answer(r),
         contracts' \in 0 .. MaxContracts,
         buckets' \in [Buckets -> Storage!Entry \cup {None}],
         dirs' \in SUBSET Buckets,
         \A c \in Buckets \ {calls[r].on} : buckets'[c] = buckets[c] /\ (c \in dirs' <=> c \in dirs),
         UNCHANGED <<listed, deleted, issued, users>>,
         calls[r].on \notin raced => buckets'[calls[r].on] = None \/ calls[r].on \in dirs'
  PROVE  BucketInv'
<1>1. /\ calls' \in [Requests -> Storage!Call \cup {None}] /\ RacesNoted'
      /\ calls'[r] = None /\ raced' = raced
      /\ \A q \in Requests \ {r} : calls'[q] = calls[q]
  <2>1. calls' = [calls EXCEPT ![r] = None] /\ raced' = raced
    BY DEF Storage!Answer
  <2>2. calls \in [Requests -> Storage!Call \cup {None}] /\ RacesNoted
    BY DEF BucketInv, Storage!TypeOK
  <2> QED
    BY <2>1, <2>2, Answering
<1>2. Storage!TypeOK'
  BY <1>1 DEF BucketInv, Storage!TypeOK
<1>3. \A q \in Requests : calls'[q] # None =>
         /\ q # r /\ calls[q] # None /\ calls'[q] = calls[q]
         /\ calls[q].on \notin raced => calls[q].on # calls[r].on
  BY <1>1 DEF BucketInv, RacesNoted
<1>4. \A q \in Requests : calls[q] # None => calls[q].on \in Buckets
  BY DEF BucketInv, Storage!TypeOK, Storage!Call, Storage!Owners
<1>5. BucketCalls'
  BY <1>1, <1>3, <1>4 DEF BucketInv, BucketCalls
<1>6. Served'
  <2> SUFFICES ASSUME NEW b \in Buckets, buckets'[b] # None, b \notin raced', b \notin dirs'
               PROVE  \E q \in Requests : calls'[q] # None /\ calls'[q].on = b
    BY DEF Served
  <2>1. b # calls[r].on
    BY <1>1
  <2>2. PICK q \in Requests : calls[q] # None /\ calls[q].on = b
    BY <2>1, <1>1 DEF BucketInv, Served
  <2> QED
    BY <2>1, <2>2, <1>1
<1> QED
  BY <1>1, <1>2, <1>5, <1>6 DEF BucketInv

LEMMA BucketSteps ==
  ASSUME StorageBounds, BucketInv, Storage!Next \/ UNCHANGED storageVars
  PROVE  BucketInv'
<1> USE DEF Storage!Owners
<1>1. /\ Storage!TypeOK
      /\ \A q \in Requests : calls[q] # None => calls[q] \in Storage!Call /\ calls[q].on \in Buckets
  BY DEF BucketInv, Storage!TypeOK, Storage!Call
<1>2. CASE UNCHANGED storageVars
  BY <1>2 DEF storageVars, BucketInv, Storage!TypeOK, RacesNoted, BucketCalls, Served
<1>3. ASSUME NEW r \in Requests, NEW b \in Buckets, Storage!CreateBucket(r, b)
      PROVE  BucketInv'
  <2> DEFINE call == [pc |-> "mkdir", on |-> b, entry |-> None]
  <2>1. call \in Storage!Call /\ call.on = b /\ call.pc = "mkdir"
    BY DEF Storage!Call
  <2>2. calls[r] = None /\ Storage!NewBucket(b) /\ Storage!Proceed(r, call)
        /\ UNCHANGED <<listed, deleted, issued, users, dirs>>
    BY <1>3 DEF Storage!CreateBucket, Storage!gateway
  <2> HIDE DEF call
  <2> QED
    BY <1>1, <2>1, <2>2, NewBucketMade, BucketGoesOn
<1>4. ASSUME NEW r \in Requests, NEW b \in Buckets, Storage!DeleteBucket(r, b)
      PROVE  BucketInv'
  <2> DEFINE call == [pc |-> "rmdir", on |-> b, entry |-> None]
  <2>1. call \in Storage!Call /\ call.on = b /\ call.pc = "rmdir"
    BY DEF Storage!Call
  <2>2. calls[r] = None /\ Storage!NoBucket(b) /\ Storage!Proceed(r, call)
        /\ UNCHANGED <<listed, deleted, issued, users, dirs>>
    BY <1>4 DEF Storage!DeleteBucket, Storage!gateway
  <2>3. contracts \in 0 .. MaxContracts
    BY <1>1 DEF Storage!TypeOK
  <2> HIDE DEF call
  <2> QED
    BY <1>1, <2>1, <2>2, <2>3, NoBucketLeft, BucketGoesOn
<1>5. ASSUME NEW r \in Requests, NEW b \in Buckets, Storage!PutBucketPlan(r, b)
      PROVE  BucketInv'
  <2> DEFINE call == [pc |-> "delete", on |-> b, entry |-> buckets[b]]
  <2>1. call \in Storage!Call /\ call.on = b /\ call.pc = "delete"
    BY <1>1 DEF Storage!Call, Storage!TypeOK
  <2>2. calls[r] = None /\ buckets[b] # None /\ Storage!Proceed(r, call)
        /\ UNCHANGED <<buckets, contracts, listed, deleted, issued, users, dirs>>
    BY <1>5 DEF Storage!PutBucketPlan, Storage!gateway, Storage!control
  <2>3. contracts \in 0 .. MaxContracts /\ buckets \in [Buckets -> Storage!Entry \cup {None}]
    BY <1>1 DEF Storage!TypeOK
  <2>4. b \notin raced' => b \in dirs
    BY <2>1, <2>2 DEF BucketInv, Served, Storage!Proceed, Storage!About
  <2> HIDE DEF call
  <2> QED
    BY <1>1, <2>1, <2>2, <2>3, <2>4, BucketGoesOn
<1>6. ASSUME NEW r \in Requests, Storage!MakeDirectory(r)
      PROVE  BucketInv'
  <2>1. calls[r] # None /\ Storage!Answer(r) /\ UNCHANGED <<listed, deleted, issued, users>>
    BY <1>6 DEF Storage!MakeDirectory, Storage!At
  <2>2. contracts \in 0 .. MaxContracts /\ dirs \subseteq Buckets
        /\ buckets \in [Buckets -> Storage!Entry \cup {None}]
    BY <1>1 DEF Storage!TypeOK
  <2>3. CASE dirs' = dirs \cup {calls[r].on} /\ UNCHANGED <<buckets, contracts>>
    BY <1>1, <2>1, <2>2, <2>3, BucketAnswered
  <2>4. CASE Storage!NoBucket(calls[r].on) /\ UNCHANGED dirs
    BY <1>1, <2>1, <2>2, <2>4, NoBucketLeft, BucketAnswered
  <2> QED
    BY <1>6, <2>3, <2>4 DEF Storage!MakeDirectory
<1>7. ASSUME NEW r \in Requests, Storage!RemoveDirectory(r)
      PROVE  BucketInv'
  <2>1. calls[r] # None /\ calls[r].pc = "rmdir" /\ Storage!Answer(r)
        /\ UNCHANGED <<buckets, contracts, listed, deleted, issued, users>>
    BY <1>7 DEF Storage!RemoveDirectory, Storage!At, Storage!control
  <2>2. contracts \in 0 .. MaxContracts /\ dirs \subseteq Buckets
        /\ buckets \in [Buckets -> Storage!Entry \cup {None}]
    BY <1>1 DEF Storage!TypeOK
  <2>3. dirs' \in {dirs, dirs \ {calls[r].on}}
    BY <1>7 DEF Storage!RemoveDirectory
  <2>4. calls[r].on \notin raced => buckets[calls[r].on] = None
    BY <2>1 DEF BucketInv, BucketCalls
  <2> QED
    BY <1>1, <2>1, <2>2, <2>3, <2>4, BucketAnswered
<1>8. ASSUME NEW r \in Requests, Storage!DropOldPlan(r)
      PROVE  BucketInv'
  <2> DEFINE call == [calls[r] EXCEPT !.pc = "create"]
  <2>1. calls[r] # None /\ calls[r].pc = "delete" /\ Storage!NoBucket(calls[r].on)
        /\ Storage!Proceed(r, call) /\ UNCHANGED <<listed, deleted, issued, users, dirs>>
    BY <1>8 DEF Storage!DropOldPlan, Storage!At, Storage!gateway
  <2>2. call \in Storage!Call /\ call.on = calls[r].on /\ call.pc = "create"
    BY <1>1, <2>1 DEF Storage!Call
  <2>3. contracts \in 0 .. MaxContracts
    BY <1>1 DEF Storage!TypeOK
  <2>4. call.on \notin raced' => call.on \in dirs
    BY <2>1, <2>2 DEF BucketInv, BucketCalls, Storage!Proceed
  <2> HIDE DEF call
  <2> QED
    BY <1>1, <2>1, <2>2, <2>3, <2>4, NoBucketLeft, BucketGoesOn
<1>9. ASSUME NEW r \in Requests, Storage!MakeNewPlan(r)
      PROVE  BucketInv'
  <2>1. calls[r] # None /\ calls[r].pc = "create" /\ Storage!Answer(r)
        /\ UNCHANGED <<listed, deleted, issued, users, dirs>>
    BY <1>9 DEF Storage!MakeNewPlan, Storage!At, Storage!gateway
  <2>2. contracts \in 0 .. MaxContracts /\ dirs \subseteq Buckets
        /\ buckets \in [Buckets -> Storage!Entry \cup {None}]
    BY <1>1 DEF Storage!TypeOK
  <2>3. calls[r].on \notin raced => calls[r].on \in dirs
    BY <2>1 DEF BucketInv, BucketCalls
  <2>4. CASE Storage!NewBucket(calls[r].on)
    BY <1>1, <2>1, <2>2, <2>3, <2>4, NewBucketMade, BucketAnswered
  <2>5. CASE UNCHANGED <<buckets, contracts>>
    BY <1>1, <2>1, <2>2, <2>3, <2>5, BucketAnswered
  <2> QED
    BY <1>9, <2>4, <2>5 DEF Storage!MakeNewPlan
<1>10. ASSUME NEW b \in Buckets, NEW S \in SUBSET Storage!Settings, Storage!ChangeSettings(b, S)
       PROVE  BucketInv'
  <2>1. /\ buckets[b] # None /\ buckets' = [buckets EXCEPT ![b].settings = S]
        /\ UNCHANGED <<calls, contracts, listed, deleted, issued, users, dirs>>
        /\ raced' = IF {q \in Requests : calls[q] # None /\ calls[q].on = b} = {}
                    THEN raced ELSE raced \cup {b}
    BY <1>10 DEF Storage!ChangeSettings, Storage!AtOnce, Storage!About, Storage!gateway
  <2>2. /\ buckets' \in [Buckets -> Storage!Entry \cup {None}]
        /\ \A c \in Buckets \ {b} : buckets'[c] = buckets[c]
    <3>1. buckets[b] \in Storage!Entry /\ buckets \in [Buckets -> Storage!Entry \cup {None}]
      BY <1>1, <2>1 DEF Storage!TypeOK
    <3>2. [buckets[b] EXCEPT !.settings = S] \in Storage!Entry
      BY <3>1 DEF Storage!Entry
    <3> QED
      BY <2>1, <3>1, <3>2
  <2>3. /\ raced \subseteq raced' /\ raced' \subseteq raced \cup {b}
        /\ b \notin raced' => \A q \in Requests : calls[q] # None => calls[q].on # b
    BY <2>1
  <2>4. Storage!TypeOK'
    BY <1>1, <2>1, <2>2, <2>3 DEF Storage!TypeOK
  <2>5. RacesNoted' /\ BucketCalls'
    BY <1>1, <2>1, <2>2, <2>3 DEF BucketInv, RacesNoted, BucketCalls
  <2>6. Served'
    BY <2>1, <2>2, <2>3 DEF BucketInv, Served
  <2> QED
    BY <2>4, <2>5, <2>6 DEF BucketInv
<1>11. ASSUME NEW keep \in {{}, dirs}, Storage!Restart(keep)
       PROVE  BucketInv'
  <2>1. Storage!TypeOK'
    BY <1>1, <1>11 DEF Storage!Restart, Storage!TypeOK
  <2> QED
    BY <2>1, <1>11 DEF Storage!Restart, BucketInv, RacesNoted, BucketCalls, Served
<1>12. Storage!Next => Storage!BucketOps \/ Storage!SettingOps \/ Storage!Restarts
  <2>1. ~ Storage!OwnerOps
    BY DEF Storage!OwnerOps
  <2>2. \A r \in Requests : calls[r] # None =>
           calls[r].pc \notin {"register", "deregister", "unlist"}
    BY <1>1 DEF Storage!Call
  <2>3. ~ Storage!KeyOps
    BY <2>2 DEF Storage!KeyOps, Storage!RegisterKey, Storage!Deregister,
                Storage!Forget, Storage!At
  <2> QED
    BY <2>1, <2>3 DEF Storage!Next
<1>13. CASE Storage!BucketOps
  BY <1>3, <1>4, <1>5, <1>6, <1>7, <1>8, <1>9, <1>13 DEF Storage!BucketOps
<1>14. CASE Storage!SettingOps
  <2>1. PICK b \in Buckets, s \in Storage!Settings :
          buckets[b] # None /\ (Storage!PutSetting(b, s) \/ Storage!DeleteSetting(b, s))
    BY <1>14 DEF Storage!SettingOps
  <2>2. buckets[b].settings \in SUBSET Storage!Settings
    BY <1>1, <2>1 DEF Storage!TypeOK, Storage!Entry
  <2> QED
    BY <1>10, <2>1, <2>2 DEF Storage!PutSetting, Storage!DeleteSetting
<1>15. CASE Storage!Restarts
  BY <1>11, <1>15 DEF Storage!Restarts
<1> QED
  BY <1>2, <1>12, <1>13, <1>14, <1>15

-----------------------------------------------------------------------------
(* Access keys and the users of the gateway *)

KeyBounds == MaxKeys = 1 /\ MaxIssued \in Nat /\ MaxContracts \in Nat

Lists(l, o, k) == l[o] # None /\ k \in l[o]

\* A key is its owner's and one of those issued; at most one is listed or in a
\* request's hands.
KeysOwned ==
    /\ \A o \in Keys!Owners : listed[o] # None =>
         \A k, l \in listed[o] : k[1] = o /\ k[2] <= issued[o] /\ k = l
    /\ \A k \in users : k[2] <= issued[k[1]]
    /\ \A r \in Requests : calls[r] # None =>
         \A k, l \in calls[r].keys :
            k[1] = calls[r].on /\ k[2] <= issued[calls[r].on] /\ k = l

\* A listed key authenticates, or will, or is about to be no longer listed.
KeysServe ==
    \A o \in Keys!Owners, k \in Keys!Keys : Lists(listed, o, k) /\ k \notin users =>
        \E r \in Requests : /\ calls[r] # None /\ calls[r].on = o
                            /\ calls[r].pc \in {"register", "unlist"} /\ k \in calls[r].keys

KeysStop ==
    \A k \in users : Lists(listed, k[1], k) \/ k[1] \in raced
                       \/ \E r \in Requests : calls[r] # None /\ calls[r].on = k[1]

\* What a request that is alone with its owner may rely on: the gateway knows no
\* key that is not listed, and neither the one it is about to register nor those
\* it has deregistered.
KeyCalls ==
    \A r \in Requests : calls[r] # None /\ calls[r].on \notin raced =>
        /\ \A k \in users : k[1] = calls[r].on => Lists(listed, k[1], k)
        /\ calls[r].pc = "register" => \A k \in calls[r].keys : Lists(listed, calls[r].on, k)
        /\ calls[r].pc \in {"register", "unlist"} => calls[r].keys \cap users = {}
        /\ calls[r].pc \in {"deregister", "unlist"} /\ calls[r].all =>
             \A k \in Keys!Keys : Lists(listed, calls[r].on, k) => k \in calls[r].keys

KeyInv == Keys!TypeOK /\ RacesNoted /\ KeysOwned /\ KeysServe /\ KeysStop /\ KeyCalls

LEMMA KeyStarts == ASSUME KeyBounds, Keys!Init PROVE KeyInv
<1>1. Keys!TypeOK
  BY DEF Keys!Init, Keys!TypeOK, KeyBounds
<1> QED
  BY <1>1 DEF Keys!Init, KeyInv, RacesNoted, KeysOwned, KeysServe, KeysStop, KeyCalls, Lists

LEMMA KeyTypes ==
  ASSUME KeyInv
  PROVE  /\ \A o \in Keys!Owners : listed[o] # None => listed[o] \subseteq Keys!Keys
         /\ \A o \in Keys!Owners : issued[o] \in 0 .. MaxIssued
         /\ users \subseteq Keys!Keys
         /\ \A r \in Requests : calls[r] # None =>
              /\ calls[r] \in Keys!Call
              /\ calls[r].on \in Keys!Owners /\ calls[r].keys \subseteq Keys!Keys
              /\ calls[r].pc \in {"register", "deregister", "unlist"}
              /\ calls[r].pc \in {"deregister", "unlist"} => calls[r].all \in BOOLEAN
         /\ \A k \in Keys!Keys : k[1] \in Keys!Owners /\ k[2] \in Nat
  BY DEF KeyInv, Keys!TypeOK, Keys!Call, Keys!Keys

\* The gateway knows no key of an owner whom no request is about, but the listed.
LEMMA NobodyElse ==
  ASSUME KeyInv, NEW o \in Keys!Owners, o \notin raced,
         \A q \in Requests : calls[q] # None => calls[q].on # o
  PROVE  \A k \in users : k[1] = o => Lists(listed, o, k)
  BY DEF KeyInv, KeysStop

\* Request r takes up o, and changes nothing else.
LEMMA KeyProceeds ==
  ASSUME KeyInv, NEW r \in Requests, NEW call \in Keys!Call, Keys!Proceed(r, call)
  PROVE  /\ calls' \in [Requests -> Keys!Call \cup {None}] /\ RacesNoted'
         /\ raced \subseteq raced' /\ raced' \subseteq raced \cup {call.on}
         /\ calls'[r] = call /\ call # None
         /\ \A q \in Requests \ {r} : calls'[q] = calls[q]
         /\ call.on \notin raced' =>
              \A q \in Requests \ {r} : calls[q] # None => calls[q].on # call.on
<1>1. /\ calls' = [calls EXCEPT ![r] = call]
      /\ raced' = IF {q \in Requests : calls[q] # None /\ calls[q].on = call.on} \subseteq {r}
                  THEN raced ELSE raced \cup {call.on}
  BY DEF Keys!Proceed, Keys!About
<1>2. calls \in [Requests -> Keys!Call \cup {None}] /\ RacesNoted
  BY DEF KeyInv, Keys!TypeOK
<1>3. None \notin Keys!Call
  BY EngineAssumption
<1> HIDE DEF RacesNoted
<1> QED
  BY <1>1, <1>2, <1>3, Proceeding

LEMMA KeyTaken ==
  ASSUME KeyInv, NEW r \in Requests, calls[r] = None, NEW o \in Keys!Owners,
         NEW call \in Keys!Call, call.on = o, call.pc = "deregister",
         call.keys \subseteq listed[o], listed[o] # None,
         call.all => call.keys = listed[o],
         Keys!Proceed(r, call),
         UNCHANGED <<buckets, contracts, listed, deleted, issued, users, dirs>>
  PROVE  KeyInv'
<1>1. /\ calls' \in [Requests -> Keys!Call \cup {None}] /\ RacesNoted'
      /\ raced \subseteq raced' /\ raced' \subseteq raced \cup {o}
      /\ calls'[r] = call /\ call # None
      /\ \A q \in Requests \ {r} : calls'[q] = calls[q]
      /\ o \notin raced' =>
           \A q \in Requests \ {r} : calls[q] # None => calls[q].on # o
  BY KeyProceeds
<1>2. Keys!TypeOK'
  BY <1>1 DEF KeyInv, Keys!TypeOK
<1>3. KeysOwned'
  BY <1>1 DEF KeyInv, KeysOwned
<1>4. KeysServe'
  BY <1>1 DEF KeyInv, KeysServe, Lists
<1>5. KeysStop'
  BY <1>1 DEF KeyInv, KeysStop, Lists
<1>6. KeyCalls'
  <2>1. o \notin raced' => \A k \in users : k[1] = o => Lists(listed, o, k)
    BY <1>1, NobodyElse
  <2>2. \A k \in Keys!Keys : Lists(listed, o, k) /\ call.all => k \in call.keys
    BY DEF Lists
  <2>3. \A q \in Requests \ {r} : calls'[q] # None /\ calls'[q].on \notin raced' =>
           calls[q] # None /\ calls[q].on \notin raced
    BY <1>1
  <2>4. KeyCalls /\ (\A x, k : Lists(listed', x, k) <=> Lists(listed, x, k)) /\ users' = users
    BY DEF KeyInv, Lists
  <2> SUFFICES ASSUME NEW q \in Requests, calls'[q] # None, calls'[q].on \notin raced'
               PROVE  /\ \A k \in users : k[1] = calls'[q].on => Lists(listed, k[1], k)
                      /\ calls'[q].pc = "register" =>
                           \A k \in calls'[q].keys : Lists(listed, calls'[q].on, k)
                      /\ calls'[q].pc \in {"register", "unlist"} => calls'[q].keys \cap users = {}
                      /\ calls'[q].pc \in {"deregister", "unlist"} /\ calls'[q].all =>
                           \A k \in Keys!Keys : Lists(listed, calls'[q].on, k) => k \in calls'[q].keys
    BY <2>4 DEF KeyCalls
  <2>5. CASE q = r
    BY <2>5, <1>1, <2>1, <2>2
  <2>6. CASE q # r
    BY <2>6, <1>1, <2>3, <2>4 DEF KeyCalls
  <2> QED
    BY <2>5, <2>6
<1> QED
  BY <1>1, <1>2, <1>3, <1>4, <1>5, <1>6 DEF KeyInv

\* CreateAccount and CreatePermission.
LEMMA OwnerCreated ==
  ASSUME KeyInv, NEW o \in Keys!Owners, listed[o] = None,
         listed' = [listed EXCEPT ![o] = {}], Keys!AtOnce(o),
         UNCHANGED <<buckets, contracts, deleted, issued, users, dirs>>
  PROVE  KeyInv'
<1>1. /\ calls' = calls
      /\ raced \subseteq raced' /\ raced' \subseteq raced \cup {o}
      /\ o \notin raced' => \A q \in Requests : calls[q] # None => calls[q].on # o
  BY DEF Keys!AtOnce, Keys!About
<1>2. /\ listed' \in [Keys!Owners -> (SUBSET Keys!Keys) \cup {None}]
      /\ \A p \in Keys!Owners, k \in Keys!Keys : p # o => (Lists(listed', p, k) <=> Lists(listed, p, k))
      /\ \A k \in Keys!Keys : ~ Lists(listed, o, k) /\ ~ Lists(listed', o, k)
      /\ listed'[o] = {}
  <2>1. /\ listed \in [Keys!Owners -> (SUBSET Keys!Keys) \cup {None}]
        /\ {} \in (SUBSET Keys!Keys) \cup {None}
    BY DEF KeyInv, Keys!TypeOK
  <2> QED
    BY <2>1 DEF Lists
<1>3. Keys!TypeOK'
  BY <1>1, <1>2 DEF KeyInv, Keys!TypeOK
<1>4. KeysOwned' /\ RacesNoted'
  BY <1>1, <1>2 DEF KeyInv, KeysOwned, RacesNoted
<1>5. KeysServe'
  <2> SUFFICES ASSUME NEW p \in Keys!Owners, NEW k \in Keys!Keys,
                      Lists(listed', p, k), k \notin users
               PROVE  \E q \in Requests :
                        /\ calls[q] # None /\ calls[q].on = p
                        /\ calls[q].pc \in {"register", "unlist"} /\ k \in calls[q].keys
    BY <1>1 DEF KeysServe
  <2>1. Lists(listed, p, k)
    BY <1>2
  <2> QED
    BY <2>1 DEF KeyInv, KeysServe
<1>6. KeysStop'
  BY <1>1, <1>2, KeyTypes DEF KeyInv, KeysStop
<1>7. KeyCalls'
  <2>1. ASSUME NEW q \in Requests, calls[q] # None, calls[q].on \notin raced'
        PROVE  /\ calls[q].on # o /\ calls[q].on \notin raced
               /\ calls[q].on \in Keys!Owners /\ calls[q].keys \subseteq Keys!Keys
    BY <1>1, <2>1, KeyTypes
  <2> QED
    BY <1>1, <1>2, <2>1, KeyTypes DEF KeyInv, KeyCalls
<1> QED
  BY <1>3, <1>4, <1>5, <1>6, <1>7 DEF KeyInv

\* What an answer leaves of the other requests.
LEMMA KeyAnswered ==
  ASSUME KeyInv, NEW r \in Requests, calls[r] # None, Keys!Answer(r)
  PROVE  /\ calls' \in [Requests -> Keys!Call \cup {None}] /\ RacesNoted'
         /\ raced' = raced
         /\ \A q \in Requests : calls'[q] # None =>
              /\ q # r /\ calls[q] # None /\ calls'[q] = calls[q]
              /\ calls[q].on \notin raced => calls[q].on # calls[r].on
         /\ \A q \in Requests \ {r} : calls'[q] = calls[q]
<1>1. /\ calls' = [calls EXCEPT ![r] = None] /\ raced' = raced
      /\ calls \in [Requests -> Keys!Call \cup {None}] /\ RacesNoted
  BY DEF Keys!Answer, KeyInv, Keys!TypeOK
<1>2. /\ calls' \in [Requests -> Keys!Call \cup {None}] /\ RacesNoted'
      /\ calls'[r] = None
      /\ \A q \in Requests \ {r} : calls'[q] = calls[q]
  BY <1>1, Answering
<1> QED
  BY <1>1, <1>2 DEF RacesNoted

\* A key of one owner that is taken off its list, or all of them.
LEMMA KeyUnlisted ==
  ASSUME KeyInv, NEW o \in Keys!Owners, NEW keys \in SUBSET Keys!Keys,
         listed' = [listed EXCEPT ![o] = None] \/ Keys!Unlist(o, keys)
  PROVE  /\ listed' \in [Keys!Owners -> (SUBSET Keys!Keys) \cup {None}]
         /\ \A p \in Keys!Owners, k \in Keys!Keys :
              /\ Lists(listed', p, k) => Lists(listed, p, k)
              /\ p # o => (Lists(listed', p, k) <=> Lists(listed, p, k))
         /\ \A p \in Keys!Owners : listed'[p] # None => listed[p] # None /\ listed'[p] \subseteq listed[p]
<1>1. listed \in [Keys!Owners -> (SUBSET Keys!Keys) \cup {None}]
  BY DEF KeyInv, Keys!TypeOK
<1>2. CASE listed' = [listed EXCEPT ![o] = None]
  BY <1>1, <1>2 DEF Lists
<1>3. CASE Keys!Unlist(o, keys)
  <2>1. CASE listed[o] = None
    BY <1>1, <1>3, <2>1 DEF Keys!Unlist, Lists
  <2>2. CASE listed[o] # None
    <3>1. /\ listed' = [listed EXCEPT ![o] = listed[o] \ keys]
          /\ listed[o] \ keys \in SUBSET Keys!Keys
      BY <1>1, <1>3, <2>2 DEF Keys!Unlist
    <3> QED
      BY <1>1, <2>2, <3>1 DEF Lists
  <2> QED
    BY <2>1, <2>2
<1> QED
  BY <1>2, <1>3

\* Unlisting some keys leaves the others.
LEMMA KeyStays ==
  ASSUME listed \in [Keys!Owners -> (SUBSET Keys!Keys) \cup {None}],
         NEW o \in Keys!Owners, NEW keys, Keys!Unlist(o, keys)
  PROVE  \A k : Lists(listed, o, k) /\ k \notin keys => Lists(listed', o, k)
<1>1. CASE listed[o] = None
  BY <1>1 DEF Lists
<1>2. CASE listed[o] # None
  <2>1. listed'[o] = listed[o] \ keys
    BY <1>2 DEF Keys!Unlist
  <2>2. listed'[o] # None
    BY <2>1, <1>2, EngineAssumption
  <2> QED
    BY <2>1, <2>2 DEF Lists
<1> QED
  BY <1>1, <1>2

\* A request that is answered and took its keys off its owner's list, or all keys.
LEMMA KeyDropped ==
  ASSUME KeyInv, NEW r \in Requests, calls[r] # None, Keys!Answer(r),
         UNCHANGED <<buckets, contracts, issued, users, dirs>>,
         deleted' \subseteq Permissions,
         listed' = [listed EXCEPT ![calls[r].on] = None]
           \/ Keys!Unlist(calls[r].on, calls[r].keys),
         calls[r].on \notin raced =>
           \A k \in users : k[1] = calls[r].on => Lists(listed', k[1], k)
  PROVE  KeyInv'
<1>1. /\ listed' \in [Keys!Owners -> (SUBSET Keys!Keys) \cup {None}]
      /\ \A p \in Keys!Owners, k \in Keys!Keys :
           /\ Lists(listed', p, k) => Lists(listed, p, k)
           /\ p # calls[r].on => (Lists(listed', p, k) <=> Lists(listed, p, k))
      /\ \A p \in Keys!Owners :
           listed'[p] # None => listed[p] # None /\ listed'[p] \subseteq listed[p]
  BY KeyTypes, KeyUnlisted
<1>2. \A k \in calls[r].keys : ~ Lists(listed', calls[r].on, k)
  <2>1. listed \in [Keys!Owners -> (SUBSET Keys!Keys) \cup {None}] /\ calls[r].on \in Keys!Owners
    BY KeyTypes DEF KeyInv, Keys!TypeOK
  <2>2. CASE listed' = [listed EXCEPT ![calls[r].on] = None]
    BY <2>1, <2>2 DEF Lists
  <2>3. CASE Keys!Unlist(calls[r].on, calls[r].keys) /\ listed[calls[r].on] = None
    BY <2>1, <2>3 DEF Keys!Unlist, Lists
  <2>4. CASE Keys!Unlist(calls[r].on, calls[r].keys) /\ listed[calls[r].on] # None
    <3>1. listed'[calls[r].on] = listed[calls[r].on] \ calls[r].keys
      BY <2>1, <2>4 DEF Keys!Unlist
    <3> QED
      BY <3>1 DEF Lists
  <2> QED
    BY <2>2, <2>3, <2>4
<1>3. Keys!TypeOK'
  BY <1>1, KeyAnswered, KeyTypes DEF KeyInv, Keys!TypeOK
<1>4. KeysOwned'
  BY <1>1, KeyAnswered, KeyTypes DEF KeyInv, KeysOwned
<1>5. KeysServe'
  <2> SUFFICES ASSUME NEW o \in Keys!Owners, NEW k \in Keys!Keys, Lists(listed', o, k), k \notin users
               PROVE  \E q \in Requests :
                        /\ calls'[q] # None /\ calls'[q].on = o
                        /\ calls'[q].pc \in {"register", "unlist"} /\ k \in calls'[q].keys
    BY DEF KeysServe
  <2>1. PICK q \in Requests : /\ calls[q] # None /\ calls[q].on = o
                             /\ calls[q].pc \in {"register", "unlist"} /\ k \in calls[q].keys
    BY <1>1 DEF KeyInv, KeysServe
  <2>2. calls[r].on = o => k \notin calls[r].keys
    BY <1>2
  <2>3. q # r
    BY <2>1, <2>2
  <2> QED
    BY <2>1, <2>3, KeyAnswered
<1>6. KeysStop'
  <2> SUFFICES ASSUME NEW k \in users, ~ Lists(listed', k[1], k), k[1] \notin raced
               PROVE  \E q \in Requests : calls'[q] # None /\ calls'[q].on = k[1]
    BY KeyAnswered DEF KeysStop
  <2>1. k[1] # calls[r].on
    OBVIOUS
  <2>2. k[1] \in Keys!Owners /\ k \in Keys!Keys
    BY KeyTypes
  <2>3. PICK q \in Requests : calls[q] # None /\ calls[q].on = k[1]
    BY <1>1, <2>1, <2>2 DEF KeyInv, KeysStop
  <2> QED
    BY <2>1, <2>3, KeyAnswered
<1>7. KeyCalls'
  <2> SUFFICES ASSUME NEW q \in Requests, calls'[q] # None, calls'[q].on \notin raced'
               PROVE  /\ \A k \in users : k[1] = calls'[q].on => Lists(listed', k[1], k)
                      /\ calls'[q].pc = "register" =>
                           \A k \in calls'[q].keys : Lists(listed', calls'[q].on, k)
                      /\ calls'[q].pc \in {"register", "unlist"} => calls'[q].keys \cap users = {}
                      /\ calls'[q].pc \in {"deregister", "unlist"} /\ calls'[q].all =>
                           \A k \in Keys!Keys : Lists(listed', calls'[q].on, k) => k \in calls'[q].keys
    <3>1. users' = users
      OBVIOUS
    <3> QED
      BY <3>1 DEF KeyCalls
  <2>1. /\ calls[q] # None /\ calls'[q] = calls[q] /\ calls[q].on \notin raced
        /\ calls[q].on # calls[r].on /\ calls[q].on \in Keys!Owners
        /\ calls[q].keys \subseteq Keys!Keys /\ users \subseteq Keys!Keys
    BY KeyAnswered, KeyTypes
  <2>2. /\ \A k \in users : k[1] = calls[q].on => Lists(listed, k[1], k)
        /\ calls[q].pc = "register" => \A k \in calls[q].keys : Lists(listed, calls[q].on, k)
        /\ calls[q].pc \in {"register", "unlist"} => calls[q].keys \cap users = {}
        /\ calls[q].pc \in {"deregister", "unlist"} /\ calls[q].all =>
             \A k \in Keys!Keys : Lists(listed, calls[q].on, k) => k \in calls[q].keys
    BY <2>1 DEF KeyInv, KeyCalls
  <2>3. \A k \in Keys!Keys : Lists(listed', calls[q].on, k) <=> Lists(listed, calls[q].on, k)
    BY <1>1, <2>1
  <2> QED
    BY <2>1, <2>2, <2>3
<1> QED
  BY <1>3, <1>4, <1>5, <1>6, <1>7, KeyAnswered DEF KeyInv

LEMMA KeyRegistered ==
  ASSUME KeyInv, NEW r \in Requests, Keys!RegisterKey(r)
  PROVE  KeyInv'
<1>1. /\ calls[r] # None /\ calls[r].pc = "register" /\ Keys!Answer(r)
      /\ UNCHANGED <<buckets, contracts, deleted, issued, dirs>>
  BY DEF Keys!RegisterKey, Keys!At
<1>2. CASE users' = users \cup calls[r].keys /\ UNCHANGED listed
  <2>1. Keys!TypeOK'
    BY <1>1, <1>2, KeyAnswered, KeyTypes DEF KeyInv, Keys!TypeOK
  <2>2. KeysOwned'
    BY <1>1, <1>2, KeyAnswered, KeyTypes DEF KeyInv, KeysOwned
  <2>3. KeysServe'
    BY <1>1, <1>2, KeyAnswered DEF KeyInv, KeysServe, Lists
  <2>4. \A k \in calls[r].keys : k[1] = calls[r].on /\ (k[1] \notin raced => Lists(listed, k[1], k))
    BY <1>1 DEF KeyInv, KeysOwned, KeyCalls
  <2>5. KeysStop'
    <3> SUFFICES ASSUME NEW k \in users', ~ Lists(listed, k[1], k), k[1] \notin raced
                 PROVE  \E q \in Requests : calls'[q] # None /\ calls'[q].on = k[1]
      BY <1>1, <1>2, KeyAnswered DEF KeysStop, Lists
    <3>1. k \in users
      BY <1>2, <2>4
    <3>2. PICK q \in Requests : calls[q] # None /\ calls[q].on = k[1]
      BY <3>1 DEF KeyInv, KeysStop
    <3>3. q # r
      BY <1>1, <3>1, <3>2 DEF KeyInv, KeyCalls
    <3> QED
      BY <1>1, <3>2, <3>3, KeyAnswered
  <2>6. KeyCalls'
    <3> SUFFICES ASSUME NEW q \in Requests, calls'[q] # None, calls'[q].on \notin raced'
                 PROVE  /\ \A k \in users' : k[1] = calls'[q].on => Lists(listed, k[1], k)
                        /\ calls'[q].pc = "register" => \A k \in calls'[q].keys : Lists(listed, calls'[q].on, k)
                        /\ calls'[q].pc \in {"register", "unlist"} => calls'[q].keys \cap users' = {}
                        /\ calls'[q].pc \in {"deregister", "unlist"} /\ calls'[q].all =>
                             \A k \in Keys!Keys : Lists(listed, calls'[q].on, k) => k \in calls'[q].keys
      BY <1>2 DEF KeyCalls, Lists
    <3>1. /\ calls[q] # None /\ calls'[q] = calls[q] /\ calls[q].on \notin raced
          /\ calls[q].on # calls[r].on
      BY <1>1, KeyAnswered
    <3>2. \A k \in calls[q].keys : k[1] = calls[q].on
      BY <3>1 DEF KeyInv, KeysOwned
    <3> QED
      BY <1>2, <2>4, <3>1, <3>2 DEF KeyInv, KeyCalls
  <2> QED
    BY <1>1, <2>1, <2>2, <2>3, <2>5, <2>6, KeyAnswered DEF KeyInv
<1>3. CASE Keys!Unlist(calls[r].on, calls[r].keys) /\ UNCHANGED users
  <2>1. /\ listed \in [Keys!Owners -> (SUBSET Keys!Keys) \cup {None}]
        /\ calls[r].on \in Keys!Owners /\ deleted \subseteq Permissions
    BY <1>1, KeyTypes DEF KeyInv, Keys!TypeOK
  <2>2. calls[r].on \notin raced =>
           \A k \in users : k[1] = calls[r].on => Lists(listed, k[1], k) /\ k \notin calls[r].keys
    BY <1>1 DEF KeyInv, KeyCalls
  <2>3. calls[r].on \notin raced =>
           \A k \in users : k[1] = calls[r].on => Lists(listed', k[1], k)
    BY <1>3, <2>1, <2>2, KeyStays
  <2> QED
    BY <1>1, <1>3, <2>1, <2>3, KeyDropped
<1> QED
  BY <1>2, <1>3 DEF Keys!RegisterKey

LEMMA KeyForgotten ==
  ASSUME KeyInv, NEW r \in Requests, Keys!Forget(r)
  PROVE  KeyInv'
<1>1. /\ calls[r] # None /\ calls[r].pc = "unlist" /\ Keys!Answer(r)
      /\ UNCHANGED <<buckets, contracts, issued, users, dirs>>
  BY DEF Keys!Forget, Keys!At, Keys!gateway
<1>2. /\ listed \in [Keys!Owners -> (SUBSET Keys!Keys) \cup {None}]
      /\ calls[r].on \in Keys!Owners /\ deleted \subseteq Permissions
  BY <1>1, KeyTypes DEF KeyInv, Keys!TypeOK
<1>3. calls[r].on \notin raced =>
         \A k \in users : k[1] = calls[r].on => Lists(listed, k[1], k) /\ k \notin calls[r].keys
  BY <1>1 DEF KeyInv, KeyCalls
<1>4. CASE calls[r].all
  <2>1. listed' = [listed EXCEPT ![calls[r].on] = None] /\ deleted' \subseteq Permissions
    BY <1>2, <1>4 DEF Keys!Forget
  <2>2. calls[r].on \notin raced => \A k \in users : k[1] # calls[r].on
    BY <1>1, <1>3, <1>4, KeyTypes DEF KeyInv, KeyCalls
  <2> QED
    BY <1>1, <2>1, <2>2, KeyDropped
<1>5. CASE ~ calls[r].all
  <2>1. Keys!Unlist(calls[r].on, calls[r].keys) /\ deleted' \subseteq Permissions
    BY <1>2, <1>5 DEF Keys!Forget
  <2>2. calls[r].on \notin raced =>
           \A k \in users : k[1] = calls[r].on => Lists(listed', k[1], k)
    BY <1>2, <1>3, <2>1, KeyStays
  <2> QED
    BY <1>1, <2>1, <2>2, KeyDropped
<1> QED
  BY <1>4, <1>5

LEMMA KeySets == \A S : Keys!Cardinality(S) = Cardinality(S)
  BY DEF Keys!Cardinality, Cardinality

LEMMA KeyCreated ==
  ASSUME KeyBounds, KeyInv, NEW r \in Requests, NEW o \in Keys!Owners, Keys!CreateKey(r, o)
  PROVE  KeyInv'
<1> DEFINE key == <<o, issued[o] + 1>>
           call == [pc |-> "register", on |-> o, keys |-> {key}]
<1>1. /\ calls[r] = None /\ listed[o] # None /\ Keys!Cardinality(listed[o]) < MaxKeys
      /\ issued[o] < MaxIssued
      /\ issued' = [issued EXCEPT ![o] = issued[o] + 1]
      /\ listed' = [listed EXCEPT ![o] = listed[o] \cup {key}]
      /\ Keys!Proceed(r, call)
      /\ UNCHANGED <<buckets, contracts, deleted, users, dirs>>
  BY DEF Keys!CreateKey, Keys!gateway
<1>2. /\ key \in Keys!Keys /\ key[1] = o /\ key[2] = issued[o] + 1
      /\ issued[o] \in Nat /\ issued[o] + 1 \in 0 .. MaxIssued
  <2>1. issued[o] \in 0 .. MaxIssued
    BY KeyTypes
  <2>2. issued[o] + 1 \in 1 .. MaxIssued
    BY <1>1, <2>1 DEF KeyBounds
  <2> QED
    BY <2>1, <2>2 DEF Keys!Keys
<1>3. call \in Keys!Call /\ call.on = o /\ call.pc = "register" /\ call.keys = {key}
  BY <1>2 DEF Keys!Call
<1> HIDE DEF key, call
<1>4. /\ calls' \in [Requests -> Keys!Call \cup {None}] /\ RacesNoted'
      /\ raced \subseteq raced' /\ raced' \subseteq raced \cup {o}
      /\ calls'[r] = call /\ call # None
      /\ \A q \in Requests \ {r} : calls'[q] = calls[q]
      /\ o \notin raced' =>
           \A q \in Requests \ {r} : calls[q] # None => calls[q].on # o
  BY <1>1, <1>3, KeyProceeds
<1>5. listed[o] = {}
  <2> SUFFICES ASSUME NEW k \in listed[o] PROVE FALSE
    OBVIOUS
  <2>1. listed[o] = {k}
    BY <1>1 DEF KeyInv, KeysOwned
  <2>2. Cardinality(listed[o]) = 1
    BY <2>1, FS_Singleton
  <2> QED
    BY <1>1, <2>2, KeySets DEF KeyBounds
<1>6. /\ listed' \in [Keys!Owners -> (SUBSET Keys!Keys) \cup {None}]
      /\ issued' \in [Keys!Owners -> 0 .. MaxIssued]
      /\ \A p \in Keys!Owners \ {o} : listed'[p] = listed[p] /\ issued'[p] = issued[p]
      /\ listed'[o] = {key} /\ issued'[o] = issued[o] + 1
  <2>1. /\ listed \in [Keys!Owners -> (SUBSET Keys!Keys) \cup {None}]
        /\ issued \in [Keys!Owners -> 0 .. MaxIssued]
    BY DEF KeyInv, Keys!TypeOK
  <2>2. listed[o] \cup {key} = {key} /\ {key} \in (SUBSET Keys!Keys) \cup {None}
    BY <1>2, <1>5
  <2> QED
    BY <1>1, <1>2, <2>1, <2>2
<1>7. /\ \A p \in Keys!Owners \ {o}, k \in Keys!Keys : Lists(listed', p, k) <=> Lists(listed, p, k)
      /\ \A k \in Keys!Keys : Lists(listed', o, k) <=> k = key
      /\ \A k \in Keys!Keys : ~ Lists(listed, o, k)
      /\ key \notin users
  <2>1. {key} # None
    BY <1>2, EngineAssumption
  <2>2. \A k \in users : k[2] <= issued[k[1]]
    BY DEF KeyInv, KeysOwned
  <2>3. key \notin users
    BY <1>2, <2>2
  <2> QED
    BY <1>5, <1>6, <2>1, <2>3 DEF Lists
<1>8. Keys!TypeOK'
  BY <1>1, <1>4, <1>6 DEF KeyInv, Keys!TypeOK
<1>9. KeysOwned'
  <2>1. \A p \in Keys!Owners : issued[p] <= issued'[p] /\ issued[p] \in Nat /\ issued'[p] \in Nat
    BY <1>2, <1>6, KeyTypes
  <2>2. \A p \in Keys!Owners : listed'[p] # None =>
           \A k, l \in listed'[p] : k[1] = p /\ k[2] <= issued'[p] /\ k = l
    BY <1>2, <1>6, <2>1 DEF KeyInv, KeysOwned
  <2>3. \A k \in users : k[2] <= issued'[k[1]]
    BY <2>1, KeyTypes DEF KeyInv, KeysOwned
  <2>4. \A q \in Requests : calls'[q] # None =>
           \A k, l \in calls'[q].keys :
              k[1] = calls'[q].on /\ k[2] <= issued'[calls'[q].on] /\ k = l
    <3> SUFFICES ASSUME NEW q \in Requests, calls'[q] # None
                 PROVE  \A k, l \in calls'[q].keys :
                          k[1] = calls'[q].on /\ k[2] <= issued'[calls'[q].on] /\ k = l
      OBVIOUS
    <3>1. CASE q = r
      BY <3>1, <1>2, <1>3, <1>4, <1>6, <2>1
    <3>2. CASE q # r
      BY <3>2, <1>4, <2>1, KeyTypes DEF KeyInv, KeysOwned
    <3> QED
      BY <3>1, <3>2
  <2> QED
    BY <1>1, <2>2, <2>3, <2>4 DEF KeysOwned
<1>10. KeysServe'
  <2> SUFFICES ASSUME NEW p \in Keys!Owners, NEW k \in Keys!Keys,
                      Lists(listed', p, k), k \notin users
               PROVE  \E q \in Requests :
                        /\ calls'[q] # None /\ calls'[q].on = p
                        /\ calls'[q].pc \in {"register", "unlist"} /\ k \in calls'[q].keys
    BY <1>1 DEF KeysServe
  <2>1. CASE p = o
    BY <2>1, <1>3, <1>4, <1>7
  <2>2. CASE p # o
    <3>1. PICK q \in Requests : /\ calls[q] # None /\ calls[q].on = p
                               /\ calls[q].pc \in {"register", "unlist"} /\ k \in calls[q].keys
      BY <2>2, <1>7 DEF KeyInv, KeysServe
    <3> QED
      BY <3>1, <1>1, <1>4
  <2> QED
    BY <2>1, <2>2
<1>11. KeysStop'
  <2> SUFFICES ASSUME NEW k \in users, ~ Lists(listed', k[1], k), k[1] \notin raced'
               PROVE  \E q \in Requests : calls'[q] # None /\ calls'[q].on = k[1]
    <3>1. users' = users
      BY <1>1
    <3> QED
      BY <3>1 DEF KeysStop
  <2>1. CASE k[1] = o
    BY <2>1, <1>3, <1>4
  <2>2. CASE k[1] # o
    <3>1. ~ Lists(listed, k[1], k)
      BY <2>2, <1>7, KeyTypes
    <3>2. PICK q \in Requests : calls[q] # None /\ calls[q].on = k[1]
      BY <3>1, <1>4 DEF KeyInv, KeysStop
    <3> QED
      BY <3>2, <1>1, <1>4
  <2> QED
    BY <2>1, <2>2
<1>12. KeyCalls'
  <2> SUFFICES ASSUME NEW q \in Requests, calls'[q] # None, calls'[q].on \notin raced'
               PROVE  /\ \A k \in users : k[1] = calls'[q].on => Lists(listed', k[1], k)
                      /\ calls'[q].pc = "register" =>
                           \A k \in calls'[q].keys : Lists(listed', calls'[q].on, k)
                      /\ calls'[q].pc \in {"register", "unlist"} => calls'[q].keys \cap users = {}
                      /\ calls'[q].pc \in {"deregister", "unlist"} /\ calls'[q].all =>
                           \A k \in Keys!Keys : Lists(listed', calls'[q].on, k) => k \in calls'[q].keys
    <3>1. users' = users
      BY <1>1
    <3> QED
      BY <3>1 DEF KeyCalls
  <2>1. CASE q = r
    <3>1. \A p \in Requests : calls[p] # None => calls[p].on # o
      BY <2>1, <1>1, <1>3, <1>4
    <3>2. o \notin raced
      BY <2>1, <1>3, <1>4
    <3>3. \A k \in users : k[1] # o
      BY <3>1, <3>2, <1>7, NobodyElse, KeyTypes
    <3>4. Lists(listed', o, key)
      BY <1>2, <1>7
    <3> QED
      BY <2>1, <3>3, <3>4, <1>2, <1>3, <1>4, <1>7
  <2>2. CASE q # r
    <3>1. calls[q] # None /\ calls'[q] = calls[q] /\ calls[q].on \notin raced /\ calls[q].on # o
      BY <2>2, <1>3, <1>4
    <3>2. /\ calls[q].on \in Keys!Owners /\ calls[q].keys \subseteq Keys!Keys
          /\ users \subseteq Keys!Keys
      BY <3>1, KeyTypes
    <3>3. /\ \A k \in users : k[1] = calls[q].on => Lists(listed, k[1], k)
          /\ calls[q].pc = "register" => \A k \in calls[q].keys : Lists(listed, calls[q].on, k)
          /\ calls[q].pc \in {"register", "unlist"} => calls[q].keys \cap users = {}
          /\ calls[q].pc \in {"deregister", "unlist"} /\ calls[q].all =>
               \A k \in Keys!Keys : Lists(listed, calls[q].on, k) => k \in calls[q].keys
      BY <3>1 DEF KeyInv, KeyCalls
    <3>4. \A k \in Keys!Keys : Lists(listed', calls[q].on, k) <=> Lists(listed, calls[q].on, k)
      BY <3>1, <3>2, <1>7
    <3> QED
      BY <3>1, <3>2, <3>3, <3>4
  <2> QED
    BY <2>1, <2>2
<1> QED
  BY <1>4, <1>8, <1>9, <1>10, <1>11, <1>12 DEF KeyInv

\* A request that has deregistered its keys, and goes on to take them off the list.
LEMMA KeysDeregistered ==
  ASSUME KeyInv, NEW r \in Requests, calls[r] # None, calls[r].pc = "deregister",
         users' = users \ calls[r].keys,
         Keys!Proceed(r, [calls[r] EXCEPT !.pc = "unlist"]),
         UNCHANGED <<buckets, contracts, listed, deleted, issued, dirs>>
  PROVE  KeyInv'
<1> DEFINE call == [calls[r] EXCEPT !.pc = "unlist"]
<1>1. /\ call \in Keys!Call /\ call.on = calls[r].on /\ call.pc = "unlist"
      /\ call.keys = calls[r].keys /\ call.all = calls[r].all
  BY KeyTypes DEF Keys!Call
<1>2. Keys!Proceed(r, call)
  OBVIOUS
<1> HIDE DEF call
<1>3. /\ calls' \in [Requests -> Keys!Call \cup {None}] /\ RacesNoted'
      /\ raced \subseteq raced' /\ raced' \subseteq raced \cup {calls[r].on}
      /\ calls'[r] = call /\ call # None
      /\ \A q \in Requests \ {r} : calls'[q] = calls[q]
      /\ calls[r].on \notin raced' =>
           \A q \in Requests \ {r} : calls[q] # None => calls[q].on # calls[r].on
  BY <1>1, <1>2, KeyProceeds
<1>4. Keys!TypeOK'
  BY <1>3, KeyTypes DEF KeyInv, Keys!TypeOK
<1>5. KeysOwned'
  BY <1>1, <1>3 DEF KeyInv, KeysOwned
<1>6. \A o, k : Lists(listed', o, k) <=> Lists(listed, o, k)
  BY DEF Lists
<1>7. KeysServe'
  <2> SUFFICES ASSUME NEW o \in Keys!Owners, NEW k \in Keys!Keys, Lists(listed, o, k), k \notin users'
               PROVE  \E q \in Requests :
                        /\ calls'[q] # None /\ calls'[q].on = o
                        /\ calls'[q].pc \in {"register", "unlist"} /\ k \in calls'[q].keys
    BY <1>6 DEF KeysServe
  <2>1. CASE k \in users
    <3>1. k \in calls[r].keys
      BY <2>1
    <3>2. k[1] = calls[r].on
      BY <3>1 DEF KeyInv, KeysOwned
    <3>3. k[1] = o
      BY DEF Lists, KeyInv, KeysOwned
    <3> QED
      BY <1>1, <1>3, <3>1, <3>2, <3>3
  <2>2. CASE k \notin users
    <3>1. PICK q \in Requests : /\ calls[q] # None /\ calls[q].on = o
                               /\ calls[q].pc \in {"register", "unlist"} /\ k \in calls[q].keys
      BY <2>2 DEF KeyInv, KeysServe
    <3>2. q # r
      BY <3>1
    <3> QED
      BY <3>1, <3>2, <1>3
  <2> QED
    BY <2>1, <2>2
<1>8. KeysStop'
  <2> SUFFICES ASSUME NEW k \in users, ~ Lists(listed, k[1], k), k[1] \notin raced'
               PROVE  \E q \in Requests : calls'[q] # None /\ calls'[q].on = k[1]
    BY <1>6 DEF KeysStop
  <2>1. PICK q \in Requests : calls[q] # None /\ calls[q].on = k[1]
    BY <1>3 DEF KeyInv, KeysStop
  <2>2. CASE q = r
    BY <2>1, <2>2, <1>1, <1>3
  <2>3. CASE q # r
    BY <2>1, <2>3, <1>3
  <2> QED
    BY <2>2, <2>3
<1>9. KeyCalls'
  <2> SUFFICES ASSUME NEW q \in Requests, calls'[q] # None, calls'[q].on \notin raced'
               PROVE  /\ \A k \in users' : k[1] = calls'[q].on => Lists(listed, k[1], k)
                      /\ calls'[q].pc = "register" =>
                           \A k \in calls'[q].keys : Lists(listed, calls'[q].on, k)
                      /\ calls'[q].pc \in {"register", "unlist"} => calls'[q].keys \cap users' = {}
                      /\ calls'[q].pc \in {"deregister", "unlist"} /\ calls'[q].all =>
                           \A k \in Keys!Keys : Lists(listed, calls'[q].on, k) => k \in calls'[q].keys
    BY <1>6 DEF KeyCalls
  <2>1. calls[q] # None /\ calls'[q].on = calls[q].on /\ calls[q].on \notin raced
    BY <1>1, <1>3
  <2>2. /\ \A k \in users : k[1] = calls[q].on => Lists(listed, k[1], k)
        /\ calls[q].pc = "register" => \A k \in calls[q].keys : Lists(listed, calls[q].on, k)
        /\ calls[q].pc \in {"register", "unlist"} => calls[q].keys \cap users = {}
        /\ calls[q].pc \in {"deregister", "unlist"} /\ calls[q].all =>
             \A k \in Keys!Keys : Lists(listed, calls[q].on, k) => k \in calls[q].keys
    BY <2>1 DEF KeyInv, KeyCalls
  <2>3. CASE q = r
    BY <2>1, <2>2, <2>3, <1>1, <1>3
  <2>4. CASE q # r
    BY <2>1, <2>2, <2>4, <1>3
  <2> QED
    BY <2>3, <2>4
<1> QED
  BY <1>3, <1>4, <1>5, <1>7, <1>8, <1>9 DEF KeyInv

\* With one key at most, a failure to deregister leaves all of them.
LEMMA KeysLeft ==
  ASSUME KeyInv, NEW r \in Requests, calls[r] # None, Keys!Answer(r),
         UNCHANGED <<buckets, contracts, listed, deleted, issued, dirs, users>>,
         calls[r].pc = "deregister"
  PROVE  KeyInv'
<1>1. \A o, k : Lists(listed', o, k) <=> Lists(listed, o, k)
  BY DEF Lists
<1>2. Keys!TypeOK'
  BY KeyAnswered DEF KeyInv, Keys!TypeOK
<1>3. KeysOwned'
  BY KeyAnswered DEF KeyInv, KeysOwned
<1>4. KeysServe'
  BY <1>1, KeyAnswered DEF KeyInv, KeysServe
<1>5. KeysStop'
  <2> SUFFICES ASSUME NEW k \in users, ~ Lists(listed, k[1], k), k[1] \notin raced
               PROVE  \E q \in Requests : calls'[q] # None /\ calls'[q].on = k[1]
    BY <1>1, KeyAnswered DEF KeysStop
  <2>1. PICK q \in Requests : calls[q] # None /\ calls[q].on = k[1]
    BY DEF KeyInv, KeysStop
  <2>2. q # r
    BY <2>1 DEF KeyInv, KeyCalls
  <2> QED
    BY <2>1, <2>2, KeyAnswered
<1>6. KeyCalls'
  BY <1>1, KeyAnswered DEF KeyInv, KeyCalls
<1> QED
  BY <1>2, <1>3, <1>4, <1>5, <1>6, KeyAnswered DEF KeyInv

LEMMA KeySteps ==
  ASSUME KeyBounds, KeyInv, Keys!Next \/ UNCHANGED storageVars
  PROVE  KeyInv'
<1>1. CASE UNCHANGED storageVars
  BY <1>1 DEF storageVars, KeyInv, Keys!TypeOK, RacesNoted, KeysOwned, KeysServe, KeysStop,
              KeyCalls, Lists
<1>2. CASE Keys!BucketOps
  <2>1. \A r \in Requests : calls[r] # None =>
           calls[r].pc \in {"register", "deregister", "unlist"}
    BY KeyTypes
  <2> QED
    BY <1>2, <2>1 DEF Keys!BucketOps, Keys!MakeDirectory, Keys!RemoveDirectory,
                      Keys!DropOldPlan, Keys!MakeNewPlan, Keys!At
<1>3. CASE Keys!SettingOps
  BY <1>3 DEF Keys!SettingOps
<1>4. ASSUME NEW o \in Keys!Owners, Keys!CreateAccount(o) \/ Keys!CreatePermission(o)
      PROVE  KeyInv'
  <2>1. /\ listed[o] = None /\ listed' = [listed EXCEPT ![o] = {}] /\ Keys!AtOnce(o)
        /\ UNCHANGED <<buckets, contracts, deleted, issued, users, dirs>>
    BY <1>4 DEF Keys!CreateAccount, Keys!CreatePermission, Keys!gateway
  <2> QED
    BY <2>1, OwnerCreated
<1>5. ASSUME NEW r \in Requests, NEW o \in Keys!Owners, Keys!DeleteOwner(r, o)
      PROVE  KeyInv'
  <2> DEFINE call == [pc |-> "deregister", on |-> o, keys |-> listed[o], all |-> TRUE]
  <2>1. /\ calls[r] = None /\ listed[o] # None /\ Keys!Proceed(r, call)
        /\ UNCHANGED <<buckets, contracts, listed, deleted, issued, users, dirs>>
    BY <1>5 DEF Keys!DeleteOwner, Keys!control, Keys!gateway
  <2>2. /\ call \in Keys!Call /\ call.on = o /\ call.pc = "deregister"
        /\ call.keys \subseteq listed[o] /\ call.keys = listed[o]
    BY <2>1, KeyTypes DEF Keys!Call
  <2> HIDE DEF call
  <2> QED
    BY <2>1, <2>2, KeyTaken
<1>6. ASSUME NEW r \in Requests, NEW o \in Keys!Owners, NEW k \in Keys!Keys, Keys!DeleteKey(r, o, k)
      PROVE  KeyInv'
  <2> DEFINE call == [pc |-> "deregister", on |-> o, keys |-> {k}, all |-> FALSE]
  <2>1. /\ calls[r] = None /\ listed[o] # None /\ k \in listed[o] /\ Keys!Proceed(r, call)
        /\ UNCHANGED <<buckets, contracts, listed, deleted, issued, users, dirs>>
    BY <1>6 DEF Keys!DeleteKey, Keys!control, Keys!gateway
  <2>2. /\ call \in Keys!Call /\ call.on = o /\ call.pc = "deregister"
        /\ call.keys \subseteq listed[o] /\ ~ call.all
    BY <2>1 DEF Keys!Call
  <2> HIDE DEF call
  <2> QED
    BY <2>1, <2>2, KeyTaken
<1>7. ASSUME NEW r \in Requests, Keys!Deregister(r)
      PROVE  KeyInv'
  <2>1. /\ calls[r] # None /\ calls[r].pc = "deregister"
        /\ UNCHANGED <<buckets, contracts, listed, deleted, issued, dirs>>
    BY <1>7 DEF Keys!Deregister, Keys!At, Keys!control
  <2>2. CASE users' = users \ calls[r].keys /\ Keys!Proceed(r, [calls[r] EXCEPT !.pc = "unlist"])
    BY <2>1, <2>2, KeysDeregistered
  <2>3. ASSUME NEW gone_ \in SUBSET calls[r].keys, gone_ # calls[r].keys,
               users' = users \ gone_, Keys!Answer(r)
        PROVE  KeyInv'
    <3>1. \A k, l \in calls[r].keys : k = l
      BY <2>1 DEF KeyInv, KeysOwned
    <3>2. gone_ = {}
      BY <2>3, <3>1
    <3>3. users' = users
      BY <2>3, <3>2
    <3> QED
      BY <2>1, <2>3, <3>3, KeysLeft
  <2> QED
    BY <1>7, <2>2, <2>3 DEF Keys!Deregister
<1>8. ASSUME NEW keep \in {{}, dirs}, Keys!Restart(keep)
      PROVE  KeyInv'
  <2>1. /\ listed' = [o \in Keys!Owners |-> None] /\ users' = {}
        /\ calls' = [q \in Requests |-> None] /\ raced' = {}
        /\ UNCHANGED <<contracts, deleted, issued>>
    BY <1>8 DEF Keys!Restart
  <2>2. Keys!TypeOK'
    BY <1>8 DEF Keys!Restart, KeyInv, Keys!TypeOK
  <2> QED
    BY <2>1, <2>2 DEF KeyInv, RacesNoted, KeysOwned, KeysServe, KeysStop, KeyCalls, Lists
<1>9. CASE Keys!OwnerOps
  BY <1>4, <1>5, <1>9 DEF Keys!OwnerOps
<1>10. CASE Keys!KeyOps
  BY <1>6, <1>7, <1>10, KeyCreated, KeyRegistered, KeyForgotten DEF Keys!KeyOps
<1>11. CASE Keys!Restarts
  BY <1>8, <1>11 DEF Keys!Restarts
<1> QED
  BY <1>1, <1>2, <1>3, <1>9, <1>10, <1>11 DEF Keys!Next

-----------------------------------------------------------------------------
(* All of them *)

EngineInv ==
    /\ serving = "buckets" => BucketInv
    /\ serving = "keys" => KeyInv
    /\ serving = "parallel" => StepInv
    /\ serving = "runbook" => RunInv /\ StackInv
    /\ serving = "schedule" => CronInv /\ CronTyped
    /\ serving = "login" => LoginInv /\ LoginTyped

LEMMA EnginesStart == ASSUME EngineInit PROVE EngineInv
<1>1. /\ StorageBounds /\ KeyBounds /\ Step!BoundsOK
      /\ Run!BooksOK /\ MaxRounds \in Nat /\ Cron!FieldsOK /\ MaxNow \in Nat
  BY EngineAssumption DEF StorageBounds, KeyBounds
<1>2. Login!Init => LoginTyped
  BY <1>1 DEF Login!Init, LoginTyped
<1> QED
  BY <1>1, <1>2, BucketStarts, KeyStarts, StepStarts, RunStarts, CronStarts, LoginStarts,
     RunTypedAtStart, CronTypedAtStart
  DEF EngineInit, EngineInv

LEMMA EnginesStep ==
  ASSUME EngineInv, serving' = serving, EngineNext \/ UNCHANGED engineVars
  PROVE  EngineInv'
<1>1. /\ StorageBounds /\ KeyBounds /\ Step!BoundsOK /\ LoginBounds
      /\ Cron!CalendarOK /\ Cron!BoundsOK
      /\ Run!BooksOK /\ MaxRounds \in Nat /\ MaxNow \in Nat
  BY EngineAssumption DEF StorageBounds, KeyBounds, LoginBounds
<1>2. /\ serving = "buckets" => Storage!Next \/ UNCHANGED storageVars
      /\ serving = "keys" => Keys!Next \/ UNCHANGED storageVars
      /\ serving = "parallel" => Step!Next \/ UNCHANGED stepVars
      /\ serving = "runbook" => Run!Next \/ UNCHANGED bookVars
      /\ serving = "schedule" => Cron!Next \/ UNCHANGED cronVars
      /\ serving = "login" => Login!Next \/ UNCHANGED loginVars
  BY DEF EngineNext, engineVars
<1> QED
  BY <1>1, <1>2, BucketSteps, KeySteps, StepSteps, RunSteps, CronSteps, LoginSteps,
     RunStaysTyped, CronStaysTyped, LoginStaysTyped DEF EngineInv

\* The types of the engines.
LEMMA EnginesTyped ==
  ASSUME EngineInv
  PROVE  /\ serving = "buckets" => Storage!TypeOK
         /\ serving = "keys" => Keys!TypeOK
         /\ serving = "parallel" => Step!TypeOK
         /\ serving = "runbook" => Run!TypeOK
         /\ serving = "schedule" => Cron!TypeOK
         /\ serving = "login" => Login!TypeOK
<1>1. Run!BooksOK
  BY EngineAssumption
<1>2. /\ BucketInv => Storage!TypeOK
      /\ KeyInv => Keys!TypeOK
      /\ StepInv => Step!TypeOK
  BY DEF BucketInv, KeyInv, StepInv
<1> QED
  BY <1>1, <1>2, RunTypes, CronTypes, LoginTypes DEF EngineInv

\* What the properties say of the engines.
LEMMA EnginesKeep ==
  ASSUME EngineInv
  PROVE  /\ OutcomesTrue /\ BoundariesFound /\ LoginsUsedOnce
         /\ serving = "buckets" => Storage!BucketsServed
         /\ serving = "keys" => Keys!ListedKeysServe /\ Keys!RevokedKeysStop
<1>1. StepInv => Step!ResultsComplete /\ Step!LimitKept
  BY LimitFollows, EngineAssumption DEF StepInv
<1>2. RunInv => Run!StopsWhenCancelled /\ Run!CancelIsTold
  BY DEF RunInv, Run!CancelIsTold, Run!Outcome
<1>3. CronInv => Cron!NothingPassed /\ Cron!DueAreTheFirst
  BY DEF CronInv
<1>4. LoginInv => Login!LoginsUsedOnce
  BY DEF LoginInv
<1>5. BucketInv => Storage!BucketsServed
  BY DEF BucketInv, Served, Storage!BucketsServed, Storage!About
<1>6. KeyInv => Keys!ListedKeysServe
  BY KeyTypes DEF KeyInv, KeysServe, Lists, Keys!ListedKeysServe, Keys!About
<1>7. KeyInv => Keys!RevokedKeysStop
  BY DEF KeyInv, KeysStop, Lists, Keys!RevokedKeysStop, Keys!About
<1> QED
  BY <1>1, <1>2, <1>3, <1>4, <1>5, <1>6, <1>7
  DEF EngineInv, OutcomesTrue, BoundariesFound, LoginsUsedOnce

-----------------------------------------------------------------------------
(* The process *)

StoresInv ==
    /\ serving = "dedicated" => AppRunInv /\ LimitInv /\ AppRun!PortsHeld
    /\ serving = "iam" => IamInv
    /\ serving = "monitoring" => SuiteInv
    /\ serving = "hsm" => HsmInv
    /\ serving = "actions" => ControlInv
    /\ serving = "reordering" => NoteInv
    /\ serving = "database" => DBInv

\* Nothing changes what the process serves, and a step is a step of that.
LEMMA ServesTheSame ==
  ASSUME [Next]_vars
  PROVE  /\ serving' = serving
         /\ EngineNext \/ UNCHANGED engineVars
         /\ serving = "dedicated" => AppRun!Next \/ UNCHANGED dedicatedVars
         /\ serving = "iam" => Iam!Next \/ UNCHANGED iamVars
         /\ serving = "monitoring" => Suite!Next \/ UNCHANGED suiteVars
         /\ serving = "hsm" => HSM!Next \/ UNCHANGED hsmVars
         /\ serving = "actions" => Control!Next \/ UNCHANGED controlVars
         /\ serving = "reordering" => Notes!Next \/ UNCHANGED noteVars
         /\ serving = "database" => DB!Next \/ UNCHANGED dbVars
  BY DEF Next, vars, storeVars

\* A store that is served takes every step.
LEMMA StoreActs ==
  ASSUME Next
  PROVE  /\ serving = "dedicated" => AppRun!Next
         /\ serving = "database" => DB!Next
  BY DEF Next, EngineNext

LEMMA StoresStart == ASSUME Init PROVE StoresInv
<1>1. LimitBounds
  BY StoresAssumption DEF LimitBounds, AppRun!BoundsOK
<1> QED
  BY <1>1, StoresAssumption, AppRunStarts, LimitStarts, PortsStart, IamStarts, SuiteStarts,
     HsmStarts, ControlStarts, NotesStart, DBStarts
     DEF Init, StoresInv

LEMMA StoresStep == ASSUME StoresInv, [Next]_vars PROVE StoresInv'
<1>1. LimitBounds
  BY StoresAssumption DEF LimitBounds, AppRun!BoundsOK
<1>2. serving = "dedicated" => (AppRunInv /\ LimitInv /\ AppRun!PortsHeld)'
  BY <1>1, ServesTheSame, StoresAssumption, AppRunSteps, LimitSteps, PortsSteps, AppRunRests,
     LimitRests
     DEF StoresInv
<1>3. serving = "iam" => IamInv'
  BY ServesTheSame, StoresAssumption, IamSteps, IamRests DEF StoresInv
<1>4. serving = "monitoring" => SuiteInv'
  BY ServesTheSame, StoresAssumption, SuiteSteps, SuiteRests DEF StoresInv
<1>5. serving = "hsm" => HsmInv'
  BY ServesTheSame, StoresAssumption, HsmSteps, HsmRests DEF StoresInv
<1>6. serving = "actions" => ControlInv'
  BY ServesTheSame, StoresAssumption, ControlSteps, ControlRests DEF StoresInv
<1>7. serving = "reordering" => NoteInv'
  BY ServesTheSame, StoresAssumption, NotesStep, NotesRest DEF StoresInv
<1>8. serving = "database" => DBInv'
  BY ServesTheSame, StoresAssumption, DBSteps, DBRests DEF StoresInv
<1> QED
  BY <1>2, <1>3, <1>4, <1>5, <1>6, <1>7, <1>8, ServesTheSame DEF StoresInv

\* What every engine keeps to, the process that serves it does.
THEOREM EnginesHold == Spec => []EngineInv
<1>1. Init => EngineInv
  BY EnginesStart DEF Init
<1>2. EngineInv /\ [Next]_vars => EngineInv'
  BY EnginesStep, ServesTheSame
<1> QED
  BY <1>1, <1>2, PTL DEF Spec

\* What every store keeps to, the process that serves it does.
THEOREM StoresHold == Spec => []StoresInv
  BY StoresStart, StoresStep, PTL DEF Spec

\* Every variable of every service keeps its type: no handler leaves a map with
\* the wrong keys, an ID of another kind or a counter beyond its bounds.
THEOREM TypesAreKept == Spec => []TypeOK
<1>1. StoresInv =>
        /\ serving = "dedicated" => AppRun!TypeOK
        /\ serving = "iam" => Iam!TypeOK
        /\ serving = "monitoring" => Suite!TypeOK
        /\ serving = "hsm" => HSM!TypeOK
        /\ serving = "actions" => Control!TypeOK
        /\ serving = "reordering" => Notes!TypeOK
        /\ serving = "database" => DB!TypeOK
  BY StoresAssumption, AppRunKeeps, IamKeeps, SuiteKeeps, HsmKeeps, ControlKeeps, NotesKeep,
     DBKeeps
     DEF StoresInv
<1>2. EngineInv /\ StoresInv => TypeOK
  BY <1>1, EnginesTyped DEF TypeOK
<1> QED
  BY <1>2, EnginesHold, StoresHold, PTL

\* The maps and the orders of a store agree, and what belongs to a record goes with
\* it, of Dedicated, of IAM, of CloudHSM and of SimpleMQ's database, whatever is
\* deleted between the steps of a request; and a routing of Monitoring Suite names
\* what is its project's, or a storage there is or was.  Of IAM that is what a user,
\* a service principal, a project or a folder owns, and not what mentions it.
THEOREM RecordsDoAgree == Spec => []RecordsAgree
<1>1. StoresInv => RecordsAgree
  BY StoresAssumption, AppRunKeeps, IamKeeps, SuiteKeeps, HsmKeeps, DBKeeps
     DEF StoresInv, RecordsAgree
<1> QED
  BY <1>1, StoresHold, PTL

\* Whoever follows the cursors of a list of Dedicated, or the tokens of one of
\* Security Control, to its end has seen all that was there from its start to its
\* end; and a routing of Monitoring Suite comes after those that were there when it
\* was made, until somebody reorders them.
THEOREM ListsAreInOrder == Spec => []ListsInOrder
<1>1. StoresInv => ListsInOrder
  BY StoresAssumption, AppRunKeeps, ControlKeeps, SuiteKeeps DEF StoresInv, ListsInOrder
<1> QED
  BY <1>1, StoresHold, PTL

\* No step undoes what another did: a deleted version of Dedicated stays unknown,
\* a record of Monitoring Suite that was deleted under an update and a routing that
\* was deleted under a reordering do not come back, nor its settings of before unless
\* they were changed between that reordering's read and its write; and a message of
\* SimpleMQ's database is given to nobody before its time, and goes only when it is
\* deleted, its queue is cleared or deleted, or its time is over.
THEOREM NothingIsUndone == Spec => NothingUndone
<1> DEFINE Kept ==
      /\ serving = "dedicated" => AppRun!StaysUnknown
      /\ serving = "monitoring" => (Suite!DeletedStaysDeleted)'
      /\ serving = "reordering" => (Notes!SettingsSurvive)'
      /\ serving = "database" => DB!LeaseHonoured /\ DB!NoSilentLoss
<1> DEFINE Survived ==
      /\ serving = "monitoring" => Suite!DeletedStaysDeleted
      /\ serving = "reordering" => Notes!SettingsSurvive
<1>1. StoresInv => Survived
  BY SuiteKeeps, NotesKeep DEF StoresInv
<1>2. ASSUME StoresInv, Next, Survived' PROVE Kept
  <2>1. /\ serving = "dedicated" => AppRun!StaysUnknown
        /\ serving = "database" => DB!LeaseHonoured /\ DB!NoSilentLoss
    BY <1>2, StoreActs, StoresAssumption, AppRunUnknown, DBLeases, DBLosses DEF StoresInv
  <2>2. serving' = serving
    BY <1>2, ServesTheSame
  <2> QED
    BY <1>2, <2>1, <2>2
<1>3. StoresInv /\ Survived' /\ [Next]_vars => [Kept]_vars
  BY <1>2
<1>4. NothingUndone <=> [][Kept]_vars
  BY DEF NothingUndone
<1> HIDE DEF Kept, Survived
<1> QED
  BY <1>1, <1>3, <1>4, StoresHold, PTL DEF Spec

\* One login at the gateway's OIDC provider, one session, however often and from
\* wherever its callback is repeated.
THEOREM LoginsAreUsedOnce == Spec => []LoginsUsedOnce
<1>1. EngineInv => LoginsUsedOnce
  BY EnginesKeep
<1> QED
  BY <1>1, EnginesHold, PTL

\* What the run of a runbook tells is so: a parallel step that succeeds has all its
\* results, none of its goroutines at work and never more than its limit; a run that
\* was cancelled announces no other step, and is told as canceled unless a try
\* caught the error.
THEOREM OutcomesAreTrue == Spec => []OutcomesTrue
<1>1. EngineInv => OutcomesTrue
  BY EnginesKeep
<1> QED
  BY <1>1, EnginesHold, PTL

\* Whatever the calendar and the expression, Crontab.Next jumps over no minute that
\* matches; and dueBoundaries returns the boundaries of its window in order and
\* without a gap: the ones it drops are beyond the maximum or too far ahead, and
\* later than all it returns.
THEOREM BoundariesAreFound == Spec => []BoundariesFound
<1>1. EngineInv => BoundariesFound
  BY EnginesKeep
<1> QED
  BY <1>1, EnginesHold, PTL

\* However many requests create applications at once, there are never more than
\* the limit and one less than the requests.
THEOREM ApplicationsAreBounded == Spec => []ApplicationsBounded
<1>1. StoresInv => ApplicationsBounded
  BY LimitKeeps DEF StoresInv, ApplicationsBounded
<1> QED
  BY <1>1, StoresHold, PTL

\* The buckets and keys that Object Storage lists are served, and a key that is listed
\* no longer stops to authenticate, unless a request about it is not answered yet or
\* two of them crossed; and what Dedicated forwards to is a container Docker has.  Of
\* the failures of Docker and of the gateway, of requests that fail half way and of
\* restarts the steps are part.
THEOREM DataPlanesDoFollow == Spec => []DataPlanesFollow
<1>1. EngineInv /\ StoresInv => DataPlanesFollow
  BY EnginesKeep DEF StoresInv, DataPlanesFollow
<1> QED
  BY <1>1, EnginesHold, StoresHold, PTL
=============================================================================

----------------------------- MODULE Scenarios ------------------------------
(***************************************************************************)
(* What is checked of one process: the services of Sakumock, Dedicated,    *)
(* IAM and Monitoring Suite from a few sides each, as far as the states    *)
(* can be told; and beside them the parser of a runbook's expressions,     *)
(* which Workflows calls and which has no state of its own.                *)
(***************************************************************************)
EXTENDS Sakumock

CONSTANTS Longest, MaxParseDepth

VARIABLES
    scenario,          \* the side of the service that its clients ask about
    alphabet, tokens   \* Expression

exprVars == <<alphabet, tokens>>

scenarioVars == <<vars, scenario, exprVars>>

Expr == INSTANCE Expression

NoExpr == alphabet = <<>> /\ tokens = <<>>

Sides == [dedicated |-> {"pools", "listing", "containers"},
          iam |-> {"people", "projects", "folders"},
          monitoring |-> {"alerts", "storages", "routings", "rules"}]

\* A scenario that one thing of a kind is enough for.
One(S) == {CHOOSE x \in S : TRUE}

Idle(at, r) == at[r] = None

\* What there is in a scenario, and who asks.
Within ==
    /\ scenario = "pools" =>
         /\ made \subseteq Clusters \cup Groups \cup Balancers \cup Nodes
         /\ page = None /\ \A r \in Requests : Idle(hs, r)
    /\ scenario = "listing" =>
         /\ made \subseteq One(Clusters) \cup Apps
         /\ \A a \in Apps : apps[a] \in {0, None} /\ versionSeqs[a] = 0
    /\ scenario = "containers" => made \subseteq One(Clusters) \cup One(Apps)
    /\ scenario = "people" => given \subseteq Users \cup Devices \cup SecurityKeys
    /\ scenario = "projects" =>
         given \subseteq Principals \cup PrincipalKeys \cup Projects
    /\ scenario = "folders" => given \subseteq Projects \cup Folders \cup Others
    /\ scenario = "alerts" => assigned \subseteq Projects \cup Targets \cup Routings
    /\ scenario = "storages" =>
         assigned \subseteq LogStorages \cup MetricsStorages \cup TraceStorages
                               \cup StorageKeys
    /\ scenario = "routings" => assigned \subseteq LogStorages \cup LogRoutings \cup StorageKeys
    /\ scenario = "rules" =>
         /\ assigned \subseteq Projects \cup LogStorages \cup MetricsStorages \cup AlertRules
                                  \cup LogMeasureRules \cup MetricsRoutings
         /\ \A r \in Requests \ One(Requests) : Idle(editing, r)
    /\ scenario = "parallel" => limit # Cardinality(Branches)   \* as good as none

ScenarioInit ==
    \/ /\ Init /\ NoExpr
       /\ scenario \in IF serving \in DOMAIN Sides THEN Sides[serving] ELSE {serving}
       /\ Within
    \/ /\ serving = "expression" /\ NoService /\ Expr!Init
       /\ scenario = serving

ScenarioNext ==
    \/ Next /\ UNCHANGED <<scenario, exprVars>> /\ Within'
    \/ serving = "expression" /\ Expr!Next /\ UNCHANGED <<vars, scenario>>

ScenarioSpec == ScenarioInit /\ [][ScenarioNext]_scenarioVars /\ RunFairness

-----------------------------------------------------------------------------
(* Properties *)

\* Crontabs and expressions are read as meant: Next passes no boundary over, the
\* boundaries of a tick are the first of its window, as many as the cap allows,
\* and an expression, of whatever tokens, is parsed as its grammar says.
ReadAsMeant ==
    /\ BoundariesFound
    /\ serving = "expression" => Expr!TypeOK /\ Expr!ParsesTheGrammar
=============================================================================

------------------------------- MODULE Stores -------------------------------
(***************************************************************************)
(* The services that are a store and the requests that read and change it, *)
(* one beside the other: a process serves at most one of them.             *)
(***************************************************************************)
EXTENDS Naturals, FiniteSets

CONSTANTS
    None,
    Requests,                            \* the requests in flight, of any service
    Clusters, Apps, Groups, Balancers, Nodes,                   \* Dedicated
    MaxApplications, MaxItems, MaxVersions, MaxMade,
    Users, Devices, SecurityKeys, Principals, PrincipalKeys,    \* Identity
    Projects, Folders, Others,
    LogStorages, MetricsStorages, TraceStorages, StorageKeys,   \* MonitoringSuite
    AlertRules, LogMeasureRules, Targets, Routings, LogRoutings, MetricsRoutings,
    PeerNames, MaxIDs,                                          \* CloudHSM
    RuleIDs, ActionLimit, PageSize, MaxActions,                 \* SecurityControl
    RoutingIDs, MaxEditions,                                    \* Notification
    QueueNames, TicksPerSecond, Defaults, VTSeconds, ExpSeconds,    \* SimpleMQSQLite
    MaxTime, MaxMsgs, MaxQueues

VARIABLES
    clusters, apps, appOrder, versions, versionSeqs, groups,    \* Dedicated
    balancers, lbOrder, nodes, workerNodeOrder, made,
    containers, docker, hs, page,
    items, order, policies, given, work, late,                  \* Identity
    stored, assigned, removed, owner, names, rank, earlier,     \* MonitoringSuite
    editing,
    hsms, clients, peers, licenses, docs, lastID, adding,       \* CloudHSM
    activation, actions, lastAction, enabledRules, walk,        \* SecurityControl
    settings, gone, ordering, accepted, crossed,                \* Notification
    dbClock, config, messages, queues, sent, created, request,  \* SimpleMQSQLite
    gen, lease

dedicatedVars == <<clusters, apps, appOrder, versions, versionSeqs, groups,
                   balancers, lbOrder, nodes, workerNodeOrder, made,
                   containers, docker, hs, page>>
iamVars == <<items, order, policies, given, work, late>>
suiteVars == <<stored, assigned, removed, owner, names, rank, earlier,
               editing>>
hsmVars == <<hsms, clients, peers, licenses, docs, lastID, adding>>
controlVars == <<activation, actions, lastAction, enabledRules, walk>>
noteVars == <<settings, gone, ordering, accepted, crossed>>
dbVars == <<dbClock, config, messages, queues, sent, created, request, gen,
            lease>>

storeVars == <<dedicatedVars, iamVars, suiteVars, hsmVars, controlVars,
               noteVars, dbVars>>

AppRun == INSTANCE Dedicated WITH Handlers <- Requests
Iam == INSTANCE Identity WITH Callers <- Requests
Suite == INSTANCE MonitoringSuite WITH Editors <- Requests
HSM == INSTANCE CloudHSM WITH HsmClients <- Requests
Control == INSTANCE SecurityControl
Notes == INSTANCE Notification WITH Orderers <- Requests
DB == INSTANCE SimpleMQSQLite WITH DBClients <- Requests

\* Of each the bounds and what None is not; a record is of one kind.
ASSUME StoresAssumption ==
    /\ IsFiniteSet(Requests)
    /\ AppRun!BoundsOK /\ Iam!BoundsOK /\ Suite!BoundsOK /\ HSM!BoundsOK
    /\ Control!BoundsOK /\ Notes!BoundsOK /\ DB!BoundsOK

(* The state of a service that is not served *)

NoDedicated ==
    /\ clusters = <<>> /\ apps = <<>> /\ appOrder = <<>> /\ versions = <<>>
    /\ versionSeqs = <<>> /\ groups = <<>> /\ balancers = <<>>
    /\ lbOrder = <<>> /\ nodes = <<>> /\ workerNodeOrder = <<>>
    /\ made = <<>> /\ containers = <<>> /\ docker = <<>> /\ hs = <<>>
    /\ page = <<>>
NoIam ==
    /\ items = <<>> /\ order = <<>> /\ policies = <<>> /\ given = <<>>
    /\ work = <<>> /\ late = <<>>
NoSuite ==
    /\ stored = <<>> /\ assigned = <<>> /\ removed = <<>> /\ owner = <<>>
    /\ names = <<>> /\ rank = <<>> /\ earlier = <<>> /\ editing = <<>>
NoHsm ==
    /\ hsms = <<>> /\ clients = <<>> /\ peers = <<>> /\ licenses = <<>>
    /\ docs = <<>> /\ lastID = <<>> /\ adding = <<>>
NoControl ==
    /\ activation = <<>> /\ actions = <<>> /\ lastAction = <<>>
    /\ enabledRules = <<>> /\ walk = <<>>
NoNote ==
    /\ settings = <<>> /\ gone = <<>> /\ ordering = <<>> /\ accepted = <<>>
    /\ crossed = <<>>
NoDB ==
    /\ dbClock = <<>> /\ config = <<>> /\ messages = <<>> /\ queues = <<>>
    /\ sent = <<>> /\ created = <<>> /\ request = <<>> /\ gen = <<>>
    /\ lease = <<>>

NoStore ==
    /\ NoDedicated /\ NoIam /\ NoSuite /\ NoHsm /\ NoControl /\ NoNote /\ NoDB
=============================================================================

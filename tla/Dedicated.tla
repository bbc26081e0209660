----------------------------- MODULE Dedicated -----------------------------
(***************************************************************************)
(* AppRun Dedicated: the store of clusters, applications, versions, auto   *)
(* scaling groups and load balancers, each of whose operations is one      *)
(* critical section; the handlers that call it more than once; the manager *)
(* of the applications' Docker containers; and a client that lists the     *)
(* applications page by page.                                              *)
(*                                                                         *)
(* A container is called after its application, so Docker has one at most; *)
(* the manager's map names it until it forgets it.  Certificates and what  *)
(* clusters, versions and interfaces say are data.                         *)
(***************************************************************************)
EXTENDS Orders, FiniteSets, Functions

CONSTANTS
    Clusters, Apps, Groups, Balancers, Nodes,   \* the IDs there can be
    Handlers,          \* requests in flight
    None,
    MaxApplications,   \* the limit of handleCreateApplication, 10
    MaxItems,          \* maxItems of the client that lists
    MaxVersions,       \* bound on versions made per application
    MaxMade            \* bound on resources made

VARIABLES
    clusters,        \* the clusters there are
    apps,            \* per application its active version, 0 for nil
    appOrder,
    versions,        \* per application the versions there are
    versionSeqs,
    groups,          \* per auto scaling group its cluster
    balancers, lbOrder,        \* per load balancer its group
    nodes, workerNodeOrder,    \* per worker node its group
    made,            \* the UUIDs issued so far
    containers,      \* DockerManager.containers: the applications in it
    docker,          \* per application what Docker has under its name
    hs,              \* per request, where it is
    page             \* the client's listing

cloud  == <<groups, balancers, lbOrder, nodes, workerNodeOrder>>
catalog == <<apps, appOrder, versions, versionSeqs>>
run    == <<containers, docker>>
vars   == <<clusters, catalog, cloud, made, run, hs, page>>

Live(map) == {id \in DOMAIN map : map[id] # None}

Numbers == 0 .. MaxVersions

Listing == [due : SUBSET Apps, seen : SUBSET Apps, cursor : Apps \cup {None},
            done : BOOLEAN]

TypeOK ==
    /\ clusters \subseteq Clusters
    /\ apps \in [Apps -> Numbers \cup {None}]
    /\ appOrder \in Seq(Apps)
    /\ versions \in [Apps -> SUBSET Numbers]
    /\ versionSeqs \in [Apps -> Numbers]
    /\ groups \in [Groups -> Clusters \cup {None}]
    /\ balancers \in [Balancers -> Groups \cup {None}]
    /\ nodes \in [Nodes -> Groups \cup {None}]
    /\ lbOrder \in Seq(Balancers) /\ workerNodeOrder \in Seq(Nodes)
    /\ containers \subseteq Apps
    /\ docker \in [Apps -> [version : Numbers, running : BOOLEAN] \cup {None}]
    /\ hs \in [Handlers -> [pc : {"count", "create", "read", "start", "stop", "delete"},
                            app : Apps \cup {None}, version : Numbers] \cup {None}]
    /\ page \in Listing \cup {None}

BoundsOK ==
    /\ MaxApplications \in Nat \ {0} /\ MaxItems \in Nat \ {0} /\ MaxVersions \in Nat
    /\ None \notin Apps \cup Clusters \cup Groups \cup Numbers
    /\ None \notin [version : Numbers, running : BOOLEAN]
    /\ None \notin [pc : {"count", "create", "read", "start", "stop", "delete"},
                    app : Apps \cup {None}, version : Numbers]
    /\ None \notin Listing

\* uuid.NewString, of the one ID or of several
Fresh(ids) ==
    /\ ids \cap made = {} /\ Cardinality(made \cup ids) <= MaxMade
    /\ made' = made \cup ids

Goto(h, pc, a, v) == hs' = [hs EXCEPT ![h] = [pc |-> pc, app |-> a, version |-> v]]
Done(h) == hs' = [hs EXCEPT ![h] = None]
At(h, pc) == hs[h] # None /\ hs[h].pc = pc

-----------------------------------------------------------------------------
(* Clusters, auto scaling groups and load balancers *)

CreateCluster(c) ==
    /\ Fresh({c})
    /\ clusters' = clusters \cup {c}
    /\ UNCHANGED <<catalog, cloud, run, hs, page>>

\* What belongs to the cluster stays.
DeleteCluster(c) ==
    /\ c \in clusters
    /\ clusters' = clusters \ {c}
    /\ UNCHANGED <<catalog, cloud, made, run, hs, page>>

\* minNodes worker nodes W come with the group, in that order.
CreateAutoScalingGroup(g, c, W) ==
    /\ c \in clusters
    /\ Fresh({g} \cup Range(W))
    /\ groups' = [groups EXCEPT ![g] = c]
    /\ nodes' = [n \in Nodes |-> IF n \in Range(W) THEN g ELSE nodes[n]]
    /\ workerNodeOrder' = workerNodeOrder \o W
    /\ UNCHANGED <<clusters, catalog, balancers, lbOrder, run, hs, page>>

Belonging(map, g) == {id \in DOMAIN map : map[id] = g}

\* Mutation: load balancers stay behind.
DeleteGroupAndNodes(g) ==
    /\ groups[g] # None
    /\ nodes' = [n \in Nodes |-> IF nodes[n] = g THEN None ELSE nodes[n]]
    /\ workerNodeOrder' = Among(workerNodeOrder, Nodes \ Belonging(nodes, g))
    /\ groups' = [groups EXCEPT ![g] = None]
    /\ UNCHANGED <<clusters, catalog, balancers, lbOrder, made, run, hs, page>>

\* Its worker nodes and load balancers go with it.
DeleteAutoScalingGroup(g) ==
    /\ groups[g] # None
    /\ nodes' = [n \in Nodes |-> IF nodes[n] = g THEN None ELSE nodes[n]]
    /\ workerNodeOrder' = Among(workerNodeOrder, Nodes \ Belonging(nodes, g))
    /\ balancers' = [b \in Balancers |-> IF balancers[b] = g THEN None ELSE balancers[b]]
    /\ lbOrder' = Among(lbOrder, Balancers \ Belonging(balancers, g))
    /\ groups' = [groups EXCEPT ![g] = None]
    /\ UNCHANGED <<clusters, catalog, made, run, hs, page>>

CreateLoadBalancer(b, g) ==
    /\ groups[g] # None
    /\ Fresh({b})
    /\ balancers' = [balancers EXCEPT ![b] = g]
    /\ lbOrder' = Append(lbOrder, b)
    /\ UNCHANGED <<clusters, catalog, groups, nodes, workerNodeOrder, run, hs, page>>

\* Mutation: the map alone is told.
DeleteBalancerUnordered(b) ==
    /\ balancers[b] # None
    /\ balancers' = [balancers EXCEPT ![b] = None]
    /\ UNCHANGED <<clusters, catalog, groups, lbOrder, nodes, workerNodeOrder, made, run, hs, page>>

DeleteLoadBalancer(b) ==
    /\ balancers[b] # None
    /\ balancers' = [balancers EXCEPT ![b] = None]
    /\ lbOrder' = Among(lbOrder, Balancers \ {b})
    /\ UNCHANGED <<clusters, catalog, groups, nodes, workerNodeOrder, made, run, hs, page>>

-----------------------------------------------------------------------------
(* Applications and versions *)

\* handleCreateApplication: three critical sections.
ReadCluster(h, c) ==
    /\ hs[h] = None /\ c \in clusters
    /\ Goto(h, "count", None, 0)
    /\ UNCHANGED <<clusters, catalog, cloud, made, run, page>>

\* Mutation: nothing is counted.
CountNothing(h) ==
    /\ At(h, "count")
    /\ Goto(h, "create", None, 0)
    /\ UNCHANGED <<clusters, catalog, cloud, made, run, page>>

CountApplications(h) ==
    /\ At(h, "count")
    /\ IF Cardinality(Live(apps)) < MaxApplications THEN Goto(h, "create", None, 0) ELSE Done(h)
    /\ UNCHANGED <<clusters, catalog, cloud, made, run, page>>

CreateApplication(h, a) ==
    /\ At(h, "create")
    /\ Fresh({a})
    /\ apps' = [apps EXCEPT ![a] = 0]
    /\ appOrder' = Append(appOrder, a)
    /\ versionSeqs' = [versionSeqs EXCEPT ![a] = 0]
    /\ Done(h)
    /\ UNCHANGED <<clusters, versions, cloud, run, page>>

\* Mutation: the number after the highest there is.
CreateVersionAfterLast(a) ==
    /\ apps[a] # None
    /\ \E n \in Numbers \ {MaxVersions} :
         /\ n \in versions[a] \cup {0} /\ \A v \in versions[a] : v <= n
         /\ versions' = [versions EXCEPT ![a] = @ \cup {n + 1}]
         /\ versionSeqs' = [versionSeqs EXCEPT ![a] = n + 1]
    /\ UNCHANGED <<clusters, apps, appOrder, cloud, made, run, hs, page>>

CreateVersion(a) ==
    /\ apps[a] # None
    /\ versionSeqs[a] < MaxVersions
    /\ versionSeqs' = [versionSeqs EXCEPT ![a] = @ + 1]
    /\ versions' = [versions EXCEPT ![a] = @ \cup {versionSeqs'[a]}]
    /\ UNCHANGED <<clusters, apps, appOrder, cloud, made, run, hs, page>>

\* The active version may be deleted as well.
DeleteVersion(a, v) ==
    /\ v \in versions[a]
    /\ versions' = [versions EXCEPT ![a] = @ \ {v}]
    /\ UNCHANGED <<clusters, apps, appOrder, versionSeqs, cloud, made, run, hs, page>>

\* handleUpdateApplication: any number may be made active, 0 stands for none;
\* then the container is stopped, or the version read and its container started.
UpdateApplication(h, a, v) ==
    /\ hs[h] = None /\ apps[a] # None
    /\ apps' = [apps EXCEPT ![a] = v]
    /\ IF v = 0 THEN Goto(h, "stop", a, 0) ELSE Goto(h, "read", a, v)
    /\ UNCHANGED <<clusters, appOrder, versions, versionSeqs, cloud, made, run, page>>

ReadVersion(h) ==
    /\ At(h, "read")
    /\ IF hs[h].version \in versions[hs[h].app]
       THEN Goto(h, "start", hs[h].app, hs[h].version) ELSE Done(h)
    /\ UNCHANGED <<clusters, catalog, cloud, made, run, page>>

\* handleDeleteApplication stops the container first, whether or not there is
\* such an application.
DeleteApplication(h) ==
    /\ At(h, "delete")
    /\ LET a == hs[h].app IN
       /\ apps' = [apps EXCEPT ![a] = None]
       /\ versions' = [versions EXCEPT ![a] = {}]
       /\ versionSeqs' = [versionSeqs EXCEPT ![a] = 0]
       /\ appOrder' = Among(appOrder, Apps \ {a})
       /\ page' = IF page = None THEN None ELSE [page EXCEPT !.due = @ \ {a}]
    /\ Done(h)
    /\ UNCHANGED <<clusters, cloud, made, run>>

-----------------------------------------------------------------------------
(* DockerManager *)

Image(v, up) == [version |-> v, running |-> up]

\* stopContainerLocked: what Docker may have of a once the manager stopped it.
\* It stops only what it keeps, and does not mind that docker rm fails.
Removals(a) == {docker[a]} \cup (IF a \in containers THEN {None} ELSE {})

\* docker run fails, also because the name is in use.
StartFails(h) ==
    /\ At(h, "start")
    /\ \E left \in Removals(hs[h].app) : docker' = [docker EXCEPT ![hs[h].app] = left]
    /\ containers' = containers \ {hs[h].app}
    /\ Done(h)
    /\ UNCHANGED <<clusters, catalog, cloud, made, page>>

\* docker run makes the container.  The manager keeps it only if Docker tells
\* its port and it is still running; otherwise the container is left alone.
StartContainer(h, up, port) ==
    /\ At(h, "start") /\ None \in Removals(hs[h].app)
    /\ docker' = [docker EXCEPT ![hs[h].app] = Image(hs[h].version, up)]
    /\ containers' = IF up /\ port THEN containers \cup {hs[h].app}
                     ELSE containers \ {hs[h].app}
    /\ Done(h)
    /\ UNCHANGED <<clusters, catalog, cloud, made, page>>

\* Mutation: the container is removed, and its port kept.
StopOnly(h, a, pc) ==
    /\ \E left \in Removals(a) : docker' = [docker EXCEPT ![a] = left]
    /\ UNCHANGED containers
    /\ IF pc = "delete" THEN Goto(h, pc, a, 0) ELSE Done(h)
    /\ UNCHANGED <<clusters, catalog, cloud, made, page>>

StopContainer(h, a, pc) ==
    /\ \E left \in Removals(a) : docker' = [docker EXCEPT ![a] = left]
    /\ containers' = containers \ {a}
    /\ IF pc = "delete" THEN Goto(h, pc, a, 0) ELSE Done(h)
    /\ UNCHANGED <<clusters, catalog, cloud, made, page>>

StopDeactivated(h) == At(h, "stop") /\ StopContainer(h, hs[h].app, "stop")

StopForDelete(h, a) == hs[h] = None /\ StopContainer(h, a, "delete")

\* Docker: a container ends by itself.
Exit(a) ==
    /\ docker[a] # None /\ docker[a].running
    /\ docker' = [docker EXCEPT ![a].running = FALSE]
    /\ UNCHANGED <<clusters, catalog, cloud, made, containers, hs, page>>

\* The monitor forgets the containers that ended and those docker inspect fails
\* for, and leaves them to Docker.
CheckContainers ==
    /\ containers' \in SUBSET {a \in containers : docker[a] # None /\ docker[a].running}
    /\ UNCHANGED <<clusters, catalog, cloud, made, docker, hs, page>>

-----------------------------------------------------------------------------
(* A client that lists applications, following nextCursor *)

\* cursorPage: from behind the cursor, or from the start if it is not there.
Start(order, cursor) ==
    IF \E i \in DOMAIN order : order[i] = cursor
    THEN CHOOSE i \in DOMAIN order : order[i] = cursor ELSE 0

Least(m, n) == IF m <= n THEN m ELSE n

\* Mutation: the cursor is the first item of the next page.
CursorAhead(order, cursor) ==
    LET end == Start(order, cursor) + MaxItems
    IN IF end >= Len(order) THEN None ELSE order[end + 1]

NextCursor(order, cursor) ==
    LET end == Start(order, cursor) + MaxItems
    IN IF end >= Len(order) THEN None ELSE order[end]

Items(order, cursor) ==
    {order[i] : i \in Start(order, cursor) + 1
                        .. Least(Len(order), Start(order, cursor) + MaxItems)}

StartListing ==
    /\ page = None
    /\ page' = [due |-> Live(apps), seen |-> {}, cursor |-> None, done |-> FALSE]
    /\ UNCHANGED <<clusters, catalog, cloud, made, run, hs>>

ListApplications ==
    /\ page # None /\ ~ page.done
    /\ page' = [page EXCEPT !.seen = @ \cup Items(appOrder, page.cursor),
                            !.cursor = NextCursor(appOrder, page.cursor),
                            !.done = NextCursor(appOrder, page.cursor) = None]
    /\ UNCHANGED <<clusters, catalog, cloud, made, run, hs>>

-----------------------------------------------------------------------------
Init ==
    /\ clusters = {} /\ made = {} /\ containers = {}
    /\ apps = [a \in Apps |-> None]
    /\ versions = [a \in Apps |-> {}] /\ versionSeqs = [a \in Apps |-> 0]
    /\ groups = [g \in Groups |-> None]
    /\ balancers = [b \in Balancers |-> None]
    /\ nodes = [n \in Nodes |-> None]
    /\ appOrder = <<>> /\ lbOrder = <<>> /\ workerNodeOrder = <<>>
    /\ docker = [a \in Apps |-> None]
    /\ hs = [h \in Handlers |-> None]
    /\ page = None

\* The orders in which one request can make worker nodes.
Batches == UNION {Injection(1 .. n, Nodes) : n \in 0 .. Cardinality(Nodes)}

CloudOps ==
    \/ \E c \in Clusters : CreateCluster(c) \/ DeleteCluster(c)
    \/ \E g \in Groups :
         \/ \E c \in Clusters, W \in Batches : CreateAutoScalingGroup(g, c, W)
         \/ \E b \in Balancers : CreateLoadBalancer(b, g)
         \/ DeleteAutoScalingGroup(g)
    \/ \E b \in Balancers : DeleteLoadBalancer(b)

AppOps ==
    \/ \E a \in Apps : CreateVersion(a) \/ \E v \in Numbers : DeleteVersion(a, v)
    \/ \E h \in Handlers :
         \/ \E c \in Clusters : ReadCluster(h, c)
         \/ CountApplications(h)
         \/ \E a \in Apps :
              \/ CreateApplication(h, a)
              \/ \E v \in Numbers : UpdateApplication(h, a, v)
         \/ ReadVersion(h)
         \/ DeleteApplication(h)

DockerOps ==
    \/ \E h \in Handlers :
         \/ \E up, port \in BOOLEAN : StartContainer(h, up, port)
         \/ StartFails(h)
         \/ StopDeactivated(h)
         \/ \E a \in Apps : a \in made /\ StopForDelete(h, a)
    \/ \E a \in Apps : Exit(a)
    \/ CheckContainers

Next == CloudOps \/ AppOps \/ DockerOps \/ StartListing \/ ListApplications

Spec == Init /\ [][Next]_vars

-----------------------------------------------------------------------------
(* Safety *)

\* Every worker node and load balancer belongs to a group that exists, and the
\* orders that DeleteAutoScalingGroup and ListWorkerNodes walk name those there
\* are, each once: they dereference what the maps give them for every ID.
CloudConsistent ==
    /\ \A n \in Live(nodes) : groups[nodes[n]] # None
    /\ \A b \in Live(balancers) : groups[balancers[b]] # None
    /\ IsInjective(workerNodeOrder) /\ Range(workerNodeOrder) = Live(nodes)
    /\ IsInjective(lbOrder) /\ Range(lbOrder) = Live(balancers)

\* A client that follows the cursors to the end has seen every application that
\* was there when it began and still is, although others were made and deleted
\* in between, the one its cursor names among them.
ListingComplete == page # None /\ page.done => page.due \subseteq page.seen

\* The limit is exceeded by no more than the requests that were counted for at
\* the same time.
ApplicationsBounded ==
    Cardinality(Live(apps)) <= MaxApplications + Cardinality(Handlers) - 1

\* The data plane forwards to the port of a container Docker has, never to one
\* that was removed and whose port may be somebody else's by then.
PortsHeld == \A a \in containers : docker[a] # None

\* An active version that was made and then deleted stays unknown: versions made
\* later, of which there may have been any number, do not come to stand for it.
StaysUnknown ==
    \A a \in Apps :
        /\ apps[a] # None /\ apps'[a] = apps[a]
        /\ apps[a] \in 1 .. versionSeqs[a] /\ apps[a] \notin versions[a]
        => apps[a] \notin versions'[a]

DeletedStaysUnknown == [][StaysUnknown]_vars
=============================================================================

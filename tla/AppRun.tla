------------------------------- MODULE AppRun -------------------------------
(***************************************************************************)
(* The AppRun mock with its data plane: the store of applications, their   *)
(* versions and traffics, the handlers that change it, and the manager of  *)
(* the one Docker container that runs for each application.                *)
(*                                                                         *)
(* MemoryStore.mu guards the store and DockerManager.mu, which is held for *)
(* as long as the docker commands take, the containers.  A handler takes   *)
(* the two several times and holds neither in between; a critical section  *)
(* is one action here, and req is where each handler has got to.           *)
(*                                                                         *)
(* A version is its number: versionSeq counts over all applications.  A    *)
(* container is named after its application, so Docker has at most one of  *)
(* each application, and refuses to run another while it has it, running   *)
(* or not.                                                                 *)
(***************************************************************************)
EXTENDS Integers, FiniteSets, Sequences

CONSTANTS
    Clients,       \* API requests that can be in flight at once
    None,          \* no value
    Images,        \* what becomes of a container of a version, see Kinds
    Failing,       \* docker commands that may fail on a container Docker has
    AppLimit,      \* maxApplications
    KeptVersions,  \* maxVersionsPerApp
    TrafficLimit,  \* maxTrafficVersions
    MaxApps,       \* bound on the applications ever created
    MaxVersions    \* bound on the versions ever created

\* A container that runs until it is removed, one that may exit at any time, an
\* image that cannot be run, and a first component that names no registry,
\* which deploy_source allows.
Kinds == {"good", "exits", "missing", "bare"}

ASSUME ConstantsAssumption ==
    /\ Images \subseteq Kinds
    /\ Failing \subseteq {"run", "port", "inspect", "rm"}
    /\ AppLimit \in Nat
    /\ KeptVersions \in Nat \ {0}
    /\ TrafficLimit \in Nat
    /\ MaxApps \in Nat
    /\ MaxVersions \in Nat

AppIds     == 1 .. MaxApps
VersionNos == 1 .. MaxVersions

VARIABLES
    versions,    \* MemoryStore.appVersions: app -> its versions, oldest first
    traffic,     \* MemoryStore.traffic: app -> the versions that are targets
    status,      \* Status of the latest entry of each application
    image,       \* the image of the first component of each version
    owner,       \* the application each version was made for (history)
    containers,  \* DockerManager.containers: app -> the version it runs
    docker,      \* Docker: the container of each application's name
    req,         \* one request per client
    madeApps,    \* applications ever created
    madeVers,    \* MemoryStore.versionSeq
    open         \* the manager has not been closed

store == <<versions, traffic, status, image, owner, madeApps, madeVers>>
vars  == <<store, containers, docker, req, open>>

-----------------------------------------------------------------------------
(* Types *)

PCs == {"idle",
        "create", "start",                                 \* POST, and PATCH last
        "update", "reread", "list", "put", "stop",         \* PATCH
        "delete",                                          \* DELETE application
        "read", "traffic", "deleteVersion"}                \* DELETE version

\* ver is the version the handler has in hand, newest the one it knows as the
\* latest; all says whether AllTrafficAvailable is set; restart, whether this
\* start replaces a container.
Request == [pc : PCs, app : AppIds \cup {None}, image : Images \cup {None},
            ver : VersionNos \cup {None}, newest : VersionNos \cup {None},
            all : BOOLEAN, restart : BOOLEAN]
\* lost: a docker command about it failed, and the manager forgot it (history).
Container == [version : VersionNos, running : BOOLEAN, lost : BOOLEAN]

ASSUME NoneAssumption ==
    /\ None \notin Nat /\ None \notin Kinds
    /\ None \notin Container /\ None \notin Seq(VersionNos)

TypeOK ==
    /\ versions \in [AppIds -> Seq(VersionNos) \cup {None}]
    /\ traffic \in [AppIds -> SUBSET VersionNos]
    /\ status \in [AppIds -> {"Healthy", "UnHealthy"}]
    /\ image \in [VersionNos -> Images \cup {None}]
    /\ owner \in [VersionNos -> AppIds \cup {None}]
    /\ containers \in [AppIds -> VersionNos \cup {None}]
    /\ docker \in [AppIds -> Container \cup {None}]
    /\ req \in [Clients -> Request]
    /\ madeApps \in 0 .. MaxApps
    /\ madeVers \in 0 .. MaxVersions
    /\ open \in BOOLEAN

Exists(a) == versions[a] # None
Last(s)   == s[Len(s)]
Has(a, v) == Exists(a) /\ \E i \in 1 .. Len(versions[a]) : versions[a][i] = v

-----------------------------------------------------------------------------
(* Handlers *)

Idle == [pc |-> "idle", app |-> None, image |-> None, ver |-> None,
         newest |-> None, all |-> FALSE, restart |-> FALSE]

Begin(c, pc, a) == [Idle EXCEPT !.pc = pc, !.app = a]

\* A new request reaches its handler.
Accepts(c) == open /\ req[c].pc = "idle"

At(c, pc) == req[c].pc = pc

Goto(c, pc) == req' = [req EXCEPT ![c].pc = pc]
Respond(c)  == req' = [req EXCEPT ![c] = Idle]

-----------------------------------------------------------------------------
(* POST /applications *)

\* The limit is checked on a list of its own.
CheckLimit(c, img) ==
    /\ Accepts(c)
    /\ Cardinality({a \in AppIds : Exists(a)}) < AppLimit
    /\ madeApps < MaxApps
    /\ req' = [req EXCEPT ![c] = [Idle EXCEPT !.pc = "create", !.image = img]]
    /\ UNCHANGED <<store, containers, docker, open>>

CreateApplication(c) ==
    LET a == madeApps + 1
        v == madeVers + 1
    IN  /\ At(c, "create")
        /\ a \in AppIds /\ v \in VersionNos
        /\ madeApps' = a /\ madeVers' = v
        /\ versions' = [versions EXCEPT ![a] = <<v>>]
        /\ traffic' = [traffic EXCEPT ![a] = {v}]
        /\ status' = [status EXCEPT ![a] = "Healthy"]
        /\ image' = [image EXCEPT ![v] = req[c].image]
        /\ owner' = [owner EXCEPT ![v] = a]
        /\ req' = [req EXCEPT ![c] = [Idle EXCEPT !.pc = "start", !.app = a, !.ver = v]]
        /\ UNCHANGED <<containers, docker, open>>

-----------------------------------------------------------------------------
(* PATCH /applications/{id} *)

\* What the patch is validated against.  With no components, None, it keeps
\* those of the latest version.
ReadApplication(c, a, img, all) ==
    /\ Accepts(c)
    /\ Exists(a)
    /\ req' = [req EXCEPT ![c] = [Begin(c, "update", a) EXCEPT !.image = img, !.all = all]]
    /\ UNCHANGED <<store, containers, docker, open>>

\* Only the last versions are kept.
Keep(s) == IF Len(s) > KeptVersions
           THEN SubSeq(s, Len(s) - KeptVersions + 1, Len(s)) ELSE s

UpdateApplication(c) ==
    LET a == req[c].app
        v == madeVers + 1
    IN  /\ At(c, "update")
        /\ \/ /\ Exists(a)
              /\ v \in VersionNos
              /\ madeVers' = v
              /\ versions' = [versions EXCEPT ![a] = Keep(Append(@, v))]
              /\ image' = [image EXCEPT ![v] =
                             IF req[c].image # None THEN req[c].image
                                                    ELSE image[Last(versions[a])]]
              /\ owner' = [owner EXCEPT ![v] = a]
              /\ Goto(c, "reread")
           \/ /\ ~ Exists(a)
              /\ Respond(c)
              /\ UNCHANGED <<madeVers, versions, image, owner>>
        /\ UNCHANGED <<traffic, status, madeApps, containers, docker, open>>

\* The handler goes on with the latest version there is by now.  If the
\* application has gone it dereferences nil, and net/http ends the request.
Reread(c) ==
    LET a == req[c].app
    IN  /\ At(c, "reread")
        /\ IF Exists(a)
           THEN req' = [req EXCEPT ![c].pc = IF req[c].all THEN "list" ELSE "stop",
                                   ![c].ver = Last(versions[a])]
           ELSE Respond(c)
        /\ UNCHANGED <<store, containers, docker, open>>

\* AllTrafficAvailable: the latest version is listed, then made the target.
ListLatest(c) ==
    LET a == req[c].app
    IN  /\ At(c, "list")
        /\ IF Exists(a)
           THEN req' = [req EXCEPT ![c].pc = "put", ![c].newest = Last(versions[a])]
           ELSE Goto(c, "stop")
        /\ UNCHANGED <<store, containers, docker, open>>

PutAllTraffic(c) ==
    LET a == req[c].app
    IN  /\ At(c, "put")
        /\ traffic' = IF Exists(a) THEN [traffic EXCEPT ![a] = {req[c].newest}] ELSE traffic
        /\ Goto(c, "stop")
        /\ UNCHANGED <<versions, status, image, owner, madeApps, madeVers,
                       containers, docker, open>>

-----------------------------------------------------------------------------
(* The Docker manager *)

\* Mutation: the container is forgotten and not removed.
ForgetContainer(a) ==
    /\ containers' = [containers EXCEPT ![a] = None]
    /\ UNCHANGED docker

Known == {a \in AppIds : containers[a] # None}

\* For which of these applications the docker command may fail.
MayFail(command, apps) == IF command \in Failing THEN SUBSET apps ELSE {{}}

Lost(a) == IF docker[a] = None THEN None ELSE [docker[a] EXCEPT !.lost = TRUE]

\* docker rm -f of the containers the manager knows.  It forgets them all the
\* same where the command fails.
Remove(apps) ==
    \E kept \in MayFail("rm", apps) :
        docker' = [a \in AppIds |-> IF a \in kept THEN Lost(a)
                                   ELSE IF a \in apps THEN None ELSE docker[a]]

StopContainer(a) ==
    /\ containers' = [containers EXCEPT ![a] = None]
    /\ Remove(Known \cap {a})

\* Mutation: the bad status is misspelt.
SetStatusMisspelt(a, st) ==
    status' = IF Exists(a)
              THEN [status EXCEPT ![a] = IF st = "Healthy" THEN st ELSE "Unhealthy"]
              ELSE status

SetStatus(a, st) == status' = IF Exists(a) THEN [status EXCEPT ![a] = st] ELSE status

\* Nothing is done for a component without a registry: the application keeps
\* the container it has, if it has one, and its status.
DeployNothing(c) ==
    /\ At(c, "stop") \/ At(c, "start")
    /\ image[req[c].ver] = "bare"
    /\ Respond(c)
    /\ UNCHANGED <<store, containers, docker, open>>

Stop(c) ==
    /\ At(c, "stop")
    /\ image[req[c].ver] # "bare"
    /\ StopContainer(req[c].app)
    /\ req' = [req EXCEPT ![c].pc = "start", ![c].restart = TRUE]
    /\ UNCHANGED <<store, open>>

Made(v, running) == [version |-> v, running |-> running, lost |-> FALSE]

\* Mutation: a container that has exited by the time it is inspected stays Healthy.
RunsBlind(a, v) ==
    /\ docker[a] = None
    /\ image[v] = "exits"
    /\ docker' = [docker EXCEPT ![a] = Made(v, FALSE)]
    /\ containers' = [containers EXCEPT ![a] = None]
    /\ UNCHANGED status

\* docker run, docker port, docker inspect: the container is there and running.
Runs(a, v) ==
    /\ docker[a] = None
    /\ image[v] # "missing"
    /\ docker' = [docker EXCEPT ![a] = Made(v, TRUE)]
    /\ containers' = [containers EXCEPT ![a] = v]
    /\ SetStatus(a, "Healthy")

\* It has exited before docker port, or before docker inspect, looks, or docker
\* run made it and failed to start it.
ExitsAtOnce(a, v) ==
    /\ docker[a] = None
    /\ image[v] = "exits" \/ (image[v] = "good" /\ "run" \in Failing)
    /\ docker' = [docker EXCEPT ![a] = Made(v, FALSE)]
    /\ containers' = [containers EXCEPT ![a] = None]
    /\ SetStatus(a, "UnHealthy")

\* It runs, but docker port or docker inspect fails: the manager gives it up.
RunsUnseen(a, v) ==
    /\ docker[a] = None
    /\ image[v] # "missing"
    /\ {"port", "inspect"} \cap Failing # {}
    /\ docker' = [docker EXCEPT ![a] = [Made(v, TRUE) EXCEPT !.lost = TRUE]]
    /\ containers' = [containers EXCEPT ![a] = None]
    /\ SetStatus(a, "UnHealthy")

\* docker run fails, for the image, for the name or for itself.
Fails(a, v) ==
    /\ docker[a] # None \/ image[v] = "missing" \/ "run" \in Failing
    /\ SetStatus(a, "UnHealthy")
    /\ UNCHANGED <<containers, docker>>

StartContainer(c) ==
    LET a == req[c].app
        v == req[c].ver
    IN  /\ At(c, "start")
        /\ image[v] # "bare"
        /\ Runs(a, v) \/ ExitsAtOnce(a, v) \/ RunsUnseen(a, v) \/ Fails(a, v)
        /\ Respond(c)
        /\ UNCHANGED <<versions, traffic, image, owner, madeApps, madeVers, open>>

Exited(a) == containers[a] # None /\ ~ docker[a].running

\* What one turn of the monitor takes for exited: whatever docker inspect does
\* not say is running, for which it may have failed.
Unseen(blind) == {a \in AppIds : Exited(a)} \cup blind

\* Mutation: the monitor forgets the containers and leaves the statuses.
CheckQuietly ==
    /\ open
    /\ \E blind \in MayFail("inspect", Known) :
         /\ Unseen(blind) # {}
         /\ containers' = [a \in AppIds |-> IF a \in Unseen(blind) THEN None ELSE containers[a]]
         /\ docker' = [a \in AppIds |-> IF a \in blind THEN Lost(a) ELSE docker[a]]
    /\ UNCHANGED <<store, req, open>>

\* One turn of the monitor goroutine.
CheckContainers ==
    /\ open
    /\ \E blind \in MayFail("inspect", Known) :
         /\ Unseen(blind) # {}
         /\ containers' = [a \in AppIds |-> IF a \in Unseen(blind) THEN None ELSE containers[a]]
         /\ status' = [a \in AppIds |-> IF a \in Unseen(blind) /\ Exists(a) THEN "UnHealthy"
                                                                          ELSE status[a]]
         /\ docker' = [a \in AppIds |-> IF a \in blind THEN Lost(a) ELSE docker[a]]
    /\ UNCHANGED <<versions, traffic, image, owner, madeApps, madeVers, req, open>>

\* Docker: a container exits by itself, and stays until it is removed.
Exit(a) ==
    /\ docker[a] # None
    /\ docker[a].running
    /\ image[docker[a].version] = "exits"
    /\ docker' = [docker EXCEPT ![a].running = FALSE]
    /\ UNCHANGED <<store, containers, req, open>>

\* Serve returns as soon as the listener is closed, and the server is closed
\* then: handlers may still be on their way.
Close ==
    /\ open
    /\ open' = FALSE
    /\ containers' = [a \in AppIds |-> None]
    /\ Remove(Known)
    /\ UNCHANGED <<store, req>>

-----------------------------------------------------------------------------
(* DELETE /applications/{id} *)

StopForDelete(c, a) ==
    /\ Accepts(c)
    /\ StopContainer(a)
    /\ req' = [req EXCEPT ![c] = Begin(c, "delete", a)]
    /\ UNCHANGED <<store, open>>

DeleteApplication(c) ==
    LET a == req[c].app
    IN  /\ At(c, "delete")
        /\ versions' = [versions EXCEPT ![a] = None]
        /\ traffic' = [traffic EXCEPT ![a] = {}]
        /\ Respond(c)
        /\ UNCHANGED <<status, image, owner, madeApps, madeVers, containers, docker, open>>

-----------------------------------------------------------------------------
(* DELETE /applications/{id}/versions/{version_id} *)

\* The only version is refused on a list, the latest one on the same list ...
ListVersions(c, a, v) ==
    /\ Accepts(c)
    /\ Exists(a) /\ Len(versions[a]) > 1
    /\ req' = [req EXCEPT ![c] = [Begin(c, "read", a) EXCEPT !.ver = v, !.newest = Last(versions[a])]]
    /\ UNCHANGED <<store, containers, docker, open>>

\* Mutation: the latest version is not refused.
ReadAnyVersion(c) ==
    /\ At(c, "read")
    /\ IF Has(req[c].app, req[c].ver) THEN Goto(c, "traffic") ELSE Respond(c)
    /\ UNCHANGED <<store, containers, docker, open>>

ReadVersion(c) ==
    /\ At(c, "read")
    /\ IF Has(req[c].app, req[c].ver) /\ req[c].ver # req[c].newest
       THEN Goto(c, "traffic") ELSE Respond(c)
    /\ UNCHANGED <<store, containers, docker, open>>

\* ... a target of the traffic on what GetTraffic returns ...
GetTraffic(c) ==
    /\ At(c, "traffic")
    /\ IF req[c].ver \notin traffic[req[c].app] THEN Goto(c, "deleteVersion") ELSE Respond(c)
    /\ UNCHANGED <<store, containers, docker, open>>

Without(s, i) == SubSeq(s, 1, i - 1) \o SubSeq(s, i + 1, Len(s))

\* ... and DeleteVersion deletes whatever it is given.
DeleteVersion(c) ==
    LET a == req[c].app
    IN  /\ At(c, "deleteVersion")
        /\ IF Has(a, req[c].ver)
           THEN \E i \in 1 .. Len(versions[a]) :
                  /\ versions[a][i] = req[c].ver
                  /\ versions' = [versions EXCEPT ![a] = Without(@, i)]
           ELSE UNCHANGED versions
        /\ Respond(c)
        /\ UNCHANGED <<traffic, status, image, owner, madeApps, madeVers,
                       containers, docker, open>>

\* PUT traffics: nothing looks at the names.
PutTraffic(a, targets) ==
    /\ open
    /\ Exists(a)
    /\ Cardinality(targets) <= TrafficLimit
    /\ traffic' = [traffic EXCEPT ![a] = targets]
    /\ UNCHANGED <<versions, status, image, owner, madeApps, madeVers,
                   containers, docker, req, open>>

-----------------------------------------------------------------------------
Init ==
    /\ versions = [a \in AppIds |-> None]
    /\ traffic = [a \in AppIds |-> {}]
    /\ status = [a \in AppIds |-> "Healthy"]
    /\ image = [v \in VersionNos |-> None]
    /\ owner = [v \in VersionNos |-> None]
    /\ containers = [a \in AppIds |-> None]
    /\ docker = [a \in AppIds |-> None]
    /\ req = [c \in Clients |-> Idle]
    /\ madeApps = 0 /\ madeVers = 0
    /\ open = TRUE

Arrive(c) ==
    \/ \E img \in Images : CheckLimit(c, img)
    \/ \E a \in 1 .. madeApps :
         \/ \E img \in Images \cup {None}, all \in BOOLEAN : ReadApplication(c, a, img, all)
         \/ StopForDelete(c, a)
         \/ \E v \in 1 .. madeVers : ListVersions(c, a, v)

Handler(c) ==
    \/ CreateApplication(c)
    \/ UpdateApplication(c) \/ Reread(c) \/ ListLatest(c) \/ PutAllTraffic(c)
    \/ DeployNothing(c) \/ Stop(c) \/ StartContainer(c)
    \/ DeleteApplication(c)
    \/ ReadVersion(c) \/ GetTraffic(c) \/ DeleteVersion(c)

Next ==
    \/ \E c \in Clients : Arrive(c) \/ Handler(c)
    \/ \E a \in AppIds :
         \/ \E targets \in SUBSET (1 .. madeVers) : PutTraffic(a, targets)
         \/ Exit(a)
    \/ CheckContainers
    \/ Close

Spec == Init /\ [][Next]_vars

\* The monitor is a goroutine over a time.Ticker, and looks at a container that
\* has exited; a handler that has begun goes on.  No command has to fail.
FairSpec ==
    /\ Spec
    /\ WF_vars((\E a \in AppIds : Exited(a)) /\ CheckContainers)
    /\ \A c \in Clients : WF_vars(Handler(c))

-----------------------------------------------------------------------------
(* Safety *)

\* "DeleteVersion removes a version other than the latest one": whatever is
\* created, deleted and pruned between its four steps, an application always
\* has the version made for it last, and has it as its latest.
LatestKept ==
    \A a \in AppIds : Exists(a) =>
        /\ versions[a] # << >>
        /\ \A v \in VersionNos : owner[v] = a => v <= Last(versions[a])

\* The manager and Docker agree: what it knows is what Docker has under the
\* application's name, and whatever runs it knows, and so can stop.  The
\* exception is a container about which a docker command failed: docker rm, and
\* docker port or docker inspect, whose failures the manager takes for an exit.
RunningIsKnown ==
    \A a \in AppIds :
        /\ containers[a] # None =>
             /\ docker[a] # None
             /\ docker[a].version = containers[a] /\ ~ docker[a].lost
        /\ docker[a] # None /\ docker[a].running => containers[a] # None \/ docker[a].lost

\* While no request works on it, an application shown as Healthy has a
\* container, which runs or is about to be found not to.  The exception is one
\* whose latest version names no registry: it is Healthy from its creation on,
\* until a version that names one is deployed.
HealthyIsServed ==
    \A a \in AppIds :
        /\ open /\ Exists(a) /\ status[a] = "Healthy"
        /\ \A c \in Clients : req[c].app # a
        => \/ containers[a] # None
           \/ image[Last(versions[a])] = "bare" /\ docker[a] = None

\* "Updating an application stops the old container and starts a new one": the
\* start of an image that runs leaves the application with a container.
UpdateStarts ==
    [][\A c \in Clients :
         StartContainer(c) /\ req[c].restart /\ image[req[c].ver] = "good"
             => containers'[req[c].app] # None]_vars

-----------------------------------------------------------------------------
(* Liveness *)

Dead(a) == docker[a] # None /\ ~ docker[a].running

\* A container that exits does not stay Healthy: its application is shown as
\* UnHealthy, is given another container or is deleted.
ExitIsNoticed ==
    \A a \in AppIds :
        (Dead(a) /\ Exists(a) /\ open)
            ~> (status[a] = "UnHealthy" \/ ~ Dead(a) \/ ~ Exists(a) \/ ~ open)
=============================================================================

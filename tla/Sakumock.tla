------------------------------ MODULE Sakumock ------------------------------
(***************************************************************************)
(* `sakumock <service>`: one process that serves one service, of Stores or *)
(* of Engines.  Which one is chosen when it starts, and only that one      *)
(* acts; the state of the others does not exist.                           *)
(* The services keep their state for themselves, so that checking them one *)
(* beside the other is checking each on its own.                           *)
(***************************************************************************)
EXTENDS Engines

vars == <<serving, engineVars, storeVars>>

\* No service is served.
NoService == NoEngine /\ NoStore

Init ==
    /\ serving \in EngineServices
                    \cup {"dedicated", "iam", "monitoring", "hsm", "actions",
                          "reordering", "database"}
    /\ EngineInit
    /\ \/ serving = "dedicated" /\ AppRun!Init
       \/ serving # "dedicated" /\ NoDedicated
    /\ \/ serving = "iam" /\ Iam!Init
       \/ serving # "iam" /\ NoIam
    /\ \/ serving = "monitoring" /\ Suite!Init
       \/ serving # "monitoring" /\ NoSuite
    /\ \/ serving = "hsm" /\ HSM!Init
       \/ serving # "hsm" /\ NoHsm
    /\ \/ serving = "actions" /\ Control!Init
       \/ serving # "actions" /\ NoControl
    /\ \/ serving = "reordering" /\ Notes!Init
       \/ serving # "reordering" /\ NoNote
    /\ \/ serving = "database" /\ DB!Init
       \/ serving # "database" /\ NoDB

Next ==
    \/ /\ EngineNext
       /\ UNCHANGED <<serving, storeVars>>
    \/ /\ serving = "dedicated" /\ AppRun!Next
       /\ UNCHANGED <<serving, engineVars, iamVars, suiteVars, hsmVars,
                      controlVars, noteVars, dbVars>>
    \/ /\ serving = "iam" /\ Iam!Next
       /\ UNCHANGED <<serving, engineVars, dedicatedVars, suiteVars, hsmVars,
                      controlVars, noteVars, dbVars>>
    \/ /\ serving = "monitoring" /\ Suite!Next
       /\ UNCHANGED <<serving, engineVars, dedicatedVars, iamVars, hsmVars,
                      controlVars, noteVars, dbVars>>
    \/ /\ serving = "hsm" /\ HSM!Next
       /\ UNCHANGED <<serving, engineVars, dedicatedVars, iamVars, suiteVars,
                      controlVars, noteVars, dbVars>>
    \/ /\ serving = "actions" /\ Control!Next
       /\ UNCHANGED <<serving, engineVars, dedicatedVars, iamVars, suiteVars,
                      hsmVars, noteVars, dbVars>>
    \/ /\ serving = "reordering" /\ Notes!Next
       /\ UNCHANGED <<serving, engineVars, dedicatedVars, iamVars, suiteVars,
                      hsmVars, controlVars, dbVars>>
    \/ /\ serving = "database" /\ DB!Next
       /\ UNCHANGED <<serving, engineVars, dedicatedVars, iamVars, suiteVars,
                      hsmVars, controlVars, noteVars>>

Spec == Init /\ [][Next]_vars /\ RunFairness

-----------------------------------------------------------------------------
(* Properties: those of the modules.  What each says, and of which code,    *)
(* stands where it is defined.                                              *)

TypeOK ==
    /\ serving = "dedicated" => AppRun!TypeOK
    /\ serving = "buckets" => Storage!TypeOK
    /\ serving = "keys" => Keys!TypeOK
    /\ serving = "iam" => Iam!TypeOK
    /\ serving = "parallel" => Step!TypeOK
    /\ serving = "runbook" => Run!TypeOK
    /\ serving = "schedule" => Cron!TypeOK
    /\ serving = "login" => Login!TypeOK
    /\ serving = "monitoring" => Suite!TypeOK
    /\ serving = "hsm" => HSM!TypeOK
    /\ serving = "actions" => Control!TypeOK
    /\ serving = "reordering" => Notes!TypeOK
    /\ serving = "database" => DB!TypeOK

\* The maps and orders of a store agree, and what belongs to a record goes with
\* it: the nodes and balancers of a group of Dedicated, the devices, keys and
\* policy of a deleted user, service principal, project or folder of IAM (not
\* what mentions one, as a group's members do), the clients and peers of a
\* CloudHSM partition and the document of a license, the messages of a queue in
\* SimpleMQ's database.  A routing of Monitoring Suite names a target of its own
\* project, or a storage there is or was.
RecordsAgree ==
    /\ serving = "dedicated" => AppRun!CloudConsistent
    /\ serving = "iam" => Iam!OrderMatches /\ Iam!NothingLeftBehind
    /\ serving = "hsm" => HSM!MapsAgree
    /\ serving = "monitoring" => Suite!RoutingsNameTheirs
    /\ serving = "database" => DB!TablesAgree

\* A bucket or a key that Object Storage lists is served, and a key that it lists
\* no longer stops to authenticate, whatever call of the data plane fails and
\* through a restart, unless a request about it is under way or two crossed.  The
\* directory of a bucket no longer listed may stay.  What Dedicated forwards to is
\* a container that Docker has; which containers there should be is not asked.
DataPlanesFollow ==
    /\ serving = "dedicated" => AppRun!PortsHeld
    /\ serving = "buckets" => Storage!BucketsServed
    /\ serving = "keys" => Keys!ListedKeysServe /\ Keys!RevokedKeysStop

\* Who follows a list of Dedicated or Security Control to its end has seen all
\* of it, and a new routing of Monitoring Suite comes after those there were,
\* whatever is deleted and reordered meanwhile.
ListsInOrder ==
    /\ serving = "dedicated" => AppRun!ListingComplete
    /\ serving = "actions" => Control!WalksComplete
    /\ serving = "monitoring" => Suite!NewRoutingsComeLast

\* Applications beyond the limit of Dedicated: as many as were counted for at once.
ApplicationsBounded == serving = "dedicated" => AppRun!ApplicationsBounded

\* No step undoes what another one did.  What was deleted does not come back: a
\* number of a version of Dedicated, a record of Monitoring Suite by an update
\* under way, a routing of Simple Notification by a reordering under way.  Nor do
\* its settings of before, unless they were changed between the read and the
\* write of that reordering (crossed).  What a request to SimpleMQ was given it
\* keeps: no other has the message before its time, and no message is lost,
\* restarts included.
NothingUndone ==
    [][/\ serving = "dedicated" => AppRun!StaysUnknown
       /\ serving = "monitoring" => (Suite!DeletedStaysDeleted)'
       /\ serving = "reordering" => (Notes!SettingsSurvive)'
       /\ serving = "database" => DB!LeaseHonoured /\ DB!NoSilentLoss]_vars
=============================================================================

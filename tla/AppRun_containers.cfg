SPECIFICATION FairSpec
CONSTANTS
    Clients = {c1, c2}
    None = None
    Images = {"exits", "bare"}
    Failing = {"inspect", "rm"}
    AppLimit = 1
    KeptVersions = 2
    TrafficLimit = 1
    MaxApps = 1
    MaxVersions = 3
INVARIANTS
    TypeOK
    LatestKept
    RunningIsKnown
    HealthyIsServed
PROPERTIES
    ExitIsNoticed
CHECK_DEADLOCK FALSE

CONSTANTS
    Names = {q}
    Clients = {c1, c2}
    None = None
    Strict = FALSE
    TicksPerSecond = 1
    DefaultVT = 2
    DefaultME = 2
    VTSeconds = {2}
    ExpSeconds = {2}
    MaxTime = 3
    MaxMsgs = 2
    MaxHandles = 1
    MaxQueues = 0
    MaxKeys = 0
SPECIFICATION FairSpec
INVARIANTS TypeOK
PROPERTIES LeaseHonoured ExpiredCompacted

SPECIFICATION FairSpec
CONSTANTS
    Clients = {c1, c2}
    Aliases = {a}
    None = None
    DataPlane = TRUE
    MaxWorkflows = 1
    MaxRevisions = 2
    MaxExecs = 1
    MaxSteps = 1
    MaxStrays = 1
INVARIANTS
    TypeOK
    ActiveOwned
    OutcomeAgrees
PROPERTIES
    RunsEnd
    KeepsPromise
CHECK_DEADLOCK FALSE

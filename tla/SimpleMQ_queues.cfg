CONSTANTS
    Names = {q}
    Clients = {c1, c2}
    None = None
    Strict = FALSE
    TicksPerSecond = 1
    DefaultVT = 1
    DefaultME = 2
    VTSeconds = {2}
    ExpSeconds = {2}
    MaxTime = 2
    MaxMsgs = 1
    MaxHandles = 3
    MaxQueues = 2
    MaxKeys = 1
SPECIFICATION Spec
INVARIANTS SettingsAgree NoStaleIncarnation
PROPERTIES NoSilentLoss
SYMMETRY Symmetry

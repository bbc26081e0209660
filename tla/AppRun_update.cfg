SPECIFICATION Spec
CONSTANTS
    Clients = {c1, c2}
    None = None
    Images = {"good", "exits"}
    Failing = {}
    AppLimit = 1
    KeptVersions = 2
    TrafficLimit = 1
    MaxApps = 1
    MaxVersions = 3
PROPERTIES
    UpdateStarts
CHECK_DEADLOCK FALSE

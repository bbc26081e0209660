SPECIFICATION Spec
SYMMETRY Symmetry
CONSTANTS
    Clients = {c1}
    Aliases = {}
    None = None
    DataPlane = TRUE
    MaxWorkflows = 1
    MaxRevisions = 1
    MaxExecs = 1
    MaxSteps = 1
    MaxStrays = 0
PROPERTIES
    CancelSticks
CHECK_DEADLOCK FALSE

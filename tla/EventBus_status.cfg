SPECIFICATION Spec
SYMMETRY Symmetry
CONSTANTS
    Workers = {w1}
    Scheduler = None
    Apis = {c1}
    None = None
    Shapes <- FastShapes
    Sources = {src}
    Minute = 2
    MaxFires = 5
    Linked = TRUE
    MaxTime = 3
    MaxItems = 3
    MaxEvents = 1
    MaxEdits = 0
INVARIANTS
    StatusIsLatest
    ReferencesKeepClass

SPECIFICATION Spec
SYMMETRY Symmetry
CONSTANTS
    Workers = {w1, w2}
    Scheduler = w1
    Apis = {c1}
    None = None
    Shapes <- MCShapes
    Sources = {}
    Minute = 2
    MaxFires = 5
    Linked = FALSE
    MaxTime = 4
    MaxItems = 2
    MaxEvents = 0
    MaxEdits = 1
INVARIANTS
    StatusIsLatest

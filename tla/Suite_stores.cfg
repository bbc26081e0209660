SPECIFICATION Spec
SYMMETRY Symmetry
CONSTANTS
    None = None
    MaxID = 4
    MaxSecond = 2
    PresetIds = {2}
    MaxKeyVersion = 2
    MaxDrawn = 1
    MaxCiphertexts = 1
    Paths = {3}
    Names = {n1}
    Values = {v1, v2}
    MaxSecretVersions = 2
    MaxStored = 3
INVARIANTS
    TypeOK
    IdsDistinct
    StaysReadable
    VersionsKept
CHECK_DEADLOCK FALSE

SPECIFICATION Spec
CONSTANTS
    Agent = {a1, a2, a3}
    None = None
    Empty = Empty
    MaxId = 3
    MaxOps = 3
    MaxCrashes = 1
CHECK_DEADLOCK FALSE
SYMMETRY Symmetry
INVARIANTS
    IdsNeverReused
    BlockersHonoured
    EdgeKept
PROPERTY NoTheft

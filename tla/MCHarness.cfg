SPECIFICATION FairSpec
CONSTANTS
    Hook = {h1, h2}
    Modes <- TwoModes
    none = none
    MaxCommands = 2
CHECK_DEADLOCK FALSE
INVARIANTS
    EvidencedProgress
PROPERTY LoopCloses

SPECIFICATION FairSpec
CONSTANTS
    NTools = 2
    Kinds <- AllKinds
    MaxProgress = 1
PROPERTIES
    DrainTerminates

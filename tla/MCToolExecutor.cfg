SPECIFICATION Spec
CONSTANTS
    NTools = 3
    Kinds <- AllKinds
    MaxProgress = 1
INVARIANTS
    TypeOK
    ExclusiveAccess
    SerialAroundExclusive
    OneResultPerTool
    StartInOrder
    QueueServed
PROPERTIES
    NoSuccessAfterCancel

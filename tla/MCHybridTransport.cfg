CONSTANTS
    MaxEvents = 4
    MaxCalls = 3
    MaxBatch = 2
    MaxQueue = 2
    MaxFailures = 2
    Unserializable = {2}
SPECIFICATION LiveSpec
INVARIANTS
    NoStrandedCaller
    WriteOrder
    SettledWhenReturned
PROPERTIES
    StreamSpec
    FlushReturns
CHECK_DEADLOCK FALSE

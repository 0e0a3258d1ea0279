SPECIFICATION Spec
CONSTANTS
    MaxMessages = 3
    MaxFlushes = 2
    MaxChunks = 2
    MaxRestarts = 1
CHECK_DEADLOCK FALSE
INVARIANTS
    NothingLost
    ServedOnceInOrder
    WindowHasTimer
    SessionTracked
    ReplyComplete
    NeverAsleep

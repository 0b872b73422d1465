SPECIFICATION Spec
CONSTANTS
    Monitors = {m1, m2}
    Levels <- MCLevels
    INFO = 3
    TOP = 3
    MaxErrors = 1
    Limit = 2
    CountMod = 3
    RxLen = 2
    SndBuf = 4
    MaxEvents = 3
    MaxSock = 2
    MaxOpen = 1
    MaxReq = 3
INVARIANTS TypeOK LoopNodeIsLive PendingHasTimer QueueBounded
PROPERTIES EventsInOrder NoSilentGap QueueDrains
CHECK_DEADLOCK FALSE

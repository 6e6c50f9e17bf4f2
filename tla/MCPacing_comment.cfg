SPECIFICATION Spec
CONSTANTS
    Start = 10
    KeepAlive = 1
    Breaker = 1
    PollGap = 1
    Half = 4
    MaxNow = 6
    MaxOut = 5
    MaxBack = 1
    MaxAhead = 2
PROPERTIES
    SilentForKeepAlive
CHECK_DEADLOCK FALSE

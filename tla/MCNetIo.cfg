SPECIFICATION NetSpec
CONSTANTS
    HeadLen = 4
    Lens = {1,2}
    Garbage = {0,1,3}
    MaxPackets = 3
    MayTimeOut = TRUE
    Length = 4
    Modulus = 16
    MaxCalls = 2
    MaxFails = 4
    MaxMessages = 3
    MaxRequests = 2
    MaxConnects = 1
INVARIANTS RInv SInv CountedReached MInv AnswerEndsWait
PROPERTIES StreamSpec NetCallsReturn
CHECK_DEADLOCK FALSE

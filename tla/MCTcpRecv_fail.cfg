SPECIFICATION Spec
CONSTANTS
    HeadLen = 4
    Lens = {1,2}
    Garbage = {0,1,3}
    MaxPackets = 2
    MayTimeOut = TRUE
PROPERTIES FailedReadFails
CHECK_DEADLOCK FALSE

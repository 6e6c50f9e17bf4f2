SPECIFICATION SendSpec
CONSTANTS
    Length = 4
    Modulus = 16
    MaxCalls = 2
    MaxFails = 4
PROPERTIES FailedSendFails
CHECK_DEADLOCK FALSE

SPECIFICATION FairSpec
CONSTANTS
    Clock0 = 10
    MaxUniq = 14
    MaxTick = 11
    MaxInFlight = 3
    CtlTrx = {1}
    QryTrx = {2}
    CallbackSends = FALSE
    SendMayTimeOut = FALSE
INVARIANTS IInv
PROPERTIES NoAnswerDropped CallsReturn ControlReported

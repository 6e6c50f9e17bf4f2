SPECIFICATION Spec
CONSTANTS
    Clock0 = 10
    MaxUniq = 17
    MaxTick = 10
    MaxInFlight = 3
    CtlTrx = {1}
    QryTrx = {}
    CallbackSends = TRUE
    SendMayTimeOut = TRUE
INVARIANTS MatchIsAnswer ControlDialogue

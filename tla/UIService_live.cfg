SPECIFICATION PresentUserSpec
CONSTANTS
    Askers = {a1}
    Pushers = {p1}
    Svc = svc
    Nobody = nobody
    TimeoutMode = "timeout_deny"
    PipeRoom = 1
    MaxIds = 1
    MaxConnects = 2
PROPERTIES
    AskReturns
    AnswerCounts
    CaughtStopReturns
CHECK_DEADLOCK FALSE

SPECIFICATION PresentUserSpec
CONSTANTS
    Askers = {a1}
    Pushers = {p1}
    Svc = svc
    Nobody = nobody
    TimeoutMode = "wait_forever"
    PipeRoom = 1
    MaxIds = 1
    MaxConnects = 2
PROPERTIES StopFreesAskers
CHECK_DEADLOCK FALSE

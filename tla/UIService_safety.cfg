SPECIFICATION Spec
CONSTANTS
    Askers = {a1, a2}
    Pushers = {}
    Svc = svc
    Nobody = nobody
    TimeoutMode = "timeout_allow"
    PipeRoom = 1
    MaxIds = 2
    MaxConnects = 2
SYMMETRY Symmetry
INVARIANTS
    PromiseDiscipline
    ApprovalHasCause
PROPERTIES ImplementsGate
CHECK_DEADLOCK FALSE

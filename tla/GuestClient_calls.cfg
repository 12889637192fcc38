SPECIFICATION Spec
CONSTANTS
    MaxCalls = 4
    MaxFaults = 2
INVARIANTS
    OnceOnly
    OpenIsAccounted
PROPERTIES
    AnswerIsOwn
    RunsUnderOpenTask
CHECK_DEADLOCK FALSE

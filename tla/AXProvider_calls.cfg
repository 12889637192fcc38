SPECIFICATION Spec
CONSTANTS
    c1 = c1
    c2 = c2
    w1 = w1
    w2 = w2
    Callers <- MCCallers
    Windows <- MCWindows
    Desktops <- MCDesktops
    Pool <- MCPool
    Digits <- MCDigits
    KeyCalls <- MCKeyCalls
    Operations <- MCOperations
    MaxDepth = 2
    MaxChanges = 1
INVARIANTS
    PathsResolve
    MeantIsFound
    HeldIsReleased
    InputMeetsTarget
CHECK_DEADLOCK FALSE

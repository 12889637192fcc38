SPECIFICATION FairSpec
CONSTANTS
    VsockGuests = {v1}
    BridgeGuests = {b1}
    Health = health
    Main = main
    MaxConnects = 2
INVARIANTS
    CountIsExact
    NewsReachesUI
PROPERTIES
    ClosedBridgeEnds
    StopReturnsWithoutGuests
CHECK_DEADLOCK FALSE

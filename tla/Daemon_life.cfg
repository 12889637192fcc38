SPECIFICATION LeavingClientsSpec
CONSTANTS
    Workers = {w1, w2}
    Handles = {1, 2}
    Configured <- MCConfigured
    Security <- MCSecurity
    Mistyped = {"odd"}
    Name <- MCName
    Guests = {g1}
INVARIANTS
    SentinelEach
    CallsAreSafe
    RoutesAreOwned
PROPERTIES CaughtStopReturns
CHECK_DEADLOCK FALSE

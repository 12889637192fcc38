SPECIFICATION Spec
CONSTANTS
    Workers = {w1}
    Handles = {1}
    Configured <- MCConfigured
    Security <- MCSecurity
    Mistyped = {"odd"}
    Name <- MCName
    Guests = {}
PROPERTIES DeletedBeforeUnload
CHECK_DEADLOCK FALSE

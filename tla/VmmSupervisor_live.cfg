SPECIFICATION FairSpec
CONSTANTS
    kMaxRetries = 1
    ConfigFiles <- MCConfigFiles
    MaxLines = 0
    MaxStrays = 1
    max_rapid_restarts = 5
    MAX_RESTART_ATTEMPTS = 5
INVARIANTS StopLeavesNothing
PROPERTIES
    StopReturns
    VmmComesBack
    DeathIsNoticed
CHECK_DEADLOCK FALSE

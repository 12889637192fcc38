SPECIFICATION ManagerSpec
CONSTANTS
    kMaxRetries = 8
    ConfigFiles <- MCConfigFiles
    MaxLines = 3
    MaxStrays = 2
CONSTRAINT CallsOrFiles
INVARIANTS OtherLinesKept
PROPERTIES
    OkMeansDone
    
CHECK_DEADLOCK FALSE

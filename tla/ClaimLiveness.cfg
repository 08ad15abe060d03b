SPECIFICATION FairSpec
CONSTANTS
    MaxAttempts = 1
    MaxCount = 0
CHECK_DEADLOCK FALSE
PROPERTY StaleWorkersEnd

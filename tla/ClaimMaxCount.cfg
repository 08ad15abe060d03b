SPECIFICATION Spec
CONSTANTS
    MaxAttempts = 1
    MaxCount = 2
CHECK_DEADLOCK FALSE
INVARIANT HeartbeatsWithinMaxCount

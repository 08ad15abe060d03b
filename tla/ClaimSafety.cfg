SPECIFICATION Spec
CONSTANTS
    MaxAttempts = 2
    MaxCount = 0
CHECK_DEADLOCK FALSE
INVARIANTS
    TypeOK
    NeverAbandonsLease
PROPERTY WorkerOutlivesFailures

SPECIFICATION FairSpec
CONSTANTS
    Tokens = {t1, t2, t3}
    NoToken = NoToken
    MaxPages = 3
    MaxRequests = 6
CHECK_DEADLOCK FALSE
INVARIANTS
    TypeOK
    NoPageDropped
PROPERTIES
    RequestsAreNeeded
    IterationEnds

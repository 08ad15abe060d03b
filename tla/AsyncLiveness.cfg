SPECIFICATION FairSpec
CONSTANTS
    Calls = {c1, c2}
    Claims = {k1, k2}
    Closers = {x1, x2}
    Capacity = 1
    MaxCount = 1
    NoCall = NoCall
    NoClaim = NoClaim
CHECK_DEADLOCK FALSE
PROPERTIES
    SlotsReturn
    CloseSettles
    RefinesSlotPool

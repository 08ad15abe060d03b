SPECIFICATION FairSpec
CONSTANTS
    Calls = {c1, c2}
    Claims = {k1, k2}
    Closers = {x1, x2}
    Capacity = 1
    MaxCount = 2
    NoCall = NoCall
    NoClaim = NoClaim
    App = App
CHECK_DEADLOCK FALSE
PROPERTIES
    SlotsReturn
    CloseReturns
    RefinesSlotPool

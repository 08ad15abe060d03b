SPECIFICATION Spec
CONSTANTS
    Calls = {c1, c2, c3}
    Claims = {k1, k2}
    Closers = {x1, x2}
    Capacity = 2
    MaxCount = 1
    NoCall = NoCall
    NoClaim = NoClaim
    App = App
SYMMETRY Symmetry
CHECK_DEADLOCK FALSE
INVARIANTS
    TypeOK
    SlotAccounting
    AdmissionBounded
    RegistryIsExact
    DrainIsBounded
    ClosedIsQuiet
    CallbackCloseTimesOut

SPECIFICATION SpecThreadStartFailure
CONSTANTS
    Calls = {c1, c2, c3}
    Claims = {k1, k2}
    Closers = {x1}
    Capacity = 1
    MaxCount = 1
    NoCall = NoCall
    NoClaim = NoClaim
    App = App
SYMMETRY Symmetry
CHECK_DEADLOCK FALSE
INVARIANT AdmissionBounded

SPECIFICATION FairSpec
CONSTANTS
    r1 = r1
    r2 = r2
    Replicas = {r1, r2}
    Workers <- TwoStoreOneCheckout
    Asynchronous = {r2}
    Carts = {c1}
    MaxAttempts = 2
    MaxOutages = 1
    MaxLate = 1
    NoClaim = NoClaim
INVARIANTS
    TypeOK
    OneCheckoutPerCart
    HeartbeatsAreProcessed
PROPERTIES
    RefinesCartFlow
    CartsSettle

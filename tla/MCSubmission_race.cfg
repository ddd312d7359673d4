SPECIFICATION Spec
CONSTANTS
    a1 = a1
    a2 = a2
    k1 = k1
    k2 = k2
    cartA = cartA
    cartB = cartB
    cartC = cartC
    cartD = cartD
    i1 = i1
    i2 = i2
    i3 = i3
    v1 = v1
    v2 = v2
    Calls = {c1, c2, c3}
    Agents = {a1, a2}
    Keys = {k1, k2}
    Carts = {cartA, cartB, cartC, cartD}
    Intents = {i1, i2, i3}
    Variants = {v1, v2}
    Requests <- CustodyRequests
    Owner <- Owners
    IntentOf <- IntentsOfCarts
    Items <- CartItems
    Budget <- Generous
    Cap <- TightCap
    Custodial <- FirstCustodial
    InitialCatalog <- Catalog
    Prices <- OnePrice
    MaxMoves = 0
    MaxCrashes = 1
    NoCall = NoCall
    NoRequest = NoRequest
SYMMETRY Symmetry
CHECK_DEADLOCK FALSE
INVARIANTS
    AnswersAreTrue
    KeyBuysOnce
    PaidChainIsOneToOne
    CapHolds

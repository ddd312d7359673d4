SPECIFICATION Spec
CONSTANTS
    a1 = a1
    a2 = a2
    k1 = k1
    k2 = k2
    cartA = cartA
    cartB = cartB
    cartC = cartC
    cartD = cartD
    i1 = i1
    i2 = i2
    i3 = i3
    v1 = v1
    v2 = v2
    Calls = {c1, c2}
    Agents = {a1}
    Keys = {k1}
    Carts = {cartA}
    Intents = {i1}
    Variants = {v1}
    Requests <- RetryRequests
    Owner <- Owners
    IntentOf <- IntentsOfCarts
    Items <- CartItems
    Budget <- Generous
    Cap <- WideCap
    Custodial <- FirstCustodial
    InitialCatalog <- Catalog
    Prices <- OnePrice
    MaxMoves = 0
    MaxCrashes = 0
    NoCall = NoCall
    NoRequest = NoRequest
SYMMETRY Symmetry
CHECK_DEADLOCK FALSE
INVARIANTS
    RetryReplays

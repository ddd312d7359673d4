SPECIFICATION FairSpec
CONSTANTS
    a1 = a1
    a2 = a2
    k1 = k1
    k2 = k2
    cartA = cartA
    cartB = cartB
    cartC = cartC
    cartD = cartD
    i1 = i1
    i2 = i2
    i3 = i3
    v1 = v1
    v2 = v2
    Calls = {c1, c2}
    Agents = {a1}
    Keys = {k1, k2}
    Carts = {cartA, cartB}
    Intents = {i1, i2}
    Variants = {v1, v2}
    Requests <- BasketRequests
    Owner <- Owners
    IntentOf <- IntentsOfCarts
    Items <- CartItems
    Budget <- Budgets
    Cap <- WideCap
    Custodial <- FirstCustodial
    InitialCatalog <- Catalog
    Prices <- TwoPrices
    MaxMoves = 2
    MaxCrashes = 1
    NoCall = NoCall
    NoRequest = NoRequest
CHECK_DEADLOCK FALSE
INVARIANTS
    TypeOK
    RefusedLeavesNothing
PROPERTIES
    CallsAreAnswered

SPECIFICATION Spec
CONSTANTS
    a1 = a1
    a2 = a2
    k1 = k1
    s1 = s1
    s2 = s2
    v1 = v1
    v2 = v2
    tee = tee
    Agents = {a1, a2}
    ClientKeys = {k1}
    Seeds = {s1, s2}
    Preferred <- FirstPrefers
    Variants = {v1, v2}
    Prices = {1, 2}
    InitialCatalog <- AllAtOne
    Calls = {c1, c2}
    Wants = {tee}
    Declarations <- Declaring
    Baskets <- Basketfuls
    Registrations <- Entering
    Int4Max = 3
    MaxClock = 1
    MaxMoves = 1
    MaxCrashes = 1
    Null = Null
SYMMETRY Symmetry
CHECK_DEADLOCK FALSE
INVARIANTS
    TypeOK
    StoredChainVerifies
    PinnedPricesWereShown
    HashNamesOneAct
    SeedsAgree

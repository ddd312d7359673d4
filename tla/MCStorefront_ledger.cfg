SPECIFICATION Spec
CONSTANTS
    NoField = NoField
    buyer = buyer
    stranger = stranger
    tee = tee
    cap = cap
    visitor = visitor
    human = human
    i1 = i1
    i2 = i2
    i3 = i3
    i4 = i4
    k1 = k1
    k2 = k2
    k3 = k3
    k4 = k4
    o1 = o1
    o2 = o2
    o3 = o3
    o4 = o4
    Clients = {visitor, human}
    Deliverers = {d1}
    Script <- LedgerScript
    Seeded <- Rows
    SeededLog <- Log
    PaymentAttemptLimit = 1
    GatewayMayFail = TRUE
    UnnamedPayments = TRUE
    MaxRollbacks = 1
    Int4Max = 3
CHECK_DEADLOCK TRUE
INVARIANTS
    TypeOK
    AuditFindsNothing
    BooksAgree
    ReadsAreWhole

SPECIFICATION Spec
CONSTANTS
    o1 = o1
    o2 = o2
    p1 = p1
    p2 = p2
    p3 = p3
    v1 = v1
    v2 = v2
    Orders = {o1, o2}
    Payments = {p1}
    Variants = {v1, v2}
    Handlers = {h1, h2, h3}
    Lines <- RivalLines
    InitialStock <- OneEach
    PaymentAttemptLimit = 2
    CaptureShapes <- SiblingShapes
    FailureShapes <- NoShapes
    RefundMayFail = TRUE
    MaxCrashes = 1
    NoPayment = NoPayment
    NoEvent = NoEvent
SYMMETRY Symmetry
CHECK_DEADLOCK FALSE
INVARIANTS
    TypeOK
    GoodsFollowMoney
    StockConserved
    RefundsAreOwed
    RefundHasOneOwner
PROPERTIES
    ImplementsLifecycle
    WriteOnce

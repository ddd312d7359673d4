SPECIFICATION FairSpec
CONSTANTS
    o1 = o1
    o2 = o2
    p1 = p1
    p2 = p2
    p3 = p3
    v1 = v1
    v2 = v2
    Orders = {o1}
    Payments = {p1, p2}
    Variants = {v1}
    Handlers = {h1, h2}
    Lines <- RivalLines
    InitialStock <- NoStock
    PaymentAttemptLimit = 1
    CaptureShapes <- PaidOrOdd
    FailureShapes <- LinkedFailure
    RefundMayFail = TRUE
    MaxCrashes = 1
    NoPayment = NoPayment
    NoEvent = NoEvent
CHECK_DEADLOCK FALSE
INVARIANTS
    NoCaptureSwallowed
PROPERTIES
    CaptureSettles
    OversellRefunded

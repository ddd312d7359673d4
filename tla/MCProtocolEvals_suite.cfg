SPECIFICATION SuiteSpec
CONSTANTS
    NoField = NoField
    driver = driver
    tee = tee
    cap = cap
    Clients = {driver}
    Deliverers = {}
    Script <- NoScript
    Seeded <- SeededCatalog
    SeededLog <- EmptyLog
    PaymentAttemptLimit = 2
    GatewayMayFail = FALSE
    UnnamedPayments = FALSE
    MaxRollbacks = 0
    Int4Max = 2147483647
INVARIANTS
    ScenariosPass
    BatchAuditClean

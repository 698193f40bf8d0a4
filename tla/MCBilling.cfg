SPECIFICATION Spec
CONSTANTS
    UUIDs = {u, v}
    Emails = {e}
    MaxStats = 2
    MaxIdentities = 2
    UserTrafficMetrics = TRUE
INVARIANTS
    TypeOK
    BilledToAccount
    TrafficConserved
    EmailBilledOnlyWithoutUUID
CHECK_DEADLOCK FALSE

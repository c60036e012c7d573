SPECIFICATION Spec
CONSTANTS
    r1 = r1
    r2 = r2
    Requests = {r1, r2}
    Workloads <- TwoTransfers
    FINGERPRINT_TTL = 1
    POW_CONCURRENCY = 1
    MaxClaims = 2
    Prize = 1
    StartBalance = 3
    MaxOutside = 0
    MaxFaults = 0
    Free = Free
    NoTx = NoTx
INVARIANTS
    FallbackIsSound
CHECK_DEADLOCK FALSE

SPECIFICATION Spec
CONSTANTS
    r1 = r1
    r2 = r2
    Requests = {r1, r2}
    Workloads <- MCWorkloads
    FINGERPRINT_TTL = 1
    POW_CONCURRENCY = 1
    MaxClaims = 2
    Prize = 1
    StartBalance = 2
    MaxOutside = 1
    MaxFaults = 1
    Free = Free
    NoTx = NoTx
SYMMETRY Symmetry
INVARIANTS
    NonceUsedOnce
    ConfirmedMeansCommitted
    TransfersPreviewed
    NobodyStuck
PROPERTIES
    NoStaleSend
    NoResurrection
    NoNeedlessClaim
CHECK_DEADLOCK FALSE

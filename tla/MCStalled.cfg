SPECIFICATION Spec
CONSTANTS
    bob = bob
    maker = maker
    maker_lez = maker_lez
    bob_lez = bob_lez
    eve_lez = eve_lez
    h1 = h1
    p1 = p1
    ZeroAddress = ZeroAddress
    ZeroBytes32 = ZeroBytes32
    NoEscrow = NoEscrow
    NoPreimage = NoPreimage
    Accounts = {maker, bob}
    Hashlocks = {h1}
    Preimages = {p1}
    LezAccounts = {maker_lez, bob_lez, eve_lez}
    Sha256 <- MCSha256
    Swap <- MCSwap
    SwapIds <- MCSwapIds
    Secret = p1
    OtherTxs <- AnyTerms
    minTimelockDelta = 1
    InitialBalance = 1
    LezBalance = 2
    lez_amount = 1
    LEZ_CLAIM_MARGIN_SECS = 2
    MaxTime = 5
    MaxPending = 1
    MaxFaults = 0
    U64Max = 100
CHECK_DEADLOCK FALSE
INVARIANT
    StalledSwapLosesNothing

SPECIFICATION FairSpec
CONSTANTS
    maker = maker
    bob = bob
    maker_lez = maker_lez
    bob_lez = bob_lez
    eve_lez = eve_lez
    h1 = h1
    h2 = h2
    p1 = p1
    p2 = p2
    ZeroAddress = ZeroAddress
    ZeroBytes32 = ZeroBytes32
    NoEscrow = NoEscrow
    NoPreimage = NoPreimage
    NoEntry = NoEntry
    Idle = Idle
    Accounts = {maker, bob}
    Hashlocks = {h1}
    Preimages = {p1}
    LezAccounts = {maker_lez, bob_lez, eve_lez}
    Sha256 <- MCSha256
    SwapIds <- OneTaker
    OtherTxs <- ForeignLock
    Maker = maker
    MakerLez = maker_lez
    Served = {bob_lez}
    minTimelockDelta = 0
    InitialBalance = 3
    LezBalance = 2
    eth_amount = 1
    lez_amount = 1
    lez_timelock_secs = 2
    timelock_margin_secs = 1
    PollSecs = 1
    MAX_REJECTED = 1
    MaxTime = 4
    MaxPending = 2
    MaxFaults = 1
    U64Max = 100
INVARIANTS
    LezOnlyInOwnEscrow
    RecoverableIsJournaled
PROPERTIES
    SwapsEnd
    JournalDrains

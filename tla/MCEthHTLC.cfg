SPECIFICATION Spec
CONSTANTS
    alice = alice
    carol = carol
    dave = dave
    h1 = h1
    h2 = h2
    p1 = p1
    p2 = p2
    bob_lez = bob_lez
    ZeroAddress = ZeroAddress
    ZeroBytes32 = ZeroBytes32
    Accounts = {alice, carol, dave}
    Contracts = {carol, dave}
    Hashlocks = {h1, h2}
    Preimages = {p1, p2}
    LezAccounts = {bob_lez}
    Sha256 <- MCSha256
    SwapIds <- MCSwapIds
    minTimelockDelta = 1
    InitialBalance = 3
    MaxDepth = 3
    MaxTime = 4
INVARIANTS
    EventsTellState
    BalancesExplained
PROPERTIES
    SettledForGood
CHECK_DEADLOCK FALSE

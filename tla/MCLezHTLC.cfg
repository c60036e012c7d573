SPECIFICATION Spec
CONSTANTS
    alice_lez = alice_lez
    bob_lez = bob_lez
    h1 = h1
    h2 = h2
    p1 = p1
    p2 = p2
    NoEscrow = NoEscrow
    NoPreimage = NoPreimage
    LezAccounts = {alice_lez, bob_lez}
    LezHashlocks = {h1, h2}
    LezPreimages = {p1, p2}
    LezSha256 <- MCSha256
    Txs <- MCTxs
    LezBalance = 4
    MaxPending = 2
    MaxSeconds = 2
CONSTRAINT FewInFlight
INVARIANTS
    TypeOK
    ClaimRevealsSecret
    LambdaConserved
PROPERTIES
    EscrowSettlesOnce
CHECK_DEADLOCK FALSE

------------------------------ MODULE TakerRun ------------------------------
(***************************************************************************)
(* One run of the taker, run_taker of src/swap/taker.rs, and the command   *)
(* that refunds its ETH (src/swap/refund.rs, src/cli/refund.rs), against   *)
(* both chains and a maker who does as it likes: it locks escrows on any   *)
(* terms, funds them or not, refunds them, and claims the ETH as soon as   *)
(* the secret has left the taker.                                          *)
(*                                                                         *)
(* The secret is in memory only, so a run that fails or crashes is over;   *)
(* what is left to the user is the refund command.                         *)
(***************************************************************************)
EXTENDS SwapPolicy, Sequences

CONSTANTS
    Accounts, ZeroAddress, ZeroBytes32, Hashlocks, Preimages, Sha256, LezAccounts,
    SwapIds, minTimelockDelta, InitialBalance, MaxTime,
    NoEscrow, NoPreimage, LezBalance, MaxPending,
    Swap,                    \* the ETH lock this run makes
    Secret,                  \* its preimage
    lez_amount,
    LEZ_CLAIM_MARGIN_SECS,
    OtherTxs,                \* LEZ transactions of the maker and others
    MaxFaults

(***************************************************************************)
(* The taker locks for its own secret and its own account, before a time   *)
(* that is a u64, as every time is in its code; the margin is 300 there.   *)
(***************************************************************************)
ASSUME TakerAssumption ==
    /\ Swap \in SwapIds /\ Secret \in Preimages
    /\ Swap.hashlock = Sha256[Secret] /\ Swap.takerLezAccount \in LezAccounts
    /\ Swap.timelock <= U64Max
    /\ lez_amount \in Nat /\ MaxFaults \in Nat
    /\ LEZ_CLAIM_MARGIN_SECS \in Nat \ {0}

TakerLez == Swap.takerLezAccount
hashlock == Swap.hashlock
ClaimTx == [op |-> "Claim", signer |-> TakerLez, hashlock |-> hashlock, preimage |-> Secret]
Txs == OtherTxs \cup {ClaimTx}

VARIABLES
    now, htlcs, events, balances, held, frames,   \* Ethereum
    escrows, pdas, wallets, pending,              \* LEZ
    pc,           \* the next call of run_taker, or how it ended
    escrow,       \* what get_escrow returned
    verified_at,  \* when the escrow was verified
    revealed,     \* the secret has left the taker
    faults

Eth == INSTANCE EthHTLC WITH Contracts <- {}, MaxDepth <- 1
Lez == INSTANCE LezHTLC WITH LezHashlocks <- Hashlocks, LezPreimages <- Preimages,
                             LezSha256 <- Sha256, MaxSeconds <- MaxTime

(***************************************************************************)
(* What the two chains assume of their constants.                          *)
(***************************************************************************)
ASSUME ChainsAssumption ==
    /\ ZeroAddress \notin Accounts
    /\ ZeroBytes32 \notin Hashlocks \cup LezAccounts
    /\ Sha256 \in [Preimages -> Hashlocks]
    /\ \A p, q \in Preimages : Sha256[p] = Sha256[q] => p = q
    /\ SwapIds \subseteq [sender : Accounts, recipient : Accounts \cup {ZeroAddress},
                          amount : Nat, hashlock : Hashlocks \cup {ZeroBytes32},
                          timelock : Nat,
                          takerLezAccount : LezAccounts \cup {ZeroBytes32}]
    /\ NoPreimage \notin Preimages
    /\ NoEscrow \notin Lez!HTLCEscrow
    /\ OtherTxs \subseteq Lez!LockTx \cup Lez!ClaimTx \cup Lez!RefundTx \cup Lez!TransferTx
    /\ minTimelockDelta \in Nat /\ InitialBalance \in Nat /\ MaxTime \in Nat
    /\ LezBalance \in Nat /\ MaxPending \in Nat

ethVars == <<htlcs, events, balances, held, frames>>
lezVars == <<escrows, pdas, wallets, pending>>
takerVars == <<pc, escrow, verified_at, revealed>>
vars == <<now, ethVars, lezVars, takerVars, faults>>

Ended == {"completed", "refunded", "failed"}
StateOf(h) == IF escrows[h] = NoEscrow THEN "None" ELSE escrows[h].state

Fault == faults < MaxFaults /\ faults' = faults + 1
NoFault == UNCHANGED faults

Goto(step) == pc' = step /\ UNCHANGED <<escrow, verified_at, revealed>>
NoChain == UNCHANGED <<now, ethVars, lezVars>>

-----------------------------------------------------------------------------
(***************************************************************************)
(* An Ethereum transaction: mined; or an error, and then it may have been  *)
(* mined all the same.  One that would revert fails without a fault.       *)
(***************************************************************************)
Transact(call, possible, done, failed) ==
    \/ call /\ Goto(done) /\ NoFault
    \/ call /\ Goto(failed) /\ Fault
    \/ UNCHANGED <<now, ethVars>> /\ Goto(failed) /\ (IF possible THEN Fault ELSE NoFault)

LockEth ==
    /\ pc = "start"
    /\ Transact(Eth!lock(Swap), ENABLED Eth!lock(Swap), "watch", "failed")
    /\ UNCHANGED lezVars

(***************************************************************************)
(* watch_escrow tells of a Locked escrow once something has been paid in.  *)
(***************************************************************************)
LockSeen ==
    /\ pc = "watch"
    /\ StateOf(hashlock) = "Locked" /\ pdas[hashlock] > 0
    /\ Goto("verify")
    /\ NoFault /\ NoChain

RefundSeen ==
    /\ pc = "watch"
    /\ StateOf(hashlock) = "Refunded"
    /\ Goto("refund")
    /\ NoFault /\ NoChain

(*************************************************************************)
(* A mistake: the timelock counts only while there is no escrow at all.  *)
(*************************************************************************)
TimelockExpires_if_absent ==
    /\ pc = "watch"
    /\ now >= Swap.timelock
    /\ StateOf(hashlock) = "None"
    /\ Goto("refund")
    /\ NoFault /\ NoChain

TimelockExpires ==
    /\ pc = "watch"
    /\ now >= Swap.timelock
    /\ Goto("refund")
    /\ NoFault /\ NoChain

(***************************************************************************)
(* The escrow is read once; absence, an error or wrong terms end the run.  *)
(***************************************************************************)
VerifyEscrow ==
    /\ pc = "verify"
    /\ \/ /\ escrows[hashlock] # NoEscrow
          /\ escrows[hashlock].state = "Locked"
          /\ escrows[hashlock].amount >= lez_amount
          /\ pc' = "balance" /\ escrow' = escrows[hashlock]
          /\ UNCHANGED <<verified_at, revealed>> /\ NoFault
       \/ /\ escrows[hashlock] = NoEscrow \/ escrows[hashlock].state # "Locked"
                                          \/ escrows[hashlock].amount < lez_amount
          /\ Goto("failed") /\ NoFault
       \/ Goto("failed") /\ Fault
    /\ NoChain

VerifyBalance ==
    /\ pc = "balance"
    /\ \/ /\ pdas[hashlock] >= lez_amount
          /\ verify_escrow_binding(escrow, TakerLez, Swap.timelock, now, LEZ_CLAIM_MARGIN_SECS)
          /\ pc' = "claim" /\ verified_at' = now
          /\ UNCHANGED <<escrow, revealed>> /\ NoFault
       \/ /\ \/ pdas[hashlock] < lez_amount
             \/ ~verify_escrow_binding(escrow, TakerLez, Swap.timelock, now, LEZ_CLAIM_MARGIN_SECS)
          /\ Goto("failed") /\ NoFault
       \/ Goto("failed") /\ Fault
    /\ NoChain

(***************************************************************************)
(* LezClient::claim submits and does not wait: the run is then completed.  *)
(***************************************************************************)
ClaimLez ==
    /\ pc = "claim"
    /\ \/ Lez!Submit(ClaimTx) /\ revealed' = TRUE /\ pc' = "completed" /\ NoFault
       \/ Lez!Submit(ClaimTx) /\ revealed' = TRUE /\ pc' = "failed" /\ Fault
       \/ UNCHANGED <<lezVars, revealed>> /\ pc' = "failed" /\ Fault
    /\ UNCHANGED <<now, ethVars, escrow, verified_at>>

(***************************************************************************)
(* The refund's error is dropped (.ok()): the run says Refunded anyway.    *)
(***************************************************************************)
RefundEth ==
    /\ pc = "refund"
    /\ Transact(Eth!refund(Swap), ENABLED Eth!refund(Swap), "refunded", "refunded")
    /\ UNCHANGED lezVars

Crash ==
    /\ pc \notin Ended
    /\ Fault
    /\ Goto("failed")
    /\ NoChain

(***************************************************************************)
(* cmd_refund, when the user asks for it.                                  *)
(***************************************************************************)
RefundCommand ==
    /\ pc \in Ended
    /\ Eth!refund(Swap)
    /\ NoFault /\ UNCHANGED <<lezVars, takerVars>>

-----------------------------------------------------------------------------
(***************************************************************************)
(* The rest of the world.  EthHTLC.claim may be called by anyone who has   *)
(* the secret.                                                             *)
(***************************************************************************)
OthersSubmit(tx) ==
    /\ pending[tx] = 0
    /\ Lez!Submit(tx)
    /\ NoFault /\ UNCHANGED <<now, ethVars, takerVars>>

MakerClaimsEth ==
    /\ revealed
    /\ Eth!claim(Swap, Secret)
    /\ NoFault /\ UNCHANGED <<lezVars, takerVars>>

Executes(tx) ==
    \/ Lez!execute_lock(tx)
    \/ Lez!execute_claim(tx)
    \/ Lez!execute_refund(tx)
    \/ Lez!transfer(tx)

(***************************************************************************)
(* The sequencer loses transactions of others, but not a claim it could    *)
(* execute: the taker sends it once.                                       *)
(***************************************************************************)
Sequence(tx) ==
    /\ pending[tx] > 0
    /\ \/ Executes(tx)
       \/ Lez!Drop(tx) /\ (tx = ClaimTx => ~Lez!AcceptsClaim(tx))
    /\ NoFault /\ UNCHANGED <<now, ethVars, takerVars>>

(***************************************************************************)
(* What LEZ_CLAIM_MARGIN_SECS is for: a claim of a verified escrow is sent *)
(* and executed before the margin has passed.                              *)
(***************************************************************************)
ClaimIsPrompt ==
    pc = "claim" \/ pending[ClaimTx] > 0 => now + 1 < verified_at + LEZ_CLAIM_MARGIN_SECS

Tick ==
    /\ ClaimIsPrompt
    /\ Eth!Tick
    /\ NoFault /\ UNCHANGED <<lezVars, takerVars>>

-----------------------------------------------------------------------------
Init ==
    /\ Eth!Init
    /\ Lez!Init
    /\ pc = "start"
    /\ escrow = NoEscrow
    /\ verified_at = 0
    /\ revealed = FALSE
    /\ faults = 0

TakerStep ==
    \/ LockEth
    \/ LockSeen \/ RefundSeen \/ TimelockExpires
    \/ VerifyEscrow \/ VerifyBalance
    \/ ClaimLez
    \/ RefundEth

Next ==
    \/ TakerStep
    \/ Crash
    \/ RefundCommand
    \/ \E tx \in OtherTxs : OthersSubmit(tx)
    \/ MakerClaimsEth
    \/ \E tx \in Txs : Sequence(tx)
    \/ Tick

Spec == Init /\ [][Next]_vars

(***************************************************************************)
(* The run goes on, the sequencer and the clock too.  Nobody has to use    *)
(* the refund command, and the maker owes nothing.                         *)
(***************************************************************************)
Fairness == WF_vars(TakerStep) /\ WF_vars(Tick) /\ \A tx \in Txs : WF_vars(Sequence(tx))
FairSpec == Spec /\ Fairness

-----------------------------------------------------------------------------
(***************************************************************************)
(* Every variable has its type.                                            *)
(***************************************************************************)
TypeOK ==
    /\ Eth!TypeOK
    /\ Lez!TypeOK
    /\ pc \in {"start", "watch", "verify", "balance", "claim", "refund"} \cup Ended
    /\ escrow \in Lez!HTLCEscrow \cup {NoEscrow}
    /\ verified_at \in Nat
    /\ revealed \in BOOLEAN
    /\ faults \in 0..MaxFaults

(***************************************************************************)
(* The taker has its LEZ, or it is only waiting for the sequencer.         *)
(***************************************************************************)
Paid ==
    \/ StateOf(hashlock) = "Claimed"
    \/ StateOf(hashlock) = "Locked" /\ pending[ClaimTx] > 0 /\ pdas[hashlock] >= escrow.amount
Agreed == escrow # NoEscrow /\ escrow.amount = lez_amount

(***************************************************************************)
(* The swap is atomic for the taker: its ETH is taken only if its LEZ is   *)
(* there for it, whatever escrow the maker made, changed or refunded while *)
(* the taker was looking, and wherever the taker failed or crashed.  An    *)
(* escrow that asks for more than was agreed is the exception              *)
(* (StalledSwapLosesNothing).                                              *)
(***************************************************************************)
TakerNeverLoses == htlcs[Swap] = "CLAIMED" /\ Agreed => Paid

(***************************************************************************)
(* Before the ETH is gone the secret has been shown to an escrow for the   *)
(* taker, that ends before the ETH lock does; so a taker who was not paid  *)
(* can still be refunded (verify_escrow_binding).                          *)
(***************************************************************************)
RevealedInOrder ==
    revealed => /\ escrows[hashlock] # NoEscrow
                /\ escrows[hashlock].taker_id = TakerLez
                /\ escrows[hashlock].amount >= lez_amount
                /\ escrows[hashlock].timelock < 1000 * Swap.timelock

(***************************************************************************)
(* A run comes to an end, also when the maker never locks, locks without   *)
(* paying or is paid back; and one that ends as completed on the agreed    *)
(* terms has its LEZ in the end, though run_taker does not wait for it.    *)
(***************************************************************************)
RunEnds == <>(pc \in Ended)
CompletedIsPaid == (pc = "completed" /\ Agreed) ~> (StateOf(hashlock) = "Claimed")

-----------------------------------------------------------------------------
(***************************************************************************)
(* What the repository says of the taker and the code does not do.         *)
(*                                                                         *)
(* A stalled swap cannot lose the taker's funds (fundsSafeGeneral,         *)
(* swap-ui/src/qml/SwapCopy/Copy.qml): the ETH is taken only if the LEZ is *)
(* there for the taker.                                                    *)
(***************************************************************************)
StalledSwapLosesNothing == htlcs[Swap] = "CLAIMED" => Paid
=============================================================================

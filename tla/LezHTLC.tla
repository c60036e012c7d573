------------------------------ MODULE LezHTLC ------------------------------
(***************************************************************************)
(* The LEZ half of the swap: the escrow program                            *)
(* programs/lez-htlc/methods/guest/src/{lib,main}.rs, run by a sequencer.  *)
(*                                                                         *)
(* A client submits a transaction (send_htlc_instruction, transfer of      *)
(* src/lez/client.rs) and returns; the sequencer executes it later, in any *)
(* order, or drops it.  A transaction whose guest program panics has no    *)
(* effect.  Submitting twice gives two transactions, so "pending" counts.  *)
(*                                                                         *)
(* The escrow account of a hashlock is derived from the hashlock alone     *)
(* (escrow_pda), so there is one per hashlock, whoever locks it.  Locking  *)
(* writes its data and moves no money: a separate transfer funds it.       *)
(*                                                                         *)
(* The clock "now" is in seconds; the program's timelock and the           *)
(* sequencer's block timestamps are in milliseconds.                       *)
(***************************************************************************)
EXTENDS Naturals

CONSTANTS
    LezAccounts,     \* account ids that can sign
    LezHashlocks,
    LezPreimages,
    LezSha256,       \* [LezPreimages -> LezHashlocks]
    NoEscrow,        \* the data of an account no program has claimed
    NoPreimage,      \* preimage: None
    Txs,             \* the transactions clients may submit
    LezBalance,      \* lambda each account starts with
    MaxPending,      \* bound on the copies of a transaction in flight
    MaxSeconds       \* bound on the clock

LockTx == [op : {"Lock"}, signer : LezAccounts, hashlock : LezHashlocks,
           taker_id : LezAccounts, amount : Nat, timelock : Nat]
ClaimTx == [op : {"Claim"}, signer : LezAccounts, hashlock : LezHashlocks,
            preimage : LezPreimages]
RefundTx == [op : {"Refund"}, signer : LezAccounts, hashlock : LezHashlocks]
TransferTx == [op : {"Transfer"}, signer : LezAccounts, hashlock : LezHashlocks,
               amount : Nat]

HTLCEscrow == [maker_id : LezAccounts, taker_id : LezAccounts, amount : Nat,
               state : {"Locked", "Claimed", "Refunded"}, timelock : Nat,
               preimage : LezPreimages \cup {NoPreimage}]

ASSUME LezAssumption ==
    /\ LezSha256 \in [LezPreimages -> LezHashlocks]
    /\ NoPreimage \notin LezPreimages
    /\ NoEscrow \notin HTLCEscrow
    /\ Txs \subseteq LockTx \cup ClaimTx \cup RefundTx \cup TransferTx
    /\ LezBalance \in Nat /\ MaxPending \in Nat /\ MaxSeconds \in Nat

VARIABLES
    now,       \* the clock, in seconds
    escrows,   \* data of each escrow account
    pdas,      \* balance of each escrow account
    wallets,   \* balance of each signing account
    pending    \* copies of each transaction submitted and not yet executed

lezVars == <<escrows, pdas, wallets, pending>>
vars == <<now, escrows, pdas, wallets, pending>>

(***************************************************************************)
(* A block's timestamp; refund's validity window is compared with it.      *)
(***************************************************************************)
BlockTimestamp == now * 1000

Taken(tx) == pending' = [pending EXCEPT ![tx] = @ - 1]

(***************************************************************************)
(* A client hands a transaction to the sequencer.                          *)
(***************************************************************************)
Submit(tx) ==
    /\ pending[tx] < MaxPending
    /\ pending' = [pending EXCEPT ![tx] = @ + 1]
    /\ UNCHANGED <<escrows, pdas, wallets>>

(***************************************************************************)
(* The sequencer loses a transaction, or its program panics.               *)
(***************************************************************************)
Drop(tx) ==
    /\ pending[tx] > 0
    /\ Taken(tx)
    /\ UNCHANGED <<escrows, pdas, wallets>>

(***************************************************************************)
(* The account must be Account::default(): no data and no balance.         *)
(***************************************************************************)
AcceptsLock(tx) ==
    /\ tx.signer # tx.taker_id
    /\ escrows[tx.hashlock] = NoEscrow
    /\ pdas[tx.hashlock] = 0

execute_lock(tx) ==
    /\ pending[tx] > 0
    /\ tx.op = "Lock"
    /\ AcceptsLock(tx)
    /\ escrows' = [escrows EXCEPT ![tx.hashlock] =
                      [maker_id |-> tx.signer, taker_id |-> tx.taker_id,
                       amount |-> tx.amount, state |-> "Locked",
                       timelock |-> tx.timelock, preimage |-> NoPreimage]]
    /\ Taken(tx)
    /\ UNCHANGED <<pdas, wallets>>

(*************************************************************************)
(* Mistakes: the escrow account's balance, or the secret, is not checked.*)
(*************************************************************************)
execute_claim_unfunded(tx) ==
    LET h == tx.hashlock
        escrow == escrows[h]
    IN  /\ pending[tx] > 0
        /\ tx.op = "Claim"
        /\ escrow # NoEscrow
        /\ escrow.state = "Locked"
        /\ tx.signer = escrow.taker_id
        /\ LezSha256[tx.preimage] = h
        /\ pdas' = [pdas EXCEPT ![h] = @ - escrow.amount]
        /\ wallets' = [wallets EXCEPT ![tx.signer] = @ + escrow.amount]
        /\ escrows' = [escrows EXCEPT ![h].state = "Claimed", ![h].preimage = tx.preimage]
        /\ Taken(tx)

execute_claim_any_secret(tx) ==
    LET h == tx.hashlock
        escrow == escrows[h]
    IN  /\ pending[tx] > 0
        /\ tx.op = "Claim"
        /\ escrow # NoEscrow
        /\ escrow.state = "Locked"
        /\ tx.signer = escrow.taker_id
        /\ pdas[h] >= escrow.amount
        /\ pdas' = [pdas EXCEPT ![h] = @ - escrow.amount]
        /\ wallets' = [wallets EXCEPT ![tx.signer] = @ + escrow.amount]
        /\ escrows' = [escrows EXCEPT ![h].state = "Claimed", ![h].preimage = tx.preimage]
        /\ Taken(tx)

(***************************************************************************)
(* What the program asks of a claim.  There is no deadline: one after the  *)
(* timelock is as good as one before.                                      *)
(***************************************************************************)
AcceptsClaim(tx) ==
    LET h == tx.hashlock
        escrow == escrows[h]
    IN  /\ escrow # NoEscrow
        /\ escrow.state = "Locked"
        /\ tx.signer = escrow.taker_id
        /\ LezSha256[tx.preimage] = h
        /\ pdas[h] >= escrow.amount

execute_claim(tx) ==
    LET h == tx.hashlock
        escrow == escrows[h]
    IN  /\ pending[tx] > 0
        /\ tx.op = "Claim"
        /\ AcceptsClaim(tx)
        /\ pdas' = [pdas EXCEPT ![h] = @ - escrow.amount]
        /\ wallets' = [wallets EXCEPT ![tx.signer] = @ + escrow.amount]
        /\ escrows' = [escrows EXCEPT ![h].state = "Claimed", ![h].preimage = tx.preimage]
        /\ Taken(tx)

(*************************************************************************)
(* Mistakes: the state is not checked, or the account's whole balance is*)
(* paid out.                                                            *)
(*************************************************************************)
execute_refund_twice(tx) ==
    LET h == tx.hashlock
        escrow == escrows[h]
    IN  /\ pending[tx] > 0
        /\ tx.op = "Refund"
        /\ escrow # NoEscrow
        /\ tx.signer = escrow.maker_id
        /\ pdas[h] >= escrow.amount
        /\ BlockTimestamp >= escrow.timelock
        /\ pdas' = [pdas EXCEPT ![h] = @ - escrow.amount]
        /\ wallets' = [wallets EXCEPT ![tx.signer] = @ + escrow.amount]
        /\ escrows' = [escrows EXCEPT ![h].state = "Refunded"]
        /\ Taken(tx)

execute_refund_all(tx) ==
    LET h == tx.hashlock
        escrow == escrows[h]
    IN  /\ pending[tx] > 0
        /\ tx.op = "Refund"
        /\ escrow # NoEscrow
        /\ escrow.state = "Locked"
        /\ tx.signer = escrow.maker_id
        /\ pdas[h] >= escrow.amount
        /\ BlockTimestamp >= escrow.timelock
        /\ pdas' = [pdas EXCEPT ![h] = @ - escrow.amount]
        /\ wallets' = [wallets EXCEPT ![tx.signer] = @ + pdas[h]]
        /\ escrows' = [escrows EXCEPT ![h].state = "Refunded"]
        /\ Taken(tx)

AcceptsRefund(tx) ==
    LET h == tx.hashlock
        escrow == escrows[h]
    IN  /\ escrow # NoEscrow
        /\ escrow.state = "Locked"
        /\ tx.signer = escrow.maker_id
        /\ pdas[h] >= escrow.amount
        /\ BlockTimestamp >= escrow.timelock

execute_refund(tx) ==
    LET h == tx.hashlock
        escrow == escrows[h]
    IN  /\ pending[tx] > 0
        /\ tx.op = "Refund"
        /\ AcceptsRefund(tx)
        /\ pdas' = [pdas EXCEPT ![h] = @ - escrow.amount]
        /\ wallets' = [wallets EXCEPT ![tx.signer] = @ + escrow.amount]
        /\ escrows' = [escrows EXCEPT ![h].state = "Refunded"]
        /\ Taken(tx)

(***************************************************************************)
(* The authenticated transfer program, paying an escrow account.           *)
(***************************************************************************)
transfer(tx) ==
    /\ pending[tx] > 0
    /\ tx.op = "Transfer"
    /\ wallets[tx.signer] >= tx.amount
    /\ wallets' = [wallets EXCEPT ![tx.signer] = @ - tx.amount]
    /\ pdas' = [pdas EXCEPT ![tx.hashlock] = @ + tx.amount]
    /\ Taken(tx)
    /\ UNCHANGED escrows

(***************************************************************************)
(* A transaction that would be executed now.                               *)
(***************************************************************************)
Accepts(tx) ==
    \/ tx.op = "Lock" /\ AcceptsLock(tx)
    \/ tx.op = "Claim" /\ AcceptsClaim(tx)
    \/ tx.op = "Refund" /\ AcceptsRefund(tx)
    \/ tx.op = "Transfer" /\ wallets[tx.signer] >= tx.amount

Sequencer(tx) ==
    \/ execute_lock(tx)
    \/ execute_claim(tx)
    \/ execute_refund(tx)
    \/ transfer(tx)
    \/ Drop(tx)

Tick ==
    /\ now < MaxSeconds
    /\ now' = now + 1
    /\ UNCHANGED lezVars

Init ==
    /\ now = 0
    /\ escrows = [h \in LezHashlocks |-> NoEscrow]
    /\ pdas = [h \in LezHashlocks |-> 0]
    /\ wallets = [a \in LezAccounts |-> LezBalance]
    /\ pending = [tx \in Txs |-> 0]

Next ==
    \/ \E tx \in Txs : (Submit(tx) \/ Sequencer(tx)) /\ UNCHANGED now
    \/ Tick

Spec == Init /\ [][Next]_vars

-----------------------------------------------------------------------------
(***************************************************************************)
(* Every variable has its type; balances never go below zero.              *)
(***************************************************************************)
TypeOK ==
    /\ now \in Nat
    /\ escrows \in [LezHashlocks -> HTLCEscrow \cup {NoEscrow}]
    /\ pdas \in [LezHashlocks -> Nat]
    /\ wallets \in [LezAccounts -> Nat]
    /\ pending \in [Txs -> Nat]

(***************************************************************************)
(* What one step may make of an escrow account's data.                     *)
(***************************************************************************)
Continues(old, new) ==
    old # NoEscrow =>
        /\ new # NoEscrow
        /\ old.state # "Locked" => new = old
        /\ new.state = "Locked" => new = old
        /\ new.state = "Refunded" => /\ new = [old EXCEPT !.state = "Refunded"]
                                     /\ old = new \/ BlockTimestamp >= old.timelock
        /\ new.state = "Claimed" =>
              new = [old EXCEPT !.state = "Claimed", !.preimage = new.preimage]

(***************************************************************************)
(* An escrow's terms are fixed by the transaction that locked it and its   *)
(* end is final: no later lock, claim or refund of the same hashlock, by   *)
(* anybody and in any order, changes who may take the money, how much or   *)
(* when, or reopens a finished escrow.  refund_confirmed and the bot's     *)
(* reconciler act on one terminal read because of this.                    *)
(***************************************************************************)
EscrowSettlesOnce == [][\A h \in LezHashlocks : Continues(escrows[h], escrows'[h])]_vars

(***************************************************************************)
(* A finished escrow says how it ended: a Claimed one holds the secret of  *)
(* its hashlock, which is how the maker learns it, and no other escrow     *)
(* holds one.  The two parties of an escrow differ.                        *)
(***************************************************************************)
ClaimRevealsSecret ==
    \A h \in LezHashlocks : escrows[h] # NoEscrow =>
        /\ escrows[h].maker_id # escrows[h].taker_id
        /\ IF escrows[h].state = "Claimed"
           THEN escrows[h].preimage \in LezPreimages /\ LezSha256[escrows[h].preimage] = h
           ELSE escrows[h].preimage = NoPreimage
=============================================================================

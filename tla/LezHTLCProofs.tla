--------------------------- MODULE LezHTLCProofs ---------------------------
(***************************************************************************)
(* Proofs about LezHTLC, for every set of accounts, secrets and            *)
(* transactions, submitted any number of times and executed in any order.  *)
(***************************************************************************)
EXTENDS LezHTLC, TLAPS

Inv == TypeOK /\ ClaimRevealsSecret

-----------------------------------------------------------------------------
(***************************************************************************)
(* The fields of a transaction, by its kind.                               *)
(***************************************************************************)
LEMMA TxFields ==
    ASSUME NEW tx \in Txs
    PROVE  /\ tx.op = "Lock" => /\ tx.signer \in LezAccounts /\ tx.taker_id \in LezAccounts
                                /\ tx.hashlock \in LezHashlocks
                                /\ tx.amount \in Nat /\ tx.timelock \in Nat
           /\ tx.op = "Claim" => /\ tx.signer \in LezAccounts /\ tx.hashlock \in LezHashlocks
                                 /\ tx.preimage \in LezPreimages
           /\ tx.op = "Refund" => tx.signer \in LezAccounts /\ tx.hashlock \in LezHashlocks
           /\ tx.op = "Transfer" => /\ tx.signer \in LezAccounts /\ tx.hashlock \in LezHashlocks
                                    /\ tx.amount \in Nat
<1>1. tx \in LockTx \cup ClaimTx \cup RefundTx \cup TransferTx
  BY LezAssumption
<1>2. CASE tx \in LockTx
  BY <1>2 DEF LockTx
<1>3. CASE tx \in ClaimTx
  BY <1>3 DEF ClaimTx
<1>4. CASE tx \in RefundTx
  BY <1>4 DEF RefundTx
<1>5. CASE tx \in TransferTx
  BY <1>5 DEF TransferTx
<1> QED
  BY <1>1, <1>2, <1>3, <1>4, <1>5

(***************************************************************************)
(* Taking a transaction off the queue, or adding one, leaves counts.       *)
(***************************************************************************)
LEMMA PendingType ==
    ASSUME TypeOK, NEW tx \in Txs,
           \/ pending[tx] > 0 /\ Taken(tx)
           \/ Submit(tx)
           \/ pending' = pending
    PROVE  pending' \in [Txs -> Nat]
  BY DEF TypeOK, Taken, Submit

(***************************************************************************)
(* An account's data is an escrow or nothing.                              *)
(***************************************************************************)
LEMMA EscrowType ==
    ASSUME TypeOK, NEW h \in LezHashlocks, escrows[h] # NoEscrow
    PROVE  /\ escrows[h] \in HTLCEscrow
           /\ escrows[h].amount \in Nat /\ escrows[h].timelock \in Nat
           /\ escrows[h].state \in {"Locked", "Claimed", "Refunded"}
<1>1. escrows[h] \in HTLCEscrow
  BY DEF TypeOK
<1> QED
  BY <1>1 DEF HTLCEscrow

(***************************************************************************)
(* ClaimRevealsSecret, of one escrow account's data.                       *)
(***************************************************************************)
Consistent(h, escrow) ==
    escrow # NoEscrow =>
        /\ escrow.maker_id # escrow.taker_id
        /\ IF escrow.state = "Claimed"
           THEN escrow.preimage \in LezPreimages /\ LezSha256[escrow.preimage] = h
           ELSE escrow.preimage = NoPreimage

(***************************************************************************)
(* An escrow that is left alone continues itself.                          *)
(***************************************************************************)
LEMMA ContinuesItself ==
    ASSUME NEW e \in HTLCEscrow \cup {NoEscrow}
    PROVE  Continues(e, e)
  BY DEF Continues, HTLCEscrow

(***************************************************************************)
(* A step that writes at most one escrow, with consistent data that        *)
(* continues the old, preserves what the invariant says of escrows.        *)
(***************************************************************************)
LEMMA OneEscrow ==
    ASSUME Inv, NEW h \in LezHashlocks, NEW e \in HTLCEscrow,
           escrows' = [escrows EXCEPT ![h] = e],
           Consistent(h, e), Continues(escrows[h], e)
    PROVE  /\ escrows' \in [LezHashlocks -> HTLCEscrow \cup {NoEscrow}]
           /\ ClaimRevealsSecret'
           /\ \A k \in LezHashlocks : Continues(escrows[k], escrows'[k])
<1>1. escrows' \in [LezHashlocks -> HTLCEscrow \cup {NoEscrow}]
  BY DEF Inv, TypeOK
<1>2. \A k \in LezHashlocks : escrows'[k] = IF k = h THEN e ELSE escrows[k]
  BY DEF Inv, TypeOK
<1>3. \A k \in LezHashlocks : Consistent(k, escrows[k])
  BY DEF Inv, ClaimRevealsSecret, Consistent
<1>4. \A k \in LezHashlocks : Consistent(k, escrows'[k])
  BY <1>2, <1>3
<1>5. ClaimRevealsSecret'
  BY <1>4 DEF ClaimRevealsSecret, Consistent
<1>6. ASSUME NEW k \in LezHashlocks PROVE Continues(escrows[k], escrows'[k])
  <2>1. escrows[k] \in HTLCEscrow \cup {NoEscrow}
    BY DEF Inv, TypeOK
  <2> QED
    BY <1>2, <2>1, ContinuesItself
<1> QED
  BY <1>1, <1>5, <1>6

(***************************************************************************)
(* Every step of a client, of the sequencer or of the clock preserves the  *)
(* invariant, and continues every escrow.                                  *)
(***************************************************************************)
LEMMA InvStep ==
    ASSUME Inv, [Next]_vars
    PROVE  Inv' /\ \A k \in LezHashlocks : Continues(escrows[k], escrows'[k])
<1> DEFINE Goal == Inv' /\ \A k \in LezHashlocks : Continues(escrows[k], escrows'[k])
<1>0. TypeOK /\ ClaimRevealsSecret
  BY DEF Inv
<1>1. ASSUME escrows' = escrows PROVE /\ ClaimRevealsSecret'
                                      /\ \A k \in LezHashlocks : Continues(escrows[k], escrows'[k])
  BY <1>0, <1>1, ContinuesItself DEF ClaimRevealsSecret, TypeOK
<1>2. ASSUME NEW tx \in Txs, execute_lock(tx), now' = now PROVE Goal
  <2> DEFINE h == tx.hashlock
             e == [maker_id |-> tx.signer, taker_id |-> tx.taker_id, amount |-> tx.amount,
                   state |-> "Locked", timelock |-> tx.timelock, preimage |-> NoPreimage]
  <2>1. /\ h \in LezHashlocks /\ e \in HTLCEscrow
        /\ escrows' = [escrows EXCEPT ![h] = e] /\ escrows[h] = NoEscrow
        /\ e.maker_id # e.taker_id /\ e.state = "Locked" /\ e.preimage = NoPreimage
    BY <1>2, TxFields DEF execute_lock, AcceptsLock, HTLCEscrow
  <2>2. Consistent(h, e) /\ Continues(escrows[h], e)
    BY <2>1 DEF Consistent, Continues
  <2>3. /\ escrows' \in [LezHashlocks -> HTLCEscrow \cup {NoEscrow}] /\ ClaimRevealsSecret'
        /\ \A k \in LezHashlocks : Continues(escrows[k], escrows'[k])
    BY <2>1, <2>2, OneEscrow
  <2>4. pending' \in [Txs -> Nat]
    BY <1>0, <1>2, PendingType DEF execute_lock, AcceptsLock
  <2> QED
    BY <1>0, <1>2, <2>3, <2>4 DEF Inv, TypeOK, execute_lock, AcceptsLock
<1>3. ASSUME NEW tx \in Txs, execute_claim(tx), now' = now PROVE Goal
  <2> DEFINE h == tx.hashlock
             e == [escrows[h] EXCEPT !.state = "Claimed", !.preimage = tx.preimage]
  <2>1. /\ h \in LezHashlocks /\ escrows[h] # NoEscrow /\ tx.preimage \in LezPreimages
        /\ tx.signer \in LezAccounts /\ LezSha256[tx.preimage] = h
        /\ escrows[h].state = "Locked" /\ pdas[h] >= escrows[h].amount
    BY <1>3, TxFields DEF execute_claim, AcceptsClaim
  <2>2. escrows[h] \in HTLCEscrow /\ escrows[h].amount \in Nat
    BY <1>0, <2>1, EscrowType
  <2>3. /\ e \in HTLCEscrow /\ e.state = "Claimed" /\ e.preimage = tx.preimage
        /\ e.maker_id = escrows[h].maker_id /\ e.taker_id = escrows[h].taker_id
    BY <2>1, <2>2 DEF HTLCEscrow
  <2>4. escrows' = [escrows EXCEPT ![h] = e]
    BY <1>0, <1>3, <2>1, <2>2 DEF execute_claim, TypeOK, HTLCEscrow
  <2>5. Consistent(h, e) /\ Continues(escrows[h], e)
    BY <1>0, <2>1, <2>3, LezAssumption DEF Consistent, Continues, ClaimRevealsSecret
  <2>6. /\ escrows' \in [LezHashlocks -> HTLCEscrow \cup {NoEscrow}] /\ ClaimRevealsSecret'
        /\ \A k \in LezHashlocks : Continues(escrows[k], escrows'[k])
    BY <2>1, <2>3, <2>4, <2>5, OneEscrow
  <2>7. pending' \in [Txs -> Nat]
    BY <1>0, <1>3, PendingType DEF execute_claim
  <2>8. pdas' \in [LezHashlocks -> Nat] /\ wallets' \in [LezAccounts -> Nat]
    BY <1>0, <1>3, <2>1, <2>2 DEF execute_claim, TypeOK
  <2> QED
    BY <1>0, <1>3, <2>6, <2>7, <2>8 DEF Inv, TypeOK
<1>4. ASSUME NEW tx \in Txs, execute_refund(tx), now' = now PROVE Goal
  <2> DEFINE h == tx.hashlock
             e == [escrows[h] EXCEPT !.state = "Refunded"]
  <2>1. /\ h \in LezHashlocks /\ escrows[h] # NoEscrow /\ tx.signer \in LezAccounts
        /\ escrows[h].state = "Locked" /\ pdas[h] >= escrows[h].amount
        /\ BlockTimestamp >= escrows[h].timelock
    BY <1>4, TxFields DEF execute_refund, AcceptsRefund
  <2>2. escrows[h] \in HTLCEscrow /\ escrows[h].amount \in Nat
    BY <1>0, <2>1, EscrowType
  <2>3. /\ e \in HTLCEscrow /\ e.state = "Refunded" /\ e.preimage = escrows[h].preimage
        /\ e.maker_id = escrows[h].maker_id /\ e.taker_id = escrows[h].taker_id
    BY <2>1, <2>2 DEF HTLCEscrow
  <2>4. escrows' = [escrows EXCEPT ![h] = e]
    BY <1>0, <1>4, <2>1, <2>2 DEF execute_refund, AcceptsRefund, TypeOK, HTLCEscrow
  <2>5. Consistent(h, e) /\ Continues(escrows[h], e)
    BY <1>0, <2>1, <2>3, LezAssumption DEF Consistent, Continues, ClaimRevealsSecret
  <2>6. /\ escrows' \in [LezHashlocks -> HTLCEscrow \cup {NoEscrow}] /\ ClaimRevealsSecret'
        /\ \A k \in LezHashlocks : Continues(escrows[k], escrows'[k])
    BY <2>1, <2>3, <2>4, <2>5, OneEscrow
  <2>7. pending' \in [Txs -> Nat]
    BY <1>0, <1>4, PendingType DEF execute_refund, AcceptsRefund
  <2>8. pdas' \in [LezHashlocks -> Nat] /\ wallets' \in [LezAccounts -> Nat]
    BY <1>0, <1>4, <2>1, <2>2 DEF execute_refund, AcceptsRefund, TypeOK
  <2> QED
    BY <1>0, <1>4, <2>6, <2>7, <2>8 DEF Inv, TypeOK
<1>5. ASSUME NEW tx \in Txs, transfer(tx), now' = now PROVE Goal
  <2>1. escrows' = escrows
    BY <1>5 DEF transfer
  <2>2. pending' \in [Txs -> Nat]
    BY <1>0, <1>5, PendingType DEF transfer
  <2>3. pdas' \in [LezHashlocks -> Nat] /\ wallets' \in [LezAccounts -> Nat]
    BY <1>0, <1>5, TxFields DEF transfer, TypeOK
  <2> QED
    BY <1>0, <1>1, <1>5, <2>1, <2>2, <2>3 DEF Inv, TypeOK
<1>6. ASSUME NEW tx \in Txs, Submit(tx) \/ Drop(tx), now' = now PROVE Goal
  <2>1. UNCHANGED <<escrows, pdas, wallets>>
    BY <1>6 DEF Submit, Drop
  <2>2. pending' \in [Txs -> Nat]
    BY <1>0, <1>6, PendingType DEF Drop
  <2> QED
    BY <1>0, <1>1, <1>6, <2>1, <2>2 DEF Inv, TypeOK
<1>7. CASE Tick
  <2>1. now' \in Nat /\ UNCHANGED <<escrows, pdas, wallets, pending>>
    BY <1>0, <1>7 DEF Tick, lezVars, TypeOK
  <2> QED
    BY <1>0, <1>1, <2>1 DEF Inv, TypeOK
<1>8. CASE UNCHANGED vars
  <2>1. UNCHANGED <<now, escrows, pdas, wallets, pending>>
    BY <1>8 DEF vars
  <2> QED
    BY <1>0, <1>1, <2>1 DEF Inv, TypeOK
<1> QED
  BY <1>2, <1>3, <1>4, <1>5, <1>6, <1>7, <1>8 DEF Next, Sequencer

(***************************************************************************)
(* The invariant holds initially: no account is claimed.                   *)
(***************************************************************************)
LEMMA InvInit == Init => Inv
  BY LezAssumption DEF Init, Inv, TypeOK, ClaimRevealsSecret

(***************************************************************************)
(* The types of the program's state, and that no balance goes below zero.  *)
(***************************************************************************)
THEOREM TypeCorrect == Spec => []TypeOK
<1>1. Inv /\ [Next]_vars => Inv'
  BY InvStep
<1>2. Inv => TypeOK
  BY DEF Inv
<1> QED
  BY InvInit, <1>1, <1>2, PTL DEF Spec

(***************************************************************************)
(* A claimed escrow holds the secret, no other one does.                   *)
(***************************************************************************)
THEOREM SecretRevealed == Spec => []ClaimRevealsSecret
<1>1. Inv /\ [Next]_vars => Inv'
  BY InvStep
<1>2. Inv => ClaimRevealsSecret
  BY DEF Inv
<1> QED
  BY InvInit, <1>1, <1>2, PTL DEF Spec

(***************************************************************************)
(* An escrow keeps its terms, and its end is final.                        *)
(***************************************************************************)
THEOREM EscrowIsFinal == Spec => EscrowSettlesOnce
<1>1. Inv /\ [Next]_vars => Inv'
  BY InvStep
<1>2. Inv /\ [Next]_vars => [\A h \in LezHashlocks : Continues(escrows[h], escrows'[h])]_vars
  BY InvStep
<1> QED
  BY InvInit, <1>1, <1>2, PTL DEF Spec, EscrowSettlesOnce
=============================================================================

--------------------------- MODULE TakerRunProofs ---------------------------
(***************************************************************************)
(* Proofs about TakerRun, for every swap, every set of accounts and of     *)
(* transactions of others, any number of failures and any bounds.          *)
(***************************************************************************)
EXTENDS TakerRun, TLAPS

-----------------------------------------------------------------------------
(***************************************************************************)
(* What a step may make of the account of the swap's hashlock: a locked    *)
(* escrow keeps its terms and its money; it is refunded after its timelock *)
(* only; and the taker's claim leaves the queue unexecuted only if the     *)
(* program refuses it.                                                     *)
(***************************************************************************)
SameTerms(old, new) ==
    /\ new.taker_id = old.taker_id
    /\ new.amount = old.amount
    /\ new.timelock = old.timelock

AccountStep ==
    /\ escrows[hashlock] # NoEscrow =>
          escrows'[hashlock] # NoEscrow /\ SameTerms(escrows[hashlock], escrows'[hashlock])
    /\ escrows[hashlock] # NoEscrow /\ escrows'[hashlock].state = "Locked" =>
          escrows[hashlock].state = "Locked" /\ pdas'[hashlock] >= pdas[hashlock]
    /\ escrows'[hashlock] # NoEscrow /\ escrows'[hashlock].state = "Refunded" =>
          /\ escrows[hashlock] # NoEscrow
          /\ escrows[hashlock].state # "Refunded" =>
                /\ escrows[hashlock].state = "Locked"
                /\ now * 1000 >= escrows[hashlock].timelock
    /\ \/ pending'[ClaimTx] >= pending[ClaimTx]
       \/ escrows'[hashlock].state = "Claimed"
       \/ ~Lez!AcceptsClaim(ClaimTx)

(***************************************************************************)
(* The inductive invariant.  The escrow the taker read is still the one on *)
(* the chain; one it has verified is its own and expires when it should;   *)
(* an escrow is refunded after its timelock only; the claim of a verified  *)
(* escrow is prompt, so the escrow is not refunded before the claim comes; *)
(* and the claim waits as long as the escrow is locked.                    *)
(***************************************************************************)
Ordered ==
    /\ revealed => pc \in Ended
    /\ pc = "balance" => escrow # NoEscrow
    /\ htlcs[Swap] = "CLAIMED" => revealed

Read ==
    escrow # NoEscrow =>
        /\ escrow.amount >= lez_amount
        /\ escrows[hashlock] # NoEscrow
        /\ SameTerms(escrow, escrows[hashlock])

Verified ==
    pc = "claim" \/ revealed =>
        /\ escrow # NoEscrow
        /\ escrow.taker_id = TakerLez
        /\ (verified_at + LEZ_CLAIM_MARGIN_SECS) * 1000 <= escrow.timelock
        /\ escrow.timelock < 1000 * Swap.timelock
        /\ escrows[hashlock].state = "Locked" => pdas[hashlock] >= lez_amount

RefundedLate ==
    escrows[hashlock] # NoEscrow /\ escrows[hashlock].state = "Refunded" =>
        now * 1000 >= escrows[hashlock].timelock

AtStake == pc = "claim" \/ (revealed /\ Agreed)

Prompt ==
    AtStake /\ escrows[hashlock].state = "Locked" => now < verified_at + LEZ_CLAIM_MARGIN_SECS

NotRefunded == AtStake => escrows[hashlock].state # "Refunded"

ClaimWaits == revealed /\ Agreed /\ escrows[hashlock].state = "Locked" => pending[ClaimTx] > 0

Inv ==
    /\ TypeOK
    /\ Ordered /\ Read /\ Verified
    /\ RefundedLate /\ Prompt /\ NotRefunded /\ ClaimWaits

-----------------------------------------------------------------------------
(***************************************************************************)
(* The run's own lock and claim.                                           *)
(***************************************************************************)
LEMMA OwnSwap ==
    /\ Swap \in SwapIds /\ hashlock \in Hashlocks /\ TakerLez \in LezAccounts
    /\ Swap.sender \in Accounts /\ Swap.recipient \in Accounts \cup {ZeroAddress}
    /\ Swap.amount \in Nat /\ Swap.timelock \in Nat
    /\ Secret \in Preimages /\ Sha256[Secret] = hashlock
    /\ ClaimTx \in Txs
    /\ ClaimTx.op = "Claim" /\ ClaimTx.signer = TakerLez
    /\ ClaimTx.hashlock = hashlock /\ ClaimTx.preimage = Secret
<1>1. Swap \in SwapIds /\ Secret \in Preimages /\ Swap.hashlock = Sha256[Secret]
      /\ Swap.takerLezAccount \in LezAccounts
  BY TakerAssumption
<1>2. Swap \in [sender : Accounts, recipient : Accounts \cup {ZeroAddress},
                amount : Nat, hashlock : Hashlocks \cup {ZeroBytes32},
                timelock : Nat, takerLezAccount : LezAccounts \cup {ZeroBytes32}]
  BY <1>1, ChainsAssumption
<1>3. Sha256[Secret] \in Hashlocks
  BY <1>1, ChainsAssumption
<1>4. ClaimTx \in Txs
  BY DEF Txs
<1> QED
  BY <1>1, <1>2, <1>3, <1>4 DEF hashlock, TakerLez, ClaimTx

(***************************************************************************)
(* The fields of a LEZ transaction, by its kind.                           *)
(***************************************************************************)
LEMMA TxFields ==
    ASSUME NEW tx \in Txs
    PROVE  /\ tx.op = "Lock" => /\ tx.signer \in LezAccounts /\ tx.taker_id \in LezAccounts
                                /\ tx.hashlock \in Hashlocks
                                /\ tx.amount \in Nat /\ tx.timelock \in Nat
           /\ tx.op = "Claim" => /\ tx.signer \in LezAccounts /\ tx.hashlock \in Hashlocks
                                 /\ tx.preimage \in Preimages
           /\ tx.op = "Refund" => tx.signer \in LezAccounts /\ tx.hashlock \in Hashlocks
           /\ tx.op = "Transfer" => /\ tx.signer \in LezAccounts /\ tx.hashlock \in Hashlocks
                                    /\ tx.amount \in Nat
<1>1. \/ tx \in Lez!LockTx \/ tx \in Lez!ClaimTx \/ tx \in Lez!RefundTx
      \/ tx \in Lez!TransferTx \/ tx = ClaimTx
  BY ChainsAssumption DEF Txs
<1>2. CASE tx \in Lez!LockTx
  BY <1>2 DEF Lez!LockTx
<1>3. CASE tx \in Lez!ClaimTx
  BY <1>3 DEF Lez!ClaimTx
<1>4. CASE tx \in Lez!RefundTx
  BY <1>4 DEF Lez!RefundTx
<1>5. CASE tx \in Lez!TransferTx
  BY <1>5 DEF Lez!TransferTx
<1>6. CASE tx = ClaimTx
  <2>1. tx.op = "Claim" /\ tx.signer \in LezAccounts /\ tx.hashlock \in Hashlocks
        /\ tx.preimage \in Preimages
    BY <1>6, OwnSwap
  <2> QED BY <2>1
<1> QED
  BY <1>1, <1>2, <1>3, <1>4, <1>5, <1>6

(***************************************************************************)
(* An account's data is an escrow or nothing.                              *)
(***************************************************************************)
LEMMA EscrowType ==
    ASSUME Lez!TypeOK, NEW h \in Hashlocks, escrows[h] # NoEscrow
    PROVE  /\ escrows[h] \in Lez!HTLCEscrow
           /\ escrows[h].amount \in Nat /\ escrows[h].timelock \in Nat
           /\ escrows[h].state \in {"Locked", "Claimed", "Refunded"}
<1>1. escrows[h] \in Lez!HTLCEscrow
  BY DEF Lez!TypeOK
<1> QED
  BY <1>1 DEF Lez!HTLCEscrow

-----------------------------------------------------------------------------
(***************************************************************************)
(* A step of Ethereum: types, and that only a claim makes an HTLC CLAIMED. *)
(***************************************************************************)
LEMMA EthCall ==
    ASSUME Eth!TypeOK, Eth!lock(Swap) \/ Eth!refund(Swap) \/ Eth!claim(Swap, Secret)
    PROVE  /\ Eth!TypeOK'
           /\ now' = now
           /\ htlcs'[Swap] = "CLAIMED" => htlcs[Swap] = "CLAIMED" \/ Eth!claim(Swap, Secret)
<1>1. ASSUME NEW k \in {"Locked", "Claimed", "Refunded"}, Eth!Emit(k, Swap)
      PROVE  events' \in Seq(Eth!Event)
  <2>1. [kind |-> k, swapId |-> Swap] \in Eth!Event
    BY OwnSwap DEF Eth!Event
  <2>2. events \in Seq(Eth!Event)
    BY DEF Eth!TypeOK
  <2> QED
    BY <1>1, <2>1, <2>2 DEF Eth!Emit
<1>2. ASSUME NEW a, Eth!Call(a, Swap.amount)
      PROVE  /\ held' \in Nat /\ frames' = frames
             /\ balances' \in [Accounts -> Nat]
  <2>1. Swap.amount \in Nat
    BY OwnSwap
  <2>2. held \in Nat /\ balances \in [Accounts -> Nat]
    BY DEF Eth!TypeOK
  <2>3. held' \in Nat
    BY <1>2, <2>1, <2>2 DEF Eth!Call
  <2>4. balances' \in [Accounts -> Nat]
    <3>1. balances' = [balances EXCEPT ![a] = balances[a] + Swap.amount]
      BY <1>2 DEF Eth!Call
    <3>2. CASE a \in Accounts
      BY <2>1, <2>2, <3>1, <3>2
    <3>3. CASE a \notin Accounts
      BY <2>2, <3>1, <3>3
    <3> QED BY <3>2, <3>3
  <2>5. frames' = frames
    BY <1>2 DEF Eth!Call
  <2> QED
    BY <2>3, <2>4, <2>5
<1>3. CASE Eth!lock(Swap)
  <2>1. events' \in Seq(Eth!Event)
    BY <1>1, <1>3 DEF Eth!lock
  <2>2. htlcs' \in [SwapIds -> Eth!SwapState] /\ htlcs'[Swap] = "OPEN"
    BY <1>3, OwnSwap DEF Eth!lock, Eth!TypeOK, Eth!SwapState
  <2>3. held' \in Nat /\ balances' \in [Accounts -> Nat]
    <3>1. held \in Nat /\ balances \in [Accounts -> Nat]
      BY DEF Eth!TypeOK
    <3>2. Swap.sender \in Accounts /\ Swap.amount \in Nat
      BY OwnSwap
    <3>3. /\ held' = held + Swap.amount /\ balances[Swap.sender] >= Swap.amount
          /\ balances' = [balances EXCEPT ![Swap.sender] = balances[Swap.sender] - Swap.amount]
      BY <1>3 DEF Eth!lock
    <3> QED BY <3>1, <3>2, <3>3
  <2> QED
    BY <1>3, <2>1, <2>2, <2>3 DEF Eth!lock, Eth!TypeOK
<1>4. CASE Eth!refund(Swap)
  <2>1. events' \in Seq(Eth!Event)
    BY <1>1, <1>4 DEF Eth!refund
  <2>2. htlcs' \in [SwapIds -> Eth!SwapState] /\ htlcs'[Swap] = "REFUNDED"
    BY <1>4, OwnSwap DEF Eth!refund, Eth!TypeOK, Eth!SwapState
  <2>3. held' \in Nat /\ balances' \in [Accounts -> Nat] /\ frames' = frames
    BY <1>2, <1>4 DEF Eth!refund
  <2> QED
    BY <1>4, <2>1, <2>2, <2>3 DEF Eth!refund, Eth!TypeOK
<1>5. CASE Eth!claim(Swap, Secret)
  <2>1. events' \in Seq(Eth!Event)
    BY <1>1, <1>5 DEF Eth!claim
  <2>2. htlcs' \in [SwapIds -> Eth!SwapState]
    BY <1>5, OwnSwap DEF Eth!claim, Eth!TypeOK, Eth!SwapState
  <2>3. held' \in Nat /\ balances' \in [Accounts -> Nat] /\ frames' = frames
    BY <1>2, <1>5 DEF Eth!claim
  <2> QED
    BY <1>5, <2>1, <2>2, <2>3 DEF Eth!claim, Eth!TypeOK
<1> QED
  BY <1>3, <1>4, <1>5

-----------------------------------------------------------------------------
(***************************************************************************)
(* The queue: a transaction put in or taken off leaves counts, and only    *)
(* the count of that transaction changes.                                  *)
(***************************************************************************)
LEMMA Queue ==
    ASSUME Lez!TypeOK, NEW tx \in Txs,
           \/ pending[tx] > 0 /\ Lez!Taken(tx)
           \/ Lez!Submit(tx)
           \/ pending' = pending
    PROVE  /\ pending' \in [Txs -> Nat]
           /\ tx # ClaimTx \/ Lez!Submit(tx) \/ pending' = pending =>
                 pending'[ClaimTx] >= pending[ClaimTx]
<1>1. pending \in [Txs -> Nat] /\ ClaimTx \in Txs
  BY OwnSwap DEF Lez!TypeOK
<1>2. CASE pending[tx] > 0 /\ Lez!Taken(tx)
  <2>1. /\ pending' \in [Txs -> Nat]
        /\ tx # ClaimTx => pending'[ClaimTx] = pending[ClaimTx]
    BY <1>1, <1>2 DEF Lez!Taken
  <2>2. pending' # [pending EXCEPT ![tx] = @ + 1]
    BY <1>1, <1>2 DEF Lez!Taken
  <2>3. pending' # pending
    BY <1>1, <1>2 DEF Lez!Taken
  <2> QED
    BY <1>1, <2>1, <2>2, <2>3 DEF Lez!Submit
<1>3. CASE Lez!Submit(tx)
  BY <1>1, <1>3 DEF Lez!Submit
<1>4. CASE pending' = pending
  BY <1>1, <1>4
<1> QED
  BY <1>2, <1>3, <1>4

(***************************************************************************)
(* A step that leaves the data of all accounts and takes no money is one   *)
(* the account of the hashlock may make.                                   *)
(***************************************************************************)
LEMMA AccountLeft ==
    ASSUME Lez!TypeOK, escrows' = escrows, pdas'[hashlock] >= pdas[hashlock],
           \/ pending'[ClaimTx] >= pending[ClaimTx]
           \/ ~Lez!AcceptsClaim(ClaimTx)
    PROVE  AccountStep
  BY DEF AccountStep, SameTerms

(***************************************************************************)
(* Writing one escrow that continues the old one.                          *)
(***************************************************************************)
LEMMA AccountWritten ==
    ASSUME Lez!TypeOK, NEW h \in Hashlocks, NEW e \in Lez!HTLCEscrow, NEW d \in Nat,
           escrows' = [escrows EXCEPT ![h] = e],
           pdas' = [pdas EXCEPT ![h] = d],
           escrows[h] # NoEscrow => /\ SameTerms(escrows[h], e)
                                    /\ escrows[h].state = "Locked" /\ e.state # "Locked",
           e.state = "Refunded" => escrows[h] # NoEscrow /\ now * 1000 >= escrows[h].timelock,
           \/ pending'[ClaimTx] >= pending[ClaimTx]
           \/ h = hashlock /\ e.state = "Claimed"
    PROVE  /\ escrows' \in [Hashlocks -> Lez!HTLCEscrow \cup {NoEscrow}]
           /\ pdas' \in [Hashlocks -> Nat]
           /\ AccountStep
<1>1. /\ hashlock \in Hashlocks
      /\ escrows \in [Hashlocks -> Lez!HTLCEscrow \cup {NoEscrow}]
      /\ pdas \in [Hashlocks -> Nat]
  BY OwnSwap DEF Lez!TypeOK
<1>2. e # NoEscrow
  BY ChainsAssumption
<1>3. CASE h = hashlock
  <2>1. escrows'[hashlock] = e
    BY <1>1, <1>3
  <2> QED
    BY <1>1, <1>2, <1>3, <2>1 DEF AccountStep
<1>4. CASE h # hashlock
  <2>1. escrows'[hashlock] = escrows[hashlock] /\ pdas'[hashlock] = pdas[hashlock]
    BY <1>1, <1>4
  <2>2. pdas'[hashlock] >= pdas[hashlock]
    BY <1>1, <2>1
  <2> QED
    BY <1>1, <1>4, <2>1, <2>2 DEF AccountStep, SameTerms
<1> QED
  BY <1>3, <1>4

(***************************************************************************)
(* Whatever is submitted, executed or dropped, the types are kept, and the *)
(* account of the hashlock takes one of its steps.                         *)
(***************************************************************************)
LEMMA LezStep ==
    ASSUME Lez!TypeOK, NEW tx \in Txs, now' = now,
           \/ Lez!Submit(tx)
           \/ Executes(tx)
           \/ Lez!Drop(tx) /\ (tx = ClaimTx => ~Lez!AcceptsClaim(tx))
    PROVE  Lez!TypeOK' /\ AccountStep
<1>0. /\ escrows \in [Hashlocks -> Lez!HTLCEscrow \cup {NoEscrow}]
      /\ pdas \in [Hashlocks -> Nat] /\ wallets \in [LezAccounts -> Nat]
      /\ now \in Nat /\ hashlock \in Hashlocks
  BY OwnSwap DEF Lez!TypeOK
<1>1. CASE Lez!Submit(tx) \/ (Lez!Drop(tx) /\ (tx = ClaimTx => ~Lez!AcceptsClaim(tx)))
  <2>1. UNCHANGED <<escrows, pdas, wallets>>
    BY <1>1 DEF Lez!Submit, Lez!Drop
  <2>2. pending' \in [Txs -> Nat]
    BY <1>1, Queue DEF Lez!Drop
  <2>3. pending'[ClaimTx] >= pending[ClaimTx] \/ ~Lez!AcceptsClaim(ClaimTx)
    BY <1>1, Queue DEF Lez!Drop
  <2>4. pdas'[hashlock] >= pdas[hashlock]
    BY <1>0, <2>1
  <2>5. AccountStep
    BY <2>1, <2>3, <2>4, AccountLeft
  <2> QED
    BY <1>0, <2>1, <2>2, <2>5 DEF Lez!TypeOK
<1>2. CASE Lez!execute_lock(tx)
  <2> DEFINE h == tx.hashlock
             e == [maker_id |-> tx.signer, taker_id |-> tx.taker_id, amount |-> tx.amount,
                   state |-> "Locked", timelock |-> tx.timelock, preimage |-> NoPreimage]
  <2>1. /\ h \in Hashlocks /\ e \in Lez!HTLCEscrow /\ e.state = "Locked"
        /\ escrows' = [escrows EXCEPT ![h] = e] /\ escrows[h] = NoEscrow
    BY <1>2, TxFields DEF Lez!execute_lock, Lez!AcceptsLock, Lez!HTLCEscrow
  <2>2. pdas' = [pdas EXCEPT ![h] = pdas[h]] /\ pdas[h] \in Nat
    BY <1>0, <1>2, <2>1 DEF Lez!execute_lock, Lez!AcceptsLock
  <2>3. tx # ClaimTx
    BY <1>2, OwnSwap DEF Lez!execute_lock, Lez!AcceptsLock
  <2>4. pending' \in [Txs -> Nat] /\ pending'[ClaimTx] >= pending[ClaimTx]
    BY <1>2, <2>3, Queue DEF Lez!execute_lock, Lez!AcceptsLock
  <2>5. /\ escrows' \in [Hashlocks -> Lez!HTLCEscrow \cup {NoEscrow}]
        /\ pdas' \in [Hashlocks -> Nat] /\ AccountStep
    <3> HIDE DEF h, e
    <3> QED BY <2>1, <2>2, <2>4, AccountWritten
  <2> QED
    BY <1>0, <1>2, <2>4, <2>5 DEF Lez!TypeOK, Lez!execute_lock, Lez!AcceptsLock
<1>3. CASE Lez!execute_claim(tx)
  <2> DEFINE h == tx.hashlock
             e == [escrows[h] EXCEPT !.state = "Claimed", !.preimage = tx.preimage]
             d == pdas[h] - escrows[h].amount
  <2>1. /\ h \in Hashlocks /\ escrows[h] # NoEscrow /\ tx.preimage \in Preimages
        /\ tx.signer \in LezAccounts
        /\ escrows[h].state = "Locked" /\ pdas[h] >= escrows[h].amount
    BY <1>3, TxFields DEF Lez!execute_claim, Lez!AcceptsClaim
  <2>2. escrows[h] \in Lez!HTLCEscrow /\ escrows[h].amount \in Nat
    BY <2>1, EscrowType
  <2>3. /\ e \in Lez!HTLCEscrow /\ e.state = "Claimed" /\ SameTerms(escrows[h], e)
    BY <2>1, <2>2 DEF Lez!HTLCEscrow, SameTerms
  <2>4. escrows' = [escrows EXCEPT ![h] = e]
    BY <1>0, <1>3, <2>1, <2>2 DEF Lez!execute_claim, Lez!HTLCEscrow
  <2>5. /\ pdas' = [pdas EXCEPT ![h] = d] /\ d \in Nat
        /\ wallets' \in [LezAccounts -> Nat]
    BY <1>0, <1>3, <2>1, <2>2 DEF Lez!execute_claim
  <2>6. pending' \in [Txs -> Nat] /\ (tx # ClaimTx => pending'[ClaimTx] >= pending[ClaimTx])
    BY <1>3, Queue DEF Lez!execute_claim
  <2>7. tx = ClaimTx => h = hashlock
    BY OwnSwap
  <2>8. /\ escrows' \in [Hashlocks -> Lez!HTLCEscrow \cup {NoEscrow}]
        /\ pdas' \in [Hashlocks -> Nat] /\ AccountStep
    <3> HIDE DEF h, e, d
    <3> QED BY <2>1, <2>3, <2>4, <2>5, <2>6, <2>7, AccountWritten
  <2> QED
    BY <1>0, <2>5, <2>6, <2>8 DEF Lez!TypeOK
<1>4. CASE Lez!execute_refund(tx)
  <2> DEFINE h == tx.hashlock
             e == [escrows[h] EXCEPT !.state = "Refunded"]
             d == pdas[h] - escrows[h].amount
  <2>1. /\ h \in Hashlocks /\ escrows[h] # NoEscrow /\ tx.signer \in LezAccounts
        /\ escrows[h].state = "Locked" /\ pdas[h] >= escrows[h].amount
        /\ now * 1000 >= escrows[h].timelock
    BY <1>4, TxFields DEF Lez!execute_refund, Lez!AcceptsRefund, Lez!BlockTimestamp
  <2>2. escrows[h] \in Lez!HTLCEscrow /\ escrows[h].amount \in Nat
    BY <2>1, EscrowType
  <2>3. /\ e \in Lez!HTLCEscrow /\ e.state = "Refunded" /\ SameTerms(escrows[h], e)
    BY <2>1, <2>2 DEF Lez!HTLCEscrow, SameTerms
  <2>4. escrows' = [escrows EXCEPT ![h] = e]
    BY <1>0, <1>4, <2>1, <2>2 DEF Lez!execute_refund, Lez!AcceptsRefund, Lez!HTLCEscrow
  <2>5. /\ pdas' = [pdas EXCEPT ![h] = d] /\ d \in Nat
        /\ wallets' \in [LezAccounts -> Nat]
    BY <1>0, <1>4, <2>1, <2>2 DEF Lez!execute_refund, Lez!AcceptsRefund
  <2>6. tx # ClaimTx
    BY <1>4, OwnSwap DEF Lez!execute_refund, Lez!AcceptsRefund
  <2>7. pending' \in [Txs -> Nat] /\ pending'[ClaimTx] >= pending[ClaimTx]
    BY <1>4, <2>6, Queue DEF Lez!execute_refund, Lez!AcceptsRefund
  <2>8. /\ escrows' \in [Hashlocks -> Lez!HTLCEscrow \cup {NoEscrow}]
        /\ pdas' \in [Hashlocks -> Nat] /\ AccountStep
    <3> HIDE DEF h, e, d
    <3> QED BY <2>1, <2>3, <2>4, <2>5, <2>7, AccountWritten
  <2> QED
    BY <1>0, <2>5, <2>7, <2>8 DEF Lez!TypeOK
<1>5. CASE Lez!transfer(tx)
  <2>1. tx.signer \in LezAccounts /\ tx.hashlock \in Hashlocks /\ tx.amount \in Nat
    BY <1>5, TxFields DEF Lez!transfer
  <2>2. /\ escrows' = escrows /\ wallets' \in [LezAccounts -> Nat]
        /\ pdas' \in [Hashlocks -> Nat] /\ pdas'[hashlock] >= pdas[hashlock]
    BY <1>0, <1>5, <2>1 DEF Lez!transfer
  <2>3. tx # ClaimTx
    BY <1>5, OwnSwap DEF Lez!transfer
  <2>4. pending' \in [Txs -> Nat] /\ pending'[ClaimTx] >= pending[ClaimTx]
    BY <1>5, <2>3, Queue DEF Lez!transfer
  <2>5. AccountStep
    BY <2>2, <2>4, AccountLeft
  <2> QED
    BY <1>0, <2>2, <2>4, <2>5 DEF Lez!TypeOK
<1> QED
  BY <1>1, <1>2, <1>3, <1>4, <1>5 DEF Executes

-----------------------------------------------------------------------------
(***************************************************************************)
(* The verified escrow of a taker that has something at stake.             *)
(***************************************************************************)
LEMMA StakeFacts ==
    ASSUME Inv, pc = "claim" \/ revealed
    PROVE  /\ escrow # NoEscrow /\ escrows[hashlock] # NoEscrow
           /\ escrows[hashlock].taker_id = TakerLez
           /\ escrows[hashlock].amount = escrow.amount
           /\ escrows[hashlock].timelock = escrow.timelock
           /\ escrow.amount \in Nat /\ escrow.amount >= lez_amount /\ escrow.timelock \in Nat
           /\ (verified_at + LEZ_CLAIM_MARGIN_SECS) * 1000 <= escrow.timelock
           /\ escrow.timelock < 1000 * Swap.timelock
           /\ now \in Nat /\ verified_at \in Nat /\ pdas[hashlock] \in Nat
<1>1. escrow # NoEscrow /\ escrow \in Lez!HTLCEscrow \cup {NoEscrow}
  BY DEF Inv, Verified, TypeOK
<1>2. escrow.amount \in Nat /\ escrow.timelock \in Nat
  BY <1>1 DEF Lez!HTLCEscrow
<1>3. now \in Nat /\ verified_at \in Nat /\ pdas[hashlock] \in Nat
  BY OwnSwap DEF Inv, TypeOK, Lez!TypeOK
<1> QED
  BY <1>1, <1>2, <1>3 DEF Inv, Read, Verified, SameTerms

Safe == Ordered /\ Read /\ Verified /\ RefundedLate /\ Prompt /\ NotRefunded /\ ClaimWaits

(***************************************************************************)
(* The world goes on and the taker does nothing.  The refund of an escrow  *)
(* at stake would come after its timelock, and it is not that late; and a  *)
(* claim at stake is one the program accepts, so it stays in the queue     *)
(* until it has been executed.                                             *)
(***************************************************************************)
LEMMA WorldStep ==
    ASSUME Inv, Lez!TypeOK', AccountStep, UNCHANGED takerVars,
           \/ now' = now
           \/ /\ now' = now + 1 /\ ClaimIsPrompt
              /\ escrows' = escrows /\ pending' = pending,
           htlcs'[Swap] = "CLAIMED" => htlcs[Swap] = "CLAIMED" \/ revealed
    PROVE  Safe'
<1>0. /\ TypeOK /\ Ordered /\ Read /\ Verified
      /\ RefundedLate /\ Prompt /\ NotRefunded /\ ClaimWaits
  BY DEF Inv
<1>1. /\ pc' = pc /\ escrow' = escrow /\ verified_at' = verified_at /\ revealed' = revealed
      /\ AtStake' = AtStake /\ Agreed' = Agreed
  BY DEF takerVars, AtStake, Agreed
<1>2. /\ now \in Nat /\ verified_at \in Nat /\ LEZ_CLAIM_MARGIN_SECS \in Nat
      /\ now' \in Nat /\ now' >= now /\ lez_amount \in Nat
      /\ pdas[hashlock] \in Nat /\ pdas'[hashlock] \in Nat
      /\ pending[ClaimTx] \in Nat /\ pending'[ClaimTx] \in Nat
  BY <1>0, TakerAssumption, OwnSwap DEF TypeOK, Lez!TypeOK
<1>3. Ordered'
  BY <1>0, <1>1 DEF Ordered
<1>4. Read'
  BY <1>0, <1>1 DEF Read, AccountStep, SameTerms
<1>5. Verified'
  <2>1. SUFFICES ASSUME pc = "claim" \/ revealed, escrows'[hashlock].state = "Locked"
                 PROVE  pdas'[hashlock] >= lez_amount
    BY <1>0, <1>1 DEF Verified
  <2>2. escrows[hashlock] # NoEscrow
    BY <2>1, StakeFacts
  <2>3. escrows[hashlock].state = "Locked" /\ pdas'[hashlock] >= pdas[hashlock]
    BY <2>1, <2>2 DEF AccountStep
  <2>4. pdas[hashlock] >= lez_amount
    BY <1>0, <2>1, <2>3 DEF Verified
  <2> QED
    BY <1>2, <2>3, <2>4
<1>6. RefundedLate'
  <2>1. SUFFICES ASSUME escrows'[hashlock] # NoEscrow, escrows'[hashlock].state = "Refunded"
                 PROVE  now' * 1000 >= escrows'[hashlock].timelock
    BY DEF RefundedLate
  <2>2. /\ escrows[hashlock] # NoEscrow
        /\ now * 1000 >= escrows[hashlock].timelock
        /\ escrows'[hashlock].timelock = escrows[hashlock].timelock
    BY <1>0, <2>1 DEF AccountStep, RefundedLate, SameTerms
  <2>3. escrows[hashlock].timelock \in Nat
    BY <1>0, <2>2, OwnSwap, EscrowType DEF TypeOK
  <2> QED
    BY <1>2, <2>2, <2>3
<1>7. ASSUME AtStake, escrows'[hashlock].state = "Locked"
      PROVE  escrows[hashlock].state = "Locked"
  <2>1. escrows[hashlock] # NoEscrow
    BY <1>7, StakeFacts DEF AtStake
  <2> QED
    BY <1>7, <2>1 DEF AccountStep
<1>8. Prompt'
  <2>1. SUFFICES ASSUME AtStake, escrows'[hashlock].state = "Locked"
                 PROVE  now' < verified_at + LEZ_CLAIM_MARGIN_SECS
    BY <1>1 DEF Prompt
  <2>2. escrows[hashlock].state = "Locked"
    BY <1>7, <2>1
  <2>3. now < verified_at + LEZ_CLAIM_MARGIN_SECS
    BY <1>0, <2>1, <2>2 DEF Prompt
  <2>4. pc = "claim" \/ pending[ClaimTx] > 0
    BY <1>0, <2>1, <2>2 DEF AtStake, ClaimWaits
  <2> QED
    BY <2>3, <2>4 DEF ClaimIsPrompt
<1>9. NotRefunded'
  <2>1. SUFFICES ASSUME AtStake, escrows'[hashlock].state = "Refunded" PROVE FALSE
    BY <1>1 DEF NotRefunded
  <2>2. escrows[hashlock] # NoEscrow /\ escrows'[hashlock] # NoEscrow
    BY <2>1, StakeFacts DEF AtStake, AccountStep
  <2>3. escrows[hashlock].state # "Refunded"
    BY <1>0, <2>1 DEF NotRefunded
  <2>4. escrows[hashlock].state = "Locked" /\ now * 1000 >= escrows[hashlock].timelock
    BY <2>1, <2>2, <2>3 DEF AccountStep
  <2>5. now < verified_at + LEZ_CLAIM_MARGIN_SECS
    BY <1>0, <2>1, <2>4 DEF Prompt
  <2>6. /\ (verified_at + LEZ_CLAIM_MARGIN_SECS) * 1000 <= escrows[hashlock].timelock
        /\ escrows[hashlock].timelock \in Nat
    BY <2>1, StakeFacts DEF AtStake
  <2> QED
    BY <1>2, <2>4, <2>5, <2>6
<1>10. ClaimWaits'
  <2>1. SUFFICES ASSUME revealed, Agreed, escrows'[hashlock].state = "Locked"
                 PROVE  pending'[ClaimTx] > 0
    BY <1>1 DEF ClaimWaits
  <2>2. escrows[hashlock].state = "Locked"
    BY <1>7, <2>1 DEF AtStake
  <2>3. pending[ClaimTx] > 0
    BY <1>0, <2>1, <2>2 DEF ClaimWaits
  <2>4. pdas[hashlock] >= escrows[hashlock].amount
    <3>1. pdas[hashlock] >= lez_amount
      BY <1>0, <2>1, <2>2 DEF Verified
    <3>2. escrows[hashlock].amount = lez_amount
      BY <2>1, StakeFacts DEF Agreed
    <3> QED BY <3>1, <3>2
  <2>5. Lez!AcceptsClaim(ClaimTx)
    BY <2>1, <2>2, <2>4, StakeFacts, OwnSwap DEF Lez!AcceptsClaim
  <2>6. pending'[ClaimTx] >= pending[ClaimTx]
    BY <2>1, <2>5 DEF AccountStep
  <2> QED
    BY <1>2, <2>3, <2>6
<1> QED
  BY <1>3, <1>4, <1>5, <1>6, <1>8, <1>9, <1>10 DEF Safe

-----------------------------------------------------------------------------
(***************************************************************************)
(* A run that still goes on has not shown its secret, and nobody has       *)
(* claimed its ETH.                                                        *)
(***************************************************************************)
LEMMA NotYet ==
    ASSUME Inv, pc \notin Ended
    PROVE  revealed = FALSE /\ htlcs[Swap] # "CLAIMED"
  BY DEF Inv, Ordered, TypeOK

Steps == {"start", "watch", "verify", "balance", "claim", "refund"} \cup Ended

(***************************************************************************)
(* The run goes on, or ends, without a decision to claim.                  *)
(***************************************************************************)
LEMMA MovesOn ==
    ASSUME Inv, pc \notin Ended, NEW step \in Steps \ {"balance", "claim"}, Goto(step),
           UNCHANGED <<now, lezVars>>,
           htlcs'[Swap] = "CLAIMED" => htlcs[Swap] = "CLAIMED"
    PROVE  Safe'
<1>1. /\ pc' = step /\ escrow' = escrow /\ revealed' = FALSE
      /\ now' = now /\ escrows' = escrows /\ htlcs'[Swap] # "CLAIMED"
  BY NotYet DEF Goto, lezVars
<1>2. pc' # "claim" /\ pc' # "balance" /\ AtStake' = FALSE
  BY <1>1 DEF AtStake
<1>3. Ordered' /\ Verified' /\ Prompt' /\ NotRefunded' /\ ClaimWaits'
  BY <1>1, <1>2 DEF Ordered, Verified, Prompt, NotRefunded, ClaimWaits
<1>4. Read' /\ RefundedLate'
  BY <1>1 DEF Inv, Read, RefundedLate
<1> QED
  BY <1>3, <1>4 DEF Safe

(***************************************************************************)
(* The escrow is read and has what was asked for.                          *)
(***************************************************************************)
LEMMA Reads ==
    ASSUME Inv, pc = "verify", UNCHANGED <<now, ethVars, lezVars>>,
           escrows[hashlock] # NoEscrow, escrows[hashlock].amount >= lez_amount,
           pc' = "balance", escrow' = escrows[hashlock], revealed' = revealed
    PROVE  Safe'
<1>1. /\ pc' = "balance" /\ escrow' = escrows[hashlock] /\ revealed' = FALSE
      /\ now' = now /\ escrows' = escrows /\ htlcs'[Swap] # "CLAIMED"
  BY NotYet DEF Ended, ethVars, lezVars
<1>2. AtStake' = FALSE
  BY <1>1 DEF AtStake
<1>3. Ordered' /\ Verified' /\ Prompt' /\ NotRefunded' /\ ClaimWaits'
  BY <1>1, <1>2 DEF Ordered, Verified, Prompt, NotRefunded, ClaimWaits
<1>4. Read' /\ RefundedLate'
  BY <1>1 DEF Inv, Read, RefundedLate, SameTerms
<1> QED
  BY <1>3, <1>4 DEF Safe

(***************************************************************************)
(* What verify_escrow_binding says of the escrow's timelock.  No time can  *)
(* be later than U64Max, so that the sum did not saturate.                 *)
(***************************************************************************)
LEMMA Binding ==
    ASSUME NEW t \in Nat, NEW n \in Nat,
           t \div 1000 >= saturating_add(n, LEZ_CLAIM_MARGIN_SECS),
           t \div 1000 < Swap.timelock
    PROVE  /\ (n + LEZ_CLAIM_MARGIN_SECS) * 1000 <= t
           /\ t < 1000 * Swap.timelock
<1>1. /\ Swap.timelock \in Nat /\ Swap.timelock <= U64Max /\ U64Max \in Nat
      /\ LEZ_CLAIM_MARGIN_SECS \in Nat
  BY OwnSwap, TakerAssumption, PolicyAssumption
<1>2. t \div 1000 \in Nat /\ (t \div 1000) * 1000 <= t /\ t < ((t \div 1000) + 1) * 1000
  OBVIOUS
<1> DEFINE q == t \div 1000
<1>3. n + LEZ_CLAIM_MARGIN_SECS <= q
  <2>1. q < U64Max /\ q \in Nat
    BY <1>1, <1>2
  <2>2. n + LEZ_CLAIM_MARGIN_SECS > U64Max => saturating_add(n, LEZ_CLAIM_MARGIN_SECS) = U64Max
    BY <1>1 DEF saturating_add, saturating_to
  <2>3. n + LEZ_CLAIM_MARGIN_SECS <= U64Max =>
            saturating_add(n, LEZ_CLAIM_MARGIN_SECS) = n + LEZ_CLAIM_MARGIN_SECS
    BY <1>1 DEF saturating_add, saturating_to
  <2> HIDE DEF q
  <2>4. q >= saturating_add(n, LEZ_CLAIM_MARGIN_SECS)
    BY DEF q
  <2> QED
    BY <1>1, <2>1, <2>2, <2>3, <2>4
<1>4. q + 1 <= Swap.timelock
  BY <1>1, <1>2
<1> HIDE DEF q
<1>5. q \in Nat /\ q * 1000 <= t /\ t < (q + 1) * 1000
  BY <1>2 DEF q
<1> QED
  BY <1>1, <1>3, <1>4, <1>5

(***************************************************************************)
(* The escrow is verified.  It has not been refunded since it was read:    *)
(* its timelock is still ahead.                                            *)
(***************************************************************************)
LEMMA Verifies ==
    ASSUME Inv, pc = "balance", UNCHANGED <<now, ethVars, lezVars>>,
           pdas[hashlock] >= lez_amount,
           verify_escrow_binding(escrow, TakerLez, Swap.timelock, now, LEZ_CLAIM_MARGIN_SECS),
           pc' = "claim", verified_at' = now, UNCHANGED <<escrow, revealed>>
    PROVE  Safe'
<1>1. /\ pc' = "claim" /\ escrow' = escrow /\ revealed' = FALSE /\ verified_at' = now
      /\ now' = now /\ escrows' = escrows /\ pdas' = pdas /\ htlcs'[Swap] # "CLAIMED"
  BY NotYet DEF Ended, ethVars, lezVars
<1>2. /\ escrow # NoEscrow /\ escrow \in Lez!HTLCEscrow \cup {NoEscrow}
      /\ escrows[hashlock] # NoEscrow /\ SameTerms(escrow, escrows[hashlock])
      /\ now \in Nat
  BY DEF Inv, Ordered, Read, TypeOK, Lez!TypeOK
<1>3. escrow.timelock \in Nat /\ escrows[hashlock].timelock = escrow.timelock
  BY <1>2 DEF Lez!HTLCEscrow, SameTerms
<1>4. /\ escrow.taker_id = TakerLez
      /\ (now + LEZ_CLAIM_MARGIN_SECS) * 1000 <= escrow.timelock
      /\ escrow.timelock < 1000 * Swap.timelock
  BY <1>2, <1>3, Binding DEF verify_escrow_binding
<1>5. LEZ_CLAIM_MARGIN_SECS \in Nat /\ LEZ_CLAIM_MARGIN_SECS > 0
  BY TakerAssumption
<1>6. Ordered' /\ Read' /\ RefundedLate'
  BY <1>1 DEF Inv, Ordered, Read, RefundedLate
<1>7. Verified'
  BY <1>1, <1>2, <1>4 DEF Verified
<1>8. Prompt'
  BY <1>1, <1>2, <1>5 DEF Prompt
<1>9. NotRefunded'
  <2>1. now * 1000 < escrows[hashlock].timelock
    BY <1>2, <1>3, <1>4, <1>5
  <2>2. escrows[hashlock].state # "Refunded"
    BY <1>2, <1>3, <2>1 DEF Inv, RefundedLate
  <2> QED
    BY <1>1, <2>2 DEF NotRefunded
<1>10. ClaimWaits'
  BY <1>1 DEF ClaimWaits
<1> QED
  BY <1>6, <1>7, <1>8, <1>9, <1>10 DEF Safe

(***************************************************************************)
(* The secret is shown: the claim is now in the queue.                     *)
(***************************************************************************)
LEMMA Claims ==
    ASSUME Inv, pc = "claim", Lez!Submit(ClaimTx), revealed' = TRUE,
           pc' \in {"completed", "failed"}, UNCHANGED <<now, ethVars, escrow, verified_at>>
    PROVE  Safe'
<1>1. /\ escrow' = escrow /\ now' = now /\ escrows' = escrows /\ pdas' = pdas
      /\ verified_at' = verified_at /\ pc' \in Ended
      /\ pc' # "claim" /\ pc' # "balance"
  BY DEF Lez!Submit, Ended
<1>2. pending'[ClaimTx] > 0
  BY OwnSwap DEF Inv, TypeOK, Lez!TypeOK, Lez!Submit
<1>3. Ordered' /\ Read' /\ RefundedLate' /\ Verified' /\ ClaimWaits'
  BY <1>1, <1>2 DEF Inv, Ordered, Read, RefundedLate, Verified, ClaimWaits
<1>4. AtStake
  BY DEF AtStake
<1>5. Prompt' /\ NotRefunded'
  BY <1>1, <1>4 DEF Inv, Prompt, NotRefunded
<1> QED
  BY <1>3, <1>5 DEF Safe

-----------------------------------------------------------------------------
(***************************************************************************)
(* The part of TypeOK that is about the run itself.                        *)
(***************************************************************************)
TakerTypes ==
    /\ pc \in Steps
    /\ escrow \in Lez!HTLCEscrow \cup {NoEscrow}
    /\ verified_at \in Nat
    /\ revealed \in BOOLEAN
    /\ faults \in 0..MaxFaults

(***************************************************************************)
(* TypeOK is what the two chains and the run each keep.                    *)
(***************************************************************************)
LEMMA Types == TypeOK <=> Eth!TypeOK /\ Lez!TypeOK /\ TakerTypes
  BY DEF TypeOK, TakerTypes, Steps

(***************************************************************************)
(* The invariant after a step, from its parts.                             *)
(***************************************************************************)
LEMMA Together ==
    ASSUME Eth!TypeOK', Lez!TypeOK', TakerTypes', Safe'
    PROVE  Inv'
  BY DEF TypeOK, TakerTypes, Steps, Inv, Safe

(***************************************************************************)
(* The count of failures stays within its bound.                           *)
(***************************************************************************)
LEMMA FaultTypes ==
    ASSUME TypeOK, Fault \/ NoFault
    PROVE  faults' \in 0..MaxFaults
  BY TakerAssumption DEF TypeOK, Fault, NoFault

(***************************************************************************)
(* A step of the run that only moves on keeps the run's types.             *)
(***************************************************************************)
LEMMA GotoTypes ==
    ASSUME TypeOK, Fault \/ NoFault, NEW step \in Steps, Goto(step)
    PROVE  TakerTypes'
<1>1. faults' \in 0..MaxFaults
  BY FaultTypes
<1> QED
  BY <1>1 DEF Goto, TypeOK, TakerTypes

(***************************************************************************)
(* A step of others keeps the run's types.                                 *)
(***************************************************************************)
LEMMA SameTypes ==
    ASSUME TypeOK, NoFault, UNCHANGED takerVars
    PROVE  TakerTypes'
  BY DEF NoFault, takerVars, TypeOK, TakerTypes, Steps

(***************************************************************************)
(* A step that leaves LEZ alone, the clock perhaps apart.                  *)
(***************************************************************************)
LEMMA LezSame ==
    ASSUME Lez!TypeOK, UNCHANGED lezVars, now' \in Nat
    PROVE  Lez!TypeOK' /\ AccountStep
<1>1. /\ escrows' = escrows /\ pdas' = pdas /\ wallets' = wallets /\ pending' = pending
      /\ hashlock \in Hashlocks /\ ClaimTx \in Txs
  BY OwnSwap DEF lezVars
<1>2. pdas'[hashlock] >= pdas[hashlock] /\ pending'[ClaimTx] >= pending[ClaimTx]
  BY <1>1 DEF Lez!TypeOK
<1> QED
  BY <1>1, <1>2, AccountLeft DEF Lez!TypeOK

(***************************************************************************)
(* A step that leaves Ethereum alone, the clock perhaps apart.             *)
(***************************************************************************)
LEMMA EthSame ==
    ASSUME Eth!TypeOK, UNCHANGED ethVars, now' \in Nat
    PROVE  Eth!TypeOK'
  BY DEF Eth!TypeOK, ethVars

(***************************************************************************)
(* An Ethereum transaction of the taker, mined or not.                     *)
(***************************************************************************)
LEMMA Transacts ==
    ASSUME Inv, pc \notin Ended, NEW possible,
           NEW done \in Steps \ {"balance", "claim"}, NEW failed \in Steps \ {"balance", "claim"},
           \/ Transact(Eth!lock(Swap), possible, done, failed)
           \/ Transact(Eth!refund(Swap), possible, done, failed),
           UNCHANGED lezVars
    PROVE  Inv'
<1>0. Eth!TypeOK /\ Lez!TypeOK /\ TypeOK /\ now \in Nat
  BY Types DEF Inv, Lez!TypeOK
<1>1. PICK step \in {done, failed} : Goto(step) /\ (Fault \/ NoFault)
  BY DEF Transact
<1>2. Eth!lock(Swap) \/ Eth!refund(Swap) \/ UNCHANGED <<now, ethVars>>
  BY DEF Transact
<1>3. /\ Eth!TypeOK' /\ now' = now
      /\ htlcs'[Swap] = "CLAIMED" => htlcs[Swap] = "CLAIMED"
  <2>1. CASE Eth!lock(Swap) \/ Eth!refund(Swap)
    <3>1. Eth!TypeOK' /\ now' = now
      BY <1>0, <2>1, EthCall
    <3>2. htlcs'[Swap] # "CLAIMED"
      BY <1>0, <2>1, OwnSwap DEF Eth!lock, Eth!refund, Eth!TypeOK
    <3> QED BY <3>1, <3>2
  <2>2. CASE UNCHANGED <<now, ethVars>>
    BY <1>0, <2>2, EthSame DEF ethVars
  <2> QED BY <1>2, <2>1, <2>2
<1>4. TakerTypes'
  BY <1>0, <1>1, GotoTypes
<1>5. Lez!TypeOK'
  BY <1>0, <1>3, LezSame
<1>6. Safe'
  BY <1>1, <1>3, MovesOn
<1> QED
  BY <1>3, <1>4, <1>5, <1>6, Together

(***************************************************************************)
(* A step of the run that leaves both chains alone.                        *)
(***************************************************************************)
LEMMA Quietly ==
    ASSUME Inv, NoChain, TakerTypes', Safe'
    PROVE  Inv'
<1>0. Eth!TypeOK /\ Lez!TypeOK /\ now \in Nat
  BY Types DEF Inv, Lez!TypeOK
<1>1. Eth!TypeOK' /\ Lez!TypeOK'
  BY <1>0, EthSame, LezSame DEF NoChain
<1> QED
  BY <1>1, Together

(***************************************************************************)
(* A run that moves on or fails without touching a chain: what the watcher *)
(* tells, a failed check, an error, a crash.                               *)
(***************************************************************************)
LEMMA MovesQuietly ==
    ASSUME Inv, NoChain, pc \notin Ended, NEW step \in Steps \ {"balance", "claim"}, Goto(step),
           Fault \/ NoFault
    PROVE  Inv'
<1>1. TakerTypes'
  BY GotoTypes DEF Inv
<1>2. Safe'
  BY MovesOn DEF NoChain, ethVars
<1> QED
  BY <1>1, <1>2, Quietly

(***************************************************************************)
(* Every step of the run, of the chains and of others preserves the        *)
(* invariant.                                                              *)
(***************************************************************************)
LEMMA InvStep ==
    ASSUME Inv, Next
    PROVE  Inv'
<1>0. TypeOK /\ Eth!TypeOK /\ Lez!TypeOK /\ TakerTypes /\ now \in Nat
  BY Types DEF Inv, Lez!TypeOK
<1>1. CASE LockEth
  <2>1. pc \notin Ended
    BY <1>1 DEF LockEth, Ended
  <2>2. "watch" \in Steps \ {"balance", "claim"} /\ "failed" \in Steps \ {"balance", "claim"}
    BY DEF Steps, Ended
  <2>3. Transact(Eth!lock(Swap), ENABLED Eth!lock(Swap), "watch", "failed") /\ UNCHANGED lezVars
    BY <1>1 DEF LockEth
  <2> QED
    BY <2>1, <2>2, <2>3, Transacts
<1>2. CASE RefundEth
  <2>1. pc \notin Ended
    BY <1>2 DEF RefundEth, Ended
  <2>2. "refunded" \in Steps \ {"balance", "claim"}
    BY DEF Steps, Ended
  <2>3. /\ Transact(Eth!refund(Swap), ENABLED Eth!refund(Swap), "refunded", "refunded")
        /\ UNCHANGED lezVars
    BY <1>2 DEF RefundEth
  <2> QED
    BY <2>1, <2>2, <2>3, Transacts
<1>3. CASE LockSeen \/ RefundSeen \/ TimelockExpires \/ Crash
  <2>1. /\ NoChain /\ pc \notin Ended /\ (Fault \/ NoFault)
        /\ \E step \in Steps \ {"balance", "claim"} : Goto(step)
    BY <1>3 DEF LockSeen, RefundSeen, TimelockExpires, Crash, Ended, Steps
  <2> QED
    BY <2>1, MovesQuietly
<1>4. CASE VerifyEscrow
  <2>1. NoChain /\ pc = "verify" /\ pc \notin Ended /\ "failed" \in Steps \ {"balance", "claim"}
    BY <1>4 DEF VerifyEscrow, Ended, Steps
  <2>2. CASE Goto("failed") /\ (Fault \/ NoFault)
    BY <2>1, <2>2, MovesQuietly
  <2>3. CASE /\ escrows[hashlock] # NoEscrow
             /\ escrows[hashlock].amount >= lez_amount
             /\ pc' = "balance" /\ escrow' = escrows[hashlock]
             /\ UNCHANGED <<verified_at, revealed>> /\ NoFault
    <3>1. Safe'
      BY <2>1, <2>3, Reads DEF NoChain
    <3>2. escrow' \in Lez!HTLCEscrow
      BY <1>0, <2>3, OwnSwap, EscrowType
    <3>3. faults' \in 0..MaxFaults
      BY <1>0, <2>3, FaultTypes
    <3>4. TakerTypes'
      BY <1>0, <2>3, <3>2, <3>3 DEF TakerTypes, Steps
    <3> QED
      BY <2>1, <3>1, <3>4, Quietly
  <2> QED
    BY <1>4, <2>2, <2>3 DEF VerifyEscrow
<1>5. CASE VerifyBalance
  <2>1. NoChain /\ pc = "balance" /\ pc \notin Ended /\ "failed" \in Steps \ {"balance", "claim"}
    BY <1>5 DEF VerifyBalance, Ended, Steps
  <2>2. CASE Goto("failed") /\ (Fault \/ NoFault)
    BY <2>1, <2>2, MovesQuietly
  <2>3. CASE /\ pdas[hashlock] >= lez_amount
             /\ verify_escrow_binding(escrow, TakerLez, Swap.timelock, now, LEZ_CLAIM_MARGIN_SECS)
             /\ pc' = "claim" /\ verified_at' = now
             /\ UNCHANGED <<escrow, revealed>> /\ NoFault
    <3>1. Safe'
      BY <2>1, <2>3, Verifies DEF NoChain
    <3>2. faults' \in 0..MaxFaults
      BY <1>0, <2>3, FaultTypes
    <3>3. TakerTypes'
      BY <1>0, <2>3, <3>2 DEF TakerTypes, Steps
    <3> QED
      BY <2>1, <3>1, <3>3, Quietly
  <2> QED
    BY <1>5, <2>2, <2>3 DEF VerifyBalance
<1>6. CASE ClaimLez
  <2>1. /\ pc = "claim" /\ pc \notin Ended /\ "failed" \in Steps \ {"balance", "claim"}
        /\ UNCHANGED <<now, ethVars, escrow, verified_at>> /\ (Fault \/ NoFault)
    BY <1>6 DEF ClaimLez, Ended, Steps
  <2>2. CASE Lez!Submit(ClaimTx) /\ revealed' = TRUE /\ pc' \in {"completed", "failed"}
    <3>1. Safe'
      BY <2>1, <2>2, Claims
    <3>2. Lez!TypeOK'
      BY <1>0, <2>1, <2>2, OwnSwap, LezStep
    <3>3. Eth!TypeOK'
      BY <1>0, <2>1, EthSame
    <3>4. faults' \in 0..MaxFaults
      BY <1>0, <2>1, FaultTypes
    <3>5. TakerTypes'
      BY <1>0, <2>1, <2>2, <3>4 DEF TakerTypes, Steps, Ended
    <3> QED
      BY <3>1, <3>2, <3>3, <3>5, Together
  <2>3. CASE UNCHANGED <<lezVars, revealed>> /\ pc' = "failed"
    <3>1. NoChain /\ Goto("failed")
      BY <2>1, <2>3 DEF NoChain, Goto
    <3> QED
      BY <2>1, <3>1, MovesQuietly
  <2> QED
    BY <1>6, <2>2, <2>3 DEF ClaimLez
<1>7. ASSUME UNCHANGED <<lezVars, takerVars>>, NoFault,
             Eth!refund(Swap) \/ (revealed /\ Eth!claim(Swap, Secret))
      PROVE  Inv'
  <2>1. /\ Eth!TypeOK' /\ now' = now
        /\ htlcs'[Swap] = "CLAIMED" => htlcs[Swap] = "CLAIMED" \/ Eth!claim(Swap, Secret)
    BY <1>0, <1>7, EthCall
  <2>2. htlcs'[Swap] = "CLAIMED" => htlcs[Swap] = "CLAIMED" \/ revealed
    <3>1. CASE revealed
      BY <3>1
    <3>2. CASE Eth!refund(Swap)
      BY <1>0, <3>2, OwnSwap DEF Eth!refund, Eth!TypeOK
    <3> QED BY <1>7, <3>1, <3>2
  <2>3. Lez!TypeOK' /\ AccountStep
    BY <1>0, <1>7, <2>1, LezSame
  <2>4. TakerTypes'
    BY <1>0, <1>7, SameTypes
  <2>5. Safe'
    BY <1>7, <2>1, <2>2, <2>3, WorldStep
  <2> QED
    BY <2>1, <2>3, <2>4, <2>5, Together
<1>8. ASSUME NEW tx \in Txs, UNCHANGED <<now, ethVars, takerVars>>, NoFault,
             \/ Lez!Submit(tx)
             \/ Executes(tx)
             \/ Lez!Drop(tx) /\ (tx = ClaimTx => ~Lez!AcceptsClaim(tx))
      PROVE  Inv'
  <2>1. Lez!TypeOK' /\ AccountStep
    BY <1>0, <1>8, LezStep
  <2>2. Eth!TypeOK' /\ htlcs' = htlcs
    BY <1>0, <1>8, EthSame DEF ethVars
  <2>3. TakerTypes'
    BY <1>0, <1>8, SameTypes
  <2>4. Safe'
    BY <1>8, <2>1, <2>2, WorldStep
  <2> QED
    BY <2>1, <2>2, <2>3, <2>4, Together
<1>9. CASE Tick
  <2>1. /\ now' = now + 1 /\ UNCHANGED ethVars /\ UNCHANGED lezVars /\ UNCHANGED takerVars
        /\ NoFault /\ ClaimIsPrompt
    BY <1>9 DEF Tick, Eth!Tick, ethVars
  <2>2. Lez!TypeOK' /\ AccountStep /\ Eth!TypeOK' /\ escrows' = escrows /\ pending' = pending
        /\ htlcs' = htlcs
    BY <1>0, <2>1, LezSame, EthSame DEF lezVars, ethVars
  <2>3. TakerTypes'
    BY <1>0, <2>1, SameTypes
  <2>4. Safe'
    BY <2>1, <2>2, WorldStep
  <2> QED
    BY <2>2, <2>3, <2>4, Together
<1>10. CASE RefundCommand \/ MakerClaimsEth
  BY <1>7, <1>10 DEF RefundCommand, MakerClaimsEth
<1>11. CASE \E tx \in OtherTxs : OthersSubmit(tx)
  BY <1>8, <1>11 DEF OthersSubmit, Txs
<1>12. CASE \E tx \in Txs : Sequence(tx)
  BY <1>8, <1>12 DEF Sequence
<1> QED
  BY <1>1, <1>2, <1>3, <1>4, <1>5, <1>6, <1>9, <1>10, <1>11, <1>12 DEF Next, TakerStep

(***************************************************************************)
(* A run starts with nothing locked and nothing shown.                     *)
(***************************************************************************)
LEMMA InvInit == Init => Inv
<1> SUFFICES ASSUME Init PROVE Inv
  OBVIOUS
<1>1. Eth!TypeOK
  BY ChainsAssumption DEF Init, Eth!Init, Eth!TypeOK, Eth!SwapState
<1>2. Lez!TypeOK
  BY ChainsAssumption DEF Init, Lez!Init, Lez!TypeOK
<1>3. TakerTypes
  <2>1. /\ pc = "start" /\ escrow = NoEscrow /\ verified_at = 0
        /\ revealed = FALSE /\ faults = 0
    BY DEF Init
  <2>2. faults \in 0..MaxFaults /\ pc \in Steps
    BY <2>1, TakerAssumption DEF Steps
  <2>3. revealed \in BOOLEAN
    BY <2>1, Zenon
  <2> QED
    BY <2>1, <2>2, <2>3 DEF TakerTypes
<1>4. /\ pc = "start" /\ escrow = NoEscrow /\ revealed = FALSE
      /\ escrows[hashlock] = NoEscrow /\ htlcs[Swap] = "EMPTY"
  BY OwnSwap DEF Init, Lez!Init, Eth!Init
<1>5. /\ Ordered /\ Read /\ Verified /\ RefundedLate
      /\ Prompt /\ NotRefunded /\ ClaimWaits
  BY <1>4 DEF Ordered, Read, Verified, RefundedLate, Prompt, NotRefunded, ClaimWaits, AtStake
<1> QED
  BY <1>1, <1>2, <1>3, <1>5, Types DEF Inv

(***************************************************************************)
(* A step that changes nothing keeps the invariant.                        *)
(***************************************************************************)
LEMMA InvStutter ==
    ASSUME Inv, UNCHANGED vars
    PROVE  Inv'
<1>0. TypeOK /\ Eth!TypeOK /\ Lez!TypeOK /\ now \in Nat
  BY Types DEF Inv, Lez!TypeOK
<1>1. /\ now' = now /\ UNCHANGED ethVars /\ UNCHANGED lezVars /\ UNCHANGED takerVars
      /\ NoFault /\ htlcs' = htlcs
  BY DEF vars, NoFault, ethVars
<1>2. Lez!TypeOK' /\ AccountStep /\ Eth!TypeOK' /\ TakerTypes'
  BY <1>0, <1>1, LezSame, EthSame, SameTypes
<1>3. Safe'
  BY <1>1, <1>2, WorldStep
<1> QED
  BY <1>2, <1>3, Together

(***************************************************************************)
(* The invariant holds in every state of every run.                        *)
(***************************************************************************)
LEMMA Invariance == Spec => []Inv
<1>1. Inv /\ [Next]_vars => Inv'
  BY InvStep, InvStutter
<1> QED
  BY InvInit, <1>1, PTL DEF Spec

-----------------------------------------------------------------------------
(***************************************************************************)
(* The types of a run and of both chains under it: no balance goes below   *)
(* zero, on either chain.                                                  *)
(***************************************************************************)
THEOREM TypeCorrect == Spec => []TypeOK
<1>1. Inv => TypeOK
  BY DEF Inv
<1> QED
  BY Invariance, <1>1, PTL

(***************************************************************************)
(* The swap is atomic for the taker, for every swap and margin, whatever   *)
(* transactions others have: once its ETH has been taken, its LEZ is its   *)
(* own or waits for a claim that the sequencer has and the program will    *)
(* accept, provided that run_taker was promised what it was asked for and  *)
(* its claim is executed within the margin it keeps for that.              *)
(***************************************************************************)
THEOREM SwapIsAtomic == Spec => []TakerNeverLoses
<1>1. Inv => TakerNeverLoses
  <2> SUFFICES ASSUME Inv, htlcs[Swap] = "CLAIMED", Agreed PROVE Paid
    BY DEF TakerNeverLoses
  <2>1. revealed
    BY DEF Inv, Ordered
  <2>2. escrows[hashlock] # NoEscrow /\ StateOf(hashlock) = escrows[hashlock].state
    BY <2>1, StakeFacts DEF StateOf
  <2>3. escrows[hashlock].state \in {"Locked", "Claimed"}
    BY <2>1, <2>2, OwnSwap, EscrowType DEF Inv, TypeOK, NotRefunded, AtStake
  <2>4. CASE escrows[hashlock].state = "Claimed"
    BY <2>2, <2>4 DEF Paid
  <2>5. CASE escrows[hashlock].state = "Locked"
    <3>1. pending[ClaimTx] > 0
      BY <2>1, <2>5 DEF Inv, ClaimWaits
    <3>2. pdas[hashlock] >= escrow.amount
      BY <2>1, <2>5 DEF Inv, Verified, Agreed
    <3> QED
      BY <2>2, <2>5, <3>1, <3>2 DEF Paid
  <2> QED
    BY <2>3, <2>4, <2>5
<1> QED
  BY Invariance, <1>1, PTL

(***************************************************************************)
(* The secret leaves the taker only for an escrow that pays the taker what *)
(* it asked for, and that its maker can refund only before the taker's own *)
(* refund is due.                                                          *)
(***************************************************************************)
THEOREM RevealsInOrder == Spec => []RevealedInOrder
<1>1. Inv => RevealedInOrder
  BY StakeFacts DEF RevealedInOrder
<1> QED
  BY Invariance, <1>1, PTL

(***************************************************************************)
(* Every step is one that the contract allows, or leaves Ethereum alone.   *)
(***************************************************************************)
LEMMA EthFollows ==
    ASSUME Next
    PROVE  [Eth!Next]_(Eth!vars)
<1>1. ASSUME Eth!lock(Swap) \/ Eth!refund(Swap) \/ Eth!claim(Swap, Secret)
      PROVE  Eth!Next
  BY <1>1, OwnSwap DEF Eth!Next
<1>2. ASSUME UNCHANGED <<now, ethVars>>
      PROVE  UNCHANGED Eth!vars
  BY <1>2 DEF ethVars, Eth!vars
<1>3. CASE LockEth \/ RefundEth
  BY <1>1, <1>2, <1>3 DEF LockEth, RefundEth, Transact
<1>4. CASE LockSeen \/ RefundSeen \/ TimelockExpires \/ VerifyEscrow \/ VerifyBalance \/ Crash
  <2>1. NoChain
    BY <1>4 DEF LockSeen, RefundSeen, TimelockExpires, VerifyEscrow, VerifyBalance, Crash
  <2> QED
    BY <1>2, <2>1 DEF NoChain
<1>5. CASE ClaimLez
  BY <1>2, <1>5 DEF ClaimLez
<1>6. CASE RefundCommand \/ MakerClaimsEth
  BY <1>1, <1>6 DEF RefundCommand, MakerClaimsEth
<1>7. CASE \/ \E tx \in OtherTxs : OthersSubmit(tx)
           \/ \E tx \in Txs : Sequence(tx)
  BY <1>2, <1>7 DEF OthersSubmit, Sequence
<1>8. CASE Tick
  BY <1>8 DEF Tick, Eth!Next
<1> QED
  BY <1>3, <1>4, <1>5, <1>6, <1>7, <1>8 DEF Next, TakerStep

(***************************************************************************)
(* Every step is one that the LEZ program and its sequencer allow, or      *)
(* leaves LEZ alone.                                                       *)
(***************************************************************************)
LEMMA LezFollows ==
    ASSUME Next
    PROVE  [Lez!Next]_(Lez!vars)
<1>1. ASSUME UNCHANGED <<now, lezVars>>
      PROVE  UNCHANGED Lez!vars
  BY <1>1 DEF lezVars, Lez!vars
<1>2. ASSUME NEW tx \in Txs, now' = now, Lez!Submit(tx) \/ Executes(tx) \/ Lez!Drop(tx)
      PROVE  Lez!Next
  BY <1>2 DEF Lez!Next, Executes, Lez!Sequencer
<1>3. ASSUME \/ Eth!lock(Swap) \/ Eth!refund(Swap) \/ Eth!claim(Swap, Secret)
             \/ UNCHANGED <<now, ethVars>>
      PROVE  now' = now
  BY <1>3 DEF Eth!lock, Eth!refund, Eth!claim
<1>4. CASE LockEth \/ RefundEth
  <2>1. now' = now /\ UNCHANGED lezVars
    BY <1>3, <1>4 DEF LockEth, RefundEth, Transact
  <2> QED
    BY <1>1, <2>1
<1>5. CASE LockSeen \/ RefundSeen \/ TimelockExpires \/ VerifyEscrow \/ VerifyBalance \/ Crash
  <2>1. NoChain
    BY <1>5 DEF LockSeen, RefundSeen, TimelockExpires, VerifyEscrow, VerifyBalance, Crash
  <2> QED
    BY <1>1, <2>1 DEF NoChain
<1>6. CASE ClaimLez
  BY <1>1, <1>2, <1>6, OwnSwap DEF ClaimLez
<1>7. CASE RefundCommand \/ MakerClaimsEth
  BY <1>1, <1>3, <1>7 DEF RefundCommand, MakerClaimsEth
<1>8. CASE \E tx \in OtherTxs : OthersSubmit(tx)
  BY <1>2, <1>8 DEF OthersSubmit, Txs
<1>9. CASE \E tx \in Txs : Sequence(tx)
  BY <1>2, <1>9 DEF Sequence
<1>10. CASE Tick
  BY <1>10 DEF Tick, Eth!Tick, Lez!Next, Lez!Tick, lezVars, Lez!lezVars
<1> QED
  BY <1>4, <1>5, <1>6, <1>7, <1>8, <1>9, <1>10 DEF Next, TakerStep

(***************************************************************************)
(* Composition: whatever the taker, the maker and others do in a run, the  *)
(* contract sees a behaviour of EthHTLC and the LEZ program one of         *)
(* LezHTLC, so what is proved of those two holds in every run.             *)
(***************************************************************************)
THEOREM ChainsAreFollowed == Spec => Eth!Spec /\ Lez!Spec
<1>1. Init => Eth!Init /\ Lez!Init
  BY DEF Init
<1>2. [Next]_vars => [Eth!Next]_(Eth!vars)
  <2>1. CASE UNCHANGED vars
    BY <2>1 DEF vars, ethVars, Eth!vars
  <2> QED
    BY <2>1, EthFollows
<1>3. [Next]_vars => [Lez!Next]_(Lez!vars)
  <2>1. CASE UNCHANGED vars
    BY <2>1 DEF vars, lezVars, Lez!vars
  <2> QED
    BY <2>1, LezFollows
<1> QED
  BY <1>1, <1>2, <1>3, PTL DEF Spec, Eth!Spec, Lez!Spec
=============================================================================

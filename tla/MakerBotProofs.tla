--------------------------- MODULE MakerBotProofs ---------------------------
(***************************************************************************)
(* Proofs about MakerBot and the decisions it takes (SwapPolicy), for any  *)
(* number of hashlocks, takers, requests and transactions of others, any   *)
(* number of faults, and all amounts and times.                            *)
(***************************************************************************)
EXTENDS MakerBot, FiniteSetTheorems, TLAPS

-----------------------------------------------------------------------------
(***************************************************************************)
(* The inductive invariant.  LEZ of the maker is in an escrow account, or  *)
(* on its way there.                                                       *)
(***************************************************************************)
AtRisk(h) == pdas[h] > 0 \/ pending[FundTx(h)] > 0

(***************************************************************************)
(* A request the watcher delivered was locked, and what is locked is       *)
(* usable.                                                                 *)
(***************************************************************************)
EthOK ==
    /\ now <= MaxTime
    /\ \A id \in SwapIds : /\ Delivered(id) => htlcs[id] # "EMPTY"
                           /\ htlcs[id] # "EMPTY" => id \in Usable

(***************************************************************************)
(* An escrow in the maker's name has the terms of the maker's lock.        *)
(***************************************************************************)
OwnTerms ==
    \A h \in Hashlocks : Ours(h) =>
        /\ escrows[h].amount = lez_amount
        /\ escrows[h].timelock = 1000 * (escrows[h].timelock \div 1000)

(***************************************************************************)
(* What is in memory is on disk, for the same swap; entries are about      *)
(* locked requests.                                                        *)
(***************************************************************************)
JournalOK ==
    \A h \in Hashlocks :
        /\ mem.in_flight[h] # NoEntry =>
              /\ disk.in_flight[h] # NoEntry
              /\ disk.in_flight[h].swap_id = mem.in_flight[h].swap_id
        /\ disk.in_flight[h] # NoEntry => htlcs[disk.in_flight[h].swap_id] # "EMPTY"

(***************************************************************************)
(* One swap at a time: while run_maker works the journal holds nothing but *)
(* its swap, and reconcile meets each entry with no task.                  *)
(***************************************************************************)
Control ==
    /\ pc \in {"down", "loop"} => \A h \in Hashlocks : task[h] = Idle
    /\ pc # "reconcile" => queue = {}
    /\ pc = "loop" => \A h \in Hashlocks : mem.in_flight[h] = NoEntry
    /\ pc = "watch" =>
          /\ \A h \in Hashlocks : mem.in_flight[h] # NoEntry => task[h] # Idle
          /\ \A h, k \in Hashlocks : task[h] # Idle /\ task[k] # Idle => h = k
    /\ \A h \in Hashlocks : task[h] # Idle => (task[h].ctx = "maker" <=> pc = "watch")
    /\ \A h \in queue : mem.in_flight[h] # NoEntry /\ task[h] = Idle

-----------------------------------------------------------------------------
(***************************************************************************)
(* What a task t about hashlock h, with journal entry e, can rely on at    *)
(* each of its steps.  Placed: who gets there.                             *)
(***************************************************************************)
Early == {"record", "accepted", "check", "submit"}
Fresh == Early \cup {"confirm", "fund"}

Placed(t) ==
    /\ t.step \in Fresh \cup {"funding", "mark"} => t.ctx = "maker"
    /\ t.step \in {"read", "balance", "decide", "pre", "rebalance", "post", "quarantine"} =>
          t.ctx = "reconcile"
    /\ t.step \in {"clear", "ops"} => t.outcome # "none"

(***************************************************************************)
(* The entry is in the journal from record to clear.                       *)
(***************************************************************************)
Journaled(t, e) ==
    /\ t.step = "record" => e = NoEntry
    /\ t.step # "record" /\ (t.step = "ops" => t.ctx = "resume") =>
          e # NoEntry /\ e.swap_id = t.swap_id

(***************************************************************************)
(* Up to the funding nothing is at risk, the request is one to answer, and *)
(* the escrow, once confirmed, is the answer; the timelock is further away *)
(* than what is left of the confirmation poll.                             *)
(***************************************************************************)
ToAnswer(h, id, expiry) ==
    /\ id \in Usable /\ id.hashlock = h /\ id.takerLezAccount # MakerLez
    /\ id.recipient = Maker /\ id.amount >= eth_amount
    /\ id.timelock >= expiry + timelock_margin_secs
    /\ htlcs[id] # "EMPTY"

Confirmed(h, t) ==
    /\ Ours(h) /\ escrows[h].state = "Locked"
    /\ escrows[h].taker_id = t.swap_id.takerLezAccount
    /\ escrows[h].timelock = 1000 * t.expiry

Answers(h, t) ==
    t.step \in Fresh =>
        /\ ~AtRisk(h)
        /\ ToAnswer(h, t.swap_id, t.expiry)
        /\ t.step \in Early => now + lez_timelock_secs = t.expiry
        /\ t.step = "confirm" => /\ now <= t.deadline
                                 /\ t.deadline + lez_timelock_secs = t.expiry + PollSecs
        /\ t.step = "fund" => /\ now + lez_timelock_secs <= t.expiry + PollSecs
                              /\ Confirmed(h, t)

(***************************************************************************)
(* A task claims the ETH after the taker claimed the LEZ, and its swap is  *)
(* settled when it goes for the journal entry.                             *)
(***************************************************************************)
EthSettled(h) == Ours(h) => \E id \in Answered(h) : htlcs[id] # "OPEN"
Settled(h) == StateOf(h) = "Refunded" \/ (StateOf(h) = "Claimed" /\ EthSettled(h))

Settling(h, t) ==
    /\ t.step \in {"claim", "receipt"} => StateOf(h) = "Claimed"
    /\ t.step = "receipt" => t.swap_id \in ethPool \/ htlcs[t.swap_id] # "OPEN"
    /\ t.step = "clear" \/ (t.step = "ops" /\ t.ctx = "resume") => Settled(h)

(***************************************************************************)
(* A wedge is judged on an expired escrow: what was read as claimed is     *)
(* claimed, and an escrow whose money was missing then will not get it.    *)
(***************************************************************************)
Wedged(h) == ~AtRisk(h) /\ (Ours(h) => escrows[h].state = "Locked")

Judging(h, t) ==
    /\ t.step \in {"balance", "decide", "pre", "rebalance", "post"} => escrows[h] # NoEscrow
    /\ t.step \in {"pre", "rebalance", "post"} => 1000 * now >= escrows[h].timelock
    /\ t.step \in {"rebalance", "post"} /\ t.pre = "Claimed" => StateOf(h) = "Claimed"
    /\ t.step = "post" /\ t.balance = "low" => ~AtRisk(h)
    /\ t.step = "quarantine" => Wedged(h)

Fits(h, t, e) ==
    /\ Placed(t) /\ Journaled(t, e)
    /\ Answers(h, t) /\ Settling(h, t) /\ Judging(h, t)

TaskOK(h) == task[h] # Idle => Fits(h, task[h], mem.in_flight[h])

-----------------------------------------------------------------------------
(***************************************************************************)
(* LEZ at risk is one payment, into an own locked escrow that answers the  *)
(* request in the journal; one still on its way is not late.               *)
(***************************************************************************)
RiskOK(h) ==
    AtRisk(h) =>
        /\ Ours(h) /\ escrows[h].state = "Locked"
        /\ \/ pdas[h] = lez_amount /\ pending[FundTx(h)] = 0
           \/ pdas[h] = 0 /\ pending[FundTx(h)] = 1
        /\ mem.in_flight[h] # NoEntry /\ mem.in_flight[h].swap_id \in Answered(h)
        /\ pending[FundTx(h)] > 0 => 1000 * now < escrows[h].timelock

(***************************************************************************)
(* After a claim the ETH is settled, or in the journal.                    *)
(***************************************************************************)
ClaimedKept(h) ==
    Ours(h) /\ escrows[h].state = "Claimed" =>
        \E id \in Answered(h) :
            htlcs[id] # "OPEN" \/ (mem.in_flight[h] # NoEntry /\ mem.in_flight[h].swap_id = id)

OneAtRisk == \A h, k \in Hashlocks : AtRisk(h) /\ AtRisk(k) => h = k

ChainTypes == Eth!TypeOK /\ Lez!TypeOK /\ ethPool \subseteq SwapIds
BotTypes ==
    /\ mem \in BotState /\ disk \in BotState
    /\ pc \in {"down", "reconcile", "loop", "watch"}
    /\ queue \subseteq Hashlocks
    /\ task \in [Hashlocks -> Task \cup {Idle}]
    /\ rejected \subseteq Hashlocks
    /\ IsFiniteSet(rejected) /\ Cardinality(rejected) <= MAX_REJECTED
    /\ ops \in [Hashlocks -> {"none", "Accepted", "Completed", "Refunded", "Failed"}]
    /\ faults \in 0..MaxFaults

Inv ==
    /\ ChainTypes /\ BotTypes
    /\ EthOK /\ OwnTerms /\ JournalOK /\ Control
    /\ \A h \in Hashlocks : TaskOK(h) /\ RiskOK(h) /\ ClaimedKept(h)
    /\ OneAtRisk

-----------------------------------------------------------------------------
(***************************************************************************)
(* The invariant of the prompt world.  Each fault costs at most one poll;  *)
(* "Slack" is what the faults so far may have cost.                        *)
(***************************************************************************)
Slack == PollSecs * faults
InTime(h, t) == 1000 * t <= escrows[h].timelock + 1000 * Slack

(***************************************************************************)
(* What a task t may rely on about time.  A lock is waited for only if a   *)
(* fault kept it from being executed.                                      *)
(***************************************************************************)
LockPolled(h, t) ==
    LET tx == LockTx(h, t.swap_id.takerLezAccount, 1000 * t.expiry)
    IN  /\ t.step \in {"confirm", "fund"} => now + lez_timelock_secs = t.expiry \/ faults > 0
        /\ t.step = "confirm" => /\ tx \in Txs
                                 /\ escrows[h] = NoEscrow /\ pending[tx] = 0 => faults > 0

(***************************************************************************)
(* From the funding on there is an escrow, and its timelock is known.      *)
(***************************************************************************)
MoneyPolled(h, t) ==
    /\ t.step \in {"funding", "mark", "await"} => escrows[h] # NoEscrow
    /\ t.step = "funding" => InTime(h, t.deadline)
    /\ t.step \in {"funding", "mark", "await", "balance", "decide"} /\ Ours(h) =>
          escrows[h].timelock = 1000 * t.expiry
    /\ t.step \in {"read", "balance", "decide"} => ~t.submitted

(***************************************************************************)
(* A refund of a funded escrow is waited for only if a fault kept it from  *)
(* being executed.                                                         *)
(***************************************************************************)
RefundPolled(h, t) ==
    t.step = "refund" /\ AtRisk(h) =>
        /\ 1000 * now >= escrows[h].timelock
        /\ 1000 * t.deadline <= escrows[h].timelock + 1000 * Slack + 1000 * PollSecs
        /\ t.submitted /\ pending[RefundTx(h)] = 0 => InTime(h, t.deadline)

(***************************************************************************)
(* The journal entry of a claimed escrow is cleared when the ETH is the    *)
(* maker's.                                                                *)
(***************************************************************************)
EthClaimed(h) ==
    Ours(h) /\ escrows[h].state = "Claimed" => \E id \in Answered(h) : htlcs[id] = "CLAIMED"

ClaimPolled(h, t) ==
    t.step = "clear" \/ (t.step = "ops" /\ t.ctx = "resume") => EthClaimed(h)

Polls(h, t) == LockPolled(h, t) /\ MoneyPolled(h, t) /\ RefundPolled(h, t) /\ ClaimPolled(h, t)
PollsOK(h) == task[h] # Idle => Polls(h, task[h])

(***************************************************************************)
(* LEZ at risk, and ETH to be claimed, are early enough for the margin.    *)
(***************************************************************************)
Timely(h) ==
    /\ AtRisk(h) => InTime(h, now)
    /\ Ours(h) /\ escrows[h].state = "Claimed" =>
          \E id \in Answered(h) :
              \/ htlcs[id] = "CLAIMED"
              \/ /\ mem.in_flight[h] # NoEntry /\ mem.in_flight[h].swap_id = id
                 /\ InTime(h, now)

RefundedLate == \A id \in SwapIds : htlcs[id] = "REFUNDED" => now >= id.timelock

PromptInv == RefundedLate /\ \A h \in Hashlocks : PollsOK(h) /\ Timely(h)

-----------------------------------------------------------------------------
(***************************************************************************)
(* saturating_to never exceeds its argument, and is exact below the limit. *)
(***************************************************************************)
LEMMA SaturatingTo ==
    ASSUME NEW x \in Nat
    PROVE  /\ saturating_to(x) \in Nat
           /\ saturating_to(x) <= x
           /\ x <= U64Max => saturating_to(x) = x
  BY PolicyAssumption DEF saturating_to

(***************************************************************************)
(* A lock that classify_candidate accepts stays locked on Ethereum for the *)
(* whole margin after the escrow the maker is about to create may be       *)
(* refunded, it pays a taker the maker serves, and that taker is not the   *)
(* maker itself.  The sums are exact, not saturated: only a configuration  *)
(* whose sum does not fit in a u64 escapes (there the test compares with   *)
(* U64Max, a date no real timelock reaches).                               *)
(***************************************************************************)
THEOREM AcceptedCoversMargin ==
    ASSUME NEW now_secs \in Nat, NEW timelock_secs \in Nat, NEW margin \in Nat,
           NEW eth_timelock \in Nat,
           NEW taker, NEW maker, NEW zero, NEW served, NEW skip \in BOOLEAN,
           now_secs + timelock_secs + margin <= U64Max,
           classify_candidate(
               [taker_lez_account |-> taker, eth_timelock |-> eth_timelock],
               [maker_lez_account |-> maker, zero |-> zero, served |-> served,
                lez_expiry_secs |-> fresh_lez_expiry_secs(now_secs, timelock_secs),
                margin |-> margin],
               skip) = "Accept"
    PROVE  /\ eth_timelock >= now_secs + timelock_secs + margin
           /\ taker \in served
           /\ taker # maker
<1> DEFINE expiry == fresh_lez_expiry_secs(now_secs, timelock_secs)
<1>1. expiry = now_secs + timelock_secs
  BY PolicyAssumption DEF fresh_lez_expiry_secs, saturating_add, saturating_to
<1>2. saturating_add(expiry, margin) = now_secs + timelock_secs + margin
  BY <1>1, PolicyAssumption DEF saturating_add, saturating_to
<1>3. /\ eth_timelock_covers_lez(saturating_to(eth_timelock), expiry, margin)
      /\ taker \in served
      /\ taker_lez_account_is_usable(taker, maker, zero)
  BY DEF classify_candidate
<1>4. saturating_to(eth_timelock) >= now_secs + timelock_secs + margin
  BY <1>2, <1>3 DEF eth_timelock_covers_lez
<1>5. eth_timelock >= now_secs + timelock_secs + margin
  <2>1. saturating_to(eth_timelock) \in Nat /\ saturating_to(eth_timelock) <= eth_timelock
    BY SaturatingTo
  <2>2. now_secs + timelock_secs + margin \in Nat
    OBVIOUS
  <2> HIDE DEF expiry
  <2> QED BY <1>4, <2>1, <2>2
<1>6. taker # maker
  BY <1>3 DEF taker_lez_account_is_usable
<1> QED BY <1>3, <1>5, <1>6

-----------------------------------------------------------------------------
(***************************************************************************)
(* The fields of a request.                                                *)
(***************************************************************************)
LEMMA IdFields ==
    ASSUME NEW id \in SwapIds
    PROVE  /\ id.sender \in Accounts /\ id.recipient \in Accounts \cup {ZeroAddress}
           /\ id.amount \in Nat /\ id.timelock \in Nat
           /\ id.hashlock \in Hashlocks \cup {ZeroBytes32}
           /\ id.takerLezAccount \in LezAccounts \cup {ZeroBytes32}
<1>1. id \in [sender : Accounts, recipient : Accounts \cup {ZeroAddress},
              amount : Nat, hashlock : Hashlocks \cup {ZeroBytes32},
              timelock : Nat, takerLezAccount : LezAccounts \cup {ZeroBytes32}]
  BY ChainsAssumption
<1> QED
  BY <1>1

(***************************************************************************)
(* What the maker sends, field by field.                                   *)
(***************************************************************************)
LEMMA OwnTxs ==
    ASSUME NEW h \in Hashlocks
    PROVE  /\ FundTx(h) \in Txs /\ FundTx(h).op = "Transfer" /\ FundTx(h).hashlock = h
           /\ FundTx(h).signer = MakerLez /\ FundTx(h).amount = lez_amount
           /\ RefundTx(h) \in Txs /\ RefundTx(h).op = "Refund" /\ RefundTx(h).hashlock = h
           /\ RefundTx(h).signer = MakerLez
           /\ \A k, a, n : LockTx(k, a, n).op = "Lock"
<1>1. FundTx(h) \in Txs /\ RefundTx(h) \in Txs
  BY DEF Txs
<1> QED
  BY <1>1 DEF FundTx, RefundTx, LockTx

(***************************************************************************)
(* Multiples of 1000: the LEZ timelocks the maker makes of seconds.        *)
(***************************************************************************)
LEMMA Milliseconds ==
    ASSUME NEW n \in Nat
    PROVE  /\ (1000 * n) \div 1000 = n
           /\ n \div 1000 \in Nat
           /\ 1000 * (n \div 1000) <= n
  OBVIOUS

(***************************************************************************)
(* A transaction is of one of five kinds: the maker's lock, refund and     *)
(* payment, a taker's claim, or somebody else's.                           *)
(***************************************************************************)
LEMMA TxKinds ==
    ASSUME NEW tx \in Txs
    PROVE  \/ /\ tx.op = "Lock" /\ tx.signer = MakerLez /\ tx.hashlock \in Hashlocks
              /\ tx.taker_id \in LezAccounts /\ tx.amount = lez_amount
              /\ tx.timelock \in Nat /\ tx.timelock = 1000 * (tx.timelock \div 1000)
           \/ \E h \in Hashlocks : tx = RefundTx(h) \/ tx = FundTx(h)
           \/ /\ tx.op = "Claim" /\ tx.signer \in LezAccounts
              /\ tx.hashlock \in Hashlocks /\ tx.preimage \in Preimages
           \/ tx \in OtherTxs
<1>1. \/ \E id \in Usable, t \in 0..MaxTime :
             tx = LockTx(id.hashlock, id.takerLezAccount, 1000 * (t + lez_timelock_secs))
      \/ \E h \in Hashlocks : tx = RefundTx(h) \/ tx = FundTx(h)
      \/ \E id \in Usable, p \in Preimages : tx = TakerClaimTx(id, p)
      \/ tx \in OtherTxs
  BY DEF Txs, TakerClaims
<1>2. CASE \E id \in Usable, t \in 0..MaxTime :
             tx = LockTx(id.hashlock, id.takerLezAccount, 1000 * (t + lez_timelock_secs))
  <2>1. PICK id \in Usable, t \in 0..MaxTime :
             tx = LockTx(id.hashlock, id.takerLezAccount, 1000 * (t + lez_timelock_secs))
    BY <1>2
  <2>2. t + lez_timelock_secs \in Nat
    BY BotAssumption, ChainsAssumption
  <2>3. /\ tx.op = "Lock" /\ tx.signer = MakerLez /\ tx.hashlock = id.hashlock
        /\ tx.taker_id = id.takerLezAccount /\ tx.amount = lez_amount
        /\ tx.timelock = 1000 * (t + lez_timelock_secs)
    BY <2>1 DEF LockTx
  <2> DEFINE n == t + lez_timelock_secs
  <2>4. tx.timelock = 1000 * n /\ n \in Nat
    BY <2>2, <2>3
  <2>5. tx.timelock \in Nat /\ tx.timelock = 1000 * (tx.timelock \div 1000)
    <3> HIDE DEF n
    <3> QED BY <2>4, Milliseconds
  <2> QED
    BY <2>3, <2>5 DEF Usable
<1>3. CASE \E id \in Usable, p \in Preimages : tx = TakerClaimTx(id, p)
  BY <1>3 DEF TakerClaimTx, Usable
<1> QED
  BY <1>1, <1>2, <1>3

(***************************************************************************)
(* The fields of a LEZ transaction, by its kind; only the maker pays into  *)
(* escrows, and a lock in its name has its terms.                          *)
(***************************************************************************)
LEMMA TxFields ==
    ASSUME NEW tx \in Txs
    PROVE  /\ tx.op = "Lock" => /\ tx.signer \in LezAccounts /\ tx.taker_id \in LezAccounts
                                /\ tx.hashlock \in Hashlocks
                                /\ tx.amount \in Nat /\ tx.timelock \in Nat
                                /\ tx.signer = MakerLez =>
                                      /\ tx.amount = lez_amount
                                      /\ tx.timelock = 1000 * (tx.timelock \div 1000)
           /\ tx.op = "Claim" => /\ tx.signer \in LezAccounts /\ tx.hashlock \in Hashlocks
                                 /\ tx.preimage \in Preimages
           /\ tx.op = "Refund" => tx.signer \in LezAccounts /\ tx.hashlock \in Hashlocks
           /\ tx.op = "Transfer" => tx.hashlock \in Hashlocks /\ tx = FundTx(tx.hashlock)
<1>0. lez_amount \in Nat /\ MakerLez \in LezAccounts
  BY BotAssumption
<1>1. CASE /\ tx.op = "Lock" /\ tx.signer = MakerLez /\ tx.hashlock \in Hashlocks
           /\ tx.taker_id \in LezAccounts /\ tx.amount = lez_amount
           /\ tx.timelock \in Nat /\ tx.timelock = 1000 * (tx.timelock \div 1000)
  BY <1>0, <1>1
<1>2. CASE \E h \in Hashlocks : tx = RefundTx(h) \/ tx = FundTx(h)
  <2>1. PICK h \in Hashlocks : tx = RefundTx(h) \/ tx = FundTx(h)
    BY <1>2
  <2>2. CASE tx = RefundTx(h)
    BY <1>0, <2>2, OwnTxs
  <2>3. CASE tx = FundTx(h)
    BY <1>0, <2>3, OwnTxs
  <2> QED BY <2>1, <2>2, <2>3
<1>3. CASE /\ tx.op = "Claim" /\ tx.signer \in LezAccounts
           /\ tx.hashlock \in Hashlocks /\ tx.preimage \in Preimages
  BY <1>3
<1>4. CASE tx \in OtherTxs
  <2>1. tx \in Lez!LockTx \/ tx \in Lez!ClaimTx \/ tx \in Lez!RefundTx
    BY <1>4, ChainsAssumption
  <2>2. tx.signer # MakerLez
    BY <1>4, ChainsAssumption
  <2>3. CASE tx \in Lez!LockTx
    BY <2>2, <2>3 DEF Lez!LockTx
  <2>4. CASE tx \in Lez!ClaimTx
    BY <2>4 DEF Lez!ClaimTx
  <2>5. CASE tx \in Lez!RefundTx
    BY <2>5 DEF Lez!RefundTx
  <2> QED BY <2>1, <2>3, <2>4, <2>5
<1> QED
  BY <1>1, <1>2, <1>3, <1>4, TxKinds

(***************************************************************************)
(* An account's data is an escrow or nothing.                              *)
(***************************************************************************)
LEMMA EscrowType ==
    ASSUME Lez!TypeOK, NEW h \in Hashlocks
    PROVE  /\ escrows[h] = NoEscrow \/ escrows[h] \in Lez!HTLCEscrow
           /\ escrows[h] # NoEscrow =>
                 /\ escrows[h].amount \in Nat /\ escrows[h].timelock \in Nat
                 /\ escrows[h].state \in {"Locked", "Claimed", "Refunded"}
           /\ pdas[h] \in Nat /\ pending[FundTx(h)] \in Nat
<1>1. escrows[h] = NoEscrow \/ escrows[h] \in Lez!HTLCEscrow
  BY DEF Lez!TypeOK
<1>2. pdas[h] \in Nat /\ pending[FundTx(h)] \in Nat
  BY OwnTxs DEF Lez!TypeOK
<1> QED
  BY <1>1, <1>2 DEF Lez!HTLCEscrow

-----------------------------------------------------------------------------
(***************************************************************************)
(* What a step of LEZ may make of one escrow account: nothing; its payment *)
(* is lost, or made; an escrow is created in it; the escrow ends.          *)
(***************************************************************************)
SameTerms(old, new) ==
    /\ new.maker_id = old.maker_id /\ new.taker_id = old.taker_id
    /\ new.amount = old.amount /\ new.timelock = old.timelock

Left(h) ==
    /\ escrows'[h] = escrows[h] /\ pdas'[h] = pdas[h]
    /\ pending'[FundTx(h)] = pending[FundTx(h)]

PaymentLost(h) ==
    /\ escrows'[h] = escrows[h] /\ pdas'[h] = pdas[h]
    /\ pending[FundTx(h)] > 0 /\ pending'[FundTx(h)] = pending[FundTx(h)] - 1

PaymentMade(h) ==
    /\ escrows'[h] = escrows[h] /\ pdas'[h] = pdas[h] + lez_amount
    /\ pending[FundTx(h)] > 0 /\ pending'[FundTx(h)] = pending[FundTx(h)] - 1

Created(h) ==
    /\ escrows[h] = NoEscrow /\ escrows'[h] # NoEscrow
    /\ escrows'[h].state = "Locked"
    /\ escrows'[h].maker_id = MakerLez =>
          /\ escrows'[h].amount = lez_amount
          /\ escrows'[h].timelock = 1000 * (escrows'[h].timelock \div 1000)
    /\ pdas'[h] = pdas[h] /\ pending'[FundTx(h)] = pending[FundTx(h)]

Ended(h) ==
    /\ escrows[h] # NoEscrow /\ escrows'[h] # NoEscrow
    /\ SameTerms(escrows[h], escrows'[h])
    /\ escrows[h].state = "Locked" /\ escrows'[h].state \in {"Claimed", "Refunded"}
    /\ pdas[h] >= escrows[h].amount /\ pdas'[h] = pdas[h] - escrows[h].amount
    /\ pending'[FundTx(h)] = pending[FundTx(h)]

AccountStep(h) ==
    Left(h) \/ PaymentLost(h) \/ PaymentMade(h) \/ Created(h) \/ Ended(h)

(***************************************************************************)
(* The queue: a transaction put in or taken off leaves counts, and only    *)
(* the count of that transaction changes.                                  *)
(***************************************************************************)
LEMMA Queue ==
    ASSUME Lez!TypeOK, NEW tx \in Txs,
           \/ pending[tx] > 0 /\ Lez!Taken(tx)
           \/ Lez!Submit(tx)
    PROVE  /\ pending' \in [Txs -> Nat]
           /\ \A x \in Txs : x # tx => pending'[x] = pending[x]
           /\ pending[tx] > 0 /\ Lez!Taken(tx) => pending'[tx] = pending[tx] - 1
           /\ Lez!Submit(tx) => pending'[tx] = pending[tx] + 1
<1>1. pending \in [Txs -> Nat]
  BY DEF Lez!TypeOK
<1> QED
  BY <1>1 DEF Lez!Taken, Lez!Submit

(***************************************************************************)
(* Accounts whose payment is not the transaction at hand keep it.          *)
(***************************************************************************)
LEMMA OtherPayments ==
    ASSUME Lez!TypeOK, NEW tx \in Txs,
           (pending[tx] > 0 /\ Lez!Taken(tx)) \/ Lez!Submit(tx),
           NEW h \in Hashlocks, tx.op # "Transfer" \/ tx.hashlock # h
    PROVE  pending'[FundTx(h)] = pending[FundTx(h)]
<1>1. FundTx(h) \in Txs /\ FundTx(h) # tx
  BY OwnTxs
<1> QED
  BY <1>1, Queue

(***************************************************************************)
(* Writing the data and balance of one account leaves the others.          *)
(***************************************************************************)
LEMMA AccountWritten ==
    ASSUME Lez!TypeOK, NEW h \in Hashlocks, NEW e \in Lez!HTLCEscrow, NEW d \in Nat,
           escrows' = [escrows EXCEPT ![h] = e],
           pdas' = [pdas EXCEPT ![h] = d]
    PROVE  /\ escrows' \in [Hashlocks -> Lez!HTLCEscrow \cup {NoEscrow}]
           /\ pdas' \in [Hashlocks -> Nat]
           /\ escrows'[h] = e /\ e # NoEscrow /\ pdas'[h] = d
           /\ \A k \in Hashlocks : k # h => escrows'[k] = escrows[k] /\ pdas'[k] = pdas[k]
<1>1. /\ escrows \in [Hashlocks -> Lez!HTLCEscrow \cup {NoEscrow}]
      /\ pdas \in [Hashlocks -> Nat]
  BY DEF Lez!TypeOK
<1>2. e # NoEscrow
  BY ChainsAssumption
<1> QED
  BY <1>1, <1>2

(***************************************************************************)
(* Whatever the sequencer executes or drops, the types are kept, and every *)
(* account takes one of its steps.                                         *)
(***************************************************************************)
LEMMA LezStep ==
    ASSUME Lez!TypeOK, NEW tx \in Txs, now' = now, Executes(tx) \/ Lez!Drop(tx)
    PROVE  Lez!TypeOK' /\ \A h \in Hashlocks : AccountStep(h)
<1>0. /\ escrows \in [Hashlocks -> Lez!HTLCEscrow \cup {NoEscrow}]
      /\ pdas \in [Hashlocks -> Nat] /\ wallets \in [LezAccounts -> Nat]
      /\ now \in Nat
  BY DEF Lez!TypeOK
<1>1. pending[tx] > 0 /\ Lez!Taken(tx)
  BY DEF Executes, Lez!Drop, Lez!execute_lock, Lez!execute_claim, Lez!execute_refund,
         Lez!transfer
<1>2. /\ pending' \in [Txs -> Nat]
      /\ pending'[tx] = pending[tx] - 1
  BY <1>1, Queue
<1>3. ASSUME NEW k \in Hashlocks, escrows'[k] = escrows[k], pdas'[k] = pdas[k],
             tx.op # "Transfer" \/ tx.hashlock # k
      PROVE  AccountStep(k)
  <2>1. pending'[FundTx(k)] = pending[FundTx(k)]
    BY <1>1, <1>3, OtherPayments
  <2> QED BY <1>3, <2>1 DEF AccountStep, Left
<1>4. CASE Lez!Drop(tx)
  <2>1. UNCHANGED <<escrows, pdas, wallets>>
    BY <1>4 DEF Lez!Drop
  <2>2. ASSUME NEW k \in Hashlocks, tx.op = "Transfer", tx.hashlock = k
        PROVE  AccountStep(k)
    <3>1. tx = FundTx(k)
      BY <2>2, TxFields
    <3> QED
      BY <1>1, <1>2, <2>1, <3>1 DEF AccountStep, PaymentLost
  <2>3. \A k \in Hashlocks : AccountStep(k)
    BY <1>3, <2>1, <2>2
  <2> QED
    BY <1>0, <1>2, <2>1, <2>3 DEF Lez!TypeOK
<1>5. CASE Lez!execute_lock(tx)
  <2> DEFINE h == tx.hashlock
             e == [maker_id |-> tx.signer, taker_id |-> tx.taker_id, amount |-> tx.amount,
                   state |-> "Locked", timelock |-> tx.timelock, preimage |-> NoPreimage]
  <2>1. /\ tx.op = "Lock" /\ escrows' = [escrows EXCEPT ![h] = e] /\ escrows[h] = NoEscrow
        /\ UNCHANGED <<pdas, wallets>>
    BY <1>5 DEF Lez!execute_lock, Lez!AcceptsLock
  <2>2. /\ h \in Hashlocks /\ e \in Lez!HTLCEscrow /\ e.state = "Locked"
        /\ e.maker_id = MakerLez =>
              e.amount = lez_amount /\ e.timelock = 1000 * (e.timelock \div 1000)
    BY <2>1, TxFields DEF Lez!HTLCEscrow
  <2>3. e # NoEscrow
    BY <2>2, ChainsAssumption
  <2> HIDE DEF h, e
  <2>4. /\ escrows' \in [Hashlocks -> Lez!HTLCEscrow \cup {NoEscrow}]
        /\ pdas' \in [Hashlocks -> Nat]
        /\ escrows'[h] = e
        /\ \A k \in Hashlocks : k # h => escrows'[k] = escrows[k]
    BY <1>0, <2>1, <2>2
  <2>5. pending'[FundTx(h)] = pending[FundTx(h)]
    BY <1>1, <2>1, <2>2, OtherPayments
  <2>6. AccountStep(h)
    BY <2>1, <2>2, <2>3, <2>4, <2>5 DEF AccountStep, Created
  <2>7. \A k \in Hashlocks : AccountStep(k)
    BY <1>3, <2>1, <2>4, <2>6
  <2> QED
    BY <1>0, <1>2, <2>1, <2>4, <2>7 DEF Lez!TypeOK
<1>6. ASSUME NEW s \in {"Claimed", "Refunded"}, NEW e \in Lez!HTLCEscrow,
             tx.op # "Transfer", tx.hashlock \in Hashlocks, tx.signer \in LezAccounts,
             escrows[tx.hashlock] # NoEscrow, escrows[tx.hashlock].state = "Locked",
             e.state = s, SameTerms(escrows[tx.hashlock], e),
             pdas[tx.hashlock] >= escrows[tx.hashlock].amount,
             escrows' = [escrows EXCEPT ![tx.hashlock] = e],
             pdas' = [pdas EXCEPT ![tx.hashlock] = @ - escrows[tx.hashlock].amount],
             wallets' = [wallets EXCEPT ![tx.signer] = @ + escrows[tx.hashlock].amount]
      PROVE  Lez!TypeOK' /\ \A k \in Hashlocks : AccountStep(k)
  <2> DEFINE h == tx.hashlock
             d == pdas[h] - escrows[h].amount
  <2>1. escrows[h].amount \in Nat /\ pdas[h] \in Nat
    BY <1>6, EscrowType
  <2>2. d \in Nat /\ pdas' = [pdas EXCEPT ![h] = d]
    BY <1>6, <2>1
  <2>3. wallets' \in [LezAccounts -> Nat]
    BY <1>0, <1>6, <2>1
  <2>4. pending'[FundTx(h)] = pending[FundTx(h)]
    BY <1>1, <1>6, OtherPayments
  <2>5. /\ escrows' \in [Hashlocks -> Lez!HTLCEscrow \cup {NoEscrow}]
        /\ pdas' \in [Hashlocks -> Nat]
        /\ escrows'[h] = e /\ e # NoEscrow /\ pdas'[h] = d
        /\ \A k \in Hashlocks : k # h => escrows'[k] = escrows[k] /\ pdas'[k] = pdas[k]
    <3> HIDE DEF d
    <3> QED BY <1>6, <2>2, AccountWritten
  <2>6. AccountStep(h)
    BY <1>6, <2>4, <2>5 DEF AccountStep, Ended
  <2>7. \A k \in Hashlocks : AccountStep(k)
    BY <1>3, <1>6, <2>5, <2>6
  <2> QED
    BY <1>0, <1>2, <2>3, <2>5, <2>7 DEF Lez!TypeOK
<1>7. CASE Lez!execute_claim(tx)
  <2> DEFINE h == tx.hashlock
             e == [escrows[h] EXCEPT !.state = "Claimed", !.preimage = tx.preimage]
  <2>1. /\ tx.op = "Claim" /\ h \in Hashlocks /\ escrows[h] # NoEscrow
        /\ tx.preimage \in Preimages /\ tx.signer \in LezAccounts
        /\ escrows[h].state = "Locked" /\ pdas[h] >= escrows[h].amount
    BY <1>7, TxFields DEF Lez!execute_claim, Lez!AcceptsClaim
  <2>2. escrows[h] \in Lez!HTLCEscrow
    BY <2>1, EscrowType
  <2>3. e \in Lez!HTLCEscrow /\ e.state = "Claimed" /\ SameTerms(escrows[h], e)
    BY <2>1, <2>2 DEF Lez!HTLCEscrow, SameTerms
  <2>4. escrows' = [escrows EXCEPT ![h] = e]
    BY <1>0, <1>7, <2>1, <2>2 DEF Lez!execute_claim, Lez!HTLCEscrow
  <2>5. /\ pdas' = [pdas EXCEPT ![h] = @ - escrows[h].amount]
        /\ wallets' = [wallets EXCEPT ![tx.signer] = @ + escrows[h].amount]
    BY <1>7 DEF Lez!execute_claim
  <2> HIDE DEF e
  <2> QED
    BY <1>6, <2>1, <2>3, <2>4, <2>5
<1>8. CASE Lez!execute_refund(tx)
  <2> DEFINE h == tx.hashlock
             e == [escrows[h] EXCEPT !.state = "Refunded"]
  <2>1. /\ tx.op = "Refund" /\ h \in Hashlocks /\ escrows[h] # NoEscrow
        /\ tx.signer \in LezAccounts
        /\ escrows[h].state = "Locked" /\ pdas[h] >= escrows[h].amount
    BY <1>8, TxFields DEF Lez!execute_refund, Lez!AcceptsRefund
  <2>2. escrows[h] \in Lez!HTLCEscrow
    BY <2>1, EscrowType
  <2>3. e \in Lez!HTLCEscrow /\ e.state = "Refunded" /\ SameTerms(escrows[h], e)
    BY <2>1, <2>2 DEF Lez!HTLCEscrow, SameTerms
  <2>4. escrows' = [escrows EXCEPT ![h] = e]
    BY <1>0, <1>8, <2>1, <2>2 DEF Lez!execute_refund, Lez!HTLCEscrow
  <2>5. /\ pdas' = [pdas EXCEPT ![h] = @ - escrows[h].amount]
        /\ wallets' = [wallets EXCEPT ![tx.signer] = @ + escrows[h].amount]
    BY <1>8 DEF Lez!execute_refund
  <2> HIDE DEF e
  <2> QED
    BY <1>6, <2>1, <2>3, <2>4, <2>5
<1>9. CASE Lez!transfer(tx)
  <2> DEFINE h == tx.hashlock
  <2>1. tx.op = "Transfer" /\ h \in Hashlocks /\ tx = FundTx(h)
    BY <1>9, TxFields DEF Lez!transfer
  <2>2. tx.signer = MakerLez /\ tx.amount = lez_amount
    BY <2>1, OwnTxs
  <2>3. lez_amount \in Nat /\ MakerLez \in LezAccounts
    BY BotAssumption
  <2>4. /\ escrows' = escrows /\ wallets[MakerLez] >= lez_amount
        /\ wallets' = [wallets EXCEPT ![MakerLez] = @ - lez_amount]
        /\ pdas' = [pdas EXCEPT ![h] = @ + lez_amount]
    BY <1>9, <2>2 DEF Lez!transfer
  <2>5. /\ wallets' \in [LezAccounts -> Nat]
        /\ pdas' \in [Hashlocks -> Nat] /\ pdas'[h] = pdas[h] + lez_amount
        /\ \A k \in Hashlocks : k # h => pdas'[k] = pdas[k]
    BY <1>0, <2>1, <2>3, <2>4
  <2>6. AccountStep(h)
    BY <1>1, <1>2, <2>1, <2>4, <2>5 DEF AccountStep, PaymentMade
  <2>7. \A k \in Hashlocks : AccountStep(k)
    BY <1>3, <2>4, <2>5, <2>6
  <2> QED
    BY <1>0, <1>2, <2>4, <2>5, <2>7 DEF Lez!TypeOK
<1> QED
  BY <1>4, <1>5, <1>7, <1>8, <1>9 DEF Executes

-----------------------------------------------------------------------------
(***************************************************************************)
(* What a call of the contract may make of the HTLCs.                      *)
(***************************************************************************)
EthMoves(id) ==
    /\ htlcs[id] # "EMPTY" => htlcs'[id] # "EMPTY"
    /\ htlcs[id] \in {"CLAIMED", "REFUNDED"} => htlcs'[id] = htlcs[id]
    /\ htlcs'[id] # "EMPTY" => htlcs[id] # "EMPTY" \/ id \in Usable
    /\ Delivered(id)' => Delivered(id) \/ htlcs'[id] # "EMPTY"
    /\ htlcs'[id] = "REFUNDED" => htlcs[id] = "REFUNDED" \/ now >= id.timelock

(***************************************************************************)
(* A new event is delivered after the old ones.                            *)
(***************************************************************************)
LEMMA Emitted ==
    ASSUME Eth!TypeOK, NEW k \in {"Locked", "Claimed", "Refunded"}, NEW id \in SwapIds,
           Eth!Emit(k, id)
    PROVE  /\ events' \in Seq(Eth!Event)
           /\ \A x \in SwapIds : Delivered(x)' => Delivered(x) \/ (x = id /\ k = "Locked")
<1> DEFINE e == [kind |-> k, swapId |-> id]
<1>1. e \in Eth!Event
  BY DEF Eth!Event
<1>2. events \in Seq(Eth!Event) /\ events' = Append(events, e)
  BY DEF Eth!TypeOK, Eth!Emit
<1>3. /\ events' \in Seq(Eth!Event) /\ Len(events') = Len(events) + 1
      /\ \A i \in 1..Len(events) : events'[i] = events[i]
      /\ events'[Len(events) + 1] = e
  <2> HIDE DEF e
  <2> QED BY <1>1, <1>2
<1>4. ASSUME NEW x \in SwapIds, Delivered(x)', ~Delivered(x)
      PROVE  x = id /\ k = "Locked"
  <2>1. PICK i \in 1..Len(events') : events'[i] = [kind |-> "Locked", swapId |-> x]
    BY <1>4 DEF Delivered
  <2>2. i \notin 1..Len(events)
    BY <1>3, <1>4, <2>1 DEF Delivered
  <2>3. Len(events) \in Nat
    BY <1>2
  <2>4. i = Len(events) + 1
    BY <1>3, <2>1, <2>2, <2>3
  <2>5. [kind |-> k, swapId |-> id] = [kind |-> "Locked", swapId |-> x]
    BY <1>3, <2>1, <2>4
  <2>6. /\ [kind |-> k, swapId |-> id].kind = [kind |-> "Locked", swapId |-> x].kind
        /\ [kind |-> k, swapId |-> id].swapId = [kind |-> "Locked", swapId |-> x].swapId
    BY <2>5
  <2> QED
    BY <2>6
<1> QED
  BY <1>3, <1>4

(***************************************************************************)
(* Paying out keeps the balances; no payee has code here.                  *)
(***************************************************************************)
LEMMA PaidOut ==
    ASSUME Eth!TypeOK, NEW a, NEW n \in Nat, Eth!Call(a, n)
    PROVE  held' \in Nat /\ balances' \in [Accounts -> Nat] /\ frames' = frames
<1>1. held \in Nat /\ balances \in [Accounts -> Nat]
  BY DEF Eth!TypeOK
<1>2. held' \in Nat /\ frames' = frames
  BY <1>1 DEF Eth!Call
<1>3. balances' = [balances EXCEPT ![a] = balances[a] + n]
  BY DEF Eth!Call
<1>4. CASE a \in Accounts
  BY <1>1, <1>2, <1>3, <1>4
<1>5. CASE a \notin Accounts
  BY <1>1, <1>2, <1>3, <1>5
<1> QED
  BY <1>4, <1>5

(***************************************************************************)
(* A call of the contract keeps its types and moves one HTLC forward; a    *)
(* claim settles it.                                                       *)
(***************************************************************************)
LEMMA EthCall ==
    ASSUME Eth!TypeOK, NEW id \in SwapIds, NEW p,
           Eth!lock(id) \/ Eth!refund(id) \/ Eth!claim(id, p)
    PROVE  /\ Eth!TypeOK'
           /\ now' = now
           /\ \A x \in SwapIds : EthMoves(x)
           /\ Eth!claim(id, p) => htlcs'[id] = "CLAIMED"
           /\ \A x \in SwapIds : x # id => htlcs'[x] = htlcs[x]
<1>0. /\ htlcs \in [SwapIds -> Eth!SwapState] /\ now \in Nat /\ frames \in Seq(Eth!Frame)
      /\ id.amount \in Nat /\ id.sender \in Accounts
  BY IdFields DEF Eth!TypeOK
<1>1. CASE Eth!lock(id)
  <2>1. /\ events' \in Seq(Eth!Event)
        /\ \A x \in SwapIds : Delivered(x)' => Delivered(x) \/ x = id
    BY <1>1, Emitted DEF Eth!lock
  <2>2. /\ htlcs' \in [SwapIds -> Eth!SwapState]
        /\ htlcs[id] = "EMPTY" /\ htlcs'[id] = "OPEN"
        /\ \A x \in SwapIds : x # id => htlcs'[x] = htlcs[x]
    BY <1>0, <1>1 DEF Eth!lock, Eth!SwapState
  <2>3. held' \in Nat /\ balances' \in [Accounts -> Nat]
    <3>1. held \in Nat /\ balances \in [Accounts -> Nat]
      BY DEF Eth!TypeOK
    <3>2. /\ held' = held + id.amount /\ balances[id.sender] >= id.amount
          /\ balances' = [balances EXCEPT ![id.sender] = balances[id.sender] - id.amount]
      BY <1>1 DEF Eth!lock
    <3> QED BY <1>0, <3>1, <3>2
  <2>4. id \in Usable
    BY <1>1, IdFields DEF Eth!lock, Usable
  <2>5. now' = now /\ frames' = frames
    BY <1>1 DEF Eth!lock
  <2>6. \A x \in SwapIds : EthMoves(x)
    BY <2>1, <2>2, <2>4 DEF EthMoves
  <2>7. ~Eth!claim(id, p)
    BY <2>2 DEF Eth!claim
  <2> QED
    BY <1>0, <2>1, <2>2, <2>3, <2>5, <2>6, <2>7 DEF Eth!TypeOK
<1>2. CASE Eth!refund(id)
  <2>1. /\ events' \in Seq(Eth!Event)
        /\ \A x \in SwapIds : Delivered(x)' => Delivered(x)
    BY <1>2, Emitted DEF Eth!refund
  <2>2. /\ htlcs' \in [SwapIds -> Eth!SwapState]
        /\ htlcs[id] = "OPEN" /\ htlcs'[id] = "REFUNDED" /\ now >= id.timelock
        /\ \A x \in SwapIds : x # id => htlcs'[x] = htlcs[x]
    BY <1>0, <1>2 DEF Eth!refund, Eth!SwapState
  <2>3. held' \in Nat /\ balances' \in [Accounts -> Nat] /\ frames' = frames
    BY <1>0, <1>2, PaidOut DEF Eth!refund
  <2>4. now' = now
    BY <1>2 DEF Eth!refund
  <2>5. \A x \in SwapIds : EthMoves(x)
    BY <2>1, <2>2 DEF EthMoves
  <2>6. ~Eth!claim(id, p)
    <3>1. Eth!claim(id, p) => htlcs' = [htlcs EXCEPT ![id] = "CLAIMED"]
      BY DEF Eth!claim
    <3> QED BY <1>0, <2>2, <3>1
  <2> QED
    BY <1>0, <2>1, <2>2, <2>3, <2>4, <2>5, <2>6 DEF Eth!TypeOK
<1>3. CASE Eth!claim(id, p)
  <2>1. /\ events' \in Seq(Eth!Event)
        /\ \A x \in SwapIds : Delivered(x)' => Delivered(x)
    BY <1>3, Emitted DEF Eth!claim
  <2>2. /\ htlcs' \in [SwapIds -> Eth!SwapState]
        /\ htlcs[id] = "OPEN" /\ htlcs'[id] = "CLAIMED"
        /\ \A x \in SwapIds : x # id => htlcs'[x] = htlcs[x]
    BY <1>0, <1>3 DEF Eth!claim, Eth!SwapState
  <2>3. held' \in Nat /\ balances' \in [Accounts -> Nat] /\ frames' = frames
    BY <1>0, <1>3, PaidOut DEF Eth!claim
  <2>4. now' = now
    BY <1>3 DEF Eth!claim
  <2>5. \A x \in SwapIds : EthMoves(x)
    BY <2>1, <2>2 DEF EthMoves
  <2> QED
    BY <1>0, <2>1, <2>2, <2>3, <2>4, <2>5 DEF Eth!TypeOK
<1> QED
  BY <1>1, <1>2, <1>3

-----------------------------------------------------------------------------
(***************************************************************************)
(* The journal.  An entry names a request.                                 *)
(***************************************************************************)
LEMMA EntryType ==
    ASSUME NEW s \in BotState, NEW h \in Hashlocks
    PROVE  /\ s.in_flight[h] = NoEntry \/ s.in_flight[h] \in InFlightSwap
           /\ s.in_flight[h] # NoEntry =>
                 /\ s.in_flight[h].swap_id \in SwapIds
                 /\ s.in_flight[h].stage \in {"PreLock", "Funded"}
<1>1. s.in_flight \in [Hashlocks -> InFlightSwap \cup {NoEntry}]
  BY DEF BotState
<1>2. s.in_flight[h] \in InFlightSwap \cup {NoEntry}
  BY <1>1
<1> QED
  BY <1>2 DEF InFlightSwap

(***************************************************************************)
(* A journal with the entry of one hashlock replaced.                      *)
(***************************************************************************)
With(h, e, q) == [in_flight |-> [mem.in_flight EXCEPT ![h] = e], quarantined |-> q]

(***************************************************************************)
(* The journal with one entry replaced is a journal.                       *)
(***************************************************************************)
LEMMA WithType ==
    ASSUME mem \in BotState, NEW h \in Hashlocks, NEW e \in InFlightSwap \cup {NoEntry},
           NEW q \in SUBSET Hashlocks
    PROVE  /\ With(h, e, q) \in BotState
           /\ With(h, e, q).in_flight[h] = e
           /\ \A k \in Hashlocks : k # h => With(h, e, q).in_flight[k] = mem.in_flight[k]
<1>1. mem.in_flight \in [Hashlocks -> InFlightSwap \cup {NoEntry}]
  BY DEF BotState
<1> DEFINE f == [mem.in_flight EXCEPT ![h] = e]
<1>2. /\ f \in [Hashlocks -> InFlightSwap \cup {NoEntry}] /\ f[h] = e
      /\ \A k \in Hashlocks : k # h => f[k] = mem.in_flight[k]
  <2> DEFINE E == InFlightSwap \cup {NoEntry}
  <2>1. mem.in_flight \in [Hashlocks -> E] /\ e \in E
    BY <1>1
  <2> HIDE DEF E
  <2>2. /\ f \in [Hashlocks -> E] /\ f[h] = e
        /\ \A k \in Hashlocks : k # h => f[k] = mem.in_flight[k]
    BY <2>1
  <2> QED BY <2>2 DEF E
<1>3. With(h, e, q) = [in_flight |-> f, quarantined |-> q]
  BY DEF With
<1> HIDE DEF f
<1> QED
  BY <1>2, <1>3 DEF BotState

(***************************************************************************)
(* A write about hashlock h leaves the other entries in memory, and memory *)
(* and disk in agreement.                                                  *)
(***************************************************************************)
JournalStep(h) ==
    /\ mem' \in BotState /\ disk' \in BotState
    /\ \A k \in Hashlocks : k # h => mem'.in_flight[k] = mem.in_flight[k]
    /\ JournalOK'

(***************************************************************************)
(* Memory takes the new entry or stays as it was; so does the disk, and    *)
(* may fail to: that is harmless if the entry is gone, or of the same swap *)
(* as before.                                                              *)
(***************************************************************************)
LEMMA Persisted ==
    ASSUME mem \in BotState, disk \in BotState, JournalOK, htlcs' = htlcs,
           NEW h \in Hashlocks, NEW e \in InFlightSwap \cup {NoEntry},
           NEW q \in SUBSET Hashlocks,
           e # NoEntry => htlcs[e.swap_id] # "EMPTY",
           \/ mem' = With(h, e, q) /\ disk' = With(h, e, q)
           \/ /\ mem' = With(h, e, q) /\ disk' = disk
              /\ e # NoEntry => /\ mem.in_flight[h] # NoEntry
                                /\ e.swap_id = mem.in_flight[h].swap_id
           \/ mem' = mem /\ mem.in_flight[h] = NoEntry /\ disk' \in {disk, With(h, e, q)}
           \/ mem' = mem /\ disk' = disk
    PROVE  JournalStep(h)
<1> DEFINE new == With(h, e, q)
<1>1. /\ new \in BotState /\ new.in_flight[h] = e
      /\ \A k \in Hashlocks : k # h => new.in_flight[k] = mem.in_flight[k]
  BY WithType
<1>2. \A k \in Hashlocks : mem.in_flight[k] # NoEntry =>
          /\ disk.in_flight[k] # NoEntry
          /\ disk.in_flight[k].swap_id = mem.in_flight[k].swap_id
          /\ htlcs[mem.in_flight[k].swap_id] # "EMPTY"
  BY DEF JournalOK
<1>3. \A k \in Hashlocks : new.in_flight[k] # NoEntry => htlcs[new.in_flight[k].swap_id] # "EMPTY"
  BY <1>1, <1>2
<1>4. /\ mem' \in BotState /\ disk' \in BotState
      /\ \A k \in Hashlocks : k # h => mem'.in_flight[k] = mem.in_flight[k]
  BY <1>1
<1>5. ASSUME NEW k \in Hashlocks
      PROVE  /\ mem'.in_flight[k] # NoEntry =>
                   /\ disk'.in_flight[k] # NoEntry
                   /\ disk'.in_flight[k].swap_id = mem'.in_flight[k].swap_id
             /\ disk'.in_flight[k] # NoEntry => htlcs'[disk'.in_flight[k].swap_id] # "EMPTY"
  <2>0. disk.in_flight[k] # NoEntry => htlcs[disk.in_flight[k].swap_id] # "EMPTY"
    BY DEF JournalOK
  <2> HIDE DEF new
  <2>1. CASE mem' = new /\ disk' = new
    BY <1>3, <2>1
  <2>2. CASE /\ mem' = new /\ disk' = disk
             /\ e # NoEntry => /\ mem.in_flight[h] # NoEntry
                               /\ e.swap_id = mem.in_flight[h].swap_id
    <3>1. CASE k = h
      BY <1>1, <1>2, <2>0, <2>2, <3>1
    <3>2. CASE k # h
      BY <1>1, <1>2, <2>0, <2>2, <3>2
    <3> QED BY <3>1, <3>2
  <2>3. CASE mem' = mem /\ mem.in_flight[h] = NoEntry /\ disk' = new
    <3>1. CASE k = h
      BY <1>1, <1>3, <2>3, <3>1
    <3>2. CASE k # h
      BY <1>1, <1>2, <1>3, <2>3, <3>2
    <3> QED BY <3>1, <3>2
  <2>4. CASE mem' = mem /\ disk' = disk
    BY <1>2, <2>0, <2>4
  <2> QED
    BY <2>1, <2>2, <2>3, <2>4 DEF new
<1>6. JournalOK'
  BY <1>5 DEF JournalOK
<1> QED
  BY <1>4, <1>6 DEF JournalStep

(***************************************************************************)
(* Updates of the record are replacements of an entry.                     *)
(***************************************************************************)
LEMMA Replaced ==
    ASSUME mem \in BotState, NEW h \in Hashlocks, NEW e
    PROVE  /\ [mem EXCEPT !.in_flight[h] = e] = With(h, e, mem.quarantined)
           /\ [mem EXCEPT !.in_flight[h] = e, !.quarantined = @ \cup {h}] =
                 With(h, e, mem.quarantined \cup {h})
           /\ mem = With(h, mem.in_flight[h], mem.quarantined)
           /\ mem.quarantined \in SUBSET Hashlocks
<1>1. /\ mem = [in_flight |-> mem.in_flight, quarantined |-> mem.quarantined]
      /\ mem.in_flight \in [Hashlocks -> InFlightSwap \cup {NoEntry}]
      /\ mem.quarantined \in SUBSET Hashlocks
  BY DEF BotState
<1> DEFINE f == mem.in_flight
           q == mem.quarantined
           E == InFlightSwap \cup {NoEntry}
<1>2. mem = [in_flight |-> f, quarantined |-> q] /\ f \in [Hashlocks -> E]
  BY <1>1
<1> HIDE DEF f, q, E
<1>3. /\ [mem EXCEPT !.in_flight[h] = e] =
            [in_flight |-> [f EXCEPT ![h] = e], quarantined |-> q]
      /\ [mem EXCEPT !.in_flight[h] = e, !.quarantined = @ \cup {h}] =
            [in_flight |-> [f EXCEPT ![h] = e], quarantined |-> q \cup {h}]
  <2>1. [mem EXCEPT !.in_flight[h] = e] =
            [in_flight |-> [f EXCEPT ![h] = e], quarantined |-> q]
    BY <1>2
  <2>2. [mem EXCEPT !.in_flight[h] = e, !.quarantined = @ \cup {h}] =
            [[mem EXCEPT !.in_flight[h] = e] EXCEPT !.quarantined = @ \cup {h}]
    BY Zenon
  <2>3. [[mem EXCEPT !.in_flight[h] = e] EXCEPT !.quarantined = @ \cup {h}] =
            [in_flight |-> [f EXCEPT ![h] = e], quarantined |-> q \cup {h}]
    <3> DEFINE r == [mem EXCEPT !.in_flight[h] = e]
               g == [f EXCEPT ![h] = e]
    <3>1. r = [in_flight |-> g, quarantined |-> q]
      BY <2>1
    <3> HIDE DEF r, g
    <3>2. [r EXCEPT !.quarantined = @ \cup {h}] =
              [in_flight |-> g, quarantined |-> q \cup {h}]
      BY <3>1
    <3> QED BY <3>2 DEF r, g
  <2> QED BY <2>1, <2>2, <2>3
<1>4. f = [f EXCEPT ![h] = f[h]]
  BY <1>2
<1> QED
  BY <1>1, <1>2, <1>3, <1>4 DEF With, f, q

(***************************************************************************)
(* record: with the entry in memory or, if the write failed, without it.   *)
(***************************************************************************)
LEMMA Recorded ==
    ASSUME mem \in BotState, disk \in BotState, JournalOK, htlcs' = htlcs,
           NEW h \in Hashlocks, NEW id \in SwapIds, htlcs[id] # "EMPTY",
           mem.in_flight[h] = NoEntry, NEW ok \in BOOLEAN, record(h, id, ok)
    PROVE  /\ JournalStep(h)
           /\ ok => mem'.in_flight[h] # NoEntry /\ mem'.in_flight[h].swap_id = id
           /\ ~ok => mem' = mem
<1> DEFINE e == [swap_id |-> id, stage |-> "PreLock"]
           q == mem.quarantined
<1>1. e \in InFlightSwap /\ e.swap_id = id /\ e # NoEntry
  BY BotAssumption DEF InFlightSwap
<1>2. [mem EXCEPT !.in_flight[h] = e] = With(h, e, q) /\ q \in SUBSET Hashlocks
  BY Replaced
<1>3. /\ mem' = IF ok THEN With(h, e, q) ELSE mem
      /\ disk' \in IF ok THEN {With(h, e, q)} ELSE {disk, With(h, e, q)}
  BY <1>2 DEF record, contains, persist
<1> HIDE DEF e, q
<1>4. JournalStep(h)
  BY <1>1, <1>2, <1>3, Persisted
<1>5. With(h, e, q).in_flight[h] = e
  BY <1>1, <1>2, WithType
<1> QED
  BY <1>1, <1>3, <1>4, <1>5

(***************************************************************************)
(* mark_funded keeps the entry, and which swap it is about.                *)
(***************************************************************************)
LEMMA Marked ==
    ASSUME mem \in BotState, disk \in BotState, JournalOK, htlcs' = htlcs,
           NEW h \in Hashlocks, NEW ok \in BOOLEAN, mark_funded(h, ok)
    PROVE  /\ JournalStep(h)
           /\ mem.in_flight[h] # NoEntry =>
                 /\ mem'.in_flight[h] # NoEntry
                 /\ mem'.in_flight[h].swap_id = mem.in_flight[h].swap_id
<1>0. /\ mem.in_flight[h] = NoEntry \/ mem.in_flight[h] \in InFlightSwap
      /\ NoEntry \notin InFlightSwap
  BY EntryType, BotAssumption
<1> DEFINE e == [mem.in_flight[h] EXCEPT !.stage = "Funded"]
           q == mem.quarantined
<1>1. CASE mem.in_flight[h] = NoEntry
  <2>1. mem' = mem /\ disk' = disk
    BY <1>1 DEF mark_funded, persist_logged, contains
  <2>2. mem.in_flight[h] \in InFlightSwap \cup {NoEntry} /\ q \in SUBSET Hashlocks
    BY <1>0, Replaced
  <2> HIDE DEF q
  <2> QED
    BY <1>1, <2>1, <2>2, Persisted
<1>2. CASE mem.in_flight[h] # NoEntry
  <2>1. e \in InFlightSwap /\ e.swap_id = mem.in_flight[h].swap_id
    BY <1>0, <1>2 DEF InFlightSwap
  <2>2. /\ [mem EXCEPT !.in_flight[h] = e] = With(h, e, q)
        /\ q \in SUBSET Hashlocks
    BY Replaced
  <2>3. [mem EXCEPT !.in_flight[h].stage = "Funded"] = [mem EXCEPT !.in_flight[h] = e]
    OBVIOUS
  <2>4. /\ mem' = With(h, e, q)
        /\ disk' \in {disk, With(h, e, q)}
    BY <1>2, <2>2, <2>3 DEF mark_funded, persist_logged, contains, persist
  <2>5. htlcs[e.swap_id] # "EMPTY"
    BY <1>2, <2>1 DEF JournalOK
  <2> HIDE DEF e, q
  <2>6. JournalStep(h)
    BY <1>2, <2>1, <2>2, <2>4, <2>5, Persisted
  <2>7. With(h, e, q).in_flight[h] = e
    BY <2>1, <2>2, WithType
  <2> QED
    BY <1>0, <2>1, <2>4, <2>6, <2>7
<1> QED
  BY <1>1, <1>2

(***************************************************************************)
(* remove and quarantine take the entry out of memory.                     *)
(***************************************************************************)
LEMMA Removed ==
    ASSUME mem \in BotState, disk \in BotState, JournalOK, htlcs' = htlcs,
           NEW h \in Hashlocks, NEW ok \in BOOLEAN, remove(h, ok) \/ quarantine(h, ok)
    PROVE  JournalStep(h) /\ mem'.in_flight[h] = NoEntry
<1> DEFINE q == mem.quarantined
<1>1. /\ [mem EXCEPT !.in_flight[h] = NoEntry] = With(h, NoEntry, q)
      /\ [mem EXCEPT !.in_flight[h] = NoEntry, !.quarantined = @ \cup {h}] =
            With(h, NoEntry, q \cup {h})
      /\ q \in SUBSET Hashlocks /\ q \cup {h} \in SUBSET Hashlocks
  BY Replaced
<1>2. CASE remove(h, ok)
  <2>1. /\ mem' = With(h, NoEntry, q)
        /\ disk' \in {disk, With(h, NoEntry, q)}
    BY <1>1, <1>2 DEF remove, persist_logged, persist
  <2> HIDE DEF q
  <2> QED
    BY <1>1, <2>1, Persisted, WithType
<1>3. CASE quarantine(h, ok)
  <2> DEFINE r == q \cup {h}
  <2>1. /\ mem' = With(h, NoEntry, r)
        /\ disk' \in {disk, With(h, NoEntry, r)}
    BY <1>1, <1>3 DEF quarantine, persist
  <2>2. r \in SUBSET Hashlocks
    BY <1>1
  <2> HIDE DEF r, q
  <2> QED
    BY <2>1, <2>2, Persisted, WithType
<1> QED
  BY <1>2, <1>3

-----------------------------------------------------------------------------
(***************************************************************************)
(* Steps of the bot.  Most leave the chains alone, but for transactions    *)
(* handed in that pay nothing into an escrow.                              *)
(***************************************************************************)
Quiet ==
    /\ escrows' = escrows /\ pdas' = pdas /\ now' = now
    /\ htlcs' = htlcs /\ events' = events
    /\ \A h \in Hashlocks : pending'[FundTx(h)] = pending[FundTx(h)]
    /\ ethPool \subseteq ethPool'

(***************************************************************************)
(* What is said of a hashlock's escrow is then still so.                   *)
(***************************************************************************)
LEMMA QuietState ==
    ASSUME Quiet, NEW h \in Hashlocks
    PROVE  /\ AtRisk(h)' <=> AtRisk(h)
           /\ Ours(h)' <=> Ours(h)
           /\ StateOf(h)' = StateOf(h)
           /\ Answered(h)' = Answered(h)
           /\ EthSettled(h)' <=> EthSettled(h)
<1>1. /\ escrows' = escrows /\ pdas' = pdas /\ htlcs' = htlcs
      /\ pending'[FundTx(h)] = pending[FundTx(h)]
  BY DEF Quiet
<1>2. AtRisk(h)' <=> AtRisk(h)
  BY <1>1 DEF AtRisk, FundTx
<1>3. (Ours(h)' <=> Ours(h)) /\ StateOf(h)' = StateOf(h)
  BY <1>1 DEF Ours, StateOf
<1>4. Answered(h)' = Answered(h)
  BY <1>1 DEF Answered
<1>5. EthSettled(h)' <=> EthSettled(h)
  BY <1>1, <1>3, <1>4 DEF EthSettled
<1> QED
  BY <1>2, <1>3, <1>4, <1>5

(***************************************************************************)
(* So a task fits if it fits what was there before.                        *)
(***************************************************************************)
LEMMA QuietFits ==
    ASSUME Quiet, NEW h \in Hashlocks,
           task'[h] # Idle => Fits(h, task'[h], mem'.in_flight[h])
    PROVE  TaskOK(h)'
<1> SUFFICES ASSUME task'[h] # Idle
             PROVE  Fits(h, task[h], mem.in_flight[h])'
  BY DEF TaskOK
<1>1. /\ Placed(task'[h]) /\ Journaled(task'[h], mem'.in_flight[h])
      /\ Answers(h, task'[h]) /\ Settling(h, task'[h]) /\ Judging(h, task'[h])
  BY DEF Fits
<1>2. /\ escrows' = escrows /\ now' = now /\ htlcs' = htlcs /\ ethPool \subseteq ethPool'
  BY DEF Quiet
<1>3. Placed(task[h])' /\ Journaled(task[h], mem.in_flight[h])'
  BY <1>1 DEF Placed, Journaled
<1>4. Answers(h, task[h])'
  BY <1>1, <1>2, QuietState DEF Answers, ToAnswer, Confirmed
<1>5. Settling(h, task[h])'
  <2>1. Settled(h)' <=> Settled(h)
    BY QuietState DEF Settled
  <2> QED
    BY <1>1, <1>2, <2>1, QuietState DEF Settling
<1>6. Judging(h, task[h])'
  BY <1>1, <1>2, QuietState DEF Judging, Wedged
<1> QED
  BY <1>3, <1>4, <1>5, <1>6 DEF Fits

(***************************************************************************)
(* A quiet step about one hashlock keeps the invariant if its task fits    *)
(* and its entry stays as long as it is needed.                            *)
(***************************************************************************)
LEMMA QuietStep ==
    ASSUME Inv, Quiet, ChainTypes', BotTypes', Control',
           NEW h \in Hashlocks, JournalStep(h),
           \A k \in Hashlocks : k # h => task'[k] = task[k],
           TaskOK(h)',
           AtRisk(h) => /\ mem'.in_flight[h] # NoEntry
                        /\ mem'.in_flight[h].swap_id = mem.in_flight[h].swap_id,
           \/ /\ mem.in_flight[h] # NoEntry => /\ mem'.in_flight[h] # NoEntry
                                               /\ mem'.in_flight[h].swap_id =
                                                     mem.in_flight[h].swap_id
           \/ Ours(h) /\ escrows[h].state = "Claimed" => EthSettled(h)
    PROVE  Inv'
<1>1. /\ escrows' = escrows /\ pdas' = pdas /\ now' = now /\ htlcs' = htlcs
      /\ events' = events
      /\ \A k \in Hashlocks : pending'[FundTx(k)] = pending[FundTx(k)]
  BY DEF Quiet
<1>2. EthOK'
  <2>1. \A id \in SwapIds : Delivered(id)' <=> Delivered(id)
    BY <1>1 DEF Delivered
  <2> QED
    BY <1>1, <2>1 DEF Inv, EthOK
<1>3. OwnTerms'
  <2>1. OwnTerms
    BY DEF Inv
  <2> QED
    BY <1>1, <2>1, QuietState DEF OwnTerms
<1>4. ASSUME NEW k \in Hashlocks PROVE TaskOK(k)'
  <2>1. CASE k = h
    BY <2>1
  <2>2. CASE k # h
    <3>1. task'[k] = task[k] /\ mem'.in_flight[k] = mem.in_flight[k]
      BY <2>2 DEF JournalStep
    <3>2. task[k] # Idle => Fits(k, task[k], mem.in_flight[k])
      BY DEF Inv, TaskOK
    <3> QED
      BY <3>1, <3>2, QuietFits
  <2> QED BY <2>1, <2>2
<1>5. ASSUME NEW k \in Hashlocks PROVE RiskOK(k)'
  <2>1. RiskOK(k)
    BY DEF Inv
  <2>2. AtRisk(k) => /\ mem'.in_flight[k] # NoEntry
                     /\ mem'.in_flight[k].swap_id = mem.in_flight[k].swap_id
    <3>1. CASE k = h
      BY <3>1
    <3>2. CASE k # h
      BY <2>1, <3>2 DEF JournalStep, RiskOK
    <3> QED BY <3>1, <3>2
  <2>3. (FundTx(k))' = FundTx(k)
    BY DEF FundTx
  <2> QED
    BY <1>1, <2>1, <2>2, <2>3, QuietState DEF RiskOK
<1>6. ASSUME NEW k \in Hashlocks PROVE ClaimedKept(k)'
  <2>1. ClaimedKept(k)
    BY DEF Inv
  <2>2. CASE k = h
    <3>1. CASE /\ mem.in_flight[h] # NoEntry => /\ mem'.in_flight[h] # NoEntry
                                               /\ mem'.in_flight[h].swap_id =
                                                     mem.in_flight[h].swap_id
      BY <1>1, <2>1, <2>2, <3>1, QuietState DEF ClaimedKept
    <3>2. CASE Ours(h) /\ escrows[h].state = "Claimed" => EthSettled(h)
      BY <1>1, <2>2, <3>2, QuietState DEF ClaimedKept, EthSettled
    <3> QED BY <3>1, <3>2
  <2>3. CASE k # h
    <3>1. mem'.in_flight[k] = mem.in_flight[k]
      BY <2>3 DEF JournalStep
    <3> QED
      BY <1>1, <2>1, <3>1, QuietState DEF ClaimedKept
  <2> QED BY <2>2, <2>3
<1>7. OneAtRisk'
  BY QuietState DEF Inv, OneAtRisk
<1>8. JournalOK'
  BY DEF JournalStep
<1> QED
  BY <1>2, <1>3, <1>4, <1>5, <1>6, <1>7, <1>8 DEF Inv

(***************************************************************************)
(* A task that goes on leaves control where it is.                         *)
(***************************************************************************)
LEMMA ControlGoes ==
    ASSUME Control, pc' = pc, queue' = queue, NEW h \in Hashlocks, task[h] # Idle,
           task'[h] # Idle, task'[h].ctx = "maker" <=> task[h].ctx = "maker",
           \A k \in Hashlocks : k # h => /\ task'[k] = task[k]
                                         /\ mem'.in_flight[k] = mem.in_flight[k],
           queue \subseteq Hashlocks
    PROVE  Control'
<1>1. h \notin queue /\ pc \notin {"down", "loop"}
  BY DEF Control
<1>2. \A k \in Hashlocks : task'[k] # Idle <=> task[k] # Idle
  OBVIOUS
<1>3. \A k \in Hashlocks : task[k] # Idle => (task'[k].ctx = "maker" <=> pc' = "watch")
  BY DEF Control
<1>4. pc = "watch" => \A k \in Hashlocks : mem'.in_flight[k] # NoEntry => task'[k] # Idle
  BY DEF Control
<1>5. \A k \in queue' : mem'.in_flight[k] # NoEntry /\ task'[k] = Idle
  BY <1>1 DEF Control
<1> QED
  BY <1>1, <1>2, <1>3, <1>4, <1>5 DEF Control

(***************************************************************************)
(* When run_maker ends, the loop goes on with an empty journal or stops;   *)
(* when another task ends, nothing else changes.                           *)
(***************************************************************************)
LEMMA ControlEnds ==
    ASSUME Control, NEW h \in Hashlocks, task[h] # Idle, EndTask(h),
           task \in [Hashlocks -> Task \cup {Idle}],
           \A k \in Hashlocks : k # h => mem'.in_flight[k] = mem.in_flight[k],
           queue \subseteq Hashlocks, pc \in {"down", "reconcile", "loop", "watch"}
    PROVE  /\ Control'
           /\ task'[h] = Idle
           /\ \A k \in Hashlocks : k # h => task'[k] = task[k]
           /\ pc' \in {pc, "down", "loop"} /\ queue' = queue /\ rejected' = rejected
<1>1. /\ task'[h] = Idle /\ \A k \in Hashlocks : k # h => task'[k] = task[k]
      /\ queue' = queue /\ rejected' = rejected
  BY DEF EndTask
<1>2. h \notin queue /\ pc \notin {"down", "loop"}
  BY DEF Control
<1>3. CASE task[h].ctx = "maker"
  <2>1. pc = "watch" /\ queue = {}
    BY <1>3 DEF Control
  <2>2. \A k \in Hashlocks : task'[k] = Idle
    BY <1>1, <2>1 DEF Control
  <2>3. \/ pc' = "down"
        \/ pc' = "loop" /\ \A k \in Hashlocks : mem'.in_flight[k] = NoEntry
    BY <1>3 DEF EndTask, In
  <2> QED
    BY <1>1, <2>1, <2>2, <2>3 DEF Control
<1>4. CASE task[h].ctx # "maker"
  <2>1. pc' = pc /\ pc = "reconcile"
    <3>1. pc' = pc
      BY <1>4 DEF EndTask, In
    <3>2. pc # "watch"
      BY <1>4 DEF Control
    <3> QED
      BY <1>2, <3>1, <3>2
  <2> QED
    BY <1>1, <1>2, <2>1 DEF Control
<1> QED
  BY <1>1, <1>3, <1>4

-----------------------------------------------------------------------------
(***************************************************************************)
(* The task of one hashlock is written: it is still about the same swap,   *)
(* and done by the same part of the program.                               *)
(***************************************************************************)
Moved(h, step) ==
    /\ task' \in [Hashlocks -> Task \cup {Idle}] /\ task'[h] \in Task
    /\ \A k \in Hashlocks : k # h => task'[k] = task[k]
    /\ task'[h].step = step
    /\ task'[h].ctx = task[h].ctx /\ task'[h].swap_id = task[h].swap_id
    /\ task'[h].expiry = task[h].expiry

(***************************************************************************)
(* Writing the task of one hashlock leaves the others.                     *)
(***************************************************************************)
LEMMA Written ==
    ASSUME task \in [Hashlocks -> Task \cup {Idle}], NEW h \in Hashlocks, NEW u \in Task,
           task' = [task EXCEPT ![h] = u]
    PROVE  /\ task' \in [Hashlocks -> Task \cup {Idle}] /\ task'[h] = u
           /\ \A k \in Hashlocks : k # h => task'[k] = task[k]
<1> DEFINE T == Task \cup {Idle}
<1>1. task \in [Hashlocks -> T] /\ u \in T
  OBVIOUS
<1> HIDE DEF T
<1>2. /\ task' \in [Hashlocks -> T] /\ task'[h] = u
      /\ \A k \in Hashlocks : k # h => task'[k] = task[k]
  BY <1>1
<1> QED
  BY <1>2 DEF T

(***************************************************************************)
(* The next step.                                                          *)
(***************************************************************************)
LEMMA GoesTo ==
    ASSUME task \in [Hashlocks -> Task \cup {Idle}], NEW h \in Hashlocks, task[h] # Idle,
           NEW s \in Steps,
           task' = [task EXCEPT ![h].step = s]
    PROVE  /\ Moved(h, s)
           /\ task'[h].deadline = task[h].deadline /\ task'[h].submitted = task[h].submitted
           /\ task'[h].pre = task[h].pre /\ task'[h].balance = task[h].balance
           /\ task'[h].outcome = task[h].outcome
<1> DEFINE t == task[h]
           u == [t EXCEPT !.step = s]
<1>1. t \in Task
  OBVIOUS
<1>2. /\ u \in Task
      /\ u.ctx = t.ctx /\ u.step = s /\ u.swap_id = t.swap_id
      /\ u.expiry = t.expiry /\ u.deadline = t.deadline /\ u.submitted = t.submitted
      /\ u.pre = t.pre /\ u.balance = t.balance /\ u.outcome = t.outcome
  <2> HIDE DEF t
  <2> QED BY <1>1 DEF Task
<1>3. task' = [task EXCEPT ![h] = u]
  <2> DEFINE T == Task \cup {Idle}
  <2>1. task \in [Hashlocks -> T]
    OBVIOUS
  <2> HIDE DEF T
  <2> QED BY <2>1
<1> HIDE DEF u
<1>4. /\ task' \in [Hashlocks -> Task \cup {Idle}] /\ task'[h] = u
      /\ \A k \in Hashlocks : k # h => task'[k] = task[k]
  BY <1>2, <1>3, Written
<1> QED
  BY <1>2, <1>4 DEF Moved

(***************************************************************************)
(* A step with a deadline.                                                 *)
(***************************************************************************)
WritePoll(h, s, d) == task' = [task EXCEPT ![h].step = s, ![h].deadline = d]

(***************************************************************************)
(* A task moves to a step with a new deadline.                             *)
(***************************************************************************)
LEMMA PollsTo ==
    ASSUME task \in [Hashlocks -> Task \cup {Idle}], NEW h \in Hashlocks, task[h] # Idle,
           NEW s \in Steps, NEW d \in Nat,
           WritePoll(h, s, d)
    PROVE  /\ Moved(h, s)
           /\ task'[h].deadline = d
           /\ task'[h].submitted = task[h].submitted /\ task'[h].pre = task[h].pre
           /\ task'[h].balance = task[h].balance /\ task'[h].outcome = task[h].outcome
<1> DEFINE t == task[h]
           u == [t EXCEPT !.step = s, !.deadline = d]
<1>1. t \in Task
  OBVIOUS
<1>2. /\ u \in Task
      /\ u.ctx = t.ctx /\ u.step = s /\ u.swap_id = t.swap_id
      /\ u.expiry = t.expiry /\ u.deadline = d /\ u.submitted = t.submitted
      /\ u.pre = t.pre /\ u.balance = t.balance /\ u.outcome = t.outcome
  <2> HIDE DEF t
  <2> QED BY <1>1 DEF Task
<1>3. task' = [task EXCEPT ![h] = u]
  <2> DEFINE T == Task \cup {Idle}
  <2>1. task \in [Hashlocks -> T]
    OBVIOUS
  <2> HIDE DEF T
  <2> QED BY <2>1 DEF WritePoll
<1> HIDE DEF u
<1>4. /\ task' \in [Hashlocks -> Task \cup {Idle}] /\ task'[h] = u
      /\ \A k \in Hashlocks : k # h => task'[k] = task[k]
  BY <1>2, <1>3, Written
<1> QED
  BY <1>2, <1>4 DEF Moved

(***************************************************************************)
(* A transaction was sent.                                                 *)
(***************************************************************************)
LEMMA Submits ==
    ASSUME task \in [Hashlocks -> Task \cup {Idle}], NEW h \in Hashlocks, task[h] # Idle,
           NEW b \in BOOLEAN,
           task' = [task EXCEPT ![h].submitted = b]
    PROVE  /\ Moved(h, task[h].step)
           /\ task'[h].submitted = b
           /\ task'[h].deadline = task[h].deadline /\ task'[h].pre = task[h].pre
           /\ task'[h].balance = task[h].balance /\ task'[h].outcome = task[h].outcome
<1> DEFINE t == task[h]
           u == [t EXCEPT !.submitted = b]
<1>1. t \in Task
  OBVIOUS
<1>2. /\ u \in Task
      /\ u.ctx = t.ctx /\ u.step = t.step /\ u.swap_id = t.swap_id
      /\ u.expiry = t.expiry /\ u.deadline = t.deadline /\ u.submitted = b
      /\ u.pre = t.pre /\ u.balance = t.balance /\ u.outcome = t.outcome
  <2> HIDE DEF t
  <2> QED BY <1>1 DEF Task
<1>3. task' = [task EXCEPT ![h] = u]
  <2> DEFINE T == Task \cup {Idle}
  <2>1. task \in [Hashlocks -> T]
    OBVIOUS
  <2> HIDE DEF T
  <2> QED BY <2>1
<1> HIDE DEF u
<1>4. /\ task' \in [Hashlocks -> Task \cup {Idle}] /\ task'[h] = u
      /\ \A k \in Hashlocks : k # h => task'[k] = task[k]
  BY <1>2, <1>3, Written
<1> QED
  BY <1>2, <1>4 DEF Moved

(***************************************************************************)
(* A step that sends and polls.                                            *)
(***************************************************************************)
WriteWait(h, s, b, d) == task' = [task EXCEPT ![h].step = s, ![h].submitted = b, ![h].deadline = d]

(***************************************************************************)
(* A task moves to a step that waits for a refund it has, or has not,      *)
(* sent.                                                                   *)
(***************************************************************************)
LEMMA WaitsTo ==
    ASSUME task \in [Hashlocks -> Task \cup {Idle}], NEW h \in Hashlocks, task[h] # Idle,
           NEW s \in Steps, NEW b \in BOOLEAN, NEW d \in Nat,
           WriteWait(h, s, b, d)
    PROVE  /\ Moved(h, s)
           /\ task'[h].submitted = b /\ task'[h].deadline = d
           /\ task'[h].pre = task[h].pre /\ task'[h].balance = task[h].balance
           /\ task'[h].outcome = task[h].outcome
<1> DEFINE t == task[h]
           u == [t EXCEPT !.step = s, !.submitted = b, !.deadline = d]
<1>1. t \in Task
  OBVIOUS
<1>2. /\ u \in Task
      /\ u.ctx = t.ctx /\ u.step = s /\ u.swap_id = t.swap_id
      /\ u.expiry = t.expiry /\ u.deadline = d /\ u.submitted = b
      /\ u.pre = t.pre /\ u.balance = t.balance /\ u.outcome = t.outcome
  <2> HIDE DEF t
  <2> QED BY <1>1 DEF Task
<1>3. task' = [task EXCEPT ![h] = u]
  <2> DEFINE T == Task \cup {Idle}
  <2>1. task \in [Hashlocks -> T]
    OBVIOUS
  <2> HIDE DEF T
  <2> QED BY <2>1 DEF WriteWait
<1> HIDE DEF u
<1>4. /\ task' \in [Hashlocks -> Task \cup {Idle}] /\ task'[h] = u
      /\ \A k \in Hashlocks : k # h => task'[k] = task[k]
  BY <1>2, <1>3, Written
<1> QED
  BY <1>2, <1>4 DEF Moved

(***************************************************************************)
(* A step with an outcome.                                                 *)
(***************************************************************************)
WriteEnd(h, o, s) == task' = [task EXCEPT ![h].outcome = o, ![h].step = s]

(***************************************************************************)
(* A task moves to its end with an outcome.                                *)
(***************************************************************************)
LEMMA EndsWith ==
    ASSUME task \in [Hashlocks -> Task \cup {Idle}], NEW h \in Hashlocks, task[h] # Idle,
           NEW o \in {"none", "Completed", "Refunded", "Failed"}, NEW s \in Steps,
           WriteEnd(h, o, s)
    PROVE  /\ Moved(h, s)
           /\ task'[h].outcome = o
           /\ task'[h].deadline = task[h].deadline /\ task'[h].submitted = task[h].submitted
           /\ task'[h].pre = task[h].pre /\ task'[h].balance = task[h].balance
<1> DEFINE t == task[h]
           u == [t EXCEPT !.outcome = o, !.step = s]
<1>1. t \in Task
  OBVIOUS
<1>2. /\ u \in Task
      /\ u.ctx = t.ctx /\ u.step = s /\ u.swap_id = t.swap_id
      /\ u.expiry = t.expiry /\ u.deadline = t.deadline /\ u.submitted = t.submitted
      /\ u.pre = t.pre /\ u.balance = t.balance /\ u.outcome = o
  <2> HIDE DEF t
  <2> QED BY <1>1 DEF Task
<1>3. task' = [task EXCEPT ![h] = u]
  <2> DEFINE T == Task \cup {Idle}
  <2>1. task \in [Hashlocks -> T]
    OBVIOUS
  <2> HIDE DEF T
  <2> QED BY <2>1 DEF WriteEnd
<1> HIDE DEF u
<1>4. /\ task' \in [Hashlocks -> Task \cup {Idle}] /\ task'[h] = u
      /\ \A k \in Hashlocks : k # h => task'[k] = task[k]
  BY <1>2, <1>3, Written
<1> QED
  BY <1>2, <1>4 DEF Moved

(***************************************************************************)
(* A state was read.                                                       *)
(***************************************************************************)
WriteState(h, s, p) == task' = [task EXCEPT ![h].step = s, ![h].pre = p]

(***************************************************************************)
(* A task moves on with the escrow state it read.                          *)
(***************************************************************************)
LEMMA ReadsState ==
    ASSUME task \in [Hashlocks -> Task \cup {Idle}], NEW h \in Hashlocks, task[h] # Idle,
           NEW s \in Steps, NEW p \in {"None", "Locked", "Claimed", "Refunded"},
           WriteState(h, s, p)
    PROVE  /\ Moved(h, s)
           /\ task'[h].pre = p
           /\ task'[h].deadline = task[h].deadline /\ task'[h].submitted = task[h].submitted
           /\ task'[h].balance = task[h].balance /\ task'[h].outcome = task[h].outcome
<1> DEFINE t == task[h]
           u == [t EXCEPT !.step = s, !.pre = p]
<1>1. t \in Task
  OBVIOUS
<1>2. /\ u \in Task
      /\ u.ctx = t.ctx /\ u.step = s /\ u.swap_id = t.swap_id
      /\ u.expiry = t.expiry /\ u.deadline = t.deadline /\ u.submitted = t.submitted
      /\ u.pre = p /\ u.balance = t.balance /\ u.outcome = t.outcome
  <2> HIDE DEF t
  <2> QED BY <1>1 DEF Task
<1>3. task' = [task EXCEPT ![h] = u]
  <2> DEFINE T == Task \cup {Idle}
  <2>1. task \in [Hashlocks -> T]
    OBVIOUS
  <2> HIDE DEF T
  <2> QED BY <2>1 DEF WriteState
<1> HIDE DEF u
<1>4. /\ task' \in [Hashlocks -> Task \cup {Idle}] /\ task'[h] = u
      /\ \A k \in Hashlocks : k # h => task'[k] = task[k]
  BY <1>2, <1>3, Written
<1> QED
  BY <1>2, <1>4 DEF Moved

(***************************************************************************)
(* A balance was read.                                                     *)
(***************************************************************************)
WriteMoney(h, s, a) == task' = [task EXCEPT ![h].step = s, ![h].balance = a]

(***************************************************************************)
(* A task moves on with the balance it read.                               *)
(***************************************************************************)
LEMMA ReadsMoney ==
    ASSUME task \in [Hashlocks -> Task \cup {Idle}], NEW h \in Hashlocks, task[h] # Idle,
           NEW s \in Steps, NEW a \in {"enough", "low", "unknown"},
           WriteMoney(h, s, a)
    PROVE  /\ Moved(h, s)
           /\ task'[h].balance = a
           /\ task'[h].deadline = task[h].deadline /\ task'[h].submitted = task[h].submitted
           /\ task'[h].pre = task[h].pre /\ task'[h].outcome = task[h].outcome
<1> DEFINE t == task[h]
           u == [t EXCEPT !.step = s, !.balance = a]
<1>1. t \in Task
  OBVIOUS
<1>2. /\ u \in Task
      /\ u.ctx = t.ctx /\ u.step = s /\ u.swap_id = t.swap_id
      /\ u.expiry = t.expiry /\ u.deadline = t.deadline /\ u.submitted = t.submitted
      /\ u.pre = t.pre /\ u.balance = a /\ u.outcome = t.outcome
  <2> HIDE DEF t
  <2> QED BY <1>1 DEF Task
<1>3. task' = [task EXCEPT ![h] = u]
  <2> DEFINE T == Task \cup {Idle}
  <2>1. task \in [Hashlocks -> T]
    OBVIOUS
  <2> HIDE DEF T
  <2> QED BY <2>1 DEF WriteMoney
<1> HIDE DEF u
<1>4. /\ task' \in [Hashlocks -> Task \cup {Idle}] /\ task'[h] = u
      /\ \A k \in Hashlocks : k # h => task'[k] = task[k]
  BY <1>2, <1>3, Written
<1> QED
  BY <1>2, <1>4 DEF Moved

(***************************************************************************)
(* The fields of a task.                                                   *)
(***************************************************************************)
LEMMA Fields ==
    ASSUME NEW t \in Task
    PROVE  /\ t.ctx \in {"maker", "reconcile", "resume"} /\ t.step \in Steps
           /\ t.swap_id \in SwapIds /\ t.expiry \in Nat /\ t.deadline \in Nat
           /\ t.submitted \in BOOLEAN /\ t.pre \in {"None", "Locked", "Claimed", "Refunded"}
           /\ t.balance \in {"enough", "low", "unknown"}
           /\ t.outcome \in {"none", "Completed", "Refunded", "Failed"}
  BY DEF Task

-----------------------------------------------------------------------------
(***************************************************************************)
(* What every step of the bot but the funding has in common: it is quiet,  *)
(* costs at most one fault and keeps the ledger's states.                  *)
(***************************************************************************)
Calm ==
    /\ Quiet /\ ChainTypes'
    /\ ops' \in [Hashlocks -> {"none", "Accepted", "Completed", "Refunded", "Failed"}]
    /\ faults' \in 0..MaxFaults

(***************************************************************************)
(* The faults stay within their bound.                                     *)
(***************************************************************************)
LEMMA FaultCount ==
    ASSUME faults \in 0..MaxFaults, Fault \/ NoFault
    PROVE  faults' \in 0..MaxFaults
  BY BotAssumption DEF Fault, NoFault

(***************************************************************************)
(* A call costs a fault or none.                                           *)
(***************************************************************************)
LEMMA OutcomeCount ==
    ASSUME NEW ok \in BOOLEAN, Outcome(ok)
    PROVE  Fault \/ NoFault
  BY DEF Outcome

(***************************************************************************)
(* A step that leaves the chains alone.                                    *)
(***************************************************************************)
LEMMA CalmNoChain ==
    ASSUME Inv, NoChain, Fault \/ NoFault,
           ops' \in [Hashlocks -> {"none", "Accepted", "Completed", "Refunded", "Failed"}]
    PROVE  Calm
<1>1. /\ now' = now /\ htlcs' = htlcs /\ events' = events /\ balances' = balances
      /\ held' = held /\ frames' = frames /\ ethPool' = ethPool
      /\ escrows' = escrows /\ pdas' = pdas /\ wallets' = wallets /\ pending' = pending
  BY DEF NoChain, ethVars, lezVars
<1>2. Quiet
  BY <1>1 DEF Quiet
<1>3. ChainTypes'
  <2>1. Eth!TypeOK /\ Lez!TypeOK /\ ethPool \subseteq SwapIds
    BY DEF Inv, ChainTypes
  <2>2. Eth!TypeOK'
    BY <1>1, <2>1 DEF Eth!TypeOK
  <2>3. Lez!TypeOK'
    BY <1>1, <2>1 DEF Lez!TypeOK
  <2> QED
    BY <1>1, <2>1, <2>2, <2>3 DEF ChainTypes
<1>4. faults' \in 0..MaxFaults
  BY FaultCount DEF Inv, BotTypes
<1> QED
  BY <1>2, <1>3, <1>4 DEF Calm

(***************************************************************************)
(* A step that hands in a transaction which pays nothing into an escrow,   *)
(* or none after all.                                                      *)
(***************************************************************************)
LEMMA CalmSend ==
    ASSUME Inv, NEW tx \in Txs, tx.op # "Transfer", Lez!Submit(tx) \/ UNCHANGED lezVars,
           UNCHANGED <<now, ethVars, ethPool>>, Fault \/ NoFault, ops' = ops
    PROVE  Calm
<1>0. ops' \in [Hashlocks -> {"none", "Accepted", "Completed", "Refunded", "Failed"}]
  BY DEF Inv, BotTypes
<1>1. CASE UNCHANGED lezVars
  BY <1>0, <1>1, CalmNoChain DEF NoChain
<1>2. CASE Lez!Submit(tx)
  <2>1. /\ now' = now /\ htlcs' = htlcs /\ events' = events /\ balances' = balances
        /\ held' = held /\ frames' = frames /\ ethPool' = ethPool
    BY DEF ethVars
  <2>2. escrows' = escrows /\ pdas' = pdas /\ wallets' = wallets
    BY <1>2 DEF Lez!Submit
  <2>3. Eth!TypeOK /\ Lez!TypeOK /\ ethPool \subseteq SwapIds
    BY DEF Inv, ChainTypes
  <2>4. pending' \in [Txs -> Nat]
    BY <1>2, <2>3, Queue
  <2>5. \A h \in Hashlocks : pending'[FundTx(h)] = pending[FundTx(h)]
    BY <1>2, <2>3, OtherPayments
  <2>6. Quiet
    BY <2>1, <2>2, <2>5 DEF Quiet
  <2>7. Eth!TypeOK' /\ Lez!TypeOK'
    <3>1. Eth!TypeOK'
      BY <2>1, <2>3 DEF Eth!TypeOK
    <3>2. Lez!TypeOK'
      BY <2>1, <2>2, <2>3, <2>4 DEF Lez!TypeOK
    <3> QED BY <3>1, <3>2
  <2>8. faults' \in 0..MaxFaults
    BY FaultCount DEF Inv, BotTypes
  <2> QED
    BY <1>0, <2>1, <2>3, <2>6, <2>7, <2>8 DEF Calm, ChainTypes
<1> QED
  BY <1>1, <1>2

(***************************************************************************)
(* A step that may hand a claim to Ethereum.                               *)
(***************************************************************************)
LEMMA CalmPool ==
    ASSUME Inv, ethPool \subseteq ethPool', ethPool' \subseteq SwapIds,
           UNCHANGED <<now, ethVars, lezVars>>, Fault \/ NoFault, ops' = ops
    PROVE  Calm
<1>1. /\ now' = now /\ htlcs' = htlcs /\ events' = events /\ balances' = balances
      /\ held' = held /\ frames' = frames
      /\ escrows' = escrows /\ pdas' = pdas /\ wallets' = wallets /\ pending' = pending
  BY DEF ethVars, lezVars
<1>2. Quiet
  BY <1>1 DEF Quiet
<1>3. ChainTypes'
  <2>1. Eth!TypeOK /\ Lez!TypeOK
    BY DEF Inv, ChainTypes
  <2>2. Eth!TypeOK'
    BY <1>1, <2>1 DEF Eth!TypeOK
  <2>3. Lez!TypeOK'
    BY <1>1, <2>1 DEF Lez!TypeOK
  <2> QED
    BY <2>2, <2>3 DEF ChainTypes
<1>4. faults' \in 0..MaxFaults
  BY FaultCount DEF Inv, BotTypes
<1>5. ops' \in [Hashlocks -> {"none", "Accepted", "Completed", "Refunded", "Failed"}]
  BY DEF Inv, BotTypes
<1> QED
  BY <1>2, <1>3, <1>4, <1>5 DEF Calm

(***************************************************************************)
(* The journal entry stays, about the same swap; or it is no more needed.  *)
(***************************************************************************)
Kept(h) ==
    mem.in_flight[h] # NoEntry =>
        mem'.in_flight[h] # NoEntry /\ mem'.in_flight[h].swap_id = mem.in_flight[h].swap_id

Needless(h) == ~AtRisk(h) /\ (Ours(h) /\ escrows[h].state = "Claimed" => EthSettled(h))

(***************************************************************************)
(* A journal that is not written keeps its entries.                        *)
(***************************************************************************)
LEMMA JournalSame ==
    ASSUME Inv, Calm, UNCHANGED <<mem, disk>>, NEW h \in Hashlocks
    PROVE  JournalStep(h) /\ Kept(h)
<1>1. mem \in BotState /\ disk \in BotState /\ JournalOK /\ htlcs' = htlcs
  BY DEF Inv, BotTypes, Calm, Quiet
<1>2. JournalOK'
  BY <1>1 DEF JournalOK
<1> QED
  BY <1>1, <1>2 DEF JournalStep, Kept

(***************************************************************************)
(* A calm step in which the task of one hashlock goes on.                  *)
(***************************************************************************)
LEMMA Goes ==
    ASSUME Inv, Calm, NEW h \in Hashlocks, task[h] # Idle,
           task' \in [Hashlocks -> Task \cup {Idle}], task'[h] \in Task,
           \A k \in Hashlocks : k # h => task'[k] = task[k],
           task'[h].ctx = "maker" <=> task[h].ctx = "maker",
           UNCHANGED <<pc, queue, rejected>>,
           JournalStep(h), Kept(h) \/ Needless(h),
           Fits(h, task'[h], mem'.in_flight[h]) \/ TaskOK(h)'
    PROVE  Inv'
<1>1. Control'
  <2>1. Control /\ queue \subseteq Hashlocks
    BY DEF Inv, BotTypes
  <2>2. task'[h] # Idle
    BY BotAssumption
  <2>3. \A k \in Hashlocks : k # h => mem'.in_flight[k] = mem.in_flight[k]
    BY DEF JournalStep
  <2> QED
    BY <2>1, <2>2, <2>3, ControlGoes
<1>2. BotTypes'
  BY DEF Inv, BotTypes, Calm, JournalStep
<1>3. AtRisk(h) => mem'.in_flight[h] # NoEntry /\ mem'.in_flight[h].swap_id =
                                                      mem.in_flight[h].swap_id
  BY DEF Inv, RiskOK, Kept, Needless
<1>4. TaskOK(h)'
  BY QuietFits DEF Calm
<1> QED
  BY <1>1, <1>2, <1>3, <1>4, QuietStep DEF Calm, Kept, Needless

(***************************************************************************)
(* A calm step in which the task of one hashlock ends.                     *)
(***************************************************************************)
LEMMA Ends ==
    ASSUME Inv, Calm, NEW h \in Hashlocks, task[h] # Idle, EndTask(h),
           JournalStep(h), Kept(h) \/ Needless(h)
    PROVE  Inv'
<1>1. /\ Control /\ queue \subseteq Hashlocks
      /\ task \in [Hashlocks -> Task \cup {Idle}]
      /\ pc \in {"down", "reconcile", "loop", "watch"}
  BY DEF Inv, BotTypes
<1>2. \A k \in Hashlocks : k # h => mem'.in_flight[k] = mem.in_flight[k]
  BY DEF JournalStep
<1>3. /\ Control'
      /\ task'[h] = Idle
      /\ \A k \in Hashlocks : k # h => task'[k] = task[k]
      /\ pc' \in {pc, "down", "loop"} /\ queue' = queue /\ rejected' = rejected
  BY <1>1, <1>2, ControlEnds
<1>4. task' \in [Hashlocks -> Task \cup {Idle}]
  <2> DEFINE T == Task \cup {Idle}
  <2>1. task \in [Hashlocks -> T] /\ Idle \in T
    BY <1>1
  <2>2. task' = [task EXCEPT ![h] = Idle]
    BY DEF EndTask
  <2> HIDE DEF T
  <2>3. task' \in [Hashlocks -> T]
    BY <2>1, <2>2
  <2> QED BY <2>3 DEF T
<1>5. BotTypes'
  BY <1>1, <1>3, <1>4 DEF Inv, BotTypes, Calm, JournalStep
<1>6. AtRisk(h) => mem'.in_flight[h] # NoEntry /\ mem'.in_flight[h].swap_id =
                                                      mem.in_flight[h].swap_id
  BY DEF Inv, RiskOK, Kept, Needless
<1>7. TaskOK(h)'
  BY <1>3 DEF TaskOK
<1> QED
  BY <1>3, <1>5, <1>6, <1>7, QuietStep DEF Calm, Kept, Needless

(***************************************************************************)
(* A task that gives up keeps the journal entry.                           *)
(***************************************************************************)
LEMMA Fails ==
    ASSUME Inv, Calm, NEW h \in Hashlocks, task[h] # Idle, Fail(h)
    PROVE  Inv'
  BY Ends, JournalSame DEF Fail

-----------------------------------------------------------------------------
(***************************************************************************)
(* The steps of a task, one by one.  What is known when one is taken.      *)
(***************************************************************************)
LEMMA AtTask ==
    ASSUME Inv, NEW h \in Hashlocks, task[h] # Idle
    PROVE  /\ task \in [Hashlocks -> Task \cup {Idle}] /\ task[h] \in Task
           /\ Fits(h, task[h], mem.in_flight[h]) /\ RiskOK(h) /\ ClaimedKept(h)
           /\ task[h].ctx \in {"maker", "reconcile", "resume"}
           /\ task[h].swap_id \in SwapIds /\ task[h].expiry \in Nat /\ task[h].deadline \in Nat
           /\ now \in Nat /\ now <= MaxTime
           /\ mem \in BotState /\ disk \in BotState /\ JournalOK
           /\ Lez!TypeOK /\ Eth!TypeOK
<1>1. /\ task \in [Hashlocks -> Task \cup {Idle}] /\ task[h] \in Task
      /\ mem \in BotState /\ disk \in BotState
  BY DEF Inv, BotTypes
<1>2. Fits(h, task[h], mem.in_flight[h]) /\ RiskOK(h) /\ ClaimedKept(h)
  BY DEF Inv, TaskOK
<1>3. now \in Nat /\ now <= MaxTime /\ JournalOK /\ Lez!TypeOK /\ Eth!TypeOK
  BY DEF Inv, ChainTypes, Lez!TypeOK, EthOK
<1> QED
  BY <1>1, <1>2, <1>3, Fields

(***************************************************************************)
(* A step that only moves the task on.                                     *)
(***************************************************************************)
LEMMA Continues ==
    ASSUME Inv, Calm, NEW h \in Hashlocks, task[h] # Idle, NEW s \in Steps,
           Moved(h, s), UNCHANGED <<mem, disk, pc, queue, rejected>>,
           Fits(h, task'[h], mem.in_flight[h])
    PROVE  Inv'
  BY Goes, JournalSame DEF Moved

(***************************************************************************)
(* journal.record: the entry is on disk before the task goes on, or the    *)
(* task ends.                                                              *)
(***************************************************************************)
LEMMA RecordStep ==
    ASSUME Inv, NEW h \in Hashlocks, Record(h)
    PROVE  Inv'
<1>0. task[h] # Idle /\ task[h].step = "record" /\ NoChain /\ ops' = ops
  BY DEF Record, At
<1>1. PICK ok \in BOOLEAN :
          /\ Outcome(ok)
          /\ record(h, task[h].swap_id, ok)
          /\ IF ok
             THEN Goto(h, "accepted") /\ UNCHANGED <<pc, queue, rejected>>
             ELSE EndTask(h)
  BY DEF Record
<1>2. Calm
  BY <1>0, <1>1, OutcomeCount, CalmNoChain DEF Inv, BotTypes
<1>3. /\ Placed(task[h]) /\ mem.in_flight[h] = NoEntry /\ Answers(h, task[h])
      /\ htlcs[task[h].swap_id] # "EMPTY"
  BY <1>0, AtTask DEF Fits, Journaled, Answers, ToAnswer, Fresh, Early
<1>4. /\ JournalStep(h) /\ Kept(h)
      /\ ok => mem'.in_flight[h] # NoEntry /\ mem'.in_flight[h].swap_id = task[h].swap_id
  <2>1. htlcs' = htlcs
    BY <1>2 DEF Calm, Quiet
  <2> QED
    BY <1>0, <1>1, <1>3, <2>1, AtTask, Recorded DEF Kept
<1>5. CASE ok
  <2>1. Moved(h, "accepted")
    BY <1>0, <1>1, <1>5, AtTask, GoesTo DEF Goto, Steps
  <2>2. Fits(h, task'[h], mem'.in_flight[h])
    <3>1. Answers(h, task'[h])
      BY <1>0, <1>3, <2>1 DEF Answers, Moved, Fresh, Early
    <3>2. Placed(task'[h])
      BY <1>0, <1>3, <2>1 DEF Placed, Moved, Fresh, Early
    <3> QED
      BY <1>4, <1>5, <2>1, <3>1, <3>2 DEF Fits, Moved, Journaled, Settling, Judging
  <2> QED
    BY <1>0, <1>1, <1>2, <1>4, <1>5, <2>1, <2>2, Goes DEF Moved
<1>6. CASE ~ok
  BY <1>0, <1>1, <1>2, <1>4, <1>6, Ends
<1> QED
  BY <1>5, <1>6

(***************************************************************************)
(* The ledger's Accepted record touches neither chain nor journal.         *)
(***************************************************************************)
LEMMA AcceptedStep ==
    ASSUME Inv, NEW h \in Hashlocks, Accepted(h)
    PROVE  Inv'
<1>0. /\ task[h] # Idle /\ task[h].step = "accepted" /\ NoChain /\ Goto(h, "check")
      /\ UNCHANGED <<mem, disk, pc, queue, rejected>>
  BY DEF Accepted, At
<1>1. PICK ok \in BOOLEAN : Outcome(ok) /\ ops_accepted(h, ok)
  BY DEF Accepted
<1>2. ops' \in [Hashlocks -> {"none", "Accepted", "Completed", "Refunded", "Failed"}]
  BY <1>1 DEF ops_accepted, Inv, BotTypes
<1>3. Calm
  BY <1>0, <1>1, <1>2, OutcomeCount, CalmNoChain
<1>4. Moved(h, "check")
  BY <1>0, AtTask, GoesTo DEF Goto, Steps
<1>5. Fits(h, task'[h], mem.in_flight[h])
  <2>1. Placed(task[h]) /\ Journaled(task[h], mem.in_flight[h]) /\ Answers(h, task[h])
    BY <1>0, AtTask DEF Fits
  <2> QED
    BY <1>0, <1>4, <2>1 DEF Fits, Moved, Placed, Journaled, Answers, Settling, Judging,
                            Fresh, Early
<1> QED
  BY <1>0, <1>3, <1>4, <1>5, Continues DEF Steps

(***************************************************************************)
(* The check before the lock decides on nothing but whether to go on.      *)
(***************************************************************************)
LEMMA CheckStep ==
    ASSUME Inv, NEW h \in Hashlocks, CheckBeforeFund(h)
    PROVE  Inv'
<1>0. task[h] # Idle /\ task[h].step = "check" /\ NoChain
  BY DEF CheckBeforeFund, At
<1>1. (Fault \/ NoFault) /\ (Fail(h) \/ Continue(h, "submit"))
  BY DEF CheckBeforeFund, get_escrow
<1>2. ops' = ops
  BY <1>1 DEF Fail, Continue
<1>3. Calm
  BY <1>0, <1>1, <1>2, CalmNoChain DEF Inv, BotTypes
<1>4. CASE Fail(h)
  BY <1>0, <1>3, <1>4, Fails
<1>5. CASE Continue(h, "submit")
  <2>1. Moved(h, "submit") /\ UNCHANGED <<mem, disk, pc, queue, rejected>>
    BY <1>0, <1>5, AtTask, GoesTo DEF Continue, Goto, Steps
  <2>2. Placed(task[h]) /\ Journaled(task[h], mem.in_flight[h]) /\ Answers(h, task[h])
    BY <1>0, AtTask DEF Fits
  <2>3. Fits(h, task'[h], mem.in_flight[h])
    BY <1>0, <2>1, <2>2 DEF Fits, Moved, Placed, Journaled, Answers, Settling, Judging,
                            Fresh, Early
  <2> QED
    BY <1>0, <1>3, <2>1, <2>3, Continues DEF Steps
<1> QED
  BY <1>1, <1>4, <1>5

(***************************************************************************)
(* Continue is a move to a step, with the journal as it is.                *)
(***************************************************************************)
LEMMA ContinueMoves ==
    ASSUME Inv, NEW h \in Hashlocks, task[h] # Idle, NEW s \in Steps, Continue(h, s)
    PROVE  /\ Moved(h, s) /\ UNCHANGED <<mem, disk, pc, queue, rejected>> /\ ops' = ops
           /\ task'[h].deadline = task[h].deadline /\ task'[h].submitted = task[h].submitted
           /\ task'[h].pre = task[h].pre /\ task'[h].balance = task[h].balance
           /\ task'[h].outcome = task[h].outcome
  BY AtTask, GoesTo DEF Continue, Goto

(***************************************************************************)
(* The lock run_maker sends is one the sequencer knows, made at this       *)
(* moment, and never to the maker itself.                                  *)
(***************************************************************************)
LEMMA LockIsTx ==
    ASSUME Inv, NEW h \in Hashlocks, task[h] # Idle, task[h].step = "submit"
    PROVE  LET t == task[h]
               tx == LockTx(h, t.swap_id.takerLezAccount, 1000 * t.expiry)
           IN  /\ tx \in Txs /\ tx.op # "Transfer"
               /\ tx.op = "Lock" /\ tx.hashlock = h /\ tx.signer # tx.taker_id
<1> DEFINE t == task[h]
           tx == LockTx(h, t.swap_id.takerLezAccount, 1000 * t.expiry)
<1>1. Answers(h, t) /\ now \in Nat /\ now <= MaxTime /\ t.expiry \in Nat
  BY AtTask DEF Fits
<1>2. now + lez_timelock_secs = t.expiry /\ ToAnswer(h, t.swap_id, t.expiry)
  BY <1>1 DEF Answers, Fresh, Early
<1>3. /\ t.swap_id \in Usable /\ t.swap_id.hashlock = h
      /\ t.swap_id.takerLezAccount # MakerLez
  BY <1>2 DEF ToAnswer
<1>4. now \in 0..MaxTime
  BY <1>1, ChainsAssumption
<1>5. tx = LockTx(t.swap_id.hashlock, t.swap_id.takerLezAccount,
                  1000 * (now + lez_timelock_secs))
  BY <1>2, <1>3
<1>6. tx \in {LockTx(id.hashlock, id.takerLezAccount, 1000 * (n + lez_timelock_secs)) :
                  id \in Usable, n \in 0..MaxTime}
  BY <1>3, <1>4, <1>5
<1>7. tx \in Txs
  <2> HIDE DEF tx
  <2> QED BY <1>6 DEF Txs
<1>8. tx.op = "Lock" /\ tx.hashlock = h /\ tx.signer # tx.taker_id
  BY <1>3 DEF LockTx
<1> QED BY <1>7, <1>8

(***************************************************************************)
(* The lock is sent: the poll for it ends before the timelock.             *)
(***************************************************************************)
LEMMA SubmitStep ==
    ASSUME Inv, NEW h \in Hashlocks, SubmitLock(h)
    PROVE  Inv'
<1> DEFINE t == task[h]
           tx == LockTx(h, t.swap_id.takerLezAccount, 1000 * t.expiry)
<1>0. t # Idle /\ t.step = "submit" /\ UNCHANGED <<now, ethVars, ethPool>>
  BY DEF SubmitLock, At
<1>1. PICK ok \in BOOLEAN :
          /\ Send(tx, ok)
          /\ IF ok
             THEN /\ task' = [task EXCEPT ![h].step = "confirm", ![h].deadline = now + PollSecs]
                  /\ UNCHANGED <<mem, disk, pc, queue, rejected, ops>>
             ELSE Fail(h)
  BY DEF SubmitLock
<1>2. /\ Placed(t) /\ Journaled(t, mem.in_flight[h]) /\ Answers(h, t)
      /\ now \in Nat /\ now <= MaxTime /\ t.expiry \in Nat
  BY <1>0, AtTask DEF Fits
<1>3. now + lez_timelock_secs = t.expiry /\ ToAnswer(h, t.swap_id, t.expiry)
  BY <1>0, <1>2 DEF Answers, Fresh, Early
<1>4. tx \in Txs /\ tx.op # "Transfer"
  BY <1>0, LockIsTx
<1>5. Calm
  <2>1. ops' = ops
    BY <1>1 DEF Fail
  <2>2. Lez!Submit(tx) \/ UNCHANGED lezVars
    BY <1>1 DEF Send
  <2>3. Fault \/ NoFault
    BY <1>1, OutcomeCount DEF Send
  <2> HIDE DEF tx
  <2> QED
    BY <1>0, <1>4, <2>1, <2>2, <2>3, CalmSend
<1>6. CASE ok
  <2> DEFINE d == now + PollSecs
  <2>1. d \in Nat /\ WritePoll(h, "confirm", d)
    BY <1>1, <1>2, <1>6, BotAssumption DEF WritePoll
  <2>2. /\ Moved(h, "confirm") /\ task'[h].deadline = d
        /\ UNCHANGED <<mem, disk, pc, queue, rejected>>
    <3>1. "confirm" \in Steps /\ task \in [Hashlocks -> Task \cup {Idle}]
      BY <1>0, AtTask DEF Steps
    <3>2. Moved(h, "confirm") /\ task'[h].deadline = d
      <4> HIDE DEF d
      <4> QED BY <1>0, <2>1, <3>1, PollsTo
    <3> QED BY <1>1, <1>6, <3>2
  <2>3. Answers(h, task'[h])
    <3>1. /\ now <= now + PollSecs
          /\ now + PollSecs + lez_timelock_secs = t.expiry + PollSecs
      BY <1>2, <1>3, BotAssumption
    <3> QED
      BY <1>0, <1>2, <1>3, <2>2, <3>1 DEF Answers, Moved, Fresh, Early
  <2>4. Fits(h, task'[h], mem.in_flight[h])
    BY <1>0, <1>2, <2>2, <2>3 DEF Fits, Moved, Placed, Journaled, Settling, Judging,
                                  Fresh, Early
  <2> QED
    BY <1>0, <1>5, <2>2, <2>4, Continues DEF Steps
<1>7. CASE ~ok
  BY <1>0, <1>1, <1>5, <1>7, Fails
<1> QED
  BY <1>6, <1>7

(***************************************************************************)
(* An escrow that confirms the lock is the maker's own, with its terms.    *)
(***************************************************************************)
LEMMA ConfirmLockStep ==
    ASSUME Inv, NEW h \in Hashlocks, ConfirmLock(h)
    PROVE  Inv'
<1> DEFINE t == task[h]
<1>0. t # Idle /\ t.step = "confirm" /\ NoChain /\ NoFault /\ escrows[h] # NoEscrow
  BY DEF ConfirmLock, At
<1>1. \/ /\ Continue(h, "fund")
         /\ escrow_confirms_our_lock(escrows[h], MakerLez, t.swap_id.takerLezAccount,
                                     lez_amount, 1000 * t.expiry)
      \/ Fail(h)
  BY DEF ConfirmLock
<1>2. Calm
  BY <1>0, <1>1, CalmNoChain DEF Inv, BotTypes, Continue, Fail
<1>3. CASE Fail(h)
  BY <1>0, <1>2, <1>3, Fails
<1>4. CASE /\ Continue(h, "fund")
           /\ escrow_confirms_our_lock(escrows[h], MakerLez, t.swap_id.takerLezAccount,
                                       lez_amount, 1000 * t.expiry)
  <2>1. Moved(h, "fund") /\ UNCHANGED <<mem, disk, pc, queue, rejected>>
    BY <1>0, <1>4, ContinueMoves DEF Steps
  <2>2. /\ Placed(t) /\ Journaled(t, mem.in_flight[h]) /\ Answers(h, t)
        /\ now \in Nat /\ t.expiry \in Nat /\ t.deadline \in Nat
    BY <1>0, AtTask DEF Fits
  <2>3. Confirmed(h, task'[h])
    BY <1>0, <1>4, <2>1 DEF Confirmed, Ours, escrow_confirms_our_lock, Moved
  <2>4. now + lez_timelock_secs <= t.expiry + PollSecs
    BY <1>0, <2>2, BotAssumption DEF Answers, Fresh, Early
  <2>5. Answers(h, task'[h])
    BY <1>0, <2>1, <2>2, <2>3, <2>4 DEF Answers, Moved, Fresh, Early
  <2>6. Fits(h, task'[h], mem.in_flight[h])
    BY <1>0, <2>1, <2>2, <2>5 DEF Fits, Moved, Placed, Journaled, Settling, Judging,
                                  Fresh, Early
  <2> QED
    BY <1>0, <1>2, <2>1, <2>6, Continues DEF Steps
<1> QED
  BY <1>1, <1>3, <1>4

(***************************************************************************)
(* The funding is seen in the account.                                     *)
(***************************************************************************)
LEMMA ConfirmFundingStep ==
    ASSUME Inv, NEW h \in Hashlocks, ConfirmFunding(h)
    PROVE  Inv'
<1>0. task[h] # Idle /\ task[h].step = "funding" /\ NoChain /\ NoFault /\ Continue(h, "mark")
  BY DEF ConfirmFunding, At
<1>1. Moved(h, "mark") /\ UNCHANGED <<mem, disk, pc, queue, rejected>> /\ ops' = ops
  BY <1>0, ContinueMoves DEF Steps
<1>2. Calm
  BY <1>0, <1>1, CalmNoChain DEF Inv, BotTypes
<1>3. Placed(task[h]) /\ Journaled(task[h], mem.in_flight[h])
  BY <1>0, AtTask DEF Fits
<1>4. Fits(h, task'[h], mem.in_flight[h])
  BY <1>0, <1>1, <1>3 DEF Fits, Moved, Placed, Journaled, Answers, Settling, Judging,
                          Fresh, Early
<1> QED
  BY <1>0, <1>1, <1>2, <1>4, Continues DEF Steps

(***************************************************************************)
(* A confirmation poll ends without an answer, and the entry is kept.      *)
(***************************************************************************)
LEMMA PollFailsStep ==
    ASSUME Inv, NEW h \in Hashlocks, PollFails(h)
    PROVE  Inv'
<1>1. task[h] # Idle /\ Fail(h) /\ NoChain /\ (Fault \/ NoFault)
  BY DEF PollFails, At
<1>2. Calm
  BY <1>1, CalmNoChain DEF Inv, BotTypes, Fail
<1> QED
  BY <1>1, <1>2, Fails

(***************************************************************************)
(* The entry is promoted to Funded; a write that fails leaves the old      *)
(* entry.                                                                  *)
(***************************************************************************)
LEMMA MarkFundedStep ==
    ASSUME Inv, NEW h \in Hashlocks, MarkFunded(h)
    PROVE  Inv'
<1>0. /\ task[h] # Idle /\ task[h].step = "mark" /\ NoChain /\ Goto(h, "await")
      /\ UNCHANGED <<pc, queue, rejected, ops>>
  BY DEF MarkFunded, At
<1>1. PICK ok \in BOOLEAN : Outcome(ok) /\ mark_funded(h, ok)
  BY DEF MarkFunded
<1>2. Calm
  BY <1>0, <1>1, OutcomeCount, CalmNoChain DEF Inv, BotTypes
<1>3. JournalStep(h) /\ Kept(h)
  <2>1. htlcs' = htlcs
    BY <1>2 DEF Calm, Quiet
  <2> QED
    BY <1>0, <1>1, <2>1, AtTask, Marked DEF Kept
<1>4. Moved(h, "await")
  BY <1>0, AtTask, GoesTo DEF Goto, Steps
<1>5. Fits(h, task'[h], mem'.in_flight[h])
  <2>1. Journaled(task[h], mem.in_flight[h])
    BY <1>0, AtTask DEF Fits
  <2>2. Journaled(task'[h], mem'.in_flight[h])
    BY <1>0, <1>3, <1>4, <2>1 DEF Journaled, Moved, Kept
  <2> QED
    BY <1>4, <2>2 DEF Fits, Moved, Placed, Answers, Settling, Judging, Fresh, Early
<1> QED
  BY <1>0, <1>2, <1>3, <1>4, <1>5, Goes DEF Moved

(***************************************************************************)
(* The funding: the one step that puts LEZ at risk.  run_maker is the only *)
(* task then, and the journal holds nothing but its entry.                 *)
(***************************************************************************)
LEMMA FundStep ==
    ASSUME Inv, NEW h \in Hashlocks, FundEscrow(h)
    PROVE  Inv'
<1> DEFINE t == task[h]
<1>0. t # Idle /\ t.step = "fund" /\ UNCHANGED <<now, ethVars, ethPool>>
  BY DEF FundEscrow, At
<1>1. PICK ok \in BOOLEAN :
          /\ Send(FundTx(h), ok)
          /\ IF ok
             THEN /\ task' = [task EXCEPT ![h].step = "funding", ![h].deadline = now + PollSecs]
                  /\ UNCHANGED <<mem, disk, pc, queue, rejected, ops>>
             ELSE Fail(h)
  BY DEF FundEscrow
<1>2. /\ now' = now /\ htlcs' = htlcs /\ events' = events /\ balances' = balances
      /\ held' = held /\ frames' = frames /\ ethPool' = ethPool
      /\ mem' = mem /\ disk' = disk /\ ops' = ops
  BY <1>0, <1>1 DEF ethVars, Fail
<1>3. /\ Placed(t) /\ Journaled(t, mem.in_flight[h]) /\ Answers(h, t)
      /\ now \in Nat /\ t.expiry \in Nat /\ t.swap_id \in SwapIds
  BY <1>0, AtTask DEF Fits
<1>4. /\ ~AtRisk(h) /\ ToAnswer(h, t.swap_id, t.expiry) /\ Confirmed(h, t)
      /\ now + lez_timelock_secs <= t.expiry + PollSecs
      /\ mem.in_flight[h] # NoEntry /\ mem.in_flight[h].swap_id = t.swap_id
  BY <1>0, <1>3 DEF Answers, Journaled, Fresh, Early
<1>5. /\ Control /\ BotTypes /\ ChainTypes
      /\ \A k \in Hashlocks : RiskOK(k) /\ ClaimedKept(k) /\ TaskOK(k)
  BY DEF Inv
<1>6. pc = "watch"
  BY <1>0, <1>3, <1>5 DEF Placed, Control, Fresh, Early
<1>7. \A k \in Hashlocks : k # h => task[k] = Idle /\ mem.in_flight[k] = NoEntry /\ ~AtRisk(k)
  BY <1>0, <1>5, <1>6 DEF Control, RiskOK
<1>8. CASE UNCHANGED lezVars /\ ~ok
  <2>1. Calm
    BY <1>0, <1>1, <1>2, <1>8, OutcomeCount, CalmNoChain DEF Send, NoChain, Inv, BotTypes
  <2> QED
    BY <1>0, <1>1, <1>8, <2>1, Fails
<1>9. CASE Lez!Submit(FundTx(h))
  <2>1. escrows' = escrows /\ pdas' = pdas /\ wallets' = wallets
    BY <1>9 DEF Lez!Submit
  <2>2. /\ pending' \in [Txs -> Nat] /\ pending'[FundTx(h)] = pending[FundTx(h)] + 1
        /\ \A k \in Hashlocks : k # h => pending'[FundTx(k)] = pending[FundTx(k)]
    <3>1. Lez!TypeOK
      BY <1>5 DEF ChainTypes
    <3>2. FundTx(h) \in Txs /\ \A k \in Hashlocks : FundTx(h).hashlock = k => k = h
      BY OwnTxs
    <3>3. /\ pending' \in [Txs -> Nat] /\ pending'[FundTx(h)] = pending[FundTx(h)] + 1
      BY <1>9, <3>1, <3>2, Queue
    <3>4. \A k \in Hashlocks : k # h => pending'[FundTx(k)] = pending[FundTx(k)]
      BY <1>9, <3>1, <3>2, OtherPayments
    <3> QED BY <3>3, <3>4
  <2>3. pdas[h] = 0 /\ pending'[FundTx(h)] = 1
    BY <1>4, <1>5, <2>2, EscrowType DEF AtRisk, ChainTypes
  <2>4. ChainTypes'
    <3>1. Eth!TypeOK /\ Lez!TypeOK /\ ethPool \subseteq SwapIds
      BY <1>5 DEF ChainTypes
    <3>2. Eth!TypeOK'
      BY <1>2, <3>1 DEF Eth!TypeOK
    <3>3. Lez!TypeOK'
      BY <1>2, <2>1, <2>2, <3>1 DEF Lez!TypeOK
    <3> QED BY <1>2, <3>1, <3>2, <3>3 DEF ChainTypes
  <2>5. /\ Control' /\ task' \in [Hashlocks -> Task \cup {Idle}]
        /\ \A k \in Hashlocks : k # h => task'[k] = task[k]
        /\ pc' \in {"down", "loop", "watch"} /\ queue' = queue /\ rejected' = rejected
        /\ task'[h] # Idle => /\ task'[h].step = "funding" /\ task'[h].ctx = t.ctx
                              /\ task'[h].swap_id = t.swap_id
    <3>1. CASE ok
      <4> DEFINE d == now + PollSecs
      <4>1. d \in Nat /\ WritePoll(h, "funding", d)
        BY <1>1, <1>3, <3>1, BotAssumption DEF WritePoll
      <4>2. Moved(h, "funding")
        <5>1. "funding" \in Steps /\ task \in [Hashlocks -> Task \cup {Idle}]
          BY <1>0, AtTask DEF Steps
        <5> HIDE DEF d
        <5> QED BY <1>0, <4>1, <5>1, PollsTo
      <4>3. pc' = pc /\ queue' = queue /\ rejected' = rejected
        BY <1>1, <3>1
      <4>4. task'[h] # Idle
        BY <4>2, BotAssumption DEF Moved
      <4>5. Control'
        BY <1>0, <1>2, <1>5, <4>2, <4>3, <4>4, ControlGoes DEF Moved, BotTypes
      <4> QED
        BY <1>6, <4>2, <4>3, <4>5 DEF Moved
    <3>2. CASE ~ok
      <4>1. EndTask(h)
        BY <1>1, <3>2 DEF Fail
      <4>2. /\ Control' /\ task'[h] = Idle
            /\ \A k \in Hashlocks : k # h => task'[k] = task[k]
            /\ pc' \in {pc, "down", "loop"} /\ queue' = queue /\ rejected' = rejected
        BY <1>0, <1>2, <1>5, <4>1, ControlEnds DEF BotTypes
      <4>3. task' \in [Hashlocks -> Task \cup {Idle}]
        <5> DEFINE T == Task \cup {Idle}
        <5>1. task \in [Hashlocks -> T] /\ Idle \in T
          BY <1>5 DEF BotTypes
        <5>2. task' = [task EXCEPT ![h] = Idle]
          BY <4>1 DEF EndTask
        <5> HIDE DEF T
        <5>3. task' \in [Hashlocks -> T]
          BY <5>1, <5>2
        <5> QED BY <5>3 DEF T
      <4> QED
        BY <1>6, <4>2, <4>3
    <3> QED BY <3>1, <3>2
  <2>6. BotTypes'
    <3>1. faults' \in 0..MaxFaults
      BY <1>1, <1>5, OutcomeCount, FaultCount DEF Send, BotTypes
    <3> QED
      BY <1>2, <1>5, <2>5, <3>1 DEF BotTypes
  <2>7. EthOK'
    <3>1. \A id \in SwapIds : Delivered(id)' <=> Delivered(id)
      BY <1>2 DEF Delivered
    <3> QED BY <1>2, <3>1 DEF Inv, EthOK
  <2>8. \A k \in Hashlocks : /\ Ours(k)' <=> Ours(k)
                             /\ Answered(k)' = Answered(k)
    BY <1>2, <2>1 DEF Ours, Answered
  <2>9. OwnTerms' /\ JournalOK'
    <3>1. OwnTerms /\ JournalOK
      BY DEF Inv
    <3>2. OwnTerms'
      BY <2>1, <2>8, <3>1 DEF OwnTerms
    <3>3. JournalOK'
      BY <1>2, <3>1 DEF JournalOK
    <3> QED BY <3>2, <3>3
  <2>10. ASSUME NEW k \in Hashlocks PROVE TaskOK(k)'
    <3>1. CASE k = h
      <4>1. t.ctx = "maker"
        BY <1>0, <1>3 DEF Placed, Fresh, Early
      <4>2. task'[h] # Idle => Fits(h, task[h], mem.in_flight[h])'
        BY <1>2, <1>4, <2>5, <4>1 DEF Fits, Placed, Journaled, Answers, Settling, Judging,
                                      Fresh, Early
      <4> QED BY <3>1, <4>2 DEF TaskOK
    <3>2. CASE k # h
      BY <1>7, <2>5, <3>2 DEF TaskOK
    <3> QED BY <3>1, <3>2
  <2>11. ASSUME NEW k \in Hashlocks, k # h PROVE ~AtRisk(k)'
    BY <1>7, <2>1, <2>2, <2>11 DEF AtRisk, FundTx
  <2>12. RiskOK(h)'
    <3>1. /\ Ours(h) /\ escrows[h].state = "Locked"
          /\ escrows[h].taker_id = t.swap_id.takerLezAccount
          /\ escrows[h].timelock = 1000 * t.expiry
      BY <1>4 DEF Confirmed
    <3>2. 1000 * now < escrows[h].timelock
      BY <1>3, <1>4, <3>1, BotAssumption
    <3>3. t.swap_id \in Answered(h)
      <4>1. t.swap_id.timelock \in Nat
        BY <1>3, IdFields
      <4>2. 1000 * t.swap_id.timelock >= escrows[h].timelock + 1000 * timelock_margin_secs
        BY <1>3, <1>4, <3>1, <4>1, BotAssumption DEF ToAnswer
      <4> QED
        BY <1>3, <1>4, <3>1, <4>2 DEF ToAnswer, Answered
    <3>4. (FundTx(h))' = FundTx(h)
      BY DEF FundTx
    <3> QED
      BY <1>2, <1>4, <2>1, <2>3, <2>8, <3>1, <3>2, <3>3, <3>4 DEF RiskOK
  <2>13. ASSUME NEW k \in Hashlocks PROVE RiskOK(k)'
    <3>1. CASE k = h
      BY <2>12, <3>1
    <3>2. CASE k # h
      BY <2>11, <3>2 DEF RiskOK
    <3> QED BY <3>1, <3>2
  <2>14. ASSUME NEW k \in Hashlocks PROVE ClaimedKept(k)'
    BY <1>2, <1>5, <2>1, <2>8 DEF ClaimedKept
  <2>15. OneAtRisk'
    BY <2>11 DEF OneAtRisk
  <2> QED
    BY <2>4, <2>5, <2>6, <2>7, <2>9, <2>10, <2>13, <2>14, <2>15 DEF Inv
<1> QED
  BY <1>1, <1>8, <1>9 DEF Send

(***************************************************************************)
(* A swap that is settled is resolved: its entry is still in the journal.  *)
(***************************************************************************)
LEMMA Resolves ==
    ASSUME Inv, Calm, NEW h \in Hashlocks, task[h] # Idle, task[h].step \notin {"record", "ops"},
           NEW o \in {"Completed", "Refunded"}, Resolve(h, o), Settled(h)
    PROVE  Inv'
<1> DEFINE t == task[h]
<1>1. Journaled(t, mem.in_flight[h]) /\ task \in [Hashlocks -> Task \cup {Idle}]
  BY AtTask DEF Fits
<1>2. mem.in_flight[h] # NoEntry /\ mem.in_flight[h].swap_id = t.swap_id
  BY <1>1 DEF Journaled
<1>3. UNCHANGED <<mem, disk, pc, queue, rejected>>
  BY DEF Resolve
<1>4. CASE t.ctx = "resume"
  <2>1. WriteEnd(h, o, "ops") /\ "ops" \in Steps
    BY <1>4 DEF Resolve, In, WriteEnd, Steps
  <2>2. Moved(h, "ops") /\ task'[h].outcome = o
    BY <1>1, <2>1, EndsWith
  <2>3. Fits(h, task'[h], mem.in_flight[h])
    BY <1>2, <2>2 DEF Fits, Moved, Placed, Journaled, Answers, Settling, Judging, Fresh, Early
  <2> QED
    BY <1>3, <2>1, <2>2, <2>3, Continues
<1>5. CASE t.ctx # "resume"
  <2>1. WriteEnd(h, o, "clear") /\ "clear" \in Steps
    BY <1>5 DEF Resolve, In, WriteEnd, Steps
  <2>2. Moved(h, "clear") /\ task'[h].outcome = o
    BY <1>1, <2>1, EndsWith
  <2>3. Fits(h, task'[h], mem.in_flight[h])
    BY <1>2, <2>2 DEF Fits, Moved, Placed, Journaled, Answers, Settling, Judging, Fresh, Early
  <2> QED
    BY <1>3, <2>1, <2>2, <2>3, Continues
<1> QED
  BY <1>4, <1>5

(***************************************************************************)
(* The secret was seen: the task goes for the ETH.                         *)
(***************************************************************************)
LEMMA ClaimsNext ==
    ASSUME Inv, Calm, NEW h \in Hashlocks, task[h] # Idle, task[h].step \notin {"record", "ops"},
           Continue(h, "claim"), StateOf(h) = "Claimed"
    PROVE  Inv'
<1>1. Journaled(task[h], mem.in_flight[h])
  BY AtTask DEF Fits
<1>2. Moved(h, "claim") /\ UNCHANGED <<mem, disk, pc, queue, rejected>> /\ "claim" \in Steps
  BY ContinueMoves DEF Steps
<1>3. Fits(h, task'[h], mem.in_flight[h])
  BY <1>1, <1>2 DEF Fits, Moved, Placed, Journaled, Answers, Settling, Judging, Fresh, Early
<1> QED
  BY <1>2, <1>3, Continues

(***************************************************************************)
(* An event of watch_escrow ends the wait for the taker.                   *)
(***************************************************************************)
LEMMA EscrowEventStep ==
    ASSUME Inv, NEW h \in Hashlocks, EscrowEvent(h)
    PROVE  Inv'
<1>0. task[h] # Idle /\ task[h].step = "await" /\ NoChain /\ NoFault
  BY DEF EscrowEvent, At
<1>1. \/ StateOf(h) = "Claimed" /\ Continue(h, "claim")
      \/ StateOf(h) = "Refunded" /\ Resolve(h, "Refunded")
  BY DEF EscrowEvent
<1>2. Calm
  BY <1>0, <1>1, CalmNoChain DEF Inv, BotTypes, Continue, Resolve
<1>3. CASE StateOf(h) = "Claimed" /\ Continue(h, "claim")
  BY <1>0, <1>2, <1>3, ClaimsNext
<1>4. CASE StateOf(h) = "Refunded" /\ Resolve(h, "Refunded")
  BY <1>0, <1>2, <1>4, Resolves DEF Settled
<1> QED
  BY <1>1, <1>3, <1>4

(***************************************************************************)
(* The timelock ends the wait for the taker.                               *)
(***************************************************************************)
LEMMA TimelockExpiresStep ==
    ASSUME Inv, NEW h \in Hashlocks, TimelockExpires(h)
    PROVE  Inv'
<1>0. /\ task[h] # Idle /\ task[h].step = "await" /\ NoChain /\ NoFault
      /\ UNCHANGED <<mem, disk, pc, queue, rejected, ops>>
  BY DEF TimelockExpires, At
<1>1. Calm
  BY <1>0, CalmNoChain DEF Inv, BotTypes
<1>2. Moved(h, "refund")
  <2> DEFINE d == now + PollSecs
  <2>1. d \in Nat /\ WriteWait(h, "refund", FALSE, d)
    BY <1>0, AtTask, BotAssumption DEF TimelockExpires, WriteWait
  <2>2. "refund" \in Steps /\ task \in [Hashlocks -> Task \cup {Idle}]
    BY <1>0, AtTask DEF Steps
  <2> HIDE DEF d
  <2> QED BY <1>0, <2>1, <2>2, WaitsTo
<1>3. Fits(h, task'[h], mem.in_flight[h])
  <2>1. Journaled(task[h], mem.in_flight[h])
    BY <1>0, AtTask DEF Fits
  <2> QED
    BY <1>0, <1>2, <2>1 DEF Fits, Moved, Placed, Journaled, Answers, Settling, Judging,
                            Fresh, Early
<1> QED
  BY <1>0, <1>1, <1>2, <1>3, Continues DEF Steps

(***************************************************************************)
(* refund_confirmed: only what is read from the escrow ends it.            *)
(***************************************************************************)
LEMMA RefundPollStep ==
    ASSUME Inv, NEW h \in Hashlocks, RefundPoll(h)
    PROVE  Inv'
<1>0. task[h] # Idle /\ task[h].step = "refund" /\ UNCHANGED <<now, ethVars, ethPool>>
  BY DEF RefundPoll, At
<1>1. CASE StateOf(h) = "Refunded" /\ Resolve(h, "Refunded") /\ NoFault /\ UNCHANGED lezVars
  <2>1. Calm
    BY <1>0, <1>1, CalmNoChain DEF Inv, BotTypes, NoChain, Resolve
  <2> QED BY <1>0, <1>1, <2>1, Resolves DEF Settled
<1>2. CASE StateOf(h) = "Claimed" /\ Continue(h, "claim") /\ NoFault /\ UNCHANGED lezVars
  <2>1. Calm
    BY <1>0, <1>2, CalmNoChain DEF Inv, BotTypes, NoChain, Continue
  <2> QED BY <1>0, <1>2, <2>1, ClaimsNext
<1>3. CASE /\ \E ok \in BOOLEAN : Send(RefundTx(h), ok)
           /\ task' = [task EXCEPT ![h].submitted = TRUE]
           /\ UNCHANGED <<mem, disk, pc, queue, rejected, ops>>
  <2>1. PICK ok \in BOOLEAN : Send(RefundTx(h), ok)
    BY <1>3
  <2>2. Calm
    <3>1. RefundTx(h) \in Txs /\ RefundTx(h).op # "Transfer"
      BY OwnTxs
    <3>2. (Lez!Submit(RefundTx(h)) \/ UNCHANGED lezVars) /\ (Fault \/ NoFault)
      BY <2>1, OutcomeCount DEF Send
    <3> QED BY <1>0, <1>3, <3>1, <3>2, CalmSend
  <2>3. Moved(h, "refund")
    BY <1>0, <1>3, AtTask, Submits
  <2>4. Fits(h, task'[h], mem.in_flight[h])
    <3>1. Journaled(task[h], mem.in_flight[h])
      BY <1>0, AtTask DEF Fits
    <3> QED
      BY <1>0, <2>3, <3>1 DEF Fits, Moved, Placed, Journaled, Answers, Settling, Judging,
                              Fresh, Early
  <2> QED
    BY <1>0, <1>3, <2>2, <2>3, <2>4, Continues DEF Steps
<1> QED
  BY <1>1, <1>2, <1>3 DEF RefundPoll

(***************************************************************************)
(* A refund that is not confirmed keeps the entry.                         *)
(***************************************************************************)
LEMMA RefundFailsStep ==
    ASSUME Inv, NEW h \in Hashlocks, RefundFails(h)
    PROVE  Inv'
<1>1. task[h] # Idle /\ Fail(h) /\ NoChain /\ (Fault \/ NoFault)
  BY DEF RefundFails, At
<1>2. Calm
  BY <1>1, CalmNoChain DEF Inv, BotTypes, Fail
<1> QED
  BY <1>1, <1>2, Fails

(***************************************************************************)
(* The ETH claim.  An HTLC that is no more OPEN settles the swap, for the  *)
(* entry in the journal is the request the escrow answered.                *)
(***************************************************************************)
LEMMA NotOpenSettles ==
    ASSUME Inv, NEW h \in Hashlocks, task[h] # Idle, task[h].step \in {"claim", "receipt"},
           htlcs[task[h].swap_id] # "OPEN"
    PROVE  Settled(h)
<1>1. /\ StateOf(h) = "Claimed" /\ ClaimedKept(h)
      /\ mem.in_flight[h] # NoEntry /\ mem.in_flight[h].swap_id = task[h].swap_id
  BY AtTask DEF Fits, Settling, Journaled
<1>2. EthSettled(h)
  BY <1>1 DEF EthSettled, ClaimedKept, Ours, StateOf
<1> QED
  BY <1>1, <1>2 DEF Settled

(***************************************************************************)
(* The claim of the ETH resolves the swap only when the HTLC is settled.   *)
(***************************************************************************)
LEMMA Settles ==
    ASSUME Inv, Calm, NEW h \in Hashlocks, task[h] # Idle, task[h].step \in {"claim", "receipt"},
           NEW c, Settle(h, c), c = "Failed" \/ htlcs[task[h].swap_id] # "OPEN"
    PROVE  Inv'
<1>1. CASE Fail(h)
  BY <1>1, Fails
<1>2. CASE Resolve(h, "Completed") /\ c # "Failed"
  <2>1. Settled(h)
    BY <1>2, NotOpenSettles
  <2> QED BY <1>2, <2>1, Resolves
<1> QED
  BY <1>1, <1>2 DEF Settle, retain_after_eth_claim

(***************************************************************************)
(* The ETH is claimed while the HTLC is OPEN.                              *)
(***************************************************************************)
LEMMA ClaimEthStep ==
    ASSUME Inv, NEW h \in Hashlocks, ClaimEth(h)
    PROVE  Inv'
<1> DEFINE id == task[h].swap_id
<1>0. task[h] # Idle /\ task[h].step = "claim" /\ NoFault /\ UNCHANGED <<now, ethVars, lezVars>>
  BY DEF ClaimEth, At
<1>1. id \in SwapIds /\ ethPool \subseteq SwapIds
  BY <1>0, AtTask DEF Inv, ChainTypes
<1>2. CASE htlcs[id] = "OPEN" /\ ethPool' = ethPool \cup {id} /\ Continue(h, "receipt")
  <2>1. /\ Moved(h, "receipt") /\ UNCHANGED <<mem, disk, pc, queue, rejected>> /\ ops' = ops
    BY <1>0, <1>2, ContinueMoves DEF Steps
  <2>2. Calm
    BY <1>0, <1>1, <1>2, <2>1, CalmPool
  <2>3. Journaled(task[h], mem.in_flight[h]) /\ StateOf(h) = "Claimed"
    BY <1>0, AtTask DEF Fits, Settling
  <2>4. TaskOK(h)'
    <3>1. StateOf(h)' = "Claimed"
      BY <2>2, <2>3, QuietState DEF Calm
    <3>2. task'[h].swap_id \in ethPool'
      BY <1>2, <2>1 DEF Moved
    <3> QED
      BY <1>0, <2>1, <2>3, <3>1, <3>2 DEF TaskOK, Fits, Moved, Placed, Journaled, Answers,
                                          Settling, Judging, Fresh, Early
  <2> QED
    BY <1>0, <2>1, <2>2, <2>4, Goes, JournalSame DEF Moved
<1>3. CASE /\ htlcs[id] # "OPEN" /\ ethPool' = ethPool
           /\ \E c \in {"Failed", "AlreadyTerminal"} : Settle(h, c)
  <2>1. PICK c \in {"Failed", "AlreadyTerminal"} : Settle(h, c)
    BY <1>3
  <2>2. ops' = ops
    BY <2>1 DEF Settle, Fail, Resolve
  <2>3. Calm
    BY <1>0, <1>1, <1>3, <2>2, CalmPool
  <2> QED
    BY <1>0, <1>3, <2>1, <2>3, Settles
<1> QED
  BY <1>2, <1>3 DEF ClaimEth

(***************************************************************************)
(* After the receipt the HTLC is no more OPEN.                             *)
(***************************************************************************)
LEMMA ClaimReceiptStep ==
    ASSUME Inv, NEW h \in Hashlocks, ClaimReceipt(h)
    PROVE  Inv'
<1>0. /\ task[h] # Idle /\ task[h].step = "receipt" /\ NoFault /\ NoChain
      /\ task[h].swap_id \notin ethPool /\ Settle(h, "Claimed")
  BY DEF ClaimReceipt, At
<1>1. htlcs[task[h].swap_id] # "OPEN"
  BY <1>0, AtTask DEF Fits, Settling
<1>2. ops' = ops
  BY <1>0 DEF Settle, Fail, Resolve
<1>3. Calm
  BY <1>0, <1>2, CalmNoChain DEF Inv, BotTypes
<1> QED
  BY <1>0, <1>1, <1>3, Settles

(***************************************************************************)
(* A claim that fails is retried, or the entry is kept.                    *)
(***************************************************************************)
LEMMA ClaimErrsStep ==
    ASSUME Inv, NEW h \in Hashlocks, ClaimErrs(h)
    PROVE  Inv'
<1> DEFINE id == task[h].swap_id
<1>0. /\ task[h] # Idle /\ task[h].step \in {"claim", "receipt"} /\ Fault
      /\ UNCHANGED <<now, ethVars, lezVars>>
      /\ ethPool' = ethPool \/ ethPool' = ethPool \cup {id}
  BY DEF ClaimErrs, At
<1>1. \/ htlcs[id] = "CLAIMED" /\ Settle(h, "AlreadyTerminal")
      \/ Continue(h, "claim")
      \/ Settle(h, "Failed")
  BY DEF ClaimErrs
<1>2. Calm
  <2>1. id \in SwapIds /\ ethPool \subseteq SwapIds
    BY <1>0, AtTask DEF Inv, ChainTypes
  <2>2. ops' = ops
    BY <1>1 DEF Settle, Fail, Resolve, Continue
  <2> QED BY <1>0, <2>1, <2>2, CalmPool
<1>3. CASE htlcs[id] = "CLAIMED" /\ Settle(h, "AlreadyTerminal")
  BY <1>0, <1>2, <1>3, Settles
<1>4. CASE Continue(h, "claim")
  <2>1. StateOf(h) = "Claimed"
    BY <1>0, AtTask DEF Fits, Settling
  <2> QED BY <1>0, <1>2, <1>4, <2>1, ClaimsNext
<1>5. CASE Settle(h, "Failed")
  BY <1>0, <1>2, <1>5, Settles
<1> QED
  BY <1>1, <1>3, <1>4, <1>5

(***************************************************************************)
(* The entry is removed when the swap is settled.                          *)
(***************************************************************************)
LEMMA ClearStep ==
    ASSUME Inv, NEW h \in Hashlocks, Clear(h)
    PROVE  Inv'
<1>0. /\ task[h] # Idle /\ task[h].step = "clear" /\ NoChain /\ ops' = ops
      /\ IF In(h, {"resume"})
         THEN EndTask(h)
         ELSE Goto(h, "ops") /\ UNCHANGED <<pc, queue, rejected>>
  BY DEF Clear, At
<1>1. PICK ok \in BOOLEAN : Outcome(ok) /\ remove(h, ok)
  BY DEF Clear
<1>2. Calm
  BY <1>0, <1>1, OutcomeCount, CalmNoChain DEF Inv, BotTypes
<1>3. JournalStep(h) /\ mem'.in_flight[h] = NoEntry
  <2>1. htlcs' = htlcs
    BY <1>2 DEF Calm, Quiet
  <2> QED
    BY <1>0, <1>1, <2>1, AtTask, Removed
<1>4. Placed(task[h]) /\ Settled(h) /\ RiskOK(h)
  BY <1>0, AtTask DEF Fits, Settling
<1>5. Needless(h)
  BY <1>4 DEF Needless, Settled, RiskOK, Ours, StateOf
<1>6. CASE task[h].ctx = "resume"
  <2>1. EndTask(h)
    BY <1>0, <1>6 DEF In
  <2> QED BY <1>0, <1>2, <1>3, <1>5, <2>1, Ends
<1>7. CASE task[h].ctx # "resume"
  <2>1. Goto(h, "ops") /\ UNCHANGED <<pc, queue, rejected>>
    BY <1>0, <1>7 DEF In
  <2>2. Moved(h, "ops") /\ task'[h].outcome = task[h].outcome
    BY <1>0, <2>1, AtTask, GoesTo DEF Goto, Steps
  <2>3. Fits(h, task'[h], mem'.in_flight[h])
    BY <1>0, <1>4, <1>7, <2>2 DEF Fits, Moved, Placed, Journaled, Answers, Settling, Judging,
                                  Fresh, Early
  <2> QED
    BY <1>0, <1>2, <1>3, <1>5, <2>1, <2>2, <2>3, Goes DEF Moved
<1> QED
  BY <1>6, <1>7

(***************************************************************************)
(* The entry is quarantined when nothing can be recovered with it.         *)
(***************************************************************************)
LEMMA QuarantineStep ==
    ASSUME Inv, NEW h \in Hashlocks, Quarantine(h)
    PROVE  Inv'
<1>0. /\ task[h] # Idle /\ task[h].step = "quarantine" /\ NoChain
      /\ UNCHANGED <<pc, queue, rejected, ops>>
  BY DEF Quarantine, At
<1>1. PICK ok \in BOOLEAN : Outcome(ok) /\ quarantine(h, ok)
  BY DEF Quarantine
<1>2. Calm
  BY <1>0, <1>1, OutcomeCount, CalmNoChain DEF Inv, BotTypes
<1>3. JournalStep(h) /\ mem'.in_flight[h] = NoEntry
  <2>1. htlcs' = htlcs
    BY <1>2 DEF Calm, Quiet
  <2> QED
    BY <1>0, <1>1, <2>1, AtTask, Removed
<1>4. Needless(h) /\ task[h].ctx = "reconcile"
  BY <1>0, AtTask DEF Fits, Placed, Judging, Wedged, Needless
<1>5. Moved(h, "ops") /\ task'[h].outcome = "Failed"
  <2>1. task \in [Hashlocks -> Task \cup {Idle}] /\ "ops" \in Steps
    BY <1>0, AtTask DEF Steps
  <2>2. WriteEnd(h, "Failed", "ops")
    <3> DEFINE T == Task \cup {Idle}
    <3>1. task \in [Hashlocks -> T]
      BY <2>1
    <3>2. task' = [task EXCEPT ![h].step = "ops", ![h].outcome = "Failed"]
      BY DEF Quarantine
    <3> HIDE DEF T
    <3> QED BY <3>1, <3>2 DEF WriteEnd
  <2> QED BY <1>0, <2>1, <2>2, EndsWith
<1>6. Fits(h, task'[h], mem'.in_flight[h])
  BY <1>4, <1>5 DEF Fits, Moved, Placed, Journaled, Answers, Settling, Judging, Fresh, Early
<1> QED
  BY <1>0, <1>2, <1>3, <1>4, <1>5, <1>6, Goes DEF Moved

(***************************************************************************)
(* The ledger's outcome touches neither chain nor journal.                 *)
(***************************************************************************)
LEMMA RecordOutcomeStep ==
    ASSUME Inv, NEW h \in Hashlocks, RecordOutcome(h)
    PROVE  Inv'
<1>0. /\ task[h] # Idle /\ task[h].step = "ops" /\ NoChain /\ UNCHANGED <<mem, disk>>
      /\ IF In(h, {"resume"})
         THEN Goto(h, "clear") /\ UNCHANGED <<pc, queue, rejected>>
         ELSE EndTask(h)
  BY DEF RecordOutcome, At
<1>1. PICK ok \in BOOLEAN : Outcome(ok) /\ record_terminal(h, task[h].outcome, ok)
  BY DEF RecordOutcome
<1>2. /\ Fits(h, task[h], mem.in_flight[h])
      /\ task[h].outcome \in {"Completed", "Refunded", "Failed"}
  BY <1>0, AtTask, Fields DEF Fits, Placed
<1>3. ops' \in [Hashlocks -> {"none", "Accepted", "Completed", "Refunded", "Failed"}]
  BY <1>1, <1>2 DEF record_terminal, Inv, BotTypes
<1>4. Calm
  BY <1>0, <1>1, <1>3, OutcomeCount, CalmNoChain
<1>5. CASE task[h].ctx = "resume"
  <2>1. Goto(h, "clear") /\ UNCHANGED <<pc, queue, rejected>>
    BY <1>0, <1>5 DEF In
  <2>2. Moved(h, "clear") /\ task'[h].outcome = task[h].outcome
    BY <1>0, <2>1, AtTask, GoesTo DEF Goto, Steps
  <2>3. Journaled(task[h], mem.in_flight[h]) /\ Settled(h)
    BY <1>0, <1>2, <1>5 DEF Fits, Settling
  <2>4. Fits(h, task'[h], mem.in_flight[h])
    BY <1>0, <1>2, <1>5, <2>2, <2>3 DEF Fits, Moved, Placed, Journaled, Answers, Settling,
                                        Judging, Fresh, Early
  <2> QED
    BY <1>0, <1>4, <2>1, <2>2, <2>4, Continues DEF Steps
<1>6. CASE task[h].ctx # "resume"
  <2>1. EndTask(h)
    BY <1>0, <1>6 DEF In
  <2> QED
    BY <1>0, <1>4, <2>1, Ends, JournalSame
<1> QED
  BY <1>5, <1>6

-----------------------------------------------------------------------------
(***************************************************************************)
(* A new task.                                                             *)
(***************************************************************************)
LEMMA NewTaskType ==
    ASSUME NEW c \in {"maker", "reconcile", "resume"}, NEW s \in Steps, NEW id \in SwapIds
    PROVE  /\ NewTask(c, s, id) \in Task /\ NewTask(c, s, id).ctx = c
           /\ NewTask(c, s, id).step = s /\ NewTask(c, s, id).swap_id = id
           /\ ~NewTask(c, s, id).submitted
  BY DEF NewTask, Task

(***************************************************************************)
(* reconcile takes up the next entry, which has no task.                   *)
(***************************************************************************)
LEMMA NextEntryStep ==
    ASSUME Inv, NEW h \in Hashlocks, NextEntry(h)
    PROVE  Inv'
<1> DEFINE id == mem.in_flight[h].swap_id
           u == NewTask("reconcile", "read", id)
<1>0. /\ pc = "reconcile" /\ h \in queue /\ queue' = queue \ {h} /\ NoFault /\ NoChain
      /\ UNCHANGED <<mem, disk, pc, rejected, ops>>
  BY DEF NextEntry
<1>1. /\ mem \in BotState /\ task \in [Hashlocks -> Task \cup {Idle}] /\ queue \subseteq Hashlocks
      /\ BotTypes /\ Control
  BY DEF Inv, BotTypes
<1>2. mem.in_flight[h] # NoEntry /\ task[h] = Idle
  BY <1>0, <1>1 DEF Control
<1>3. /\ u \in Task /\ u.ctx = "reconcile" /\ u.step = "read" /\ u.swap_id = id
  <2>1. id \in SwapIds /\ "read" \in Steps
    BY <1>1, <1>2, EntryType DEF Steps
  <2> HIDE DEF id
  <2> QED BY <2>1, NewTaskType
<1>4. task' = [task EXCEPT ![h] = u]
  BY DEF NextEntry
<1>5. /\ task' \in [Hashlocks -> Task \cup {Idle}] /\ task'[h] = u
      /\ \A k \in Hashlocks : k # h => task'[k] = task[k]
  <2> HIDE DEF u
  <2> QED BY <1>1, <1>3, <1>4, Written
<1>6. Calm
  BY <1>0, CalmNoChain DEF Inv, BotTypes
<1>7. JournalStep(h) /\ Kept(h)
  BY <1>0, <1>6, JournalSame
<1>8. BotTypes'
  BY <1>0, <1>1, <1>5, <1>6 DEF BotTypes, Calm
<1>9. Control'
  <2>1. pc' = "reconcile" /\ mem' = mem
    BY <1>0
  <2>2. \A k \in Hashlocks : task'[k] # Idle => task'[k].ctx # "maker"
    BY <1>0, <1>1, <1>3, <1>5 DEF Control
  <2>3. \A k \in queue' : mem.in_flight[k] # NoEntry /\ task'[k] = Idle
    BY <1>0, <1>1, <1>5 DEF Control
  <2> QED
    BY <2>1, <2>2, <2>3 DEF Control
<1>10. Fits(h, task'[h], mem'.in_flight[h])
  <2> HIDE DEF u
  <2> QED BY <1>0, <1>2, <1>3, <1>5 DEF Fits, Placed, Journaled, Answers, Settling, Judging,
                                        Fresh, Early
<1>11. TaskOK(h)'
  BY <1>6, <1>10, QuietFits DEF Calm
<1>12. AtRisk(h) => mem'.in_flight[h] # NoEntry /\ mem'.in_flight[h].swap_id =
                                                      mem.in_flight[h].swap_id
  BY <1>0, <1>2
<1> QED
  BY <1>5, <1>6, <1>7, <1>8, <1>9, <1>11, <1>12, QuietStep DEF Calm, Kept

(***************************************************************************)
(* An escrow was read.                                                     *)
(***************************************************************************)
WriteRead(h, s, o, e) ==
    task' = [task EXCEPT ![h].step = s, ![h].outcome = o, ![h].expiry = e]

(***************************************************************************)
(* A task moves on with what it read of the escrow, or that it is absent.  *)
(***************************************************************************)
LEMMA ReadsEscrow ==
    ASSUME task \in [Hashlocks -> Task \cup {Idle}], NEW h \in Hashlocks, task[h] # Idle,
           NEW s \in Steps, NEW o \in {"none", "Completed", "Refunded", "Failed"}, NEW e \in Nat,
           WriteRead(h, s, o, e)
    PROVE  /\ task' \in [Hashlocks -> Task \cup {Idle}] /\ task'[h] \in Task
           /\ \A k \in Hashlocks : k # h => task'[k] = task[k]
           /\ task'[h].step = s /\ task'[h].outcome = o /\ task'[h].expiry = e
           /\ task'[h].ctx = task[h].ctx /\ task'[h].swap_id = task[h].swap_id
           /\ task'[h].submitted = task[h].submitted
<1> DEFINE t == task[h]
           u == [t EXCEPT !.step = s, !.outcome = o, !.expiry = e]
<1>1. t \in Task
  OBVIOUS
<1>2. /\ u \in Task
      /\ u.ctx = t.ctx /\ u.step = s /\ u.swap_id = t.swap_id
      /\ u.expiry = e /\ u.submitted = t.submitted /\ u.outcome = o
  <2> HIDE DEF t
  <2> QED BY <1>1 DEF Task
<1>3. task' = [task EXCEPT ![h] = u]
  <2> DEFINE T == Task \cup {Idle}
  <2>1. task \in [Hashlocks -> T]
    OBVIOUS
  <2> HIDE DEF T
  <2> QED BY <2>1 DEF WriteRead
<1> HIDE DEF u
<1>4. /\ task' \in [Hashlocks -> Task \cup {Idle}] /\ task'[h] = u
      /\ \A k \in Hashlocks : k # h => task'[k] = task[k]
  BY <1>2, <1>3, Written
<1> QED
  BY <1>2, <1>4

(***************************************************************************)
(* The escrow of an entry is read: an absent one is quarantined only if it *)
(* was never locked.                                                       *)
(***************************************************************************)
LEMMA ReadEscrowStep ==
    ASSUME Inv, NEW h \in Hashlocks, ReadEscrow(h)
    PROVE  Inv'
<1> DEFINE t == task[h]
<1>0. t # Idle /\ t.step = "read" /\ NoChain
  BY DEF ReadEscrow, At
<1>1. /\ Fits(h, t, mem.in_flight[h]) /\ RiskOK(h) /\ t.ctx = "reconcile"
      /\ mem.in_flight[h] # NoEntry /\ mem.in_flight[h].swap_id = t.swap_id
      /\ Lez!TypeOK
  BY <1>0, AtTask DEF Fits, Placed, Journaled
<1>2. ASSUME NEW r \in {"None", "Err"}, read_escrow_bounded(h, r),
             IF classify_absent_escrow(mem.in_flight[h].stage, r = "Err") = "RetirePreLock"
             THEN Continue(h, "quarantine")
             ELSE Fail(h)
      PROVE  Inv'
  <2>1. Calm
    BY <1>0, <1>2, CalmNoChain DEF read_escrow_bounded, Inv, BotTypes, Continue, Fail
  <2>2. CASE Fail(h)
    BY <1>0, <2>1, <2>2, Fails
  <2>3. CASE /\ Continue(h, "quarantine")
             /\ classify_absent_escrow(mem.in_flight[h].stage, r = "Err") = "RetirePreLock"
    <3>1. Moved(h, "quarantine") /\ UNCHANGED <<mem, disk, pc, queue, rejected>>
      BY <1>0, <2>3, ContinueMoves DEF Steps
    <3>2. StateOf(h) = "None"
      BY <1>2, <2>3 DEF classify_absent_escrow, read_escrow_bounded
    <3>3. escrows[h] = NoEscrow
      BY <1>1, <3>2, EscrowType DEF StateOf
    <3>4. Wedged(h)
      BY <1>1, <3>3 DEF Wedged, RiskOK, Ours
    <3>5. Fits(h, task'[h], mem.in_flight[h])
      BY <1>1, <3>1, <3>4 DEF Fits, Moved, Placed, Journaled, Answers, Settling, Judging,
                              Fresh, Early
    <3> QED
      BY <1>0, <2>1, <3>1, <3>5, Continues DEF Steps
  <2> QED
    BY <1>2, <2>2, <2>3
<1>3. ASSUME NEW r, NEW ok \in BOOLEAN, r = StateOf(h), r # "None", Outcome(ok),
             mark_funded(h, ok), UNCHANGED <<pc, queue, rejected, ops>>,
             WriteRead(h, IF r = "Claimed" THEN "claim"
                          ELSE IF r = "Refunded" THEN "clear" ELSE "balance",
                       IF r = "Refunded" THEN "Refunded" ELSE "none",
                       escrows[h].timelock \div 1000)
      PROVE  Inv'
  <2> DEFINE s == IF r = "Claimed" THEN "claim"
                  ELSE IF r = "Refunded" THEN "clear" ELSE "balance"
             o == IF r = "Refunded" THEN "Refunded" ELSE "none"
             e == escrows[h].timelock \div 1000
  <2>1. escrows[h] # NoEscrow
    BY <1>3 DEF StateOf
  <2>2. e \in Nat
    BY <1>1, <2>1, EscrowType, Milliseconds
  <2>3. s \in Steps /\ o \in {"none", "Completed", "Refunded", "Failed"}
    BY DEF Steps
  <2>4. Calm
    BY <1>0, <1>3, OutcomeCount, CalmNoChain DEF Inv, BotTypes
  <2>5. JournalStep(h) /\ Kept(h)
    <3>1. htlcs' = htlcs
      BY <2>4 DEF Calm, Quiet
    <3> QED
      BY <1>0, <1>3, <3>1, AtTask, Marked DEF Kept
  <2>6. /\ task' \in [Hashlocks -> Task \cup {Idle}] /\ task'[h] \in Task
        /\ \A k \in Hashlocks : k # h => task'[k] = task[k]
        /\ task'[h].step = s /\ task'[h].outcome = o
        /\ task'[h].ctx = t.ctx /\ task'[h].swap_id = t.swap_id
    <3>1. WriteRead(h, s, o, e) /\ task \in [Hashlocks -> Task \cup {Idle}]
      BY <1>0, <1>3, AtTask
    <3> HIDE DEF s, o, e
    <3> QED BY <1>0, <2>2, <2>3, <3>1, ReadsEscrow
  <2>7. Fits(h, task'[h], mem'.in_flight[h])
    <3>1. mem'.in_flight[h] # NoEntry /\ mem'.in_flight[h].swap_id = t.swap_id
      BY <1>1, <2>5 DEF Kept
    <3>2. CASE r = "Claimed"
      BY <1>1, <1>3, <2>6, <3>1, <3>2 DEF Fits, Placed, Journaled, Answers, Settling, Judging,
                                          Fresh, Early
    <3>3. CASE r = "Refunded"
      BY <1>1, <1>3, <2>6, <3>1, <3>3 DEF Fits, Placed, Journaled, Answers, Settling, Judging,
                                          Settled, Fresh, Early
    <3>4. CASE r \notin {"Claimed", "Refunded"}
      BY <1>1, <1>3, <2>1, <2>6, <3>1, <3>4 DEF Fits, Placed, Journaled, Answers, Settling,
                                                Judging, Fresh, Early
    <3> QED BY <3>2, <3>3, <3>4
  <2> HIDE DEF s, o, e
  <2> QED
    BY <1>0, <1>3, <2>4, <2>5, <2>6, <2>7, Goes
<1>4. PICK r \in {"None", "Locked", "Claimed", "Refunded", "Err"}, ok \in BOOLEAN :
          \/ /\ r \in {"None", "Err"} /\ ok
             /\ read_escrow_bounded(h, r)
             /\ IF classify_absent_escrow(mem.in_flight[h].stage, r = "Err") = "RetirePreLock"
                THEN Continue(h, "quarantine")
                ELSE Fail(h)
          \/ /\ r = StateOf(h) /\ r # "None"
             /\ Outcome(ok)
             /\ mark_funded(h, ok)
             /\ WriteRead(h, IF r = "Claimed" THEN "claim"
                             ELSE IF r = "Refunded" THEN "clear" ELSE "balance",
                          IF r = "Refunded" THEN "Refunded" ELSE "none",
                          escrows[h].timelock \div 1000)
             /\ UNCHANGED <<pc, queue, rejected, ops>>
  BY Zenon DEF ReadEscrow, WriteRead
<1> QED
  BY <1>2, <1>3, <1>4

(***************************************************************************)
(* The balance of a locked escrow is read.                                 *)
(***************************************************************************)
LEMMA ReadBalanceStep ==
    ASSUME Inv, NEW h \in Hashlocks, ReadBalance(h)
    PROVE  Inv'
<1>0. task[h] # Idle /\ task[h].step = "balance" /\ NoChain
  BY DEF ReadBalance, At
<1>1. PICK b \in {"enough", "low", "unknown"} :
          /\ max_escrow_balance(h, b)
          /\ IF b = "unknown"
             THEN Fail(h)
             ELSE /\ WriteMoney(h, "decide", b)
                  /\ UNCHANGED <<mem, disk, pc, queue, rejected, ops>>
  BY DEF ReadBalance, WriteMoney
<1>2. ops' = ops
  BY <1>1 DEF Fail
<1>3. Calm
  BY <1>0, <1>1, <1>2, CalmNoChain DEF max_escrow_balance, Inv, BotTypes
<1>4. CASE Fail(h)
  BY <1>0, <1>3, <1>4, Fails
<1>5. CASE WriteMoney(h, "decide", b) /\ UNCHANGED <<mem, disk, pc, queue, rejected, ops>>
  <2>1. Moved(h, "decide")
    BY <1>0, <1>5, AtTask, ReadsMoney DEF Steps
  <2>2. Placed(task[h]) /\ Journaled(task[h], mem.in_flight[h]) /\ escrows[h] # NoEscrow
    BY <1>0, AtTask DEF Fits, Judging
  <2>3. Fits(h, task'[h], mem.in_flight[h])
    BY <1>0, <2>1, <2>2 DEF Fits, Moved, Placed, Journaled, Answers, Settling, Judging,
                            Fresh, Early
  <2> QED
    BY <1>0, <1>3, <1>5, <2>1, <2>3, Continues DEF Steps
<1> QED
  BY <1>1, <1>4, <1>5

(***************************************************************************)
(* reconcile judges a wedge, refunds or resumes.                           *)
(***************************************************************************)
LEMMA DecideStep ==
    ASSUME Inv, NEW h \in Hashlocks, Decide(h)
    PROVE  Inv'
<1> DEFINE t == task[h]
           d == now + PollSecs
<1>0. /\ t # Idle /\ t.step = "decide" /\ NoChain /\ NoFault
      /\ UNCHANGED <<mem, disk, pc, queue, rejected, ops>>
  BY DEF Decide, At
<1>1. /\ t \in Task /\ task \in [Hashlocks -> Task \cup {Idle}] /\ t.ctx = "reconcile"
      /\ Journaled(t, mem.in_flight[h]) /\ escrows[h] # NoEscrow /\ d \in Nat
  BY <1>0, AtTask, BotAssumption DEF Fits, Placed, Judging
<1>2. Calm
  BY <1>0, CalmNoChain DEF Inv, BotTypes
<1>3. ASSUME NEW u \in Task, task' = [task EXCEPT ![h] = u], u.ctx # "maker",
             Fits(h, u, mem.in_flight[h])
      PROVE  Inv'
  <2>1. /\ task' \in [Hashlocks -> Task \cup {Idle}] /\ task'[h] = u
        /\ \A k \in Hashlocks : k # h => task'[k] = task[k]
    BY <1>1, <1>3, Written
  <2>2. JournalStep(h) /\ Kept(h)
    BY <1>0, <1>2, JournalSame
  <2> QED
    BY <1>0, <1>1, <1>2, <1>3, <2>1, <2>2, Goes
<1>4. CASE is_partial_lock_wedge("Locked", 1000 * now, escrows[h].timelock, t.balance = "enough")
  <2> DEFINE u == [t EXCEPT !.step = "pre"]
  <2>1. u \in Task /\ u.step = "pre" /\ u.ctx = t.ctx /\ u.swap_id = t.swap_id
    <3> HIDE DEF t
    <3> QED BY <1>1 DEF Task, Steps
  <2>2. task' = [task EXCEPT ![h] = u]
    BY <1>4 DEF Decide
  <2>3. 1000 * now >= escrows[h].timelock
    BY <1>4 DEF is_partial_lock_wedge
  <2> HIDE DEF u
  <2>4. Fits(h, u, mem.in_flight[h])
    BY <1>0, <1>1, <2>1, <2>3 DEF Fits, Placed, Journaled, Answers, Settling, Judging,
                                  Fresh, Early
  <2> QED
    BY <1>1, <1>3, <2>1, <2>2, <2>4
<1>5. CASE /\ ~is_partial_lock_wedge("Locked", 1000 * now, escrows[h].timelock,
                                     t.balance = "enough")
           /\ 1000 * now >= escrows[h].timelock
  <2> DEFINE u == [t EXCEPT !.step = "refund", !.deadline = d]
  <2>1. u \in Task /\ u.step = "refund" /\ u.ctx = t.ctx /\ u.swap_id = t.swap_id
    <3> HIDE DEF t, d
    <3> QED BY <1>1 DEF Task, Steps
  <2>2. task' = [task EXCEPT ![h] = u]
    BY <1>5 DEF Decide
  <2> HIDE DEF u
  <2>3. Fits(h, u, mem.in_flight[h])
    BY <1>0, <1>1, <2>1 DEF Fits, Placed, Journaled, Answers, Settling, Judging, Fresh, Early
  <2> QED
    BY <1>1, <1>3, <2>1, <2>2, <2>3
<1>6. CASE /\ ~is_partial_lock_wedge("Locked", 1000 * now, escrows[h].timelock,
                                     t.balance = "enough")
           /\ ~(1000 * now >= escrows[h].timelock)
  <2> DEFINE u == [t EXCEPT !.ctx = "resume", !.step = "await"]
  <2>1. u \in Task /\ u.step = "await" /\ u.ctx = "resume" /\ u.swap_id = t.swap_id
    <3> HIDE DEF t
    <3> QED BY <1>1 DEF Task, Steps
  <2>2. task' = [task EXCEPT ![h] = u]
    BY <1>6 DEF Decide
  <2> HIDE DEF u
  <2>3. Fits(h, u, mem.in_flight[h])
    BY <1>0, <1>1, <2>1 DEF Fits, Placed, Journaled, Answers, Settling, Judging, Fresh, Early
  <2> QED
    BY <1>3, <2>1, <2>2, <2>3
<1> QED
  BY <1>4, <1>5, <1>6

(***************************************************************************)
(* The wedge is read again: its state.                                     *)
(***************************************************************************)
LEMMA RereadStateStep ==
    ASSUME Inv, NEW h \in Hashlocks, RereadState(h)
    PROVE  Inv'
<1>0. /\ task[h] # Idle /\ task[h].step = "pre" /\ NoChain
      /\ UNCHANGED <<mem, disk, pc, queue, rejected, ops>>
  BY DEF RereadState, At
<1>1. PICK r \in {"None", "Locked", "Claimed", "Refunded", "Err"} :
          read_escrow_bounded(h, r) /\ WriteState(h, "rebalance", NoneIfErr(r))
  BY DEF RereadState, WriteState
<1>2. Calm
  BY <1>0, <1>1, CalmNoChain DEF read_escrow_bounded, Inv, BotTypes
<1> DEFINE p == NoneIfErr(r)
<1>3. /\ p \in {"None", "Locked", "Claimed", "Refunded"}
      /\ p = "Claimed" => StateOf(h) = "Claimed"
  BY <1>1 DEF NoneIfErr, read_escrow_bounded
<1>4. Moved(h, "rebalance") /\ task'[h].pre = p
  <2>1. WriteState(h, "rebalance", p) /\ "rebalance" \in Steps
    BY <1>1 DEF Steps
  <2>2. task \in [Hashlocks -> Task \cup {Idle}]
    BY <1>0, AtTask
  <2> HIDE DEF p
  <2> QED BY <1>0, <1>3, <2>1, <2>2, ReadsState
<1>5. Fits(h, task'[h], mem.in_flight[h])
  <2>1. /\ Placed(task[h]) /\ Journaled(task[h], mem.in_flight[h]) /\ escrows[h] # NoEscrow
        /\ 1000 * now >= escrows[h].timelock
    BY <1>0, AtTask DEF Fits, Judging
  <2> HIDE DEF p
  <2> QED
    BY <1>0, <1>3, <1>4, <2>1 DEF Fits, Moved, Placed, Journaled, Answers, Settling, Judging,
                                  Fresh, Early
<1> QED
  BY <1>0, <1>2, <1>4, <1>5, Continues DEF Steps

(***************************************************************************)
(* Money missing from an expired escrow is not on its way.                 *)
(***************************************************************************)
LEMMA RereadBalanceStep ==
    ASSUME Inv, NEW h \in Hashlocks, RereadBalance(h)
    PROVE  Inv'
<1>0. /\ task[h] # Idle /\ task[h].step = "rebalance" /\ NoChain
      /\ UNCHANGED <<mem, disk, pc, queue, rejected, ops>>
  BY DEF RereadBalance, At
<1>1. PICK b \in {"enough", "low", "unknown"} :
          max_escrow_balance(h, b) /\ WriteMoney(h, "post", b)
  BY DEF RereadBalance, WriteMoney
<1>2. Calm
  BY <1>0, <1>1, CalmNoChain DEF max_escrow_balance, Inv, BotTypes
<1>3. Moved(h, "post") /\ task'[h].balance = b /\ task'[h].pre = task[h].pre
  BY <1>0, <1>1, AtTask, ReadsMoney DEF Steps
<1>4. /\ Placed(task[h]) /\ Journaled(task[h], mem.in_flight[h]) /\ escrows[h] # NoEscrow
      /\ 1000 * now >= escrows[h].timelock
      /\ task[h].pre = "Claimed" => StateOf(h) = "Claimed"
      /\ RiskOK(h) /\ now \in Nat /\ Lez!TypeOK
  BY <1>0, AtTask DEF Fits, Judging
<1>5. b = "low" => ~AtRisk(h)
  <2> SUFFICES ASSUME b = "low", AtRisk(h) PROVE FALSE
    OBVIOUS
  <2>1. ~(pdas[h] >= escrows[h].amount)
    BY <1>1, <1>4 DEF max_escrow_balance, Funded
  <2>2. escrows[h].amount = lez_amount
    BY <1>4 DEF RiskOK, Inv, OwnTerms
  <2>3. pdas[h] = lez_amount \/ 1000 * now < escrows[h].timelock
    BY <1>4 DEF RiskOK
  <2>4. escrows[h].timelock \in Nat /\ lez_amount \in Nat
    BY <1>4, EscrowType, BotAssumption
  <2> QED
    BY <1>4, <2>1, <2>2, <2>3, <2>4
<1>6. Fits(h, task'[h], mem.in_flight[h])
  BY <1>0, <1>3, <1>4, <1>5 DEF Fits, Moved, Placed, Journaled, Answers, Settling, Judging,
                                Fresh, Early
<1> QED
  BY <1>0, <1>2, <1>3, <1>6, Continues DEF Steps

(***************************************************************************)
(* The wedge is judged: an escrow quarantined holds nothing of the         *)
(* maker's.                                                                *)
(***************************************************************************)
LEMMA JudgeWedgeStep ==
    ASSUME Inv, NEW h \in Hashlocks, JudgeWedge(h)
    PROVE  Inv'
<1> DEFINE t == task[h]
<1>0. t # Idle /\ t.step = "post" /\ NoChain
  BY DEF JudgeWedge, At
<1>1. PICK r \in {"None", "Locked", "Claimed", "Refunded", "Err"} :
          /\ read_escrow_bounded(h, r)
          /\ LET d == classify_wedge_reread(t.pre, t.balance, NoneIfErr(r),
                                            1000 * now, escrows[h].timelock)
             IN  \/ d = "Quarantine" /\ Continue(h, "quarantine")
                 \/ d = "RecoverClaimed" /\ Continue(h, "claim")
                 \/ d = "Dropped" /\ Resolve(h, "Refunded")
                 \/ d = "Retain" /\ Fail(h)
  BY DEF JudgeWedge
<1> DEFINE d == classify_wedge_reread(t.pre, t.balance, NoneIfErr(r),
                                      1000 * now, escrows[h].timelock)
           p == NoneIfErr(r)
<1>2. Calm
  <2>1. ops' = ops
    BY <1>1 DEF Continue, Resolve, Fail
  <2>2. Fault \/ NoFault
    BY <1>1 DEF read_escrow_bounded
  <2> QED BY <1>0, <2>1, <2>2, CalmNoChain DEF Inv, BotTypes
<1>3. p # "None" => p = StateOf(h)
  BY <1>1 DEF NoneIfErr, read_escrow_bounded
<1>4. /\ Placed(t) /\ Journaled(t, mem.in_flight[h])
      /\ t.pre = "Claimed" => StateOf(h) = "Claimed"
      /\ t.balance = "low" => ~AtRisk(h)
      /\ t.balance \in {"enough", "low", "unknown"}
  BY <1>0, AtTask, Fields DEF Fits, Judging
<1>5. CASE d = "Quarantine" /\ Continue(h, "quarantine")
  <2>1. Moved(h, "quarantine") /\ UNCHANGED <<mem, disk, pc, queue, rejected>>
    BY <1>0, <1>5, ContinueMoves DEF Steps
  <2>2. p = "Locked" /\ t.balance = "low"
    BY <1>4, <1>5 DEF classify_wedge_reread, is_partial_lock_wedge
  <2>3. Wedged(h)
    BY <1>3, <1>4, <2>2 DEF Wedged, StateOf, Ours
  <2>4. Fits(h, task'[h], mem.in_flight[h])
    BY <1>0, <1>4, <2>1, <2>3 DEF Fits, Moved, Placed, Journaled, Answers, Settling, Judging,
                                  Fresh, Early
  <2> QED
    BY <1>0, <1>2, <2>1, <2>4, Continues DEF Steps
<1>6. CASE d = "RecoverClaimed" /\ Continue(h, "claim")
  <2>1. t.pre = "Claimed" \/ p = "Claimed"
    BY <1>6 DEF classify_wedge_reread
  <2>2. StateOf(h) = "Claimed"
    BY <1>3, <1>4, <2>1
  <2> QED
    BY <1>0, <1>2, <1>6, <2>2, ClaimsNext
<1>7. CASE d = "Dropped" /\ Resolve(h, "Refunded")
  <2>1. p = "Refunded"
    BY <1>7 DEF classify_wedge_reread
  <2>2. Settled(h)
    BY <1>3, <2>1 DEF Settled
  <2> QED
    BY <1>0, <1>2, <1>7, <2>2, Resolves
<1>8. CASE Fail(h)
  BY <1>0, <1>2, <1>8, Fails
<1> QED
  BY <1>1, <1>5, <1>6, <1>7, <1>8

-----------------------------------------------------------------------------
(***************************************************************************)
(* Steps of the bot that are not about one hashlock.                       *)
(***************************************************************************)
LEMMA QuietKept ==
    ASSUME Inv, Calm, BotTypes', Control', JournalOK',
           \A h \in Hashlocks : Kept(h) /\ TaskOK(h)'
    PROVE  Inv'
<1>0. Quiet /\ ChainTypes'
  BY DEF Calm
<1>1. /\ escrows' = escrows /\ pdas' = pdas /\ now' = now /\ htlcs' = htlcs
      /\ events' = events
      /\ \A k \in Hashlocks : pending'[FundTx(k)] = pending[FundTx(k)]
  BY <1>0 DEF Quiet
<1>2. EthOK'
  <2>1. \A id \in SwapIds : Delivered(id)' <=> Delivered(id)
    BY <1>1 DEF Delivered
  <2> QED
    BY <1>1, <2>1 DEF Inv, EthOK
<1>3. OwnTerms'
  <2>1. OwnTerms
    BY DEF Inv
  <2> QED
    BY <1>0, <1>1, <2>1, QuietState DEF OwnTerms
<1>4. ASSUME NEW k \in Hashlocks PROVE RiskOK(k)'
  <2>1. RiskOK(k) /\ Kept(k)
    BY DEF Inv
  <2>2. (FundTx(k))' = FundTx(k)
    BY DEF FundTx
  <2> QED
    BY <1>0, <1>1, <2>1, <2>2, QuietState DEF RiskOK, Kept
<1>5. ASSUME NEW k \in Hashlocks PROVE ClaimedKept(k)'
  <2>1. ClaimedKept(k) /\ Kept(k)
    BY DEF Inv
  <2> QED
    BY <1>0, <1>1, <2>1, QuietState DEF ClaimedKept, Kept
<1>6. OneAtRisk'
  BY <1>0, QuietState DEF Inv, OneAtRisk
<1> QED
  BY <1>0, <1>2, <1>3, <1>4, <1>5, <1>6 DEF Inv

(***************************************************************************)
(* Such a step that leaves the tasks and the journal alone.                *)
(***************************************************************************)
LEMMA LoopStep ==
    ASSUME Inv, Calm, BotTypes', Control', UNCHANGED <<mem, disk, task>>
    PROVE  Inv'
<1>1. JournalOK'
  BY DEF Inv, JournalOK, Calm, Quiet
<1>2. ASSUME NEW h \in Hashlocks PROVE Kept(h) /\ TaskOK(h)'
  <2>1. task'[h] # Idle => Fits(h, task'[h], mem'.in_flight[h])
    BY DEF Inv, TaskOK
  <2> QED
    BY <2>1, QuietFits DEF Calm, Kept
<1> QED
  BY <1>1, <1>2, QuietKept

(***************************************************************************)
(* All entries were looked at.                                             *)
(***************************************************************************)
LEMMA DrainedStep ==
    ASSUME Inv, Drained
    PROVE  Inv'
<1>0. /\ NoFault /\ NoChain /\ UNCHANGED <<mem, disk, queue, task, rejected, ops>>
      /\ queue = {} /\ \A h \in Hashlocks : task[h] = Idle
      /\ pc' = IF has_in_flight \/ wallets[MakerLez] < lez_amount THEN "down" ELSE "loop"
  BY DEF Drained
<1>1. Calm
  BY <1>0, CalmNoChain DEF Inv, BotTypes
<1>2. BotTypes'
  BY <1>0, <1>1 DEF Inv, BotTypes, Calm
<1>3. Control'
  BY <1>0 DEF Control, has_in_flight, contains
<1> QED
  BY <1>0, <1>1, <1>2, <1>3, LoopStep

(***************************************************************************)
(* An iteration of the loop starts.                                        *)
(***************************************************************************)
LEMMA StartIterationStep ==
    ASSUME Inv, StartIteration
    PROVE  Inv'
<1>0. /\ NoFault /\ NoChain /\ UNCHANGED <<mem, disk, queue, task, ops>>
      /\ pc = "loop" /\ pc' = "watch" /\ rejected' = {}
  BY DEF StartIteration
<1>1. Calm
  BY <1>0, CalmNoChain DEF Inv, BotTypes
<1>2. /\ rejected' \subseteq Hashlocks /\ IsFiniteSet(rejected')
      /\ Cardinality(rejected') <= MAX_REJECTED
  BY <1>0, FS_EmptySet, BotAssumption
<1>3. BotTypes'
  BY <1>0, <1>1, <1>2 DEF Inv, BotTypes, Calm
<1>4. Control'
  BY <1>0 DEF Inv, Control
<1> QED
  BY <1>0, <1>1, <1>3, <1>4, LoopStep

(***************************************************************************)
(* An iteration ends without a match.                                      *)
(***************************************************************************)
LEMMA WatchTimesOutStep ==
    ASSUME Inv, WatchTimesOut
    PROVE  Inv'
<1>0. /\ NoFault /\ NoChain /\ UNCHANGED <<mem, disk, queue, task, rejected, ops>>
      /\ pc = "watch" /\ pc' = "loop" /\ \A h \in Hashlocks : task[h] = Idle
  BY DEF WatchTimesOut
<1>1. Calm
  BY <1>0, CalmNoChain DEF Inv, BotTypes
<1>2. BotTypes'
  BY <1>0, <1>1 DEF Inv, BotTypes, Calm
<1>3. Control'
  BY <1>0 DEF Inv, Control
<1> QED
  BY <1>0, <1>1, <1>2, <1>3, LoopStep

(***************************************************************************)
(* A lock that matches was made, for a hashlock and a taker.               *)
(***************************************************************************)
LEMMA MatchUsable ==
    ASSUME Inv, NEW id \in SwapIds, Matches(id)
    PROVE  /\ id \in Usable /\ id.hashlock \in Hashlocks /\ htlcs[id] # "EMPTY"
           /\ id.recipient = Maker /\ id.amount >= eth_amount
           /\ pc = "watch" /\ \A h \in Hashlocks : task[h] = Idle
  BY DEF Inv, EthOK, Matches, Usable

(***************************************************************************)
(* A lock is turned away, and remembered within the bound.                 *)
(***************************************************************************)
LEMMA RejectLockStep ==
    ASSUME Inv, NEW id \in SwapIds, RejectLock(id)
    PROVE  Inv'
<1>0. /\ NoFault /\ NoChain /\ UNCHANGED <<mem, disk, pc, queue, task, ops>> /\ Matches(id)
      /\ rejected' = IF Cardinality(rejected) < MAX_REJECTED
                     THEN rejected \cup {id.hashlock} ELSE rejected
  BY DEF RejectLock
<1>1. Calm
  BY <1>0, CalmNoChain DEF Inv, BotTypes
<1>2. /\ rejected' \subseteq Hashlocks /\ IsFiniteSet(rejected')
      /\ Cardinality(rejected') <= MAX_REJECTED
  <2>1. /\ rejected \subseteq Hashlocks /\ IsFiniteSet(rejected)
        /\ Cardinality(rejected) <= MAX_REJECTED /\ MAX_REJECTED \in Nat
    BY BotAssumption DEF Inv, BotTypes
  <2>2. Cardinality(rejected) \in Nat
    BY <2>1, FS_CardinalityType
  <2>3. id.hashlock \in Hashlocks
    BY <1>0, MatchUsable
  <2> DEFINE R == rejected \cup {id.hashlock}
  <2>4. /\ IsFiniteSet(R) /\ R \subseteq Hashlocks
        /\ Cardinality(R) = Cardinality(rejected) \/ Cardinality(R) = Cardinality(rejected) + 1
    BY <2>1, <2>3, FS_AddElement
  <2> HIDE DEF R
  <2>5. rejected' = IF Cardinality(rejected) < MAX_REJECTED THEN R ELSE rejected
    BY <1>0 DEF R
  <2> QED BY <2>1, <2>2, <2>4, <2>5
<1>3. BotTypes'
  BY <1>0, <1>1, <1>2 DEF Inv, BotTypes, Calm
<1>4. Control'
  BY <1>0 DEF Inv, Control
<1> QED
  BY <1>0, <1>1, <1>3, <1>4, LoopStep

(***************************************************************************)
(* After a start memory is what was on disk.                               *)
(***************************************************************************)
LEMMA StartStep ==
    ASSUME Inv, Start
    PROVE  Inv'
<1>0. /\ NoFault /\ NoChain /\ UNCHANGED <<task, rejected, ops>>
      /\ pc = "down" /\ pc' = "reconcile" /\ mem' = disk /\ disk' = disk
      /\ queue' = {h \in Hashlocks : disk.in_flight[h] # NoEntry}
  BY DEF Start, load
<1>1. Calm
  BY <1>0, CalmNoChain DEF Inv, BotTypes
<1>2. \A h \in Hashlocks : task[h] = Idle
  BY <1>0 DEF Inv, Control
<1>3. BotTypes'
  BY <1>0, <1>1 DEF Inv, BotTypes, Calm
<1>4. Control'
  BY <1>0, <1>2 DEF Control
<1>5. JournalOK'
  BY <1>0, <1>1 DEF Inv, JournalOK, Calm, Quiet
<1>6. ASSUME NEW h \in Hashlocks PROVE Kept(h) /\ TaskOK(h)'
  BY <1>0, <1>2 DEF Inv, JournalOK, Kept, TaskOK
<1> QED
  BY <1>1, <1>3, <1>4, <1>5, <1>6, QuietKept

(***************************************************************************)
(* A crash loses the tasks, not the journal.                               *)
(***************************************************************************)
LEMMA CrashStep ==
    ASSUME Inv, Crash
    PROVE  Inv'
<1>0. /\ Fault /\ NoChain /\ UNCHANGED <<mem, disk, ops>>
      /\ pc' = "down" /\ queue' = {} /\ rejected' = {}
      /\ task' = [h \in Hashlocks |-> Idle]
  BY DEF Crash
<1>1. Calm
  BY <1>0, CalmNoChain DEF Inv, BotTypes
<1>2. \A h \in Hashlocks : task'[h] = Idle
  BY <1>0
<1>3. /\ task' \in [Hashlocks -> Task \cup {Idle}]
      /\ IsFiniteSet(rejected') /\ Cardinality(rejected') <= MAX_REJECTED
  <2>1. task' \in [Hashlocks -> Task \cup {Idle}]
    BY <1>0
  <2> QED BY <1>0, <2>1, FS_EmptySet, BotAssumption
<1>4. BotTypes'
  BY <1>0, <1>1, <1>3 DEF Inv, BotTypes, Calm
<1>5. Control'
  BY <1>0, <1>2 DEF Control
<1>6. JournalOK'
  BY <1>0, <1>1 DEF Inv, JournalOK, Calm, Quiet
<1>7. ASSUME NEW h \in Hashlocks PROVE Kept(h) /\ TaskOK(h)'
  BY <1>0, <1>2 DEF Kept, TaskOK
<1> QED
  BY <1>1, <1>4, <1>5, <1>6, <1>7, QuietKept

(***************************************************************************)
(* A lock is accepted: it is one to answer, and nothing is at risk.        *)
(***************************************************************************)
LEMMA AcceptLockStep ==
    ASSUME Inv, NEW id \in SwapIds, AcceptLock(id)
    PROVE  Inv'
<1> DEFINE h == id.hashlock
           expiry == fresh_lez_expiry_secs(now, lez_timelock_secs)
           t == NewTask("maker", "record", id)
           u == [t EXCEPT !.expiry = expiry]
<1>0. /\ NoChain /\ UNCHANGED <<mem, disk, pc, queue, rejected, ops>>
      /\ Matches(id) /\ Disposition(id) = "Accept" /\ (Fault \/ NoFault)
      /\ task' = [task EXCEPT ![h] = u]
  BY DEF AcceptLock, Outcome
<1>1. /\ id \in Usable /\ h \in Hashlocks /\ htlcs[id] # "EMPTY"
      /\ id.recipient = Maker /\ id.amount >= eth_amount
      /\ pc = "watch" /\ \A k \in Hashlocks : task[k] = Idle
  BY <1>0, MatchUsable
<1>2. Calm
  BY <1>0, CalmNoChain DEF Inv, BotTypes
<1>3. now \in Nat /\ now <= MaxTime /\ id.timelock \in Nat
  BY IdFields DEF Inv, EthOK, ChainTypes, Eth!TypeOK
<1>4. now + lez_timelock_secs + timelock_margin_secs <= U64Max
  BY <1>3, BotAssumption, ChainsAssumption, PolicyAssumption
<1>5. expiry = now + lez_timelock_secs /\ expiry \in Nat
  BY <1>3, <1>4, BotAssumption, PolicyAssumption DEF fresh_lez_expiry_secs, saturating_add,
                                                     saturating_to
<1>6. /\ id.timelock >= now + lez_timelock_secs + timelock_margin_secs
      /\ id.takerLezAccount # MakerLez
  <2> DEFINE skip == h \in rejected \/ contains(h)
  <2>1. classify_candidate(
            [taker_lez_account |-> id.takerLezAccount, eth_timelock |-> id.timelock],
            [maker_lez_account |-> MakerLez, zero |-> ZeroBytes32, served |-> Served,
             lez_expiry_secs |-> fresh_lez_expiry_secs(now, lez_timelock_secs),
             margin |-> timelock_margin_secs],
            skip) = "Accept"
    BY <1>0 DEF Disposition
  <2>2. skip \in BOOLEAN
    BY Zenon DEF contains
  <2>3. lez_timelock_secs \in Nat /\ timelock_margin_secs \in Nat
    BY BotAssumption
  <2> HIDE DEF skip
  <2> QED
    BY <1>3, <1>4, <2>1, <2>2, <2>3, AcceptedCoversMargin
<1>7. mem.in_flight[h] = NoEntry
  <2>1. ~contains(h)
    BY <1>0 DEF Disposition, classify_candidate
  <2> QED BY <2>1 DEF contains
<1>8. ~AtRisk(h)
  BY <1>1, <1>7 DEF Inv, RiskOK
<1>9. /\ u \in Task /\ u.ctx = "maker" /\ u.step = "record" /\ u.swap_id = id
      /\ u.expiry = expiry
  <2>1. t \in Task /\ t.ctx = "maker" /\ t.step = "record" /\ t.swap_id = id
    BY NewTaskType DEF Steps
  <2> HIDE DEF t, expiry
  <2> QED BY <1>5, <2>1 DEF Task
<1>10. /\ task' \in [Hashlocks -> Task \cup {Idle}] /\ task'[h] = u
       /\ \A k \in Hashlocks : k # h => task'[k] = task[k]
  <2>1. task \in [Hashlocks -> Task \cup {Idle}]
    BY DEF Inv, BotTypes
  <2> HIDE DEF u, h
  <2> QED BY <1>0, <1>1, <1>9, <2>1, Written
<1> HIDE DEF u
<1>11. BotTypes'
  BY <1>0, <1>2, <1>10 DEF Inv, BotTypes, Calm
<1>12. Control'
  <2>1. Control /\ queue \subseteq Hashlocks
    BY DEF Inv, BotTypes
  <2>2. pc' = "watch" /\ queue' = {} /\ mem' = mem
    BY <1>0, <1>1, <2>1 DEF Control
  <2>3. \A k \in Hashlocks : mem.in_flight[k] = NoEntry
    <3>1. \A k \in Hashlocks : mem.in_flight[k] # NoEntry => task[k] # Idle
      BY <1>1, <2>1, Zenon DEF Control
    <3> QED BY <1>1, <3>1, Zenon
  <2>4. \A k \in Hashlocks : task'[k] # Idle => k = h
    BY <1>1, <1>10
  <2> QED
    BY <1>9, <1>10, <2>2, <2>3, <2>4 DEF Control
<1>13. Fits(h, task'[h], mem'.in_flight[h])
  <2>1. id.timelock >= expiry + timelock_margin_secs
    BY <1>5, <1>6
  <2>2. ToAnswer(h, id, expiry)
    BY <1>1, <1>6, <2>1 DEF ToAnswer
  <2> HIDE DEF expiry, h
  <2>3. Answers(h, u)
    BY <1>5, <1>8, <1>9, <2>2 DEF Answers, Fresh, Early
  <2> QED
    BY <1>0, <1>7, <1>9, <1>10, <2>3 DEF Fits, Placed, Journaled, Settling, Judging,
                                         Fresh, Early
<1>14. TaskOK(h)'
  BY <1>1, <1>2, <1>13, QuietFits DEF Calm
<1>15. JournalStep(h) /\ Kept(h)
  BY <1>0, <1>1, <1>2, JournalSame
<1> QED
  BY <1>1, <1>2, <1>8, <1>10, <1>11, <1>12, <1>14, <1>15, QuietStep DEF Calm, Kept

(***************************************************************************)
(* All steps of the bot.                                                   *)
(***************************************************************************)
LEMMA BotKeepsInv ==
    ASSUME Inv, \/ BotStep \/ WatchTimesOut \/ Crash
                \/ \E id \in SwapIds : RejectLock(id)
    PROVE  Inv'
<1>1. ASSUME NEW h \in Hashlocks, TaskStep(h)
      PROVE  Inv'
  BY <1>1, RecordStep, AcceptedStep, CheckStep, SubmitStep, ConfirmLockStep, FundStep,
     ConfirmFundingStep, PollFailsStep, MarkFundedStep, EscrowEventStep, TimelockExpiresStep,
     RefundPollStep, RefundFailsStep, ClaimEthStep, ClaimReceiptStep, ClaimErrsStep,
     ClearStep, QuarantineStep, RecordOutcomeStep, NextEntryStep, ReadEscrowStep,
     ReadBalanceStep, DecideStep, RereadStateStep, RereadBalanceStep, JudgeWedgeStep
     DEF TaskStep
<1> QED
  BY <1>1, StartStep, DrainedStep, StartIterationStep, AcceptLockStep, WatchTimesOutStep,
     CrashStep, RejectLockStep DEF BotStep

-----------------------------------------------------------------------------
(***************************************************************************)
(* The rest of the world.  It does not touch the bot: what is left to show *)
(* is about the chains.                                                    *)
(***************************************************************************)
LEMMA WorldStep ==
    ASSUME Inv, UNCHANGED botVars, Fault \/ NoFault, ChainTypes', EthOK',
           \A id \in SwapIds : htlcs[id] # "EMPTY" => htlcs'[id] # "EMPTY",
           \A h \in Hashlocks :
               /\ TaskOK(h)' /\ RiskOK(h)' /\ ClaimedKept(h)'
               /\ AtRisk(h)' => AtRisk(h)
               /\ Ours(h)' => /\ escrows'[h].amount = lez_amount
                              /\ escrows'[h].timelock = 1000 * (escrows'[h].timelock \div 1000)
    PROVE  Inv'
<1>1. /\ mem' = mem /\ disk' = disk /\ pc' = pc /\ queue' = queue /\ task' = task
      /\ rejected' = rejected /\ ops' = ops
  BY DEF botVars
<1>2. BotTypes'
  <2>1. faults' \in 0..MaxFaults
    BY FaultCount DEF Inv, BotTypes
  <2> QED BY <1>1, <2>1 DEF Inv, BotTypes
<1>3. Control'
  BY <1>1 DEF Inv, Control
<1>4. JournalOK'
  <2>1. JournalOK /\ disk \in BotState
    BY DEF Inv, BotTypes
  <2>2. \A h \in Hashlocks : disk.in_flight[h] # NoEntry => disk.in_flight[h].swap_id \in SwapIds
    BY <2>1, EntryType
  <2> QED BY <1>1, <2>1, <2>2 DEF JournalOK
<1>5. OwnTerms'
  BY DEF OwnTerms
<1>6. OneAtRisk'
  BY DEF Inv, OneAtRisk
<1> QED
  BY <1>2, <1>3, <1>4, <1>5, <1>6 DEF Inv

(***************************************************************************)
(* An entry in the journal, and the swap of a task, are about requests     *)
(* that were locked.                                                       *)
(***************************************************************************)
LEMMA EntryLocked ==
    ASSUME Inv, NEW h \in Hashlocks, mem.in_flight[h] # NoEntry
    PROVE  mem.in_flight[h].swap_id \in SwapIds /\ htlcs[mem.in_flight[h].swap_id] # "EMPTY"
<1>1. mem \in BotState /\ JournalOK
  BY DEF Inv, BotTypes
<1> QED
  BY <1>1, EntryType DEF JournalOK

(***************************************************************************)
(* Calls of the contract.  What is settled stays settled, and requests     *)
(* that were locked stay requests to answer.                               *)
(***************************************************************************)
LEMMA EthWorld ==
    ASSUME Inv, UNCHANGED <<lezVars, botVars, faults>>, Eth!TypeOK', now' = now,
           \A x \in SwapIds : EthMoves(x),
           ethPool' \subseteq SwapIds,
           \A x \in ethPool : x \in ethPool' \/ htlcs'[x] # "OPEN"
    PROVE  Inv'
<1>1. /\ mem' = mem /\ task' = task
      /\ escrows' = escrows /\ pdas' = pdas /\ wallets' = wallets /\ pending' = pending
  BY DEF botVars, lezVars
<1>2. \A x \in SwapIds : /\ htlcs[x] \in {"EMPTY", "OPEN", "CLAIMED", "REFUNDED"}
                         /\ htlcs[x] # "EMPTY" => htlcs'[x] # "EMPTY"
                         /\ htlcs[x] \in {"CLAIMED", "REFUNDED"} => htlcs'[x] = htlcs[x]
  BY DEF Inv, ChainTypes, Eth!TypeOK, Eth!SwapState, EthMoves
<1>3. \A x \in SwapIds : htlcs[x] # "EMPTY" /\ htlcs[x] # "OPEN" => htlcs'[x] # "OPEN"
  BY <1>2
<1>4. ChainTypes'
  <2>1. Lez!TypeOK'
    BY <1>1 DEF Inv, ChainTypes, Lez!TypeOK
  <2> QED BY <2>1 DEF ChainTypes
<1>5. EthOK'
  BY DEF Inv, EthOK, EthMoves
<1>6. ASSUME NEW h \in Hashlocks
      PROVE  /\ (AtRisk(h)' <=> AtRisk(h)) /\ (Ours(h)' <=> Ours(h))
             /\ StateOf(h)' = StateOf(h)
             /\ \A x \in Answered(h) : x \in Answered(h)' /\ x \in SwapIds /\ htlcs[x] # "EMPTY"
  BY <1>1, <1>2 DEF AtRisk, Ours, StateOf, Answered, FundTx
<1>7. ASSUME NEW h \in Hashlocks PROVE RiskOK(h)'
  <2>1. RiskOK(h) /\ (FundTx(h))' = FundTx(h)
    BY DEF Inv, FundTx
  <2> QED BY <1>1, <1>6, <2>1 DEF RiskOK
<1>8. ASSUME NEW h \in Hashlocks PROVE ClaimedKept(h)'
  <2>1. ClaimedKept(h)
    BY DEF Inv
  <2> QED BY <1>1, <1>3, <1>6, <2>1 DEF ClaimedKept
<1>9. ASSUME NEW h \in Hashlocks PROVE TaskOK(h)'
  <2> SUFFICES ASSUME task[h] # Idle
               PROVE  Fits(h, task[h], mem.in_flight[h])'
    BY <1>1 DEF TaskOK
  <2>1. /\ Placed(task[h]) /\ Journaled(task[h], mem.in_flight[h]) /\ Answers(h, task[h])
        /\ Settling(h, task[h]) /\ Judging(h, task[h])
    BY AtTask DEF Fits
  <2>2. Placed(task[h])' /\ Journaled(task[h], mem.in_flight[h])'
    BY <1>1, <2>1 DEF Placed, Journaled
  <2>3. Answers(h, task[h])'
    <3>1. task[h].swap_id \in SwapIds
      BY AtTask
    <3>2. ToAnswer(h, task[h].swap_id, task[h].expiry) =>
              ToAnswer(h, task[h].swap_id, task[h].expiry)'
      BY <1>1, <1>2, <3>1 DEF ToAnswer
    <3> QED BY <1>1, <1>6, <2>1, <3>2 DEF Answers, Confirmed
  <2>4. Settling(h, task[h])'
    <3>1. Settled(h) => Settled(h)'
      BY <1>3, <1>6 DEF Settled, EthSettled
    <3>2. task[h].step = "receipt" => /\ task[h].swap_id \in SwapIds
                                      /\ htlcs[task[h].swap_id] # "EMPTY"
      BY <2>1, EntryLocked DEF Journaled
    <3>3. task[h].step = "receipt" =>
              task[h].swap_id \in ethPool' \/ htlcs'[task[h].swap_id] # "OPEN"
      BY <1>3, <2>1, <3>2 DEF Settling
    <3> QED BY <1>1, <1>6, <2>1, <3>1, <3>3 DEF Settling
  <2>5. Judging(h, task[h])'
    BY <1>1, <1>6, <2>1 DEF Judging, Wedged
  <2> QED BY <2>2, <2>3, <2>4, <2>5 DEF Fits
<1>10. ASSUME NEW h \in Hashlocks
       PROVE  Ours(h)' => /\ escrows'[h].amount = lez_amount
                          /\ escrows'[h].timelock = 1000 * (escrows'[h].timelock \div 1000)
  BY <1>1, <1>6 DEF Inv, OwnTerms
<1> QED
  BY <1>2, <1>4, <1>5, <1>6, <1>7, <1>8, <1>9, <1>10, WorldStep DEF NoFault

(***************************************************************************)
(* Takers lock and refund ETH.                                             *)
(***************************************************************************)
LEMMA TakerLocksStep ==
    ASSUME Inv, NEW id \in SwapIds, TakerLocks(id) \/ TakerRefunds(id)
    PROVE  Inv'
<1>1. /\ Eth!lock(id) \/ Eth!refund(id)
      /\ UNCHANGED <<lezVars, ethPool, botVars, faults>>
  BY DEF TakerLocks, TakerRefunds, NoFault
<1>2. Eth!TypeOK /\ ethPool \subseteq SwapIds
  BY DEF Inv, ChainTypes
<1>3. Eth!TypeOK' /\ now' = now /\ \A x \in SwapIds : EthMoves(x)
  BY <1>1, <1>2, EthCall
<1> QED
  BY <1>1, <1>2, <1>3, EthWorld

(***************************************************************************)
(* The maker's claim is mined, or fails because the HTLC is not OPEN.      *)
(***************************************************************************)
LEMMA MineClaimStep ==
    ASSUME Inv, NEW id \in SwapIds, MineClaim(id)
    PROVE  Inv'
<1>1. ethPool' = ethPool \ {id} /\ UNCHANGED <<lezVars, botVars, faults>>
  BY DEF MineClaim, NoFault
<1>2. Eth!TypeOK /\ ethPool \subseteq SwapIds
  BY DEF Inv, ChainTypes
<1>3. CASE \E p \in Preimages : Eth!claim(id, p)
  <2>1. PICK p \in Preimages : Eth!claim(id, p)
    BY <1>3
  <2>2. /\ Eth!TypeOK' /\ now' = now /\ \A x \in SwapIds : EthMoves(x)
        /\ htlcs'[id] = "CLAIMED"
    BY <1>2, <2>1, EthCall
  <2> QED
    BY <1>1, <1>2, <2>2, EthWorld
<1>4. CASE htlcs[id] # "OPEN" /\ UNCHANGED <<now, ethVars>>
  <2>1. /\ now' = now /\ htlcs' = htlcs /\ events' = events /\ balances' = balances
        /\ held' = held /\ frames' = frames
    BY <1>4 DEF ethVars
  <2>2. Eth!TypeOK'
    BY <1>2, <2>1 DEF Eth!TypeOK
  <2>3. \A x \in SwapIds : EthMoves(x)
    BY <2>1 DEF EthMoves, Delivered
  <2> QED
    BY <1>1, <1>2, <1>4, <2>1, <2>2, <2>3, EthWorld
<1> QED
  BY <1>3, <1>4 DEF MineClaim

(***************************************************************************)
(* A transaction of somebody else is handed in.                            *)
(***************************************************************************)
LEMMA HandedIn ==
    ASSUME Inv, NEW tx \in Txs, tx.op # "Transfer", Lez!Submit(tx), NoFault,
           UNCHANGED <<now, ethVars, ethPool, botVars>>
    PROVE  Inv'
<1>1. /\ mem' = mem /\ disk' = disk /\ pc' = pc /\ queue' = queue /\ task' = task
      /\ rejected' = rejected /\ ops' = ops
  BY DEF botVars
<1>2. Calm
  BY <1>1, CalmSend
<1>3. BotTypes'
  BY <1>1, <1>2 DEF Inv, BotTypes, Calm
<1>4. Control'
  BY <1>1 DEF Inv, Control
<1> QED
  BY <1>1, <1>2, <1>3, <1>4, LoopStep

(***************************************************************************)
(* A taker sends a claim of LEZ.                                           *)
(***************************************************************************)
LEMMA TakerClaimsLezStep ==
    ASSUME Inv, NEW id \in SwapIds, NEW p \in Preimages, TakerClaimsLez(id, p)
    PROVE  Inv'
<1> DEFINE tx == TakerClaimTx(id, p)
<1>1. /\ id \in Usable /\ Lez!Submit(tx) /\ NoFault
      /\ UNCHANGED <<now, ethVars, ethPool, botVars>>
  BY DEF TakerClaimsLez
<1>2. tx \in Txs
  BY <1>1 DEF Txs, TakerClaims
<1>3. tx.op # "Transfer"
  BY DEF TakerClaimTx
<1> HIDE DEF tx
<1> QED
  BY <1>1, <1>2, <1>3, HandedIn

(***************************************************************************)
(* Somebody else sends a transaction to LEZ.                               *)
(***************************************************************************)
LEMMA OthersSubmitStep ==
    ASSUME Inv, NEW tx \in OtherTxs, OthersSubmit(tx)
    PROVE  Inv'
<1>1. Lez!Submit(tx) /\ NoFault /\ UNCHANGED <<now, ethVars, ethPool, botVars>>
  BY DEF OthersSubmit
<1>2. tx \in Txs
  BY DEF Txs
<1>3. tx.op # "Transfer"
  <2>1. tx \in Lez!LockTx \/ tx \in Lez!ClaimTx \/ tx \in Lez!RefundTx
    BY ChainsAssumption
  <2> QED BY <2>1 DEF Lez!LockTx, Lez!ClaimTx, Lez!RefundTx
<1> QED
  BY <1>1, <1>2, <1>3, HandedIn

(***************************************************************************)
(* One step of one account, with nothing else changed.  What was paid and  *)
(* is still there, or has been taken, is accounted for; a task keeps what  *)
(* it relies on.                                                           *)
(***************************************************************************)
AccountKept(h) ==
    /\ TaskOK(h)' /\ RiskOK(h)' /\ ClaimedKept(h)'
    /\ AtRisk(h)' => AtRisk(h)
    /\ Ours(h)' => /\ escrows'[h].amount = lez_amount
                   /\ escrows'[h].timelock = 1000 * (escrows'[h].timelock \div 1000)

(***************************************************************************)
(* The escrow stays as it is, and no money is added to it.                 *)
(***************************************************************************)
LEMMA SameEscrow ==
    ASSUME Inv, Lez!TypeOK', now' = now, htlcs' = htlcs, ethPool' = ethPool, mem' = mem,
           task' = task, NEW h \in Hashlocks, Left(h) \/ PaymentLost(h) \/ PaymentMade(h)
    PROVE  AccountKept(h)
<1>0. /\ RiskOK(h) /\ ClaimedKept(h) /\ OwnTerms /\ Lez!TypeOK /\ (FundTx(h))' = FundTx(h)
      /\ lez_amount \in Nat \ {0} /\ pdas[h] \in Nat /\ pending[FundTx(h)] \in Nat
  BY EscrowType, BotAssumption DEF Inv, ChainTypes, FundTx
<1>1. escrows'[h] = escrows[h]
  BY DEF Left, PaymentLost, PaymentMade
<1>2. (Ours(h)' <=> Ours(h)) /\ StateOf(h)' = StateOf(h) /\ Answered(h)' = Answered(h)
  BY <1>1 DEF Ours, StateOf, Answered
<1>3. AtRisk(h)' => AtRisk(h)
  BY <1>0 DEF AtRisk, Left, PaymentLost, PaymentMade
<1>4. RiskOK(h)'
  <2> SUFFICES ASSUME AtRisk(h)'
               PROVE  /\ Ours(h) /\ escrows[h].state = "Locked"
                      /\ \/ pdas'[h] = lez_amount /\ pending'[FundTx(h)] = 0
                         \/ pdas'[h] = 0 /\ pending'[FundTx(h)] = 1
                      /\ mem.in_flight[h] # NoEntry /\ mem.in_flight[h].swap_id \in Answered(h)
                      /\ pending'[FundTx(h)] > 0 => 1000 * now < escrows[h].timelock
    BY <1>0, <1>1, <1>2 DEF RiskOK
  <2>1. /\ AtRisk(h) /\ Ours(h) /\ escrows[h].state = "Locked"
        /\ \/ pdas[h] = lez_amount /\ pending[FundTx(h)] = 0
           \/ pdas[h] = 0 /\ pending[FundTx(h)] = 1
        /\ mem.in_flight[h] # NoEntry /\ mem.in_flight[h].swap_id \in Answered(h)
        /\ pending[FundTx(h)] > 0 => 1000 * now < escrows[h].timelock
    BY <1>0, <1>3 DEF RiskOK
  <2>2. pdas'[h] > 0 \/ pending'[FundTx(h)] > 0
    BY <1>0 DEF AtRisk
  <2>3. CASE Left(h)
    BY <2>1, <2>3 DEF Left
  <2>4. CASE PaymentLost(h)
    BY <1>0, <2>1, <2>2, <2>4 DEF PaymentLost
  <2>5. CASE PaymentMade(h)
    BY <1>0, <2>1, <2>2, <2>5 DEF PaymentMade
  <2> QED BY <2>3, <2>4, <2>5
<1>5. ClaimedKept(h)'
  BY <1>0, <1>1, <1>2 DEF ClaimedKept
<1>6. TaskOK(h)'
  <2> SUFFICES ASSUME task[h] # Idle
               PROVE  Fits(h, task[h], mem.in_flight[h])'
    BY DEF TaskOK
  <2>1. /\ Placed(task[h]) /\ Journaled(task[h], mem.in_flight[h]) /\ Answers(h, task[h])
        /\ Settling(h, task[h]) /\ Judging(h, task[h])
    BY AtTask DEF Fits
  <2>2. Placed(task[h])' /\ Journaled(task[h], mem.in_flight[h])'
    BY <2>1 DEF Placed, Journaled
  <2>3. Answers(h, task[h])'
    BY <1>1, <1>2, <1>3, <2>1 DEF Answers, ToAnswer, Confirmed
  <2>4. Settling(h, task[h])'
    BY <1>2, <2>1 DEF Settling, Settled, EthSettled
  <2>5. Judging(h, task[h])'
    BY <1>1, <1>2, <1>3, <2>1 DEF Judging, Wedged
  <2> QED BY <2>2, <2>3, <2>4, <2>5 DEF Fits
<1>7. Ours(h)' => /\ escrows'[h].amount = lez_amount
                  /\ escrows'[h].timelock = 1000 * (escrows'[h].timelock \div 1000)
  BY <1>0, <1>1, <1>2 DEF OwnTerms
<1> QED
  BY <1>3, <1>4, <1>5, <1>6, <1>7 DEF AccountKept

(***************************************************************************)
(* An escrow is created where there was none: nothing had been paid.       *)
(***************************************************************************)
LEMMA NewEscrow ==
    ASSUME Inv, now' = now, htlcs' = htlcs, ethPool' = ethPool, mem' = mem,
           task' = task, NEW h \in Hashlocks, Created(h)
    PROVE  AccountKept(h)
<1>0. RiskOK(h) /\ (FundTx(h))' = FundTx(h)
  BY DEF Inv, FundTx
<1>1. ~Ours(h) /\ ~AtRisk(h) /\ StateOf(h) = "None"
  BY <1>0 DEF Created, Ours, RiskOK, StateOf
<1>2. ~AtRisk(h)'
  BY <1>0, <1>1 DEF AtRisk, Created
<1>3. escrows'[h] # NoEscrow /\ escrows'[h].state = "Locked"
  BY DEF Created
<1>4. TaskOK(h)'
  <2> SUFFICES ASSUME task[h] # Idle
               PROVE  Fits(h, task[h], mem.in_flight[h])'
    BY DEF TaskOK
  <2>1. /\ Placed(task[h]) /\ Journaled(task[h], mem.in_flight[h]) /\ Answers(h, task[h])
        /\ Settling(h, task[h]) /\ Judging(h, task[h])
    BY AtTask DEF Fits
  <2>2. Placed(task[h])' /\ Journaled(task[h], mem.in_flight[h])'
    BY <2>1 DEF Placed, Journaled
  <2>3. Answers(h, task[h])'
    <3>1. task[h].step # "fund"
      BY <1>1, <2>1 DEF Answers, Confirmed, Fresh
    <3> QED BY <1>2, <2>1, <3>1 DEF Answers, ToAnswer
  <2>4. Settling(h, task[h])'
    <3>1. ~Settled(h)
      BY <1>1 DEF Settled
    <3> QED BY <1>1, <2>1, <3>1 DEF Settling
  <2>5. Judging(h, task[h])'
    <3>1. task[h].step \notin {"balance", "decide", "pre", "rebalance", "post"}
      BY <2>1 DEF Judging, Created
    <3> QED BY <1>2, <1>3, <2>1, <3>1 DEF Judging, Wedged
  <2> QED BY <2>2, <2>3, <2>4, <2>5 DEF Fits
<1>5. RiskOK(h)' /\ ClaimedKept(h)'
  BY <1>2, <1>3 DEF RiskOK, ClaimedKept
<1>6. Ours(h)' => /\ escrows'[h].amount = lez_amount
                  /\ escrows'[h].timelock = 1000 * (escrows'[h].timelock \div 1000)
  BY DEF Ours, Created
<1> QED
  BY <1>2, <1>4, <1>5, <1>6 DEF AccountKept

(***************************************************************************)
(* An escrow ends.  If it is the maker's, it held the maker's payment, the *)
(* request is in the journal, and no task went on without it.              *)
(***************************************************************************)
LEMMA EscrowEnds ==
    ASSUME Inv, now' = now, htlcs' = htlcs, ethPool' = ethPool, mem' = mem,
           task' = task, NEW h \in Hashlocks, Ended(h)
    PROVE  AccountKept(h)
<1>0. /\ RiskOK(h) /\ OwnTerms /\ (FundTx(h))' = FundTx(h) /\ escrows[h].amount \in Nat
      /\ lez_amount \in Nat \ {0} /\ pdas[h] \in Nat /\ pending[FundTx(h)] \in Nat
  BY EscrowType, BotAssumption DEF Inv, ChainTypes, FundTx, Ended
<1>1. /\ escrows[h] # NoEscrow /\ escrows'[h] # NoEscrow
      /\ escrows'[h].maker_id = escrows[h].maker_id
      /\ escrows'[h].taker_id = escrows[h].taker_id
      /\ escrows'[h].amount = escrows[h].amount /\ escrows'[h].timelock = escrows[h].timelock
      /\ escrows[h].state = "Locked" /\ escrows'[h].state \in {"Claimed", "Refunded"}
      /\ pdas[h] >= escrows[h].amount /\ pdas'[h] = pdas[h] - escrows[h].amount
      /\ pending'[FundTx(h)] = pending[FundTx(h)]
  BY DEF Ended, SameTerms
<1>2. /\ Ours(h)' <=> Ours(h)
      /\ StateOf(h) = "Locked" /\ Answered(h)' = Answered(h)
  BY <1>1 DEF Ours, StateOf, Answered
<1>3. Ours(h) => AtRisk(h)
  BY <1>0, <1>1 DEF OwnTerms, AtRisk
<1>4. ~AtRisk(h)'
  <2>1. CASE Ours(h)
    <3>1. escrows[h].amount = lez_amount
      BY <1>0, <2>1 DEF OwnTerms
    <3>2. pdas[h] = lez_amount /\ pending[FundTx(h)] = 0
      BY <1>0, <1>1, <1>3, <2>1, <3>1 DEF RiskOK
    <3> QED BY <1>0, <1>1, <3>1, <3>2 DEF AtRisk
  <2>2. CASE ~Ours(h)
    <3>1. pdas[h] = 0 /\ pending[FundTx(h)] = 0
      BY <1>0, <2>2 DEF RiskOK, AtRisk
    <3> QED BY <1>0, <1>1, <3>1 DEF AtRisk
  <2> QED BY <2>1, <2>2
<1>5. TaskOK(h)'
  <2> SUFFICES ASSUME task[h] # Idle
               PROVE  Fits(h, task[h], mem.in_flight[h])'
    BY DEF TaskOK
  <2>1. /\ Placed(task[h]) /\ Journaled(task[h], mem.in_flight[h]) /\ Answers(h, task[h])
        /\ Settling(h, task[h]) /\ Judging(h, task[h])
    BY AtTask DEF Fits
  <2>2. Placed(task[h])' /\ Journaled(task[h], mem.in_flight[h])'
    BY <2>1 DEF Placed, Journaled
  <2>3. Answers(h, task[h])'
    <3>1. task[h].step # "fund"
      BY <1>3, <2>1 DEF Answers, Confirmed, Fresh
    <3> QED BY <1>4, <2>1, <3>1 DEF Answers, ToAnswer
  <2>4. Settling(h, task[h])'
    <3>1. ~Settled(h)
      BY <1>2 DEF Settled
    <3> QED BY <1>2, <2>1, <3>1 DEF Settling
  <2>5. Judging(h, task[h])'
    <3>1. task[h].step \in {"rebalance", "post"} => task[h].pre # "Claimed"
      BY <1>2, <2>1 DEF Judging
    <3>2. task[h].step = "quarantine" => ~Ours(h)
      BY <1>3, <2>1 DEF Judging, Wedged
    <3> QED BY <1>1, <1>2, <1>4, <2>1, <3>1, <3>2 DEF Judging, Wedged
  <2> QED BY <2>2, <2>3, <2>4, <2>5 DEF Fits
<1>6. RiskOK(h)'
  BY <1>4 DEF RiskOK
<1>7. ClaimedKept(h)'
  BY <1>0, <1>2, <1>3 DEF RiskOK, ClaimedKept
<1>8. Ours(h)' => /\ escrows'[h].amount = lez_amount
                  /\ escrows'[h].timelock = 1000 * (escrows'[h].timelock \div 1000)
  BY <1>0, <1>1, <1>2 DEF OwnTerms
<1> QED
  BY <1>4, <1>5, <1>6, <1>7, <1>8 DEF AccountKept

(***************************************************************************)
(* In a step of the sequencer each account takes its step, and what was    *)
(* known of it stays known.                                                *)
(***************************************************************************)
LEMMA SequenceKeeps ==
    ASSUME Inv, NEW tx \in Txs, Sequence(tx)
    PROVE  /\ Fault \/ NoFault
           /\ now' = now /\ htlcs' = htlcs /\ events' = events /\ balances' = balances
           /\ held' = held /\ frames' = frames /\ ethPool' = ethPool
           /\ mem' = mem /\ task' = task
           /\ Lez!TypeOK' /\ \A h \in Hashlocks : AccountStep(h) /\ AccountKept(h)
<1>1. /\ Executes(tx) \/ Lez!Drop(tx)
      /\ Fault \/ NoFault
      /\ UNCHANGED <<now, ethVars, ethPool, botVars>>
  BY DEF Sequence
<1>2. /\ now' = now /\ htlcs' = htlcs /\ events' = events /\ balances' = balances
      /\ held' = held /\ frames' = frames /\ ethPool' = ethPool
      /\ mem' = mem /\ task' = task
  BY <1>1 DEF ethVars, botVars
<1>3. Lez!TypeOK' /\ \A h \in Hashlocks : AccountStep(h)
  BY <1>1, <1>2, LezStep DEF Inv, ChainTypes
<1>4. \A h \in Hashlocks : AccountKept(h)
  BY <1>2, <1>3, SameEscrow, NewEscrow, EscrowEnds DEF AccountStep
<1> QED
  BY <1>1, <1>2, <1>3, <1>4

(***************************************************************************)
(* So the sequencer keeps the invariant.                                   *)
(***************************************************************************)
LEMMA SequenceStep ==
    ASSUME Inv, NEW tx \in Txs, Sequence(tx)
    PROVE  Inv'
<1>1. Fault \/ NoFault
  BY SequenceKeeps
<1>2. /\ now' = now /\ htlcs' = htlcs /\ events' = events /\ balances' = balances
      /\ held' = held /\ frames' = frames /\ ethPool' = ethPool
      /\ Lez!TypeOK' /\ \A h \in Hashlocks : AccountKept(h)
  BY SequenceKeeps
<1>3. UNCHANGED botVars
  BY DEF Sequence
<1>4. ChainTypes'
  <2>1. Eth!TypeOK'
    BY <1>2 DEF Inv, ChainTypes, Eth!TypeOK
  <2> QED BY <1>2, <2>1 DEF Inv, ChainTypes
<1>5. EthOK'
  <2>1. \A id \in SwapIds : Delivered(id)' <=> Delivered(id)
    BY <1>2 DEF Delivered
  <2> QED BY <1>2, <2>1 DEF Inv, EthOK
<1> QED
  BY <1>1, <1>2, <1>3, <1>4, <1>5, WorldStep DEF AccountKept

(***************************************************************************)
(* The clock.  A lock under way is confirmed in time, and a payment under  *)
(* way is executed before its escrow expires.                              *)
(***************************************************************************)
LEMMA TickStep ==
    ASSUME Inv, Tick
    PROVE  Inv'
<1>1. /\ now' = now + 1 /\ now < MaxTime /\ htlcs' = htlcs /\ events' = events
      /\ balances' = balances /\ held' = held /\ frames' = frames /\ ethPool' = ethPool
      /\ escrows' = escrows /\ pdas' = pdas /\ wallets' = wallets /\ pending' = pending
      /\ mem' = mem /\ task' = task /\ UNCHANGED botVars /\ NoFault
  BY DEF Tick, Eth!Tick, lezVars, botVars
<1>2. Eth!TypeOK /\ Lez!TypeOK /\ ethPool \subseteq SwapIds /\ now \in Nat /\ MaxTime \in Nat
  BY ChainsAssumption DEF Inv, ChainTypes, Lez!TypeOK
<1>3. ChainTypes'
  <2>1. Eth!TypeOK'
    BY <1>1, <1>2 DEF Eth!TypeOK
  <2>2. Lez!TypeOK'
    BY <1>1, <1>2 DEF Lez!TypeOK
  <2> QED BY <1>1, <1>2, <2>1, <2>2 DEF ChainTypes
<1>4. EthOK'
  <2>1. \A id \in SwapIds : Delivered(id)' <=> Delivered(id)
    BY <1>1 DEF Delivered
  <2>2. now' <= MaxTime
    BY <1>1, <1>2
  <2> QED BY <1>1, <2>1, <2>2 DEF Inv, EthOK
<1>5. ASSUME NEW h \in Hashlocks
      PROVE  /\ (AtRisk(h)' <=> AtRisk(h)) /\ (Ours(h)' <=> Ours(h))
             /\ StateOf(h)' = StateOf(h) /\ Answered(h)' = Answered(h)
             /\ (FundTx(h))' = FundTx(h)
  BY <1>1 DEF AtRisk, Ours, StateOf, Answered, FundTx
<1>6. ASSUME NEW h \in Hashlocks PROVE RiskOK(h)'
  <2>1. RiskOK(h)
    BY DEF Inv
  <2>2. pending[FundTx(h)] > 0 /\ Ours(h) => 1000 * (now + 1) < escrows[h].timelock
    BY DEF Tick, FundingIsPrompt, Ours
  <2>3. pending[FundTx(h)] > 0 => AtRisk(h)
    BY DEF AtRisk
  <2>4. pending'[FundTx(h)] > 0 /\ Ours(h) => 1000 * now' < escrows'[h].timelock
    BY <1>1, <2>2
  <2> QED BY <1>1, <1>5, <2>1, <2>4 DEF RiskOK
<1>7. ASSUME NEW h \in Hashlocks PROVE ClaimedKept(h)'
  BY <1>1, <1>5 DEF Inv, ClaimedKept
<1>8. ASSUME NEW h \in Hashlocks PROVE TaskOK(h)'
  <2> SUFFICES ASSUME task[h] # Idle
               PROVE  Fits(h, task[h], mem.in_flight[h])'
    BY <1>1 DEF TaskOK
  <2>1. /\ Placed(task[h]) /\ Journaled(task[h], mem.in_flight[h]) /\ Answers(h, task[h])
        /\ Settling(h, task[h]) /\ Judging(h, task[h]) /\ task[h].deadline \in Nat
    BY AtTask DEF Fits
  <2>2. Placed(task[h])' /\ Journaled(task[h], mem.in_flight[h])'
    BY <1>1, <2>1 DEF Placed, Journaled
  <2>3. Answers(h, task[h])'
    <3>1. task[h].step \notin Early \cup {"fund"}
      BY DEF Tick, LockIsPrompt, At, Early
    <3>2. task[h].step = "confirm" => ~(now >= task[h].deadline)
      BY DEF Tick, LockIsPrompt, At, Late
    <3>3. task[h].step = "confirm" => now' <= task[h].deadline
      BY <1>1, <1>2, <2>1, <3>2
    <3> QED
      BY <1>1, <1>5, <2>1, <3>1, <3>3 DEF Answers, ToAnswer, Fresh, Early
  <2>4. Settling(h, task[h])'
    BY <1>1, <1>5, <2>1 DEF Settling, Settled, EthSettled
  <2>5. Judging(h, task[h])'
    <3>1. escrows[h] # NoEscrow /\ 1000 * now >= escrows[h].timelock =>
              1000 * now' >= escrows'[h].timelock
      BY <1>1, <1>2, EscrowType
    <3> QED
      BY <1>1, <1>5, <2>1, <3>1 DEF Judging, Wedged
  <2> QED BY <2>2, <2>3, <2>4, <2>5 DEF Fits
<1>9. ASSUME NEW h \in Hashlocks
      PROVE  Ours(h)' => /\ escrows'[h].amount = lez_amount
                         /\ escrows'[h].timelock = 1000 * (escrows'[h].timelock \div 1000)
  BY <1>1, <1>5 DEF Inv, OwnTerms
<1> QED
  BY <1>1, <1>3, <1>4, <1>5, <1>6, <1>7, <1>8, <1>9, WorldStep

-----------------------------------------------------------------------------
(***************************************************************************)
(* The invariant holds at the start, and every step keeps it.              *)
(***************************************************************************)
LEMMA InitInv ==
    ASSUME Init
    PROVE  Inv
<1>1. /\ now = 0 /\ htlcs = [id \in SwapIds |-> "EMPTY"] /\ events = <<>>
      /\ escrows = [h \in Hashlocks |-> NoEscrow] /\ pdas = [h \in Hashlocks |-> 0]
      /\ pending = [tx \in Txs |-> 0] /\ ethPool = {}
      /\ mem = EmptyState /\ disk = EmptyState /\ pc = "down" /\ queue = {}
      /\ task = [h \in Hashlocks |-> Idle] /\ rejected = {}
      /\ ops = [h \in Hashlocks |-> "none"] /\ faults = 0
  BY DEF Init, Eth!Init, Lez!Init
<1>2. ChainTypes
  <2>1. Eth!TypeOK
    BY ChainsAssumption DEF Init, Eth!Init, Eth!TypeOK, Eth!SwapState
  <2>2. Lez!TypeOK
    BY ChainsAssumption DEF Init, Lez!Init, Lez!TypeOK
  <2> QED BY <1>1, <2>1, <2>2 DEF ChainTypes
<1>3. EmptyState \in BotState /\ \A h \in Hashlocks : EmptyState.in_flight[h] = NoEntry
  BY DEF EmptyState, BotState
<1>4. BotTypes
  <2>1. task \in [Hashlocks -> Task \cup {Idle}]
    BY <1>1
  <2>2. IsFiniteSet(rejected) /\ Cardinality(rejected) <= MAX_REJECTED
    BY <1>1, FS_EmptySet, BotAssumption
  <2> QED BY <1>1, <1>3, <2>1, <2>2, BotAssumption DEF BotTypes
<1>5. /\ \A id \in SwapIds : htlcs[id] = "EMPTY" /\ ~Delivered(id)
      /\ \A h \in Hashlocks : /\ ~Ours(h) /\ ~AtRisk(h) /\ task[h] = Idle
                              /\ mem.in_flight[h] = NoEntry /\ disk.in_flight[h] = NoEntry
  <2>1. \A h \in Hashlocks : ~AtRisk(h)
    <3>1. \A tx \in Txs : pending[tx] = 0
      BY <1>1
    <3>2. ASSUME NEW h \in Hashlocks
          PROVE  pdas[h] = 0 /\ pending[FundTx(h)] = 0
      BY <1>1, <3>1, OwnTxs
    <3>3. ASSUME NEW h \in Hashlocks
          PROVE  ~AtRisk(h)
      BY <3>2, SMT DEF AtRisk
    <3> QED BY <3>3
  <2>2. \A id \in SwapIds : htlcs[id] = "EMPTY" /\ ~Delivered(id)
    BY <1>1 DEF Delivered
  <2> QED BY <1>1, <1>3, <2>1, <2>2 DEF Ours
<1>6. EthOK
  BY <1>1, <1>5, ChainsAssumption DEF EthOK
<1>7. OwnTerms /\ JournalOK /\ OneAtRisk
  BY <1>5 DEF OwnTerms, JournalOK, OneAtRisk
<1>8. Control
  BY <1>1, <1>5 DEF Control
<1>9. \A h \in Hashlocks : TaskOK(h) /\ RiskOK(h) /\ ClaimedKept(h)
  BY <1>5 DEF TaskOK, RiskOK, ClaimedKept
<1> QED
  BY <1>2, <1>4, <1>6, <1>7, <1>8, <1>9 DEF Inv

(***************************************************************************)
(* Every step keeps the invariant.                                         *)
(***************************************************************************)
LEMMA NextInv ==
    ASSUME Inv, [Next]_vars
    PROVE  Inv'
<1>1. CASE UNCHANGED vars
  <2>1. NoChain /\ NoFault /\ UNCHANGED <<mem, disk, pc, queue, task, rejected, ops>>
    BY <1>1 DEF vars, NoChain, NoFault, botVars
  <2>2. Calm
    BY <2>1, CalmNoChain DEF Inv, BotTypes
  <2>3. BotTypes'
    BY <2>1, <2>2 DEF Inv, BotTypes, Calm
  <2>4. Control'
    BY <2>1 DEF Inv, Control
  <2> QED BY <2>1, <2>2, <2>3, <2>4, LoopStep
<1>2. CASE Environment
  BY <1>2, TakerLocksStep, TakerClaimsLezStep, OthersSubmitStep, SequenceStep, MineClaimStep,
     TickStep DEF Environment
<1> QED
  BY <1>1, <1>2, BotKeepsInv DEF Next

(***************************************************************************)
(* The invariant holds in every behaviour.                                 *)
(***************************************************************************)
LEMMA Invariance == Spec => []Inv
<1>1. Init => Inv
  BY InitInv
<1>2. Inv /\ [Next]_vars => Inv'
  BY NextInv
<1> QED
  BY <1>1, <1>2, PTL DEF Spec

(***************************************************************************)
(* Every variable of the bot and of both chains keeps its type: balances   *)
(* never go below zero and the set of remembered rejections is bounded.    *)
(***************************************************************************)
THEOREM TypeCorrect == Spec => []TypeOK
<1>1. Inv => TypeOK
  BY DEF Inv, ChainTypes, BotTypes, TypeOK
<1> QED
  BY <1>1, Invariance, PTL

(***************************************************************************)
(* The maker's LEZ is only ever in, or on its way into, an own locked      *)
(* escrow for exactly this much that answers an ETH lock made for it: for  *)
(* any number of swaps, takers, faults and restarts.                       *)
(***************************************************************************)
THEOREM LezStaysOwn == Spec => []LezOnlyInOwnEscrow
<1>1. ASSUME Inv, NEW h \in Hashlocks, pdas[h] + lez_amount * pending[FundTx(h)] > 0
      PROVE  /\ Ours(h) /\ escrows[h].state = "Locked"
             /\ pdas[h] + lez_amount * pending[FundTx(h)] = lez_amount
             /\ escrows[h].amount = lez_amount /\ Answered(h) # {}
  <2>1. lez_amount \in Nat /\ pdas[h] \in Nat /\ pending[FundTx(h)] \in Nat
    BY <1>1, EscrowType, OwnTxs, BotAssumption DEF Inv, ChainTypes, Lez!TypeOK
  <2>2. AtRisk(h)
    <3>1. pending[FundTx(h)] = 0 => lez_amount * pending[FundTx(h)] = 0
      BY <2>1
    <3> QED BY <1>1, <2>1, <3>1 DEF AtRisk
  <2>3. /\ Ours(h) /\ escrows[h].state = "Locked"
        /\ \/ pdas[h] = lez_amount /\ pending[FundTx(h)] = 0
           \/ pdas[h] = 0 /\ pending[FundTx(h)] = 1
        /\ Answered(h) # {}
    BY <1>1, <2>2 DEF Inv, RiskOK
  <2>4. pdas[h] + lez_amount * pending[FundTx(h)] = lez_amount
    BY <2>1, <2>3
  <2> QED BY <1>1, <2>3, <2>4 DEF Inv, OwnTerms
<1>2. Inv => LezOnlyInOwnEscrow
  BY <1>1 DEF LezOnlyInOwnEscrow
<1> QED
  BY <1>2, Invariance, PTL

(***************************************************************************)
(* Whatever can still be recovered is in the journal on disk, after any    *)
(* sequence of crashes, failed writes and ambiguous reads.                 *)
(***************************************************************************)
THEOREM NothingForgotten == Spec => []RecoverableIsJournaled
<1>1. ASSUME Inv, NEW h \in Hashlocks, Ours(h)
      PROVE  /\ pdas[h] + pending[FundTx(h)] > 0 => disk.in_flight[h] # NoEntry
             /\ escrows[h].state = "Claimed" /\ Answered(h) # {} =>
                   \E id \in Answered(h) :
                       htlcs[id] = "OPEN" => /\ disk.in_flight[h] # NoEntry
                                             /\ disk.in_flight[h].swap_id = id
  <2>1. /\ RiskOK(h) /\ ClaimedKept(h)
        /\ mem.in_flight[h] # NoEntry => /\ disk.in_flight[h] # NoEntry
                                         /\ disk.in_flight[h].swap_id = mem.in_flight[h].swap_id
    BY <1>1 DEF Inv, JournalOK
  <2>2. pdas[h] + pending[FundTx(h)] > 0 => AtRisk(h)
    BY <1>1, EscrowType DEF Inv, ChainTypes, AtRisk
  <2>3. pdas[h] + pending[FundTx(h)] > 0 => disk.in_flight[h] # NoEntry
    BY <2>1, <2>2 DEF RiskOK
  <2>4. escrows[h].state = "Claimed" =>
            \E id \in Answered(h) :
                htlcs[id] = "OPEN" => /\ disk.in_flight[h] # NoEntry
                                      /\ disk.in_flight[h].swap_id = id
    BY <1>1, <2>1 DEF ClaimedKept
  <2> QED BY <2>3, <2>4
<1>2. Inv => RecoverableIsJournaled
  BY <1>1 DEF RecoverableIsJournaled
<1> QED
  BY <1>2, Invariance, PTL

(***************************************************************************)
(* The maker's LEZ is at risk in one escrow at a time.                     *)
(***************************************************************************)
THEOREM OneAtATime == Spec => []OneSwapAtRisk
<1>1. ASSUME Inv, NEW h \in Hashlocks, pdas[h] + pending[FundTx(h)] > 0
      PROVE  AtRisk(h)
  BY <1>1, EscrowType DEF Inv, ChainTypes, AtRisk
<1>2. Inv => OneSwapAtRisk
  BY <1>1 DEF Inv, OneAtRisk, OneSwapAtRisk
<1> QED
  BY <1>2, Invariance, PTL

-----------------------------------------------------------------------------
(***************************************************************************)
(* The bot calls the chains from outside: it may hand a transaction to the *)
(* sequencer, and a claim to Ethereum, and changes nothing there itself.   *)
(***************************************************************************)
FromOutside ==
    /\ UNCHANGED <<now, ethVars>>
    /\ UNCHANGED lezVars \/ \E tx \in Txs : Lez!Submit(tx)

(***************************************************************************)
(* What the bot does to the chains, it does by calls they offer.           *)
(***************************************************************************)
LEMMA BotCalls ==
    ASSUME Inv, \/ BotStep \/ WatchTimesOut \/ Crash
                \/ \E id \in SwapIds : RejectLock(id)
    PROVE  FromOutside
<1>1. ASSUME NoChain PROVE FromOutside
  BY <1>1 DEF NoChain, FromOutside
<1>2. ASSUME NEW h \in Hashlocks, TaskStep(h)
      PROVE  FromOutside
  <2>1. CASE SubmitLock(h)
    <3> DEFINE tx == LockTx(h, task[h].swap_id.takerLezAccount, 1000 * task[h].expiry)
    <3>1. UNCHANGED <<now, ethVars>> /\ (Lez!Submit(tx) \/ UNCHANGED lezVars)
      BY <2>1 DEF SubmitLock, Send
    <3>2. tx \in Txs
      BY <2>1, LockIsTx DEF SubmitLock, At
    <3> HIDE DEF tx
    <3> QED BY <3>1, <3>2 DEF FromOutside
  <2>2. CASE FundEscrow(h) \/ RefundPoll(h)
    <3>1. FundTx(h) \in Txs /\ RefundTx(h) \in Txs
      BY <1>2, OwnTxs
    <3>2. /\ UNCHANGED <<now, ethVars>>
          /\ Lez!Submit(FundTx(h)) \/ Lez!Submit(RefundTx(h)) \/ UNCHANGED lezVars
      BY <2>2 DEF FundEscrow, RefundPoll, Send
    <3> QED BY <3>1, <3>2 DEF FromOutside
  <2>3. CASE ClaimEth(h) \/ ClaimErrs(h)
    BY <2>3 DEF ClaimEth, ClaimErrs, FromOutside
  <2>4. CASE \/ Record(h) \/ Accepted(h) \/ CheckBeforeFund(h) \/ ConfirmLock(h)
             \/ ConfirmFunding(h) \/ PollFails(h) \/ MarkFunded(h)
    BY <1>1, <2>4 DEF Record, Accepted, CheckBeforeFund, ConfirmLock, ConfirmFunding,
                      PollFails, MarkFunded
  <2>5. CASE \/ EscrowEvent(h) \/ TimelockExpires(h) \/ RefundFails(h) \/ ClaimReceipt(h)
             \/ Clear(h) \/ Quarantine(h) \/ RecordOutcome(h)
    BY <1>1, <2>5 DEF EscrowEvent, TimelockExpires, RefundFails, ClaimReceipt, Clear,
                      Quarantine, RecordOutcome
  <2>6. CASE \/ NextEntry(h) \/ ReadEscrow(h) \/ ReadBalance(h) \/ Decide(h)
             \/ RereadState(h) \/ RereadBalance(h) \/ JudgeWedge(h)
    BY <1>1, <2>6 DEF NextEntry, ReadEscrow, ReadBalance, Decide, RereadState,
                      RereadBalance, JudgeWedge
  <2> QED
    BY <1>2, <2>1, <2>2, <2>3, <2>4, <2>5, <2>6 DEF TaskStep
<1>3. ASSUME \/ Start \/ Drained \/ StartIteration \/ WatchTimesOut \/ Crash
             \/ \E id \in SwapIds : AcceptLock(id) \/ RejectLock(id)
      PROVE  FromOutside
  BY <1>1, <1>3 DEF Start, Drained, StartIteration, WatchTimesOut, Crash, AcceptLock,
                    RejectLock
<1> QED
  BY <1>2, <1>3 DEF BotStep

(***************************************************************************)
(* Every step is one that the contract allows, or leaves it alone.         *)
(***************************************************************************)
LEMMA EthFollows ==
    ASSUME Inv, [Next]_vars
    PROVE  [Eth!Next]_(Eth!vars)
<1>1. ASSUME UNCHANGED <<now, ethVars>>
      PROVE  UNCHANGED Eth!vars
  BY <1>1 DEF ethVars, Eth!vars
<1>2. CASE UNCHANGED vars
  BY <1>1, <1>2 DEF vars
<1>3. CASE \E id \in SwapIds : TakerLocks(id) \/ TakerRefunds(id) \/ MineClaim(id)
  BY <1>1, <1>3 DEF TakerLocks, TakerRefunds, MineClaim, Eth!Next
<1>4. CASE \/ \E id \in SwapIds, p \in Preimages : TakerClaimsLez(id, p)
           \/ \E tx \in OtherTxs : OthersSubmit(tx)
           \/ \E tx \in Txs : Sequence(tx)
  BY <1>1, <1>4 DEF TakerClaimsLez, OthersSubmit, Sequence
<1>5. CASE Tick
  BY <1>5 DEF Tick, Eth!Next
<1>6. CASE \/ BotStep \/ WatchTimesOut \/ Crash
           \/ \E id \in SwapIds : RejectLock(id)
  BY <1>1, <1>6, BotCalls DEF FromOutside
<1> QED
  BY <1>2, <1>3, <1>4, <1>5, <1>6 DEF Next, Environment

(***************************************************************************)
(* Every step is one that the LEZ program and its sequencer allow, or      *)
(* leaves LEZ alone.                                                       *)
(***************************************************************************)
LEMMA LezFollows ==
    ASSUME Inv, [Next]_vars
    PROVE  [Lez!Next]_(Lez!vars)
<1>1. ASSUME UNCHANGED <<now, lezVars>>
      PROVE  UNCHANGED Lez!vars
  BY <1>1 DEF lezVars, Lez!vars
<1>2. ASSUME NEW tx \in Txs, now' = now, Lez!Submit(tx) \/ Executes(tx) \/ Lez!Drop(tx)
      PROVE  Lez!Next
  BY <1>2 DEF Lez!Next, Executes, Lez!Sequencer
<1>3. CASE UNCHANGED vars
  BY <1>1, <1>3 DEF vars
<1>4. CASE \E id \in SwapIds : TakerLocks(id) \/ TakerRefunds(id) \/ MineClaim(id)
  <2>1. now' = now /\ UNCHANGED lezVars
    BY <1>4 DEF TakerLocks, TakerRefunds, MineClaim, Eth!lock, Eth!refund, Eth!claim
  <2> QED
    BY <1>1, <2>1
<1>5. CASE \E id \in SwapIds, p \in Preimages : TakerClaimsLez(id, p)
  <2>1. PICK id \in SwapIds, p \in Preimages : TakerClaimsLez(id, p)
    BY <1>5
  <2>2. TakerClaimTx(id, p) \in Txs
    BY <2>1 DEF TakerClaimsLez, Txs, TakerClaims
  <2> QED
    BY <1>2, <2>1, <2>2 DEF TakerClaimsLez
<1>6. CASE \E tx \in OtherTxs : OthersSubmit(tx)
  BY <1>2, <1>6 DEF OthersSubmit, Txs
<1>7. CASE \E tx \in Txs : Sequence(tx)
  BY <1>2, <1>7 DEF Sequence
<1>8. CASE Tick
  BY <1>8 DEF Tick, Eth!Tick, Lez!Next, Lez!Tick, lezVars, Lez!lezVars
<1>9. CASE \/ BotStep \/ WatchTimesOut \/ Crash
           \/ \E id \in SwapIds : RejectLock(id)
  <2>1. FromOutside
    BY <1>9, BotCalls
  <2> QED
    BY <1>1, <1>2, <2>1 DEF FromOutside
<1> QED
  BY <1>3, <1>4, <1>5, <1>6, <1>7, <1>8, <1>9 DEF Next, Environment

(***************************************************************************)
(* Composition: whatever the bot, the takers and others do, crashes and    *)
(* retries included, the contract sees a behaviour of EthHTLC and the LEZ  *)
(* program one of LezHTLC, so what is proved of those two holds here too.  *)
(***************************************************************************)
THEOREM ChainsAreFollowed == Spec => Eth!Spec /\ Lez!Spec
<1>1. Init => Eth!Init /\ Lez!Init
  BY DEF Init
<1>2. Inv /\ [Next]_vars => [Eth!Next]_(Eth!vars)
  BY EthFollows
<1>3. Inv /\ [Next]_vars => [Lez!Next]_(Lez!vars)
  BY LezFollows
<1> QED
  BY <1>1, <1>2, <1>3, Invariance, PTL DEF Spec, Eth!Spec, Lez!Spec

-----------------------------------------------------------------------------
(***************************************************************************)
(* The prompt world: the proof that the margin is enough.  A fault costs   *)
(* one poll, and they add up to less than the margin.                      *)
(***************************************************************************)
LEMMA SlackType ==
    ASSUME faults \in 0..MaxFaults
    PROVE  /\ Slack \in Nat /\ Slack <= PollSecs * MaxFaults
           /\ faults > 0 => PollSecs <= Slack
<1>1. PollSecs \in Nat /\ MaxFaults \in Nat /\ faults \in Nat /\ faults <= MaxFaults
  BY BotAssumption
<1>2. ASSUME NEW p \in Nat, NEW m \in Nat, NEW n \in Nat, m <= n
      PROVE  p * m \in Nat /\ p * m <= p * n /\ (m > 0 => p <= p * m)
  <2>1. PICK d \in Nat : n = m + d
    <3>1. n - m \in Nat /\ n = m + (n - m)
      BY <1>2
    <3> QED BY <3>1
  <2>2. p * d \in Nat /\ p * m \in Nat /\ p * n = p * m + p * d
    BY <2>1
  <2>3. m > 0 => p <= p * m
    <3> SUFFICES ASSUME m > 0 PROVE p <= p * m
      OBVIOUS
    <3>1. PICK e \in Nat : m = e + 1
      <4>1. m - 1 \in Nat /\ m = (m - 1) + 1
        BY <1>2
      <4> QED BY <4>1
    <3>2. p * e \in Nat /\ p * m = p * e + p
      BY <3>1
    <3> QED BY <3>2
  <2> QED BY <2>2, <2>3
<1> QED
  BY <1>1, <1>2 DEF Slack

(***************************************************************************)
(* Faults only become more.                                                *)
(***************************************************************************)
LEMMA SlackGrows ==
    ASSUME faults \in 0..MaxFaults, Fault \/ NoFault
    PROVE  /\ Slack \in Nat /\ Slack' \in Nat /\ Slack <= Slack'
           /\ faults > 0 => faults' > 0
           /\ Fault => Slack' = Slack + PollSecs /\ faults' > 0
<1>1. Slack \in Nat /\ PollSecs \in Nat /\ faults \in Nat
  BY SlackType, BotAssumption
<1>2. CASE NoFault
  <2>1. Slack' = Slack /\ faults' = faults /\ ~Fault
    BY <1>1, <1>2 DEF NoFault, Slack, Fault
  <2> QED BY <1>1, <2>1
<1>3. CASE Fault
  <2>1. faults' = faults + 1
    BY <1>3 DEF Fault
  <2>2. Slack' = Slack + PollSecs
    BY <1>1, <2>1 DEF Slack
  <2> QED BY <1>1, <2>1, <2>2
<1> QED
  BY <1>2, <1>3

(***************************************************************************)
(* Later faults leave what was in time in time.                            *)
(***************************************************************************)
LEMMA StaysInTime ==
    ASSUME Inv, Fault \/ NoFault, NEW h \in Hashlocks, NEW n \in Nat, escrows[h] # NoEscrow,
           escrows'[h].timelock = escrows[h].timelock, InTime(h, n)
    PROVE  1000 * n <= escrows'[h].timelock + 1000 * Slack'
<1>1. faults \in 0..MaxFaults /\ escrows[h].timelock \in Nat
  BY EscrowType DEF Inv, BotTypes, ChainTypes
<1>2. Slack \in Nat /\ Slack' \in Nat /\ Slack <= Slack'
  BY <1>1, SlackGrows
<1>3. 1000 * n <= escrows[h].timelock + 1000 * Slack
  BY DEF InTime
<1> QED
  BY <1>1, <1>2, <1>3

(***************************************************************************)
(* A step of the bot but for the funding: it is quiet, transactions are    *)
(* only handed in, and it costs at most one fault.                         *)
(***************************************************************************)
Pace ==
    /\ Quiet /\ (Fault \/ NoFault)
    /\ \A tx \in Txs : pending'[tx] = 0 => pending[tx] = 0

(***************************************************************************)
(* A step that leaves the chains alone is such a step.                     *)
(***************************************************************************)
LEMMA PaceNoChain ==
    ASSUME NoChain, Fault \/ NoFault
    PROVE  Pace
  BY DEF NoChain, ethVars, lezVars, Pace, Quiet

(***************************************************************************)
(* So is handing in a transaction other than the funding.                  *)
(***************************************************************************)
LEMMA PaceSend ==
    ASSUME Inv, NEW tx \in Txs, tx.op # "Transfer", Lez!Submit(tx) \/ UNCHANGED lezVars,
           UNCHANGED <<now, ethVars, ethPool>>, Fault \/ NoFault
    PROVE  Pace
<1>1. CASE UNCHANGED lezVars
  BY <1>1, PaceNoChain DEF NoChain
<1>2. CASE Lez!Submit(tx)
  <2>1. Lez!TypeOK
    BY DEF Inv, ChainTypes
  <2>2. \A h \in Hashlocks : pending'[FundTx(h)] = pending[FundTx(h)]
    BY <1>2, <2>1, OtherPayments
  <2>3. \A x \in Txs : pending'[x] = 0 => pending[x] = 0
    <3>1. pending[tx] \in Nat /\ pending'[tx] = pending[tx] + 1
      BY <1>2, <2>1, Queue DEF Lez!TypeOK
    <3>2. \A x \in Txs : x # tx => pending'[x] = pending[x]
      BY <1>2, <2>1, Queue
    <3> QED BY <3>1, <3>2
  <2>4. escrows' = escrows /\ pdas' = pdas
    BY <1>2 DEF Lez!Submit
  <2>5. now' = now /\ htlcs' = htlcs /\ events' = events /\ ethPool' = ethPool
    BY DEF ethVars
  <2> QED
    BY <2>2, <2>3, <2>4, <2>5 DEF Pace, Quiet
<1> QED
  BY <1>1, <1>2

(***************************************************************************)
(* Such a step leaves the claimed ETH as it is.                            *)
(***************************************************************************)
LEMMA PaceClaimed ==
    ASSUME Pace, NEW h \in Hashlocks
    PROVE  EthClaimed(h)' <=> EthClaimed(h)
<1>1. Quiet /\ escrows' = escrows /\ htlcs' = htlcs
  BY DEF Pace, Quiet
<1> QED
  BY <1>1, QuietState DEF EthClaimed

(***************************************************************************)
(* After such a step a task may rely on what it could rely on before.      *)
(***************************************************************************)
LEMMA PacePolls ==
    ASSUME Inv, Pace, NEW h \in Hashlocks,
           task'[h] # Idle => task'[h] \in Task /\ Polls(h, task'[h])
    PROVE  PollsOK(h)'
<1> SUFFICES ASSUME task'[h] # Idle
             PROVE  Polls(h, task[h])'
  BY DEF PollsOK
<1>1. /\ LockPolled(h, task'[h]) /\ MoneyPolled(h, task'[h])
      /\ RefundPolled(h, task'[h]) /\ ClaimPolled(h, task'[h])
  BY DEF Polls
<1>2. /\ escrows' = escrows /\ now' = now /\ htlcs' = htlcs /\ (Fault \/ NoFault)
      /\ \A tx \in Txs : pending'[tx] = 0 => pending[tx] = 0
      /\ Quiet
  BY DEF Pace, Quiet
<1>3. /\ faults \in 0..MaxFaults /\ Slack \in Nat /\ Slack' \in Nat /\ Slack <= Slack'
      /\ faults > 0 => faults' > 0
      /\ now \in Nat /\ task'[h].deadline \in Nat /\ task'[h].expiry \in Nat
      /\ PollSecs \in Nat
  BY <1>2, SlackGrows, Fields, BotAssumption DEF Inv, BotTypes, ChainTypes, Lez!TypeOK
<1>4. LockPolled(h, task[h])'
  <2> DEFINE tx == LockTx(h, task'[h].swap_id.takerLezAccount, 1000 * task'[h].expiry)
  <2>1. tx = (LockTx(h, task[h].swap_id.takerLezAccount, 1000 * task[h].expiry))'
    BY DEF LockTx
  <2>2. /\ task'[h].step \in {"confirm", "fund"} =>
              now + lez_timelock_secs = task'[h].expiry \/ faults > 0
        /\ task'[h].step = "confirm" =>
              tx \in Txs /\ (escrows[h] = NoEscrow /\ pending[tx] = 0 => faults > 0)
    BY <1>1 DEF LockPolled
  <2>3. tx \in Txs /\ pending'[tx] = 0 => pending[tx] = 0
    BY <1>2
  <2>4. Txs' = Txs
    BY DEF Txs, LockTx, FundTx, RefundTx, TakerClaims, TakerClaimTx, Usable
  <2> HIDE DEF tx
  <2> QED
    BY <1>2, <1>3, <2>1, <2>2, <2>3, <2>4 DEF LockPolled
<1>5. MoneyPolled(h, task[h])'
  <2>1. Ours(h)' <=> Ours(h)
    BY <1>2, QuietState
  <2>2. escrows[h] # NoEscrow /\ InTime(h, task'[h].deadline) => InTime(h, task[h].deadline)'
    <3>1. escrows[h] # NoEscrow /\ InTime(h, task'[h].deadline) =>
              1000 * task'[h].deadline <= escrows'[h].timelock + 1000 * Slack'
      BY <1>2, <1>3, StaysInTime
    <3> QED BY <3>1 DEF InTime
  <2> QED
    BY <1>1, <1>2, <2>1, <2>2 DEF MoneyPolled
<1>6. RefundPolled(h, task[h])'
  <2> SUFFICES ASSUME task'[h].step = "refund", AtRisk(h)'
               PROVE  /\ 1000 * now >= escrows[h].timelock
                      /\ 1000 * task'[h].deadline <=
                            escrows[h].timelock + 1000 * Slack' + 1000 * PollSecs
                      /\ task'[h].submitted /\ pending'[RefundTx(h)] = 0 =>
                            InTime(h, task[h].deadline)'
    <3>1. (RefundTx(h))' = RefundTx(h)
      BY DEF RefundTx
    <3> QED BY <1>2, <3>1 DEF RefundPolled
  <2>1. AtRisk(h) /\ RiskOK(h) /\ escrows[h] # NoEscrow /\ escrows[h].timelock \in Nat
    <3>1. AtRisk(h) /\ RiskOK(h)
      BY <1>2, QuietState DEF Inv
    <3>2. escrows[h] # NoEscrow
      BY <3>1 DEF RiskOK, Ours
    <3> QED BY <3>1, <3>2, EscrowType DEF Inv, ChainTypes
  <2>2. /\ 1000 * now >= escrows[h].timelock
        /\ 1000 * task'[h].deadline <= escrows[h].timelock + 1000 * Slack + 1000 * PollSecs
        /\ task'[h].submitted /\ pending[RefundTx(h)] = 0 => InTime(h, task'[h].deadline)
    BY <1>1, <2>1 DEF RefundPolled
  <2>3. pending'[RefundTx(h)] = 0 => pending[RefundTx(h)] = 0
    BY <1>2, OwnTxs
  <2>4. InTime(h, task'[h].deadline) => InTime(h, task[h].deadline)'
    <3>1. InTime(h, task'[h].deadline) =>
              1000 * task'[h].deadline <= escrows'[h].timelock + 1000 * Slack'
      BY <1>2, <1>3, <2>1, StaysInTime
    <3> QED BY <3>1 DEF InTime
  <2>5. 1000 * task'[h].deadline <= escrows[h].timelock + 1000 * Slack' + 1000 * PollSecs
    BY <1>3, <2>1, <2>2
  <2> QED
    BY <2>2, <2>3, <2>4, <2>5
<1>7. ClaimPolled(h, task[h])'
  BY <1>1, PaceClaimed DEF ClaimPolled
<1> QED
  BY <1>4, <1>5, <1>6, <1>7 DEF Polls

(***************************************************************************)
(* Nothing is late after such a step if it was not before, and no entry is *)
(* taken out whose ETH is not claimed.                                     *)
(***************************************************************************)
LEMMA PaceStep ==
    ASSUME Inv, PromptInv, Pace,
           \A k \in Hashlocks : PollsOK(k)' /\ (Kept(k) \/ EthClaimed(k))
    PROVE  PromptInv'
<1>1. /\ escrows' = escrows /\ now' = now /\ htlcs' = htlcs /\ (Fault \/ NoFault)
      /\ Quiet /\ now \in Nat
  BY DEF Pace, Quiet, Inv, ChainTypes, Lez!TypeOK
<1>2. RefundedLate'
  BY <1>1 DEF PromptInv, RefundedLate
<1>3. ASSUME NEW k \in Hashlocks PROVE Timely(k)'
  <2>1. Timely(k) /\ RiskOK(k)
    BY DEF PromptInv, Inv
  <2>2. /\ AtRisk(k)' <=> AtRisk(k)
        /\ Ours(k)' <=> Ours(k)
        /\ Answered(k)' = Answered(k)
    BY <1>1, QuietState
  <2>3. escrows[k] # NoEscrow /\ InTime(k, now) => InTime(k, now)'
    <3>1. escrows[k] # NoEscrow /\ InTime(k, now) =>
              1000 * now <= escrows'[k].timelock + 1000 * Slack'
      BY <1>1, StaysInTime
    <3> QED BY <1>1, <3>1 DEF InTime
  <2>4. AtRisk(k)' => InTime(k, now)'
    BY <2>1, <2>2, <2>3 DEF Timely, RiskOK, Ours
  <2>5. ASSUME Ours(k), escrows[k].state = "Claimed"
        PROVE  \E id \in Answered(k) :
                  \/ htlcs[id] = "CLAIMED"
                  \/ /\ mem'.in_flight[k] # NoEntry /\ mem'.in_flight[k].swap_id = id
                     /\ InTime(k, now)'
    <3>1. CASE EthClaimed(k)
      BY <2>5, <3>1 DEF EthClaimed
    <3>2. CASE Kept(k)
      BY <2>1, <2>3, <2>5, <3>2 DEF Timely, Kept, Ours
    <3> QED BY <3>1, <3>2
  <2> QED
    BY <1>1, <2>2, <2>4, <2>5 DEF Timely
<1> QED
  BY <1>2, <1>3 DEF PromptInv

(***************************************************************************)
(* Such a step about one hashlock.                                         *)
(***************************************************************************)
Aside(h) ==
    \A k \in Hashlocks : k # h => task'[k] = task[k] /\ mem'.in_flight[k] = mem.in_flight[k]

(***************************************************************************)
(* The other tasks, and their entries, stay as they are.                   *)
(***************************************************************************)
LEMMA PaceTask ==
    ASSUME Inv, PromptInv, Pace, NEW h \in Hashlocks, Aside(h),
           Kept(h) \/ EthClaimed(h),
           (task'[h] # Idle => task'[h] \in Task /\ Polls(h, task'[h])) \/ PollsOK(h)'
    PROVE  PromptInv'
<1>1. PollsOK(h)'
  BY PacePolls
<1>2. ASSUME NEW k \in Hashlocks, k # h
      PROVE  PollsOK(k)' /\ Kept(k)
  <2>1. task'[k] = task[k] /\ mem'.in_flight[k] = mem.in_flight[k]
    BY <1>2 DEF Aside
  <2>2. task[k] # Idle => task[k] \in Task /\ Polls(k, task[k])
    BY DEF Inv, BotTypes, PromptInv, PollsOK
  <2>3. PollsOK(k)'
    BY <2>1, <2>2, PacePolls
  <2> QED BY <2>1, <2>3 DEF Kept
<1> QED
  BY <1>1, <1>2, PaceStep

(***************************************************************************)
(* At most steps nothing is asked about time.                              *)
(***************************************************************************)
Timeless == {"record", "accepted", "check", "submit", "claim", "receipt", "quarantine",
             "pre", "rebalance", "post"}

(***************************************************************************)
(* A task at such a step may rely on nothing about time.                   *)
(***************************************************************************)
LEMMA TimelessPolls ==
    ASSUME NEW h \in Hashlocks, NEW t, t.step \in Timeless
    PROVE  Polls(h, t)
  BY DEF Timeless, Polls, LockPolled, MoneyPolled, RefundPolled, ClaimPolled

(***************************************************************************)
(* A task that ends, or goes on, with the journal as it is.                *)
(***************************************************************************)
LEMMA FailPrompt ==
    ASSUME Inv, PromptInv, Pace, NEW h \in Hashlocks, Fail(h)
    PROVE  PromptInv'
<1>1. mem' = mem /\ task' = [task EXCEPT ![h] = Idle]
  BY DEF Fail, EndTask
<1>2. task'[h] = Idle /\ \A k \in Hashlocks : k # h => task'[k] = task[k]
  <2> DEFINE T == Task \cup {Idle}
  <2>1. task \in [Hashlocks -> T]
    BY DEF Inv, BotTypes
  <2> HIDE DEF T
  <2> QED BY <1>1, <2>1
<1> QED
  BY <1>1, <1>2, PaceTask DEF Aside, Kept

(***************************************************************************)
(* A task that moves to another step.                                      *)
(***************************************************************************)
LEMMA MovePrompt ==
    ASSUME Inv, PromptInv, Pace, NEW h \in Hashlocks, NEW s, Moved(h, s),
           mem' = mem, s \in Timeless \/ Polls(h, task'[h])
    PROVE  PromptInv'
<1>1. Aside(h) /\ Kept(h) /\ task'[h] \in Task /\ task'[h].step = s
  BY DEF Moved, Aside, Kept
<1>2. Polls(h, task'[h])
  BY <1>1, TimelessPolls
<1> QED
  BY <1>1, <1>2, PaceTask

(***************************************************************************)
(* A swap is resolved when nothing is owed to the maker.                   *)
(***************************************************************************)
LEMMA ResolvePrompt ==
    ASSUME Inv, PromptInv, Pace, NEW h \in Hashlocks, task[h] # Idle,
           NEW o \in {"Completed", "Refunded"}, Resolve(h, o), EthClaimed(h)
    PROVE  PromptInv'
<1>1. task \in [Hashlocks -> Task \cup {Idle}] /\ mem' = mem
  BY AtTask DEF Resolve
<1>2. PICK s \in {"ops", "clear"} : WriteEnd(h, o, s)
  BY DEF Resolve, WriteEnd
<1>3. Moved(h, s)
  <2>1. s \in Steps
    BY DEF Steps
  <2> QED BY <1>1, <1>2, <2>1, EndsWith
<1>4. Polls(h, task'[h])
  BY <1>3 DEF Moved, Polls, LockPolled, MoneyPolled, RefundPolled, ClaimPolled
<1> QED
  BY <1>1, <1>3, <1>4, MovePrompt

-----------------------------------------------------------------------------
(***************************************************************************)
(* The margin: what is in time comes before the ETH can be refunded.       *)
(***************************************************************************)
Covered == timelock_margin_secs > PollSecs * MaxFaults

(***************************************************************************)
(* A claim of ETH in time is before its refund is possible, if the faults  *)
(* cost less than the margin.                                              *)
(***************************************************************************)
LEMMA MarginHolds ==
    ASSUME Covered, Inv, RefundedLate, NEW h \in Hashlocks, escrows[h] # NoEscrow,
           NEW id \in Answered(h), InTime(h, now)
    PROVE  now < id.timelock /\ htlcs[id] # "REFUNDED"
<1>1. /\ id \in SwapIds /\ id.timelock \in Nat /\ now \in Nat /\ escrows[h].timelock \in Nat
      /\ 1000 * id.timelock >= escrows[h].timelock + 1000 * timelock_margin_secs
  BY IdFields, EscrowType DEF Inv, ChainTypes, Lez!TypeOK, Answered
<1>2. Slack \in Nat /\ Slack < timelock_margin_secs /\ timelock_margin_secs \in Nat
  <2> DEFINE most == PollSecs * MaxFaults
  <2>1. Slack \in Nat /\ Slack <= most
    BY SlackType DEF Inv, BotTypes
  <2>2. most \in Nat /\ timelock_margin_secs > most /\ timelock_margin_secs \in Nat
    BY BotAssumption DEF Covered
  <2> HIDE DEF most
  <2> QED BY <2>1, <2>2
<1>3. 1000 * now <= escrows[h].timelock + 1000 * Slack
  BY DEF InTime
<1>4. now < id.timelock
  BY <1>1, <1>2, <1>3
<1> QED
  BY <1>1, <1>4 DEF RefundedLate

(***************************************************************************)
(* So an HTLC that is no more OPEN when the maker claims it is CLAIMED.    *)
(***************************************************************************)
LEMMA NotOpenClaimed ==
    ASSUME Covered, Inv, PromptInv, NEW h \in Hashlocks, task[h] # Idle,
           task[h].step \in {"claim", "receipt"}, htlcs[task[h].swap_id] # "OPEN"
    PROVE  EthClaimed(h)
<1> SUFFICES ASSUME Ours(h), escrows[h].state = "Claimed"
             PROVE  \E id \in Answered(h) : htlcs[id] = "CLAIMED"
  BY DEF EthClaimed
<1>1. mem.in_flight[h] # NoEntry /\ mem.in_flight[h].swap_id = task[h].swap_id
  BY AtTask DEF Fits, Journaled
<1>2. PICK id \in Answered(h) :
          \/ htlcs[id] = "CLAIMED"
          \/ mem.in_flight[h].swap_id = id /\ InTime(h, now)
  BY DEF PromptInv, Timely
<1>3. CASE mem.in_flight[h].swap_id = id /\ InTime(h, now)
  <2>1. htlcs[id] # "REFUNDED"
    BY <1>3, MarginHolds DEF PromptInv, Ours
  <2>2. htlcs[id] # "EMPTY" /\ htlcs[id] \in {"EMPTY", "OPEN", "CLAIMED", "REFUNDED"}
    BY DEF Answered, Inv, ChainTypes, Eth!TypeOK, Eth!SwapState
  <2> QED
    BY <1>1, <1>3, <2>1, <2>2
<1> QED
  BY <1>2, <1>3

(***************************************************************************)
(* So a swap is resolved after the claim only if the ETH is the maker's.   *)
(***************************************************************************)
LEMMA SettlePrompt ==
    ASSUME Covered, Inv, PromptInv, Pace, NEW h \in Hashlocks, task[h] # Idle,
           task[h].step \in {"claim", "receipt"},
           NEW c, Settle(h, c), c = "Failed" \/ htlcs[task[h].swap_id] # "OPEN"
    PROVE  PromptInv'
<1>1. CASE Fail(h)
  BY <1>1, FailPrompt
<1>2. CASE Resolve(h, "Completed") /\ c # "Failed"
  <2>1. EthClaimed(h)
    BY <1>2, NotOpenClaimed
  <2> QED BY <1>2, <2>1, ResolvePrompt
<1> QED
  BY <1>1, <1>2 DEF Settle, retain_after_eth_claim

-----------------------------------------------------------------------------
(***************************************************************************)
(* The steps of run_maker up to the lock.                                  *)
(***************************************************************************)
LEMMA RecordPrompt ==
    ASSUME Inv, PromptInv, NEW h \in Hashlocks, Record(h)
    PROVE  PromptInv'
<1>0. task[h] # Idle /\ task[h].step = "record" /\ NoChain
  BY DEF Record, At
<1>1. PICK ok \in BOOLEAN :
          /\ Outcome(ok)
          /\ record(h, task[h].swap_id, ok)
          /\ IF ok THEN Goto(h, "accepted") /\ UNCHANGED <<pc, queue, rejected>> ELSE EndTask(h)
  BY DEF Record
<1>2. Pace /\ htlcs' = htlcs
  BY <1>0, <1>1, OutcomeCount, PaceNoChain DEF Pace, Quiet
<1>3. /\ mem.in_flight[h] = NoEntry
      /\ \A k \in Hashlocks : k # h => mem'.in_flight[k] = mem.in_flight[k]
  <2>1. Journaled(task[h], mem.in_flight[h]) /\ Answers(h, task[h])
    BY <1>0, AtTask DEF Fits
  <2>2. mem.in_flight[h] = NoEntry /\ htlcs[task[h].swap_id] # "EMPTY"
    BY <1>0, <2>1 DEF Journaled, Answers, ToAnswer, Fresh, Early
  <2>3. JournalStep(h)
    BY <1>0, <1>1, <1>2, <2>2, AtTask, Recorded
  <2> QED BY <2>2, <2>3 DEF JournalStep
<1>4. CASE ok
  <2>1. Moved(h, "accepted")
    BY <1>0, <1>1, <1>4, AtTask, GoesTo DEF Goto, Steps
  <2>2. Polls(h, task'[h]) /\ task'[h] \in Task /\ Aside(h)
    BY <1>3, <2>1, TimelessPolls DEF Moved, Timeless, Aside
  <2> QED BY <1>2, <1>3, <2>2, PaceTask DEF Kept
<1>5. CASE ~ok
  <2>1. task'[h] = Idle /\ \A k \in Hashlocks : k # h => task'[k] = task[k]
    <3> DEFINE T == Task \cup {Idle}
    <3>1. task \in [Hashlocks -> T] /\ task' = [task EXCEPT ![h] = Idle]
      BY <1>1, <1>5 DEF Inv, BotTypes, EndTask
    <3> HIDE DEF T
    <3> QED BY <3>1
  <2> QED BY <1>2, <1>3, <2>1, PaceTask DEF Kept, Aside
<1> QED
  BY <1>4, <1>5

(***************************************************************************)
(* The ledger's record and the check before the lock.                      *)
(***************************************************************************)
LEMMA AcceptedPrompt ==
    ASSUME Inv, PromptInv, NEW h \in Hashlocks, Accepted(h) \/ CheckBeforeFund(h)
    PROVE  PromptInv'
<1>1. CASE Accepted(h)
  <2>1. task[h] # Idle /\ NoChain /\ Goto(h, "check") /\ mem' = mem
    BY <1>1 DEF Accepted, At
  <2>2. Pace
    BY <1>1, <2>1, OutcomeCount, PaceNoChain DEF Accepted
  <2>3. Moved(h, "check")
    BY <2>1, AtTask, GoesTo DEF Goto, Steps
  <2> QED BY <2>1, <2>2, <2>3, MovePrompt DEF Timeless
<1>2. CASE CheckBeforeFund(h)
  <2>1. task[h] # Idle /\ NoChain
    BY <1>2 DEF CheckBeforeFund, At
  <2>2. (Fault \/ NoFault) /\ (Fail(h) \/ Continue(h, "submit"))
    BY <1>2 DEF CheckBeforeFund, get_escrow
  <2>3. Pace
    BY <2>1, <2>2, PaceNoChain
  <2>4. CASE Fail(h)
    BY <2>3, <2>4, FailPrompt
  <2>5. CASE Continue(h, "submit")
    <3>1. Moved(h, "submit") /\ mem' = mem
      BY <2>1, <2>5, ContinueMoves DEF Steps
    <3> QED BY <2>3, <3>1, MovePrompt DEF Timeless
  <2> QED BY <2>2, <2>4, <2>5
<1> QED
  BY <1>1, <1>2

(***************************************************************************)
(* The lock is handed in at the moment it is made.                         *)
(***************************************************************************)
LEMMA SubmitPrompt ==
    ASSUME Inv, PromptInv, NEW h \in Hashlocks, SubmitLock(h)
    PROVE  PromptInv'
<1> DEFINE t == task[h]
           tx == LockTx(h, t.swap_id.takerLezAccount, 1000 * t.expiry)
<1>0. t # Idle /\ t.step = "submit" /\ UNCHANGED <<now, ethVars, ethPool>>
  BY DEF SubmitLock, At
<1>1. PICK ok \in BOOLEAN :
          /\ Send(tx, ok)
          /\ IF ok
             THEN /\ task' = [task EXCEPT ![h].step = "confirm", ![h].deadline = now + PollSecs]
                  /\ UNCHANGED <<mem, disk, pc, queue, rejected, ops>>
             ELSE Fail(h)
  BY DEF SubmitLock
<1>2. now \in Nat /\ now + lez_timelock_secs = t.expiry
  BY <1>0, AtTask DEF Fits, Answers, Fresh, Early
<1>3. tx \in Txs /\ tx.op # "Transfer"
  BY <1>0, LockIsTx
<1>4. Pace
  <2>1. (Lez!Submit(tx) \/ UNCHANGED lezVars) /\ (Fault \/ NoFault)
    BY <1>1, OutcomeCount DEF Send
  <2> HIDE DEF tx
  <2> QED BY <1>0, <1>3, <2>1, PaceSend
<1>5. CASE ok
  <2> DEFINE d == now + PollSecs
  <2>1. d \in Nat /\ WritePoll(h, "confirm", d) /\ mem' = mem
    BY <1>1, <1>2, <1>5, BotAssumption DEF WritePoll
  <2>2. Moved(h, "confirm")
    <3>1. "confirm" \in Steps /\ task \in [Hashlocks -> Task \cup {Idle}]
      BY <1>0, AtTask DEF Steps
    <3> HIDE DEF d
    <3> QED BY <1>0, <2>1, <3>1, PollsTo
  <2>3. pending'[tx] > 0
    <3>1. Lez!Submit(tx)
      BY <1>1, <1>5 DEF Send
    <3>2. Lez!TypeOK
      BY DEF Inv, ChainTypes
    <3> HIDE DEF tx
    <3>3. pending'[tx] = pending[tx] + 1
      BY <1>3, <3>1, <3>2, Queue
    <3>4. pending[tx] \in Nat
      BY <1>3, <3>2 DEF Lez!TypeOK
    <3> QED BY <3>3, <3>4
  <2>4. PollsOK(h)'
    <3>1. (LockTx(h, task[h].swap_id.takerLezAccount, 1000 * task[h].expiry))' = tx
      BY <2>2 DEF Moved, LockTx
    <3>2. Txs' = Txs /\ now' = now
      BY <1>0 DEF Txs, LockTx, FundTx, RefundTx, TakerClaims, TakerClaimTx, Usable
    <3>3. LockPolled(h, task[h])'
      <4> HIDE DEF tx
      <4> QED BY <1>2, <1>3, <2>2, <2>3, <3>1, <3>2 DEF LockPolled, Moved
    <3>4. (MoneyPolled(h, task[h]) /\ RefundPolled(h, task[h]) /\ ClaimPolled(h, task[h]))'
      BY <2>2 DEF Moved, MoneyPolled, RefundPolled, ClaimPolled
    <3> QED BY <3>3, <3>4 DEF PollsOK, Polls
  <2> QED BY <1>4, <2>1, <2>2, <2>4, PaceTask DEF Moved, Aside, Kept
<1>6. CASE ~ok
  BY <1>1, <1>4, <1>6, FailPrompt
<1> QED
  BY <1>5, <1>6

(***************************************************************************)
(* The two confirmation polls, and what follows them.                      *)
(***************************************************************************)
LEMMA ConfirmPrompt ==
    ASSUME Inv, PromptInv, NEW h \in Hashlocks,
           ConfirmLock(h) \/ ConfirmFunding(h) \/ PollFails(h)
    PROVE  PromptInv'
<1>0. task[h] # Idle /\ NoChain /\ (Fault \/ NoFault)
  BY DEF ConfirmLock, ConfirmFunding, PollFails, At
<1>1. Pace /\ Polls(h, task[h])
  BY <1>0, PaceNoChain DEF PromptInv, PollsOK
<1>2. CASE Fail(h)
  BY <1>1, <1>2, FailPrompt
<1>3. CASE Continue(h, "fund") /\ task[h].step = "confirm"
  <2>1. Moved(h, "fund") /\ mem' = mem
    BY <1>0, <1>3, ContinueMoves DEF Steps
  <2>2. Polls(h, task'[h])
    BY <1>1, <1>3, <2>1 DEF Moved, Polls, LockPolled, MoneyPolled, RefundPolled, ClaimPolled
  <2> QED BY <1>1, <2>1, <2>2, MovePrompt
<1>4. CASE Continue(h, "mark") /\ task[h].step = "funding"
  <2>1. Moved(h, "mark") /\ mem' = mem
    BY <1>0, <1>4, ContinueMoves DEF Steps
  <2>2. Polls(h, task'[h])
    BY <1>1, <1>4, <2>1 DEF Moved, Polls, LockPolled, MoneyPolled, RefundPolled, ClaimPolled
  <2> QED BY <1>1, <2>1, <2>2, MovePrompt
<1> QED
  BY <1>2, <1>3, <1>4 DEF ConfirmLock, ConfirmFunding, PollFails, At

(***************************************************************************)
(* The entry is promoted to Funded.                                        *)
(***************************************************************************)
LEMMA MarkPrompt ==
    ASSUME Inv, PromptInv, NEW h \in Hashlocks, MarkFunded(h)
    PROVE  PromptInv'
<1>0. task[h] # Idle /\ task[h].step = "mark" /\ NoChain /\ Goto(h, "await")
  BY DEF MarkFunded, At
<1>1. PICK ok \in BOOLEAN : Outcome(ok) /\ mark_funded(h, ok)
  BY DEF MarkFunded
<1>2. Pace /\ htlcs' = htlcs /\ Polls(h, task[h])
  BY <1>0, <1>1, OutcomeCount, PaceNoChain DEF Pace, Quiet, PromptInv, PollsOK
<1>3. JournalStep(h) /\ Kept(h)
  BY <1>0, <1>1, <1>2, AtTask, Marked DEF Kept
<1>4. Moved(h, "await")
  BY <1>0, AtTask, GoesTo DEF Goto, Steps
<1>5. Polls(h, task'[h])
  BY <1>0, <1>2, <1>4 DEF Moved, Polls, LockPolled, MoneyPolled, RefundPolled, ClaimPolled
<1> QED
  BY <1>2, <1>3, <1>4, <1>5, PaceTask DEF Moved, Aside, JournalStep

(***************************************************************************)
(* Waiting for the taker.                                                  *)
(***************************************************************************)
LEMMA AwaitPrompt ==
    ASSUME Inv, PromptInv, NEW h \in Hashlocks, EscrowEvent(h) \/ RefundFails(h)
    PROVE  PromptInv'
<1>0. task[h] # Idle /\ NoChain /\ (Fault \/ NoFault)
  BY DEF EscrowEvent, RefundFails, At
<1>1. Pace
  BY <1>0, PaceNoChain
<1>2. CASE Fail(h)
  BY <1>1, <1>2, FailPrompt
<1>3. CASE Continue(h, "claim")
  <2>1. Moved(h, "claim") /\ mem' = mem
    BY <1>0, <1>3, ContinueMoves DEF Steps
  <2> QED BY <1>1, <2>1, MovePrompt DEF Timeless
<1>4. CASE StateOf(h) = "Refunded" /\ Resolve(h, "Refunded")
  <2>1. EthClaimed(h)
    BY <1>4 DEF EthClaimed, StateOf, Ours
  <2> QED BY <1>0, <1>1, <1>4, <2>1, ResolvePrompt
<1> QED
  BY <1>2, <1>3, <1>4 DEF EscrowEvent, RefundFails

(***************************************************************************)
(* A refund is begun when the timelock is over, not later than the faults  *)
(* so far explain.                                                         *)
(***************************************************************************)
LEMMA RefundBegins ==
    ASSUME Inv, PromptInv, NEW h \in Hashlocks, AtRisk(h),
           Ours(h) => 1000 * now >= escrows[h].timelock
    PROVE  /\ 1000 * now >= escrows[h].timelock
           /\ 1000 * (now + PollSecs) <= escrows[h].timelock + 1000 * Slack + 1000 * PollSecs
<1>1. /\ Ours(h) /\ escrows[h] # NoEscrow /\ InTime(h, now)
  BY DEF Inv, RiskOK, Ours, PromptInv, Timely
<1>2. now \in Nat /\ PollSecs \in Nat /\ Slack \in Nat /\ escrows[h].timelock \in Nat
  BY <1>1, EscrowType, SlackType, BotAssumption DEF Inv, ChainTypes, BotTypes, Lez!TypeOK
<1>3. 1000 * now <= escrows[h].timelock + 1000 * Slack
  BY <1>1 DEF InTime
<1> QED
  BY <1>1, <1>2, <1>3

(***************************************************************************)
(* The refund starts at the timelock, in time.                             *)
(***************************************************************************)
LEMMA TimelockExpiresPrompt ==
    ASSUME Inv, PromptInv, NEW h \in Hashlocks, TimelockExpires(h)
    PROVE  PromptInv'
<1> DEFINE d == now + PollSecs
<1>0. /\ task[h] # Idle /\ task[h].step = "await" /\ NoChain /\ NoFault /\ mem' = mem
      /\ now >= task[h].expiry
  BY DEF TimelockExpires, At
<1>1. Pace /\ Polls(h, task[h])
  BY <1>0, PaceNoChain DEF PromptInv, PollsOK
<1>2. Moved(h, "refund") /\ task'[h].submitted = FALSE /\ task'[h].deadline = d
  <2>1. d \in Nat /\ WriteWait(h, "refund", FALSE, d)
    BY <1>0, AtTask, BotAssumption DEF TimelockExpires, WriteWait
  <2>2. "refund" \in Steps /\ task \in [Hashlocks -> Task \cup {Idle}]
    BY <1>0, AtTask DEF Steps
  <2> HIDE DEF d
  <2> QED BY <1>0, <2>1, <2>2, WaitsTo
<1>3. AtRisk(h) => /\ 1000 * now >= escrows[h].timelock
                   /\ 1000 * d <= escrows[h].timelock + 1000 * Slack + 1000 * PollSecs
  <2>1. Ours(h) => escrows[h].timelock = 1000 * task[h].expiry
    BY <1>0, <1>1 DEF Polls, MoneyPolled
  <2>2. Ours(h) => 1000 * now >= escrows[h].timelock
    BY <1>0, <2>1, AtTask
  <2> QED BY <2>2, RefundBegins
<1>4. Polls(h, task'[h])
  <2>1. RefundPolled(h, task'[h])
    <3> HIDE DEF d
    <3> QED BY <1>2, <1>3 DEF RefundPolled
  <2> QED BY <1>2, <2>1 DEF Moved, Polls, LockPolled, MoneyPolled, ClaimPolled
<1> QED
  BY <1>0, <1>1, <1>2, <1>4, MovePrompt

(***************************************************************************)
(* The refund is handed in, or a fault pays for another poll.              *)
(***************************************************************************)
LEMMA RefundPollPrompt ==
    ASSUME Inv, PromptInv, NEW h \in Hashlocks, RefundPoll(h)
    PROVE  PromptInv'
<1>0. task[h] # Idle /\ task[h].step = "refund" /\ UNCHANGED <<now, ethVars, ethPool>>
  BY DEF RefundPoll, At
<1>1. CASE StateOf(h) = "Refunded" /\ Resolve(h, "Refunded") /\ NoFault /\ UNCHANGED lezVars
  <2>1. EthClaimed(h)
    BY <1>1 DEF EthClaimed, StateOf, Ours
  <2>2. Pace
    BY <1>0, <1>1, PaceNoChain DEF NoChain
  <2> QED BY <1>0, <1>1, <2>1, <2>2, ResolvePrompt
<1>2. CASE StateOf(h) = "Claimed" /\ Continue(h, "claim") /\ NoFault /\ UNCHANGED lezVars
  <2>1. Moved(h, "claim") /\ mem' = mem
    BY <1>0, <1>2, ContinueMoves DEF Steps
  <2>2. Pace
    BY <1>0, <1>2, PaceNoChain DEF NoChain
  <2> QED BY <2>1, <2>2, MovePrompt DEF Timeless
<1>3. CASE /\ \E ok \in BOOLEAN : Send(RefundTx(h), ok)
           /\ task' = [task EXCEPT ![h].submitted = TRUE]
           /\ UNCHANGED <<mem, disk, pc, queue, rejected, ops>>
  <2>1. PICK ok \in BOOLEAN : Send(RefundTx(h), ok)
    BY <1>3
  <2>2. RefundTx(h) \in Txs /\ RefundTx(h).op # "Transfer"
    BY OwnTxs
  <2>3. (Lez!Submit(RefundTx(h)) \/ (Fault /\ UNCHANGED lezVars)) /\ (Fault \/ NoFault)
    BY <2>1 DEF Send, Outcome
  <2>4. Pace
    BY <1>0, <2>2, <2>3, PaceSend
  <2>5. Moved(h, "refund") /\ task'[h].deadline = task[h].deadline
    BY <1>0, <1>3, AtTask, Submits
  <2>6. RefundPolled(h, task[h])'
    <3> SUFFICES ASSUME AtRisk(h)'
                 PROVE  /\ 1000 * now' >= escrows'[h].timelock
                        /\ 1000 * task'[h].deadline <=
                              escrows'[h].timelock + 1000 * Slack' + 1000 * PollSecs
                        /\ pending'[RefundTx(h)] = 0 =>
                              1000 * task'[h].deadline <= escrows'[h].timelock + 1000 * Slack'
      <4>1. (RefundTx(h))' = RefundTx(h)
        BY DEF RefundTx
      <4> QED BY <4>1 DEF RefundPolled, InTime
    <3>1. AtRisk(h) /\ escrows' = escrows /\ now' = now
      BY <2>4, QuietState DEF Pace, Quiet
    <3>2. escrows[h] # NoEscrow
      BY <3>1 DEF Inv, RiskOK, Ours
    <3>3. /\ 1000 * now >= escrows[h].timelock
          /\ 1000 * task[h].deadline <= escrows[h].timelock + 1000 * Slack + 1000 * PollSecs
      BY <1>0, <3>1 DEF PromptInv, PollsOK, Polls, RefundPolled
    <3>4. /\ escrows[h].timelock \in Nat /\ task[h].deadline \in Nat /\ PollSecs \in Nat
          /\ Slack \in Nat /\ Slack' \in Nat /\ Slack <= Slack'
          /\ Fault => Slack' = Slack + PollSecs
      BY <1>0, <2>3, <3>2, EscrowType, AtTask, SlackGrows, BotAssumption
         DEF Inv, ChainTypes, BotTypes
    <3>5. pending'[RefundTx(h)] = 0 => Fault
      <4>1. CASE Lez!Submit(RefundTx(h))
        <5>1. pending'[RefundTx(h)] = pending[RefundTx(h)] + 1 /\ pending[RefundTx(h)] \in Nat
          BY <2>2, <4>1, Queue DEF Inv, ChainTypes, Lez!TypeOK
        <5> QED BY <5>1
      <4> QED BY <2>3, <4>1
    <3> QED
      BY <2>5, <3>1, <3>3, <3>4, <3>5
  <2>7. PollsOK(h)'
    BY <2>5, <2>6 DEF PollsOK, Polls, Moved, LockPolled, MoneyPolled, ClaimPolled
  <2> QED
    BY <1>3, <2>4, <2>5, <2>7, PaceTask DEF Moved, Aside, Kept
<1> QED
  BY <1>1, <1>2, <1>3 DEF RefundPoll

-----------------------------------------------------------------------------
(***************************************************************************)
(* The ETH claim.                                                          *)
(***************************************************************************)
LEMMA ClaimPrompt ==
    ASSUME Covered, Inv, PromptInv, NEW h \in Hashlocks,
           ClaimEth(h) \/ ClaimReceipt(h) \/ ClaimErrs(h)
    PROVE  PromptInv'
<1> DEFINE id == task[h].swap_id
<1>0. /\ task[h] # Idle /\ task[h].step \in {"claim", "receipt"}
      /\ UNCHANGED <<now, ethVars, lezVars>> /\ ethPool \subseteq ethPool'
      /\ Fault \/ NoFault
  BY DEF ClaimEth, ClaimReceipt, ClaimErrs, At, NoChain
<1>1. Pace
  BY <1>0 DEF Pace, Quiet, ethVars, lezVars
<1>2. CASE \E c \in {"Failed", "AlreadyTerminal", "Claimed"} :
               Settle(h, c) /\ (c = "Failed" \/ htlcs[id] # "OPEN")
  BY <1>0, <1>1, <1>2, SettlePrompt
<1>3. CASE \E s \in {"claim", "receipt"} : Continue(h, s)
  <2>1. PICK s \in {"claim", "receipt"} : Continue(h, s)
    BY <1>3
  <2>2. Moved(h, s) /\ mem' = mem
    BY <1>0, <2>1, ContinueMoves DEF Steps
  <2> QED BY <1>1, <2>2, MovePrompt DEF Timeless
<1>4. CASE ClaimEth(h)
  BY <1>2, <1>3, <1>4 DEF ClaimEth
<1>5. CASE ClaimReceipt(h)
  <2>1. htlcs[id] # "OPEN"
    BY <1>0, <1>5, AtTask DEF ClaimReceipt, At, Fits, Settling
  <2> QED BY <1>2, <1>5, <2>1 DEF ClaimReceipt
<1>6. CASE ClaimErrs(h)
  BY <1>2, <1>3, <1>6 DEF ClaimErrs
<1> QED
  BY <1>4, <1>5, <1>6

(***************************************************************************)
(* The end of a task.                                                      *)
(***************************************************************************)
LEMMA EndedTask ==
    ASSUME Inv, NEW h \in Hashlocks, EndTask(h)
    PROVE  task'[h] = Idle /\ \A k \in Hashlocks : k # h => task'[k] = task[k]
<1> DEFINE T == Task \cup {Idle}
<1>1. task \in [Hashlocks -> T] /\ task' = [task EXCEPT ![h] = Idle]
  BY DEF Inv, BotTypes, EndTask
<1> HIDE DEF T
<1> QED BY <1>1

(***************************************************************************)
(* The entry is removed when nothing is owed to the maker.                 *)
(***************************************************************************)
LEMMA ClearPrompt ==
    ASSUME Inv, PromptInv, NEW h \in Hashlocks, Clear(h)
    PROVE  PromptInv'
<1>0. /\ task[h] # Idle /\ task[h].step = "clear" /\ NoChain
      /\ IF In(h, {"resume"})
         THEN EndTask(h)
         ELSE Goto(h, "ops") /\ UNCHANGED <<pc, queue, rejected>>
  BY DEF Clear, At
<1>1. PICK ok \in BOOLEAN : Outcome(ok) /\ remove(h, ok)
  BY DEF Clear
<1>2. Pace /\ htlcs' = htlcs
  BY <1>0, <1>1, OutcomeCount, PaceNoChain DEF Pace, Quiet
<1>3. JournalStep(h)
  BY <1>0, <1>1, <1>2, AtTask, Removed
<1>4. EthClaimed(h)
  BY <1>0 DEF PromptInv, PollsOK, Polls, ClaimPolled
<1>5. CASE task[h].ctx = "resume"
  <2>1. task'[h] = Idle /\ \A k \in Hashlocks : k # h => task'[k] = task[k]
    BY <1>0, <1>5, EndedTask DEF In
  <2> QED BY <1>2, <1>3, <1>4, <2>1, PaceTask DEF Aside, JournalStep
<1>6. CASE task[h].ctx # "resume"
  <2>1. Moved(h, "ops")
    BY <1>0, <1>6, AtTask, GoesTo DEF Goto, Steps, In
  <2>2. Polls(h, task'[h])
    BY <1>6, <2>1 DEF Moved, Polls, LockPolled, MoneyPolled, RefundPolled, ClaimPolled
  <2> QED BY <1>2, <1>3, <1>4, <2>1, <2>2, PaceTask DEF Aside, JournalStep, Moved
<1> QED
  BY <1>5, <1>6

(***************************************************************************)
(* The entry is quarantined when nothing is owed to the maker.             *)
(***************************************************************************)
LEMMA QuarantinePrompt ==
    ASSUME Inv, PromptInv, NEW h \in Hashlocks, Quarantine(h)
    PROVE  PromptInv'
<1>0. task[h] # Idle /\ task[h].step = "quarantine" /\ NoChain
  BY DEF Quarantine, At
<1>1. PICK ok \in BOOLEAN : Outcome(ok) /\ quarantine(h, ok)
  BY DEF Quarantine
<1>2. Pace /\ htlcs' = htlcs
  BY <1>0, <1>1, OutcomeCount, PaceNoChain DEF Pace, Quiet
<1>3. JournalStep(h)
  BY <1>0, <1>1, <1>2, AtTask, Removed
<1>4. EthClaimed(h) /\ task[h].ctx = "reconcile"
  BY <1>0, AtTask DEF Fits, Placed, Judging, Wedged, EthClaimed
<1>5. Moved(h, "ops")
  <2>1. task \in [Hashlocks -> Task \cup {Idle}] /\ "ops" \in Steps
    BY <1>0, AtTask DEF Steps
  <2>2. WriteEnd(h, "Failed", "ops")
    <3> DEFINE T == Task \cup {Idle}
    <3>1. task \in [Hashlocks -> T]
      BY <2>1
    <3>2. task' = [task EXCEPT ![h].step = "ops", ![h].outcome = "Failed"]
      BY DEF Quarantine
    <3> HIDE DEF T
    <3> QED BY <3>1, <3>2 DEF WriteEnd
  <2> QED BY <1>0, <2>1, <2>2, EndsWith
<1>6. Polls(h, task'[h])
  BY <1>4, <1>5 DEF Moved, Polls, LockPolled, MoneyPolled, RefundPolled, ClaimPolled
<1> QED
  BY <1>2, <1>3, <1>4, <1>5, <1>6, PaceTask DEF Aside, JournalStep, Moved

(***************************************************************************)
(* The ledger's outcome is written.                                        *)
(***************************************************************************)
LEMMA RecordOutcomePrompt ==
    ASSUME Inv, PromptInv, NEW h \in Hashlocks, RecordOutcome(h)
    PROVE  PromptInv'
<1>0. /\ task[h] # Idle /\ task[h].step = "ops" /\ NoChain /\ mem' = mem
      /\ IF In(h, {"resume"})
         THEN Goto(h, "clear") /\ UNCHANGED <<pc, queue, rejected>>
         ELSE EndTask(h)
  BY DEF RecordOutcome, At
<1>1. PICK ok \in BOOLEAN : Outcome(ok)
  BY DEF RecordOutcome
<1>2. Pace
  BY <1>0, <1>1, OutcomeCount, PaceNoChain
<1>3. CASE task[h].ctx = "resume"
  <2>1. Moved(h, "clear")
    BY <1>0, <1>3, AtTask, GoesTo DEF Goto, Steps, In
  <2>2. EthClaimed(h)
    BY <1>0, <1>3 DEF PromptInv, PollsOK, Polls, ClaimPolled
  <2>3. Polls(h, task'[h])
    BY <2>1, <2>2 DEF Moved, Polls, LockPolled, MoneyPolled, RefundPolled, ClaimPolled
  <2> QED BY <1>0, <1>2, <2>1, <2>3, MovePrompt
<1>4. CASE task[h].ctx # "resume"
  <2>1. task'[h] = Idle /\ \A k \in Hashlocks : k # h => task'[k] = task[k]
    BY <1>0, <1>4, EndedTask DEF In
  <2> QED BY <1>0, <1>2, <2>1, PaceTask DEF Aside, Kept
<1> QED
  BY <1>3, <1>4

-----------------------------------------------------------------------------
(***************************************************************************)
(* reconcile: what it reads of an escrow is what a resumed task relies on. *)
(***************************************************************************)
LEMMA NextEntryPrompt ==
    ASSUME Inv, PromptInv, NEW h \in Hashlocks, NextEntry(h)
    PROVE  PromptInv'
<1> DEFINE id == mem.in_flight[h].swap_id
           u == NewTask("reconcile", "read", id)
<1>0. h \in queue /\ NoFault /\ NoChain /\ mem' = mem /\ task' = [task EXCEPT ![h] = u]
  BY DEF NextEntry
<1>1. mem \in BotState /\ task \in [Hashlocks -> Task \cup {Idle}] /\ Control
  BY DEF Inv, BotTypes
<1>2. Pace
  BY <1>0, PaceNoChain
<1>3. u \in Task /\ u.step = "read" /\ ~u.submitted
  <2>1. id \in SwapIds /\ "read" \in Steps
    BY <1>0, <1>1, EntryType DEF Steps, Control
  <2> HIDE DEF id
  <2> QED BY <2>1, NewTaskType
<1> HIDE DEF u
<1>4. /\ task'[h] = u
      /\ \A k \in Hashlocks : k # h => task'[k] = task[k]
  BY <1>0, <1>1, <1>3, Written
<1>5. Polls(h, u)
  BY <1>3 DEF Polls, LockPolled, MoneyPolled, RefundPolled, ClaimPolled
<1> QED
  BY <1>0, <1>2, <1>3, <1>4, <1>5, PaceTask DEF Aside, Kept

(***************************************************************************)
(* The escrow of an entry is read, and its timelock with it.               *)
(***************************************************************************)
LEMMA ReadEscrowPrompt ==
    ASSUME Inv, PromptInv, NEW h \in Hashlocks, ReadEscrow(h)
    PROVE  PromptInv'
<1> DEFINE t == task[h]
<1>0. t # Idle /\ t.step = "read" /\ NoChain
  BY DEF ReadEscrow, At
<1>1. Polls(h, t) /\ Lez!TypeOK
  BY <1>0 DEF PromptInv, PollsOK, Inv, ChainTypes
<1>2. ASSUME NEW r \in {"None", "Err"}, read_escrow_bounded(h, r),
             Continue(h, "quarantine") \/ Fail(h)
      PROVE  PromptInv'
  <2>1. Pace
    BY <1>0, <1>2, PaceNoChain DEF read_escrow_bounded
  <2>2. CASE Fail(h)
    BY <2>1, <2>2, FailPrompt
  <2>3. CASE Continue(h, "quarantine")
    <3>1. Moved(h, "quarantine") /\ mem' = mem
      BY <1>0, <2>3, ContinueMoves DEF Steps
    <3> QED BY <2>1, <3>1, MovePrompt DEF Timeless
  <2> QED BY <1>2, <2>2, <2>3
<1>3. ASSUME NEW r, NEW ok \in BOOLEAN, r = StateOf(h), r # "None", Outcome(ok),
             mark_funded(h, ok),
             WriteRead(h, IF r = "Claimed" THEN "claim"
                          ELSE IF r = "Refunded" THEN "clear" ELSE "balance",
                       IF r = "Refunded" THEN "Refunded" ELSE "none",
                       escrows[h].timelock \div 1000)
      PROVE  PromptInv'
  <2> DEFINE s == IF r = "Claimed" THEN "claim"
                  ELSE IF r = "Refunded" THEN "clear" ELSE "balance"
             o == IF r = "Refunded" THEN "Refunded" ELSE "none"
             e == escrows[h].timelock \div 1000
  <2>1. escrows[h] # NoEscrow
    BY <1>3 DEF StateOf
  <2>2. e \in Nat
    BY <1>1, <2>1, EscrowType, Milliseconds
  <2>3. s \in Steps /\ o \in {"none", "Completed", "Refunded", "Failed"}
    BY DEF Steps
  <2>4. Pace /\ htlcs' = htlcs
    BY <1>0, <1>3, OutcomeCount, PaceNoChain DEF Pace, Quiet
  <2>5. JournalStep(h) /\ Kept(h)
    BY <1>0, <1>3, <2>4, AtTask, Marked DEF Kept
  <2>6. /\ task'[h] \in Task
        /\ \A k \in Hashlocks : k # h => task'[k] = task[k]
        /\ task'[h].step = s /\ task'[h].expiry = e /\ task'[h].submitted = t.submitted
    <3>1. WriteRead(h, s, o, e) /\ task \in [Hashlocks -> Task \cup {Idle}]
      BY <1>0, <1>3, AtTask
    <3> HIDE DEF s, o, e
    <3> QED BY <1>0, <2>2, <2>3, <3>1, ReadsEscrow
  <2>7. Polls(h, task'[h])
    <3>1. CASE r = "Claimed"
      BY <2>6, <3>1, TimelessPolls DEF Timeless
    <3>2. CASE r = "Refunded"
      <4>1. EthClaimed(h)
        BY <1>3, <3>2 DEF EthClaimed, StateOf, Ours
      <4> QED BY <2>6, <3>2, <4>1 DEF Polls, LockPolled, MoneyPolled, RefundPolled, ClaimPolled
    <3>3. CASE r \notin {"Claimed", "Refunded"}
      <4>1. task'[h].step = "balance"
        BY <2>6, <3>3
      <4>2. ~task'[h].submitted
        BY <1>0, <1>1, <2>6 DEF Polls, MoneyPolled
      <4>3. Ours(h) => escrows[h].timelock = 1000 * task'[h].expiry
        BY <2>6 DEF Inv, OwnTerms
      <4> QED BY <4>1, <4>2, <4>3 DEF Polls, LockPolled, MoneyPolled, RefundPolled, ClaimPolled
    <3> QED BY <3>1, <3>2, <3>3
  <2> HIDE DEF s, o, e
  <2> QED
    BY <2>4, <2>5, <2>6, <2>7, PaceTask DEF Aside, JournalStep
<1>4. PICK r \in {"None", "Locked", "Claimed", "Refunded", "Err"}, ok \in BOOLEAN :
          \/ /\ r \in {"None", "Err"} /\ ok
             /\ read_escrow_bounded(h, r)
             /\ IF classify_absent_escrow(mem.in_flight[h].stage, r = "Err") = "RetirePreLock"
                THEN Continue(h, "quarantine")
                ELSE Fail(h)
          \/ /\ r = StateOf(h) /\ r # "None"
             /\ Outcome(ok)
             /\ mark_funded(h, ok)
             /\ WriteRead(h, IF r = "Claimed" THEN "claim"
                             ELSE IF r = "Refunded" THEN "clear" ELSE "balance",
                          IF r = "Refunded" THEN "Refunded" ELSE "none",
                          escrows[h].timelock \div 1000)
             /\ UNCHANGED <<pc, queue, rejected, ops>>
  BY Zenon DEF ReadEscrow, WriteRead
<1> QED
  BY <1>2, <1>3, <1>4

(***************************************************************************)
(* The balance of a locked escrow is read.                                 *)
(***************************************************************************)
LEMMA ReadBalancePrompt ==
    ASSUME Inv, PromptInv, NEW h \in Hashlocks, ReadBalance(h)
    PROVE  PromptInv'
<1>0. task[h] # Idle /\ task[h].step = "balance" /\ NoChain
  BY DEF ReadBalance, At
<1>1. PICK b \in {"enough", "low", "unknown"} :
          /\ max_escrow_balance(h, b)
          /\ IF b = "unknown"
             THEN Fail(h)
             ELSE /\ WriteMoney(h, "decide", b)
                  /\ UNCHANGED <<mem, disk, pc, queue, rejected, ops>>
  BY DEF ReadBalance, WriteMoney
<1>2. Pace /\ Polls(h, task[h])
  BY <1>0, <1>1, PaceNoChain DEF max_escrow_balance, PromptInv, PollsOK
<1>3. CASE Fail(h)
  BY <1>2, <1>3, FailPrompt
<1>4. CASE WriteMoney(h, "decide", b) /\ mem' = mem
  <2>1. Moved(h, "decide") /\ task'[h].submitted = task[h].submitted
    BY <1>0, <1>4, AtTask, ReadsMoney DEF Steps
  <2>2. Polls(h, task'[h])
    BY <1>0, <1>2, <2>1 DEF Moved, Polls, LockPolled, MoneyPolled, RefundPolled, ClaimPolled
  <2> QED BY <1>2, <1>4, <2>1, <2>2, MovePrompt
<1> QED
  BY <1>1, <1>3, <1>4

(***************************************************************************)
(* reconcile starts a refund in time, or waits for the timelock.           *)
(***************************************************************************)
LEMMA DecidePrompt ==
    ASSUME Inv, PromptInv, NEW h \in Hashlocks, Decide(h)
    PROVE  PromptInv'
<1> DEFINE t == task[h]
           d == now + PollSecs
<1>0. t # Idle /\ t.step = "decide" /\ NoChain /\ NoFault /\ mem' = mem
  BY DEF Decide, At
<1>1. /\ t \in Task /\ task \in [Hashlocks -> Task \cup {Idle}]
      /\ escrows[h] # NoEscrow /\ d \in Nat
  BY <1>0, AtTask, BotAssumption DEF Fits, Judging
<1>2. Pace
  BY <1>0, PaceNoChain
<1>3. /\ Ours(h) => escrows[h].timelock = 1000 * t.expiry
      /\ ~t.submitted
  BY <1>0 DEF PromptInv, PollsOK, Polls, MoneyPolled
<1>4. ASSUME NEW u \in Task, task' = [task EXCEPT ![h] = u], Polls(h, u)
      PROVE  PromptInv'
  <2>1. /\ task'[h] = u
        /\ \A k \in Hashlocks : k # h => task'[k] = task[k]
    BY <1>1, <1>4, Written
  <2> QED
    BY <1>0, <1>2, <1>4, <2>1, PaceTask DEF Aside, Kept
<1>5. CASE is_partial_lock_wedge("Locked", 1000 * now, escrows[h].timelock, t.balance = "enough")
  <2> DEFINE u == [t EXCEPT !.step = "pre"]
  <2>1. u \in Task /\ u.step = "pre"
    <3> HIDE DEF t
    <3> QED BY <1>1 DEF Task, Steps
  <2>2. task' = [task EXCEPT ![h] = u]
    BY <1>5 DEF Decide
  <2> HIDE DEF u
  <2>3. Polls(h, u)
    BY <2>1, TimelessPolls DEF Timeless
  <2> QED
    BY <1>4, <2>1, <2>2, <2>3
<1>6. CASE /\ ~is_partial_lock_wedge("Locked", 1000 * now, escrows[h].timelock,
                                     t.balance = "enough")
           /\ 1000 * now >= escrows[h].timelock
  <2> DEFINE u == [t EXCEPT !.step = "refund", !.deadline = d]
  <2>1. u \in Task /\ u.step = "refund" /\ u.deadline = d /\ u.submitted = t.submitted
    <3> HIDE DEF t, d
    <3> QED BY <1>1 DEF Task, Steps
  <2>2. task' = [task EXCEPT ![h] = u]
    BY <1>6 DEF Decide
  <2> HIDE DEF u
  <2>3. AtRisk(h) => /\ 1000 * now >= escrows[h].timelock
                     /\ 1000 * d <= escrows[h].timelock + 1000 * Slack + 1000 * PollSecs
    BY <1>6, RefundBegins
  <2>4. RefundPolled(h, u)
    <3> HIDE DEF d
    <3> QED BY <1>3, <2>1, <2>3 DEF RefundPolled
  <2>5. Polls(h, u)
    BY <2>1, <2>4 DEF Polls, LockPolled, MoneyPolled, ClaimPolled
  <2> QED
    BY <1>4, <2>1, <2>2, <2>5
<1>7. CASE /\ ~is_partial_lock_wedge("Locked", 1000 * now, escrows[h].timelock,
                                     t.balance = "enough")
           /\ ~(1000 * now >= escrows[h].timelock)
  <2> DEFINE u == [t EXCEPT !.ctx = "resume", !.step = "await"]
  <2>1. u \in Task /\ u.step = "await" /\ u.expiry = t.expiry
    <3> HIDE DEF t
    <3> QED BY <1>1 DEF Task, Steps
  <2>2. task' = [task EXCEPT ![h] = u]
    BY <1>7 DEF Decide
  <2> HIDE DEF u
  <2>3. Polls(h, u)
    BY <1>1, <1>3, <2>1 DEF Polls, LockPolled, MoneyPolled, RefundPolled, ClaimPolled
  <2> QED
    BY <1>4, <2>1, <2>2, <2>3
<1> QED
  BY <1>5, <1>6, <1>7

(***************************************************************************)
(* A wedge is read again and judged.                                       *)
(***************************************************************************)
LEMMA JudgePrompt ==
    ASSUME Inv, PromptInv, NEW h \in Hashlocks,
           RereadState(h) \/ RereadBalance(h) \/ JudgeWedge(h)
    PROVE  PromptInv'
<1>0. task[h] # Idle /\ NoChain /\ task \in [Hashlocks -> Task \cup {Idle}]
  BY AtTask DEF RereadState, RereadBalance, JudgeWedge, At
<1>1. Pace
  <2>1. Fault \/ NoFault
    BY DEF RereadState, RereadBalance, JudgeWedge, read_escrow_bounded, max_escrow_balance
  <2> QED BY <1>0, <2>1, PaceNoChain
<1>2. CASE RereadState(h)
  <2>1. PICK r \in {"None", "Locked", "Claimed", "Refunded", "Err"} :
            WriteState(h, "rebalance", NoneIfErr(r)) /\ mem' = mem
    BY <1>2 DEF RereadState, WriteState
  <2>2. NoneIfErr(r) \in {"None", "Locked", "Claimed", "Refunded"} /\ "rebalance" \in Steps
    BY DEF NoneIfErr, Steps
  <2>3. Moved(h, "rebalance")
    BY <1>0, <2>1, <2>2, ReadsState
  <2> QED BY <1>1, <2>1, <2>3, MovePrompt DEF Timeless
<1>3. CASE RereadBalance(h)
  <2>1. PICK b \in {"enough", "low", "unknown"} : WriteMoney(h, "post", b) /\ mem' = mem
    BY <1>3 DEF RereadBalance, WriteMoney
  <2>2. Moved(h, "post")
    BY <1>0, <2>1, ReadsMoney DEF Steps
  <2> QED BY <1>1, <2>1, <2>2, MovePrompt DEF Timeless
<1>4. CASE JudgeWedge(h)
  <2> DEFINE t == task[h]
  <2>1. PICK r \in {"None", "Locked", "Claimed", "Refunded", "Err"} :
            /\ read_escrow_bounded(h, r)
            /\ LET d == classify_wedge_reread(t.pre, t.balance, NoneIfErr(r),
                                              1000 * now, escrows[h].timelock)
               IN  \/ d = "Quarantine" /\ Continue(h, "quarantine")
                   \/ d = "RecoverClaimed" /\ Continue(h, "claim")
                   \/ d = "Dropped" /\ Resolve(h, "Refunded")
                   \/ d = "Retain" /\ Fail(h)
    BY <1>4 DEF JudgeWedge
  <2> DEFINE d == classify_wedge_reread(t.pre, t.balance, NoneIfErr(r),
                                        1000 * now, escrows[h].timelock)
             p == NoneIfErr(r)
  <2>2. CASE Continue(h, "quarantine") \/ Continue(h, "claim")
    <3>1. PICK s \in {"quarantine", "claim"} : Continue(h, s)
      BY <2>2
    <3>2. Moved(h, s) /\ mem' = mem
      BY <1>0, <3>1, ContinueMoves DEF Steps
    <3> QED BY <1>1, <3>2, MovePrompt DEF Timeless
  <2>3. CASE d = "Dropped" /\ Resolve(h, "Refunded")
    <3>1. p = "Refunded"
      BY <2>3 DEF classify_wedge_reread
    <3>2. StateOf(h) = "Refunded"
      BY <2>1, <3>1 DEF NoneIfErr, read_escrow_bounded
    <3>3. EthClaimed(h)
      BY <3>2 DEF EthClaimed, StateOf, Ours
    <3> QED BY <1>0, <1>1, <2>3, <3>3, ResolvePrompt
  <2>4. CASE Fail(h)
    BY <1>1, <2>4, FailPrompt
  <2> QED BY <2>1, <2>2, <2>3, <2>4
<1> QED
  BY <1>2, <1>3, <1>4

-----------------------------------------------------------------------------
(***************************************************************************)
(* The funding: the only step of the bot that puts LEZ at risk.  It comes  *)
(* before the timelock by more than a poll, or a fault paid for the poll.  *)
(***************************************************************************)
LEMMA FundPrompt ==
    ASSUME Inv, PromptInv, NEW h \in Hashlocks, FundEscrow(h)
    PROVE  PromptInv'
<1> DEFINE t == task[h]
           d == now + PollSecs
<1>0. t # Idle /\ t.step = "fund" /\ UNCHANGED <<now, ethVars, ethPool>>
  BY DEF FundEscrow, At
<1>1. PICK ok \in BOOLEAN :
          /\ Send(FundTx(h), ok)
          /\ IF ok
             THEN /\ task' = [task EXCEPT ![h].step = "funding", ![h].deadline = now + PollSecs]
                  /\ UNCHANGED <<mem, disk, pc, queue, rejected, ops>>
             ELSE Fail(h)
  BY DEF FundEscrow
<1>2. now' = now /\ htlcs' = htlcs /\ mem' = mem /\ (Fault \/ NoFault) /\ (~ok => Fault)
  BY <1>0, <1>1 DEF ethVars, Fail, Send, Outcome
<1>3. /\ Placed(t) /\ Answers(h, t) /\ task \in [Hashlocks -> Task \cup {Idle}]
      /\ now \in Nat /\ t.expiry \in Nat /\ PollSecs \in Nat /\ d \in Nat
      /\ lez_timelock_secs \in Nat /\ lez_timelock_secs > PollSecs
  BY <1>0, AtTask, BotAssumption DEF Fits
<1>4. /\ now + lez_timelock_secs <= t.expiry + PollSecs
      /\ Ours(h) /\ escrows[h].state = "Locked" /\ escrows[h].timelock = 1000 * t.expiry
      /\ escrows[h] # NoEscrow
  BY <1>0, <1>3 DEF Answers, Confirmed, Ours, Fresh, Early
<1>5. now + lez_timelock_secs = t.expiry \/ faults > 0
  BY <1>0 DEF PromptInv, PollsOK, Polls, LockPolled
<1>6. /\ Slack \in Nat /\ Slack' \in Nat /\ Slack <= Slack'
      /\ faults > 0 => PollSecs <= Slack
  BY <1>2, SlackType, SlackGrows DEF Inv, BotTypes
<1>7. pc = "watch" /\ \A k \in Hashlocks : k # h => task[k] = Idle /\ ~AtRisk(k)
  <2>1. Control /\ \A k \in Hashlocks : RiskOK(k)
    BY DEF Inv
  <2>2. pc = "watch"
    BY <1>0, <1>3, <2>1 DEF Placed, Control, Fresh, Early
  <2> QED BY <1>0, <2>1, <2>2 DEF Control, RiskOK
<1>8. CASE UNCHANGED lezVars /\ ~ok
  <2>1. Pace
    BY <1>0, <1>2, <1>8, PaceNoChain DEF NoChain
  <2> QED
    BY <1>1, <1>8, <2>1, FailPrompt
<1>9. CASE Lez!Submit(FundTx(h))
  <2>1. escrows' = escrows /\ pdas' = pdas
    BY <1>9 DEF Lez!Submit
  <2>2. \A k \in Hashlocks : k # h => ~AtRisk(k)'
    <3>1. Lez!TypeOK
      BY DEF Inv, ChainTypes
    <3>2. FundTx(h) \in Txs /\ \A k \in Hashlocks : FundTx(h).hashlock = k => k = h
      BY OwnTxs
    <3>3. \A k \in Hashlocks : k # h => pending'[FundTx(k)] = pending[FundTx(k)]
      BY <1>9, <3>1, <3>2, OtherPayments
    <3> QED BY <1>7, <2>1, <3>3 DEF AtRisk, FundTx
  <2>3. /\ 1000 * d <= escrows[h].timelock + 1000 * Slack'
        /\ 1000 * now <= escrows[h].timelock + 1000 * Slack'
    BY <1>3, <1>4, <1>5, <1>6
  <2>4. /\ \A k \in Hashlocks : k # h => task'[k] = Idle
        /\ task'[h] # Idle => /\ task'[h].step = "funding" /\ task'[h].deadline = d
                              /\ task'[h].expiry = t.expiry
    <3>1. CASE ok
      <4>1. WritePoll(h, "funding", d)
        BY <1>1, <3>1 DEF WritePoll
      <4>2. Moved(h, "funding") /\ task'[h].deadline = d
        <5>1. "funding" \in Steps
          BY DEF Steps
        <5> HIDE DEF d
        <5> QED BY <1>0, <1>3, <4>1, <5>1, PollsTo
      <4> QED BY <1>7, <4>2 DEF Moved
    <3>2. CASE ~ok
      <4>1. task' = [task EXCEPT ![h] = Idle]
        BY <1>1, <3>2 DEF Fail, EndTask
      <4> DEFINE T == Task \cup {Idle}
      <4>2. task \in [Hashlocks -> T]
        BY <1>3
      <4> HIDE DEF T
      <4> QED BY <1>7, <4>1, <4>2
    <3> QED BY <3>1, <3>2
  <2> HIDE DEF d
  <2>5. PollsOK(h)'
    <3> SUFFICES ASSUME task'[h] # Idle PROVE Polls(h, task[h])'
      BY DEF PollsOK
    <3>1. InTime(h, task[h].deadline)'
      BY <2>1, <2>3, <2>4 DEF InTime
    <3>2. escrows'[h] # NoEscrow /\ escrows'[h].timelock = 1000 * task'[h].expiry
      BY <1>4, <2>1, <2>4
    <3>3. task'[h].step = "funding"
      BY <2>4
    <3> QED
      BY <3>1, <3>2, <3>3 DEF Polls, LockPolled, MoneyPolled, RefundPolled, ClaimPolled
  <2>6. ASSUME NEW k \in Hashlocks PROVE PollsOK(k)'
    BY <2>4, <2>5 DEF PollsOK
  <2>7. ASSUME NEW k \in Hashlocks PROVE Timely(k)'
    <3>1. AtRisk(k)' => InTime(k, now)'
      BY <1>2, <2>1, <2>2, <2>3 DEF InTime
    <3>2. (Ours(k)' <=> Ours(k)) /\ Answered(k)' = Answered(k)
      BY <1>2, <2>1 DEF Ours, Answered
    <3>3. escrows[k] # NoEscrow /\ InTime(k, now) => InTime(k, now)'
      <4>1. escrows[k] # NoEscrow /\ InTime(k, now) =>
                1000 * now <= escrows'[k].timelock + 1000 * Slack'
        BY <1>2, <1>3, <2>1, StaysInTime
      <4> QED BY <1>2, <4>1 DEF InTime
    <3> QED
      BY <1>2, <2>1, <3>1, <3>2, <3>3 DEF PromptInv, Timely, Ours
  <2>8. RefundedLate'
    BY <1>2 DEF PromptInv, RefundedLate
  <2> QED
    BY <2>6, <2>7, <2>8 DEF PromptInv
<1> QED
  BY <1>1, <1>8, <1>9 DEF Send

-----------------------------------------------------------------------------
(***************************************************************************)
(* Such a step in which no task goes on.                                   *)
(***************************************************************************)
LEMMA IdlePrompt ==
    ASSUME Inv, PromptInv, Pace,
           \A h \in Hashlocks : Kept(h) /\ (task'[h] = Idle \/ task'[h] = task[h])
    PROVE  PromptInv'
<1>1. ASSUME NEW h \in Hashlocks PROVE PollsOK(h)'
  <2>1. CASE task'[h] = Idle
    BY <2>1 DEF PollsOK
  <2>2. CASE task'[h] = task[h]
    <3>1. task[h] # Idle => task[h] \in Task /\ Polls(h, task[h])
      BY DEF Inv, BotTypes, PromptInv, PollsOK
    <3> QED BY <2>2, <3>1, PacePolls
  <2> QED BY <2>1, <2>2
<1> QED
  BY <1>1, PaceStep

(***************************************************************************)
(* The loop, a start and a crash.  A start reads what memory held.         *)
(***************************************************************************)
LEMMA LoopPrompt ==
    ASSUME Inv, PromptInv,
           \/ Drained \/ StartIteration \/ WatchTimesOut \/ Start \/ Crash
           \/ \E id \in SwapIds : RejectLock(id)
    PROVE  PromptInv'
<1>1. CASE Start
  <2>1. NoFault /\ NoChain /\ task' = task /\ mem' = disk
    BY <1>1 DEF Start, load
  <2>2. \A h \in Hashlocks : Kept(h)
    BY <2>1 DEF Inv, JournalOK, Kept
  <2> QED BY <2>1, <2>2, PaceNoChain, IdlePrompt
<1>2. CASE Crash
  <2>1. /\ Fault /\ NoChain /\ mem' = mem /\ \A h \in Hashlocks : task'[h] = Idle
    BY <1>2 DEF Crash
  <2> QED BY <2>1, PaceNoChain, IdlePrompt DEF Kept
<1>3. CASE \/ Drained \/ StartIteration \/ WatchTimesOut
           \/ \E id \in SwapIds : RejectLock(id)
  <2>1. NoFault /\ NoChain /\ task' = task /\ mem' = mem
    BY <1>3 DEF Drained, StartIteration, WatchTimesOut, RejectLock
  <2> QED BY <2>1, PaceNoChain, IdlePrompt DEF Kept
<1> QED
  BY <1>1, <1>2, <1>3

(***************************************************************************)
(* A lock is accepted: a new task, which relies on nothing about time.     *)
(***************************************************************************)
LEMMA AcceptLockPrompt ==
    ASSUME Inv, PromptInv, NEW id \in SwapIds, AcceptLock(id)
    PROVE  PromptInv'
<1> DEFINE h == id.hashlock
           expiry == fresh_lez_expiry_secs(now, lez_timelock_secs)
           t == NewTask("maker", "record", id)
           u == [t EXCEPT !.expiry = expiry]
<1>1. NoChain /\ mem' = mem /\ (Fault \/ NoFault) /\ Matches(id) /\ task' = [task EXCEPT ![h] = u]
  BY DEF AcceptLock, Outcome
<1>2. h \in Hashlocks
  BY <1>1, MatchUsable
<1>3. now \in Nat /\ now <= MaxTime
  BY DEF Inv, EthOK, ChainTypes, Eth!TypeOK
<1>4. now + lez_timelock_secs <= U64Max
  BY <1>3, BotAssumption, ChainsAssumption, PolicyAssumption
<1>5. expiry \in Nat
  BY <1>3, <1>4, BotAssumption, PolicyAssumption DEF fresh_lez_expiry_secs, saturating_add,
                                                     saturating_to
<1>6. u \in Task /\ u.step = "record"
  <2>1. t \in Task /\ t.step = "record"
    BY NewTaskType DEF Steps
  <2> HIDE DEF t, expiry
  <2> QED BY <1>5, <2>1 DEF Task
<1>7. task'[h] = u /\ \A k \in Hashlocks : k # h => task'[k] = task[k]
  <2>1. task \in [Hashlocks -> Task \cup {Idle}]
    BY DEF Inv, BotTypes
  <2> HIDE DEF u, h
  <2> QED BY <1>1, <1>2, <1>6, <2>1, Written
<1> HIDE DEF u
<1>8. Polls(h, task'[h]) /\ Pace
  <2>1. Polls(h, u)
    BY <1>2, <1>6, TimelessPolls DEF Timeless
  <2> QED BY <1>1, <1>7, <2>1, PaceNoChain
<1> QED
  BY <1>1, <1>2, <1>6, <1>7, <1>8, PaceTask DEF Aside, Kept

-----------------------------------------------------------------------------
(***************************************************************************)
(* Calls of the contract: what is claimed stays claimed, and a refund of   *)
(* ETH comes after its timelock.                                           *)
(***************************************************************************)
LEMMA EthPrompt ==
    ASSUME Inv, PromptInv, UNCHANGED <<lezVars, botVars, faults>>, now' = now,
           \A x \in SwapIds : EthMoves(x)
    PROVE  PromptInv'
<1>1. /\ mem' = mem /\ task' = task /\ faults' = faults
      /\ escrows' = escrows /\ pdas' = pdas /\ pending' = pending
  BY DEF botVars, lezVars
<1>2. RefundedLate'
  BY DEF PromptInv, RefundedLate, EthMoves
<1>3. ASSUME NEW h \in Hashlocks
      PROVE  /\ (AtRisk(h)' <=> AtRisk(h)) /\ (Ours(h)' <=> Ours(h))
             /\ \A x \in Answered(h) : /\ x \in Answered(h)'
                                       /\ htlcs[x] = "CLAIMED" => htlcs'[x] = "CLAIMED"
             /\ InTime(h, now)' <=> InTime(h, now)
             /\ InTime(h, task[h].deadline)' <=> InTime(h, task[h].deadline)
  <2>1. (AtRisk(h)' <=> AtRisk(h)) /\ (Ours(h)' <=> Ours(h))
    BY <1>1 DEF AtRisk, Ours, FundTx
  <2>2. \A x \in Answered(h) : /\ x \in Answered(h)'
                               /\ htlcs[x] = "CLAIMED" => htlcs'[x] = "CLAIMED"
    BY <1>1 DEF Answered, EthMoves
  <2>3. /\ InTime(h, now)' <=> InTime(h, now)
        /\ InTime(h, task[h].deadline)' <=> InTime(h, task[h].deadline)
    BY <1>1 DEF InTime, Slack
  <2> QED BY <2>1, <2>2, <2>3
<1>4. ASSUME NEW h \in Hashlocks PROVE Timely(h)'
  <2>1. Timely(h)
    BY DEF PromptInv
  <2> QED BY <1>1, <1>3, <2>1 DEF Timely
<1>5. ASSUME NEW h \in Hashlocks PROVE PollsOK(h)'
  <2> SUFFICES ASSUME task[h] # Idle PROVE Polls(h, task[h])'
    BY <1>1 DEF PollsOK
  <2>1. /\ LockPolled(h, task[h]) /\ MoneyPolled(h, task[h])
        /\ RefundPolled(h, task[h]) /\ ClaimPolled(h, task[h])
    BY DEF PromptInv, PollsOK, Polls
  <2>2. LockPolled(h, task[h])'
    <3>1. Txs' = Txs
      BY DEF Txs, LockTx, FundTx, RefundTx, TakerClaims, TakerClaimTx, Usable
    <3> QED BY <1>1, <2>1, <3>1 DEF LockPolled, LockTx
  <2>3. MoneyPolled(h, task[h])'
    BY <1>1, <1>3, <2>1 DEF MoneyPolled
  <2>4. RefundPolled(h, task[h])'
    <3>1. Slack' = Slack /\ (RefundTx(h))' = RefundTx(h)
      BY <1>1 DEF Slack, RefundTx
    <3> QED BY <1>1, <1>3, <2>1, <3>1 DEF RefundPolled
  <2>5. ClaimPolled(h, task[h])'
    <3>1. EthClaimed(h) => EthClaimed(h)'
      BY <1>1, <1>3 DEF EthClaimed
    <3> QED BY <1>1, <2>1, <3>1 DEF ClaimPolled
  <2> QED BY <2>2, <2>3, <2>4, <2>5 DEF Polls
<1> QED
  BY <1>2, <1>4, <1>5 DEF PromptInv

(***************************************************************************)
(* Takers lock and refund ETH, and the maker's claim is mined.             *)
(***************************************************************************)
LEMMA EthCallsPrompt ==
    ASSUME Inv, PromptInv, NEW id \in SwapIds,
           TakerLocks(id) \/ TakerRefunds(id) \/ MineClaim(id)
    PROVE  PromptInv'
<1>1. UNCHANGED <<lezVars, botVars, faults>> /\ Eth!TypeOK
  BY DEF TakerLocks, TakerRefunds, MineClaim, NoFault, Inv, ChainTypes
<1>2. CASE Eth!lock(id) \/ Eth!refund(id) \/ \E p \in Preimages : Eth!claim(id, p)
  <2>1. now' = now /\ \A x \in SwapIds : EthMoves(x)
    BY <1>1, <1>2, EthCall
  <2> QED BY <1>1, <2>1, EthPrompt
<1>3. CASE UNCHANGED <<now, ethVars>>
  <2>1. now' = now /\ htlcs' = htlcs /\ events' = events
    BY <1>3 DEF ethVars
  <2>2. \A x \in SwapIds : EthMoves(x)
    BY <2>1 DEF EthMoves, Delivered
  <2> QED BY <1>1, <2>1, <2>2, EthPrompt
<1> QED
  BY <1>2, <1>3 DEF TakerLocks, TakerRefunds, MineClaim

(***************************************************************************)
(* A transaction of somebody else is handed in.                            *)
(***************************************************************************)
LEMMA HandedInPrompt ==
    ASSUME Inv, PromptInv, NEW tx \in Txs, tx.op # "Transfer", Lez!Submit(tx), NoFault,
           UNCHANGED <<now, ethVars, ethPool, botVars>>
    PROVE  PromptInv'
<1>1. mem' = mem /\ task' = task
  BY DEF botVars
<1>2. Pace
  BY PaceSend
<1> QED
  BY <1>1, <1>2, IdlePrompt DEF Kept

(***************************************************************************)
(* Claims of takers and transactions of others.                            *)
(***************************************************************************)
LEMMA OthersPrompt ==
    ASSUME Inv, PromptInv,
           \/ \E id \in SwapIds, p \in Preimages : TakerClaimsLez(id, p)
           \/ \E tx \in OtherTxs : OthersSubmit(tx)
    PROVE  PromptInv'
<1>1. ASSUME NEW id \in SwapIds, NEW p \in Preimages, TakerClaimsLez(id, p)
      PROVE  PromptInv'
  <2> DEFINE tx == TakerClaimTx(id, p)
  <2>1. /\ id \in Usable /\ Lez!Submit(tx) /\ NoFault
        /\ UNCHANGED <<now, ethVars, ethPool, botVars>>
    BY <1>1 DEF TakerClaimsLez
  <2>2. tx \in Txs
    BY <2>1 DEF Txs, TakerClaims
  <2>3. tx.op # "Transfer"
    BY DEF TakerClaimTx
  <2> HIDE DEF tx
  <2> QED BY <2>1, <2>2, <2>3, HandedInPrompt
<1>2. ASSUME NEW tx \in OtherTxs, OthersSubmit(tx)
      PROVE  PromptInv'
  <2>1. Lez!Submit(tx) /\ NoFault /\ UNCHANGED <<now, ethVars, ethPool, botVars>>
    BY <1>2 DEF OthersSubmit
  <2>2. tx \in Txs
    BY DEF Txs
  <2>3. tx.op # "Transfer"
    <3>1. tx \in Lez!LockTx \/ tx \in Lez!ClaimTx \/ tx \in Lez!RefundTx
      BY ChainsAssumption
    <3> QED BY <3>1 DEF Lez!LockTx, Lez!ClaimTx, Lez!RefundTx
  <2> QED BY <2>1, <2>2, <2>3, HandedInPrompt
<1> QED
  BY <1>1, <1>2

-----------------------------------------------------------------------------
(***************************************************************************)
(* The sequencer.  The maker's lock of a free account is lost only by a    *)
(* fault.                                                                  *)
(***************************************************************************)
LEMMA LockLost ==
    ASSUME Inv, NEW h \in Hashlocks, task[h] # Idle, task[h].step = "confirm",
           NEW tx \in Txs, Sequence(tx),
           tx = LockTx(h, task[h].swap_id.takerLezAccount, 1000 * task[h].expiry),
           escrows[h] = NoEscrow, escrows'[h] = NoEscrow
    PROVE  Fault
<1>1. /\ tx.op = "Lock" /\ tx.hashlock = h /\ tx.signer = MakerLez
      /\ tx.taker_id = task[h].swap_id.takerLezAccount
  BY DEF LockTx
<1>2. ~AtRisk(h) /\ task[h].swap_id.takerLezAccount # MakerLez
  BY AtTask DEF Fits, Answers, ToAnswer, Fresh
<1>3. pdas[h] = 0 /\ Lez!TypeOK
  BY <1>2, EscrowType DEF AtRisk, Inv, ChainTypes
<1>4. Lez!Accepts(tx)
  BY <1>1, <1>2, <1>3 DEF Lez!Accepts, Lez!AcceptsLock
<1>5. ~Executes(tx)
  <2> DEFINE e == [maker_id |-> tx.signer, taker_id |-> tx.taker_id, amount |-> tx.amount,
                   state |-> "Locked", timelock |-> tx.timelock, preimage |-> NoPreimage]
  <2> SUFFICES ASSUME Lez!execute_lock(tx) PROVE FALSE
    BY <1>1 DEF Executes, Lez!execute_claim, Lez!execute_refund, Lez!transfer
  <2>1. escrows' = [escrows EXCEPT ![tx.hashlock] = e]
    BY DEF Lez!execute_lock
  <2>2. e \in Lez!HTLCEscrow
    BY <1>1, TxFields DEF Lez!HTLCEscrow
  <2>3. e # NoEscrow
    BY <2>2, ChainsAssumption
  <2>4. escrows \in [Hashlocks -> Lez!HTLCEscrow \cup {NoEscrow}]
    BY <1>3 DEF Lez!TypeOK
  <2> HIDE DEF e
  <2> QED BY <1>1, <2>1, <2>3, <2>4
<1> QED
  BY <1>4, <1>5 DEF Sequence

(***************************************************************************)
(* Nor is the maker's refund of a funded and expired escrow lost otherwise.*)
(***************************************************************************)
LEMMA RefundLost ==
    ASSUME Inv, NEW h \in Hashlocks, Sequence(RefundTx(h)), AtRisk(h),
           1000 * now >= escrows[h].timelock, escrows'[h].state = "Locked"
    PROVE  Fault
<1> DEFINE tx == RefundTx(h)
<1>1. tx.op = "Refund" /\ tx.hashlock = h /\ tx.signer = MakerLez /\ tx \in Txs
  BY OwnTxs
<1>2. /\ RiskOK(h) /\ OwnTerms /\ Lez!TypeOK /\ now \in Nat /\ lez_amount \in Nat
  BY BotAssumption DEF Inv, ChainTypes, Lez!TypeOK
<1>3. /\ escrows[h] # NoEscrow /\ escrows[h].maker_id = MakerLez
      /\ escrows[h].state = "Locked" /\ escrows[h].amount = lez_amount
  BY <1>2 DEF RiskOK, Ours, OwnTerms
<1>4. escrows[h].timelock \in Nat /\ escrows[h] \in Lez!HTLCEscrow
  BY <1>2, <1>3, EscrowType
<1>5. pdas[h] = lez_amount
  BY <1>2, <1>4 DEF RiskOK
<1>6. Lez!BlockTimestamp >= escrows[h].timelock
  BY <1>2, <1>4 DEF Lez!BlockTimestamp
<1> HIDE DEF tx
<1>7. Lez!Accepts(tx)
  BY <1>1, <1>2, <1>3, <1>5, <1>6 DEF Lez!Accepts, Lez!AcceptsRefund
<1>8. ~Executes(tx)
  <2> DEFINE e == [escrows[h] EXCEPT !.state = "Refunded"]
  <2> SUFFICES ASSUME Lez!execute_refund(tx) PROVE FALSE
    BY <1>1 DEF Executes, Lez!execute_claim, Lez!execute_lock, Lez!transfer
  <2>1. escrows \in [Hashlocks -> Lez!HTLCEscrow \cup {NoEscrow}]
    BY <1>2 DEF Lez!TypeOK
  <2>2. escrows' = [escrows EXCEPT ![h] = e]
    BY <1>1, <1>4, <2>1 DEF Lez!execute_refund, Lez!HTLCEscrow
  <2>3. e.state = "Refunded"
    BY <1>4 DEF Lez!HTLCEscrow
  <2> HIDE DEF e
  <2> QED BY <2>1, <2>2, <2>3
<1>9. Sequence(tx)
  BY DEF tx
<1> QED
  BY <1>7, <1>8, <1>9 DEF Sequence

(***************************************************************************)
(* One account in a step of the sequencer.                                 *)
(***************************************************************************)
LEMMA AccountPrompt ==
    ASSUME Inv, PromptInv, Inv', NEW tx \in Txs, Sequence(tx), NEW h \in Hashlocks
    PROVE  PollsOK(h)' /\ Timely(h)'
<1>1. /\ Fault \/ NoFault
      /\ now' = now /\ htlcs' = htlcs /\ mem' = mem /\ task' = task
      /\ AccountStep(h) /\ (AtRisk(h)' => AtRisk(h))
  BY SequenceKeeps DEF AccountKept
<1>2. /\ faults \in 0..MaxFaults /\ Slack \in Nat /\ Slack' \in Nat /\ Slack <= Slack'
      /\ faults > 0 => faults' > 0
      /\ Fault => Slack' = Slack + PollSecs /\ faults' > 0
      /\ now \in Nat /\ PollSecs \in Nat /\ RiskOK(h) /\ RiskOK(h)' /\ OwnTerms /\ Lez!TypeOK
  BY <1>1, SlackGrows, BotAssumption DEF Inv, BotTypes, ChainTypes, Lez!TypeOK
<1>3. escrows[h] # NoEscrow =>
          /\ escrows'[h] # NoEscrow /\ escrows'[h].timelock = escrows[h].timelock
          /\ (Ours(h)' <=> Ours(h)) /\ Answered(h)' = Answered(h)
          /\ escrows[h].timelock \in Nat
  <2>1. escrows[h] # NoEscrow =>
            /\ escrows'[h] # NoEscrow /\ escrows'[h].timelock = escrows[h].timelock
            /\ escrows'[h].maker_id = escrows[h].maker_id
            /\ escrows'[h].taker_id = escrows[h].taker_id
    BY <1>1 DEF AccountStep, Left, PaymentLost, PaymentMade, Created, Ended, SameTerms
  <2> QED
    BY <1>1, <1>2, <2>1, EscrowType DEF Ours, Answered
<1>4. \A x \in Txs : pending'[x] = 0 => pending[x] = 0 \/ x = tx
  <2>1. pending[tx] > 0 /\ Lez!Taken(tx)
    BY DEF Sequence, Executes, Lez!Drop, Lez!execute_lock, Lez!execute_claim,
           Lez!execute_refund, Lez!transfer
  <2> QED BY <1>2, <2>1, Queue
<1>5. AtRisk(h) => escrows[h] # NoEscrow
  BY <1>2 DEF RiskOK, Ours
<1>6. escrows[h] # NoEscrow /\ InTime(h, now) => InTime(h, now)'
  <2>1. escrows[h] # NoEscrow /\ InTime(h, now) =>
            1000 * now <= escrows'[h].timelock + 1000 * Slack'
    BY <1>1, <1>2, <1>3, StaysInTime
  <2> QED BY <1>1, <2>1 DEF InTime
<1>7. PollsOK(h)'
  <2> SUFFICES ASSUME task[h] # Idle PROVE Polls(h, task[h])'
    BY <1>1 DEF PollsOK
  <2> DEFINE t == task[h]
  <2>1. /\ LockPolled(h, t) /\ MoneyPolled(h, t) /\ RefundPolled(h, t) /\ ClaimPolled(h, t)
    BY DEF PromptInv, PollsOK, Polls
  <2>2. Settling(h, t) /\ Judging(h, t) /\ t.deadline \in Nat
    BY AtTask DEF Fits
  <2>3. escrows[h] # NoEscrow /\ InTime(h, t.deadline) => InTime(h, task[h].deadline)'
    <3>1. escrows[h] # NoEscrow /\ InTime(h, t.deadline) =>
              1000 * t.deadline <= escrows'[h].timelock + 1000 * Slack'
      BY <1>1, <1>3, <2>2, StaysInTime
    <3> QED BY <1>1, <3>1 DEF InTime
  <2>4. LockPolled(h, task[h])'
    <3> DEFINE lock == LockTx(h, t.swap_id.takerLezAccount, 1000 * t.expiry)
    <3>1. (LockTx(h, task[h].swap_id.takerLezAccount, 1000 * task[h].expiry))' = lock
      BY <1>1 DEF LockTx
    <3>2. Txs' = Txs
      BY DEF Txs, LockTx, FundTx, RefundTx, TakerClaims, TakerClaimTx, Usable
    <3>3. /\ t.step \in {"confirm", "fund"} => now + lez_timelock_secs = t.expiry \/ faults > 0
          /\ t.step = "confirm" => /\ lock \in Txs
                                   /\ escrows[h] = NoEscrow /\ pending[lock] = 0 => faults > 0
      BY <2>1 DEF LockPolled
    <3>4. ASSUME t.step = "confirm", escrows'[h] = NoEscrow, pending'[lock] = 0
          PROVE  faults' > 0
      <4>1. escrows[h] = NoEscrow
        BY <1>3, <3>4
      <4>2. lock \in Txs /\ (pending[lock] = 0 \/ lock = tx)
        BY <1>4, <3>3, <3>4
      <4>3. CASE lock = tx
        <5>1. Fault
          BY <3>4, <4>1, <4>3, LockLost
        <5> QED BY <1>2, <5>1
      <4> QED BY <1>2, <3>3, <3>4, <4>1, <4>2, <4>3
    <3> HIDE DEF lock
    <3> QED BY <1>1, <1>2, <3>1, <3>2, <3>3, <3>4 DEF LockPolled
  <2>5. MoneyPolled(h, task[h])'
    <3>1. t.step \in {"funding", "mark", "await", "balance", "decide"} => escrows[h] # NoEscrow
      BY <2>1, <2>2 DEF MoneyPolled, Judging
    <3> QED BY <1>1, <1>3, <2>1, <2>3, <3>1 DEF MoneyPolled
  <2>6. RefundPolled(h, task[h])'
    <3> SUFFICES ASSUME t.step = "refund", AtRisk(h)'
                 PROVE  /\ 1000 * now >= escrows'[h].timelock
                        /\ 1000 * t.deadline <=
                              escrows'[h].timelock + 1000 * Slack' + 1000 * PollSecs
                        /\ t.submitted /\ pending'[RefundTx(h)] = 0 =>
                              InTime(h, task[h].deadline)'
      <4>1. (RefundTx(h))' = RefundTx(h)
        BY DEF RefundTx
      <4> QED BY <1>1, <4>1 DEF RefundPolled
    <3>1. /\ AtRisk(h) /\ escrows[h] # NoEscrow /\ escrows'[h].state = "Locked"
          /\ escrows'[h].timelock = escrows[h].timelock /\ escrows[h].timelock \in Nat
      BY <1>1, <1>2, <1>3, <1>5 DEF RiskOK
    <3>2. /\ 1000 * now >= escrows[h].timelock
          /\ 1000 * t.deadline <= escrows[h].timelock + 1000 * Slack + 1000 * PollSecs
          /\ t.submitted /\ pending[RefundTx(h)] = 0 => InTime(h, t.deadline)
      BY <2>1, <3>1 DEF RefundPolled
    <3>3. ASSUME t.submitted, pending'[RefundTx(h)] = 0
          PROVE  InTime(h, task[h].deadline)'
      <4>1. pending[RefundTx(h)] = 0 \/ RefundTx(h) = tx
        BY <1>4, <3>3, OwnTxs
      <4>2. CASE pending[RefundTx(h)] = 0
        BY <2>3, <3>1, <3>2, <3>3, <4>2
      <4>3. CASE RefundTx(h) = tx
        <5>1. Fault
          BY <3>1, <3>2, <4>3, RefundLost
        <5>2. 1000 * t.deadline <= escrows'[h].timelock + 1000 * Slack'
          BY <1>2, <2>2, <3>1, <3>2, <5>1
        <5> QED BY <1>1, <5>2 DEF InTime
      <4> QED BY <4>1, <4>2, <4>3
    <3>4. 1000 * t.deadline <= escrows'[h].timelock + 1000 * Slack' + 1000 * PollSecs
      BY <1>2, <2>2, <3>1, <3>2
    <3> QED BY <3>1, <3>2, <3>3, <3>4
  <2>7. ClaimPolled(h, task[h])'
    <3> SUFFICES ASSUME t.step = "clear" \/ (t.step = "ops" /\ t.ctx = "resume")
                 PROVE  EthClaimed(h)'
      BY <1>1 DEF ClaimPolled
    <3>1. Settled(h) /\ EthClaimed(h)
      BY <2>1, <2>2 DEF Settling, ClaimPolled
    <3>2. escrows'[h] = escrows[h]
      BY <1>1, <3>1 DEF Settled, StateOf, AccountStep, Left, PaymentLost, PaymentMade,
                        Created, Ended
    <3> QED BY <1>1, <3>1, <3>2 DEF EthClaimed, Ours, Answered
  <2> QED BY <2>4, <2>5, <2>6, <2>7 DEF Polls
<1>8. Timely(h)'
  <2>1. Timely(h)
    BY DEF PromptInv
  <2>2. AtRisk(h)' => InTime(h, now)'
    BY <1>1, <1>5, <1>6, <2>1 DEF Timely
  <2>3. ASSUME Ours(h)', escrows'[h].state = "Claimed"
        PROVE  \E id \in Answered(h)' :
                   \/ htlcs'[id] = "CLAIMED"
                   \/ /\ mem'.in_flight[h] # NoEntry /\ mem'.in_flight[h].swap_id = id
                      /\ InTime(h, now)'
    <3>1. ~Created(h)
      BY <2>3 DEF Created
    <3>2. CASE Ended(h)
      <4>1. /\ escrows[h] # NoEscrow /\ pdas[h] >= escrows[h].amount
        BY <3>2 DEF Ended
      <4>2. Ours(h) /\ escrows[h].amount = lez_amount /\ Answered(h)' = Answered(h)
        BY <1>2, <1>3, <2>3, <4>1 DEF OwnTerms
      <4>3. AtRisk(h)
        BY <1>2, <4>1, <4>2, EscrowType, BotAssumption DEF AtRisk
      <4>4. /\ InTime(h, now) /\ mem.in_flight[h] # NoEntry
            /\ mem.in_flight[h].swap_id \in Answered(h)
        BY <1>2, <2>1, <4>3 DEF Timely, RiskOK
      <4> QED BY <1>1, <1>6, <4>1, <4>2, <4>4
    <3>3. CASE escrows'[h] = escrows[h]
      <4>1. escrows[h] # NoEscrow /\ Ours(h) /\ escrows[h].state = "Claimed"
        BY <2>3, <3>3 DEF Ours
      <4>2. Answered(h)' = Answered(h)
        BY <1>3, <4>1
      <4> QED BY <1>1, <1>6, <2>1, <4>1, <4>2 DEF Timely
    <3> QED
      BY <1>1, <3>1, <3>2, <3>3 DEF AccountStep, Left, PaymentLost, PaymentMade
  <2> QED BY <2>2, <2>3 DEF Timely
<1> QED
  BY <1>7, <1>8

(***************************************************************************)
(* A step of the sequencer.                                                *)
(***************************************************************************)
LEMMA SequencePrompt ==
    ASSUME Inv, PromptInv, NEW tx \in Txs, Sequence(tx)
    PROVE  PromptInv'
<1>1. Inv'
  BY SequenceStep
<1>2. \A h \in Hashlocks : PollsOK(h)' /\ Timely(h)'
  BY <1>1, AccountPrompt
<1>3. now' = now /\ htlcs' = htlcs
  BY SequenceKeeps
<1>4. RefundedLate'
  BY <1>3 DEF PromptInv, RefundedLate
<1> QED
  BY <1>2, <1>4 DEF PromptInv

-----------------------------------------------------------------------------
(***************************************************************************)
(* While the clock goes, somebody looks after what is owed to the maker:   *)
(* a task waits for its next event or deadline.                            *)
(***************************************************************************)
LEMMA LookedAfter ==
    ASSUME Inv, AllWait, NEW h \in Hashlocks, mem.in_flight[h] # NoEntry
    PROVE  task[h] # Idle
<1>1. /\ Control /\ disk.in_flight[h] # NoEntry
      /\ pc \in {"down", "reconcile", "loop", "watch"}
  BY DEF Inv, JournalOK, BotTypes
<1>2. CASE pc \in {"down", "reconcile"}
  BY <1>1, <1>2 DEF AllWait
<1>3. CASE pc \in {"loop", "watch"}
  BY <1>1, <1>3 DEF Control
<1> QED
  BY <1>1, <1>2, <1>3

(***************************************************************************)
(* What such a task waits for comes in time: the timelock, or the end of a *)
(* poll that a fault has paid for.                                         *)
(***************************************************************************)
LEMMA WaitsInTime ==
    ASSUME Inv, PromptInv, AllWait, NEW h \in Hashlocks, Ours(h), mem.in_flight[h] # NoEntry,
           AtRisk(h) \/ escrows[h].state = "Claimed"
    PROVE  1000 * (now + 1) <= escrows[h].timelock + 1000 * Slack
<1> DEFINE t == task[h]
<1>1. /\ t # Idle /\ escrows[h] # NoEscrow
  BY LookedAfter DEF Ours
<1>2. /\ MoneyPolled(h, t) /\ RefundPolled(h, t) /\ now \in Nat
      /\ t.expiry \in Nat /\ t.deadline \in Nat
  BY <1>1, AtTask DEF PromptInv, PollsOK, Polls
<1>3. Slack \in Nat /\ escrows[h].timelock \in Nat
  BY <1>1, SlackType, EscrowType DEF Inv, BotTypes, ChainTypes
<1>4. ASSUME InTime(h, t.deadline), ~Late(t.deadline)
      PROVE  1000 * (now + 1) <= escrows[h].timelock + 1000 * Slack
  BY <1>2, <1>3, <1>4 DEF InTime, Late
<1>5. Waiting(h)
  BY DEF AllWait
<1>6. CASE At(h, "await") /\ now < t.expiry
  <2>1. escrows[h].timelock = 1000 * t.expiry
    BY <1>2, <1>6 DEF MoneyPolled, At
  <2> QED BY <1>2, <1>3, <1>6, <2>1
<1>7. CASE At(h, "refund") /\ StateOf(h) = "Locked" /\ t.submitted /\ ~Late(t.deadline)
  <2>1. AtRisk(h) /\ pending[RefundTx(h)] = 0
    BY <1>1, <1>7, OwnTxs DEF StateOf, AllWait
  <2> QED BY <1>2, <1>4, <1>7, <2>1 DEF RefundPolled, At
<1>8. CASE At(h, "funding") /\ ~Late(t.deadline)
  BY <1>2, <1>4, <1>8 DEF MoneyPolled, At
<1> QED
  BY <1>1, <1>5, <1>6, <1>7, <1>8 DEF Waiting

(***************************************************************************)
(* A step of the clock.                                                    *)
(***************************************************************************)
LEMMA TickPrompt ==
    ASSUME Inv, PromptInv, Tick, AllWait
    PROVE  PromptInv'
<1>1. /\ now' = now + 1 /\ htlcs' = htlcs /\ escrows' = escrows /\ pdas' = pdas
      /\ pending' = pending /\ mem' = mem /\ task' = task /\ faults' = faults
  BY DEF Tick, Eth!Tick, lezVars, botVars, NoFault
<1>2. now \in Nat /\ now' \in Nat /\ Slack' = Slack
  BY <1>1 DEF Inv, ChainTypes, Lez!TypeOK, Slack
<1>3. RefundedLate'
  <2>1. \A id \in SwapIds : now >= id.timelock => now' >= id.timelock
    BY <1>1, <1>2, IdFields
  <2> QED BY <1>1, <2>1 DEF PromptInv, RefundedLate
<1>4. ASSUME NEW h \in Hashlocks
      PROVE  /\ (AtRisk(h)' <=> AtRisk(h)) /\ (Ours(h)' <=> Ours(h))
             /\ Answered(h)' = Answered(h)
             /\ InTime(h, task[h].deadline)' <=> InTime(h, task[h].deadline)
  <2>1. InTime(h, task[h].deadline)' <=> InTime(h, task[h].deadline)
    BY <1>1, <1>2 DEF InTime
  <2> QED BY <1>1, <2>1 DEF AtRisk, Ours, Answered, FundTx
<1>5. ASSUME NEW h \in Hashlocks PROVE Timely(h)'
  <2>1. Timely(h) /\ RiskOK(h)
    BY DEF PromptInv, Inv
  <2>2. ASSUME Ours(h), mem.in_flight[h] # NoEntry, AtRisk(h) \/ escrows[h].state = "Claimed"
        PROVE  InTime(h, now)'
    <3>1. 1000 * (now + 1) <= escrows[h].timelock + 1000 * Slack
      BY <2>2, WaitsInTime
    <3> QED BY <1>1, <1>2, <3>1 DEF InTime
  <2>3. AtRisk(h)' => InTime(h, now)'
    BY <1>4, <2>1, <2>2 DEF RiskOK
  <2> QED BY <1>1, <1>4, <2>1, <2>2, <2>3 DEF Timely
<1>6. ASSUME NEW h \in Hashlocks PROVE PollsOK(h)'
  <2> SUFFICES ASSUME task[h] # Idle PROVE Polls(h, task[h])'
    BY <1>1 DEF PollsOK
  <2> DEFINE t == task[h]
  <2>1. /\ LockPolled(h, t) /\ MoneyPolled(h, t) /\ RefundPolled(h, t) /\ ClaimPolled(h, t)
    BY DEF PromptInv, PollsOK, Polls
  <2>2. LockPolled(h, task[h])'
    <3> DEFINE lock == LockTx(h, t.swap_id.takerLezAccount, 1000 * t.expiry)
    <3>1. (LockTx(h, task[h].swap_id.takerLezAccount, 1000 * task[h].expiry))' = lock
      BY <1>1 DEF LockTx
    <3>2. Txs' = Txs
      BY DEF Txs, LockTx, FundTx, RefundTx, TakerClaims, TakerClaimTx, Usable
    <3>3. t.step # "fund" /\ (t.step = "confirm" => escrows[h] = NoEscrow)
      BY DEF AllWait, Waiting, At
    <3>4. t.step = "confirm" => lock \in Txs /\ faults > 0
      <4>1. t.step = "confirm" => lock \in Txs /\ (pending[lock] = 0 => faults > 0)
        BY <2>1, <3>3 DEF LockPolled
      <4> QED BY <4>1 DEF AllWait
    <3> HIDE DEF lock
    <3> QED BY <1>1, <3>1, <3>2, <3>3, <3>4 DEF LockPolled
  <2>3. MoneyPolled(h, task[h])'
    BY <1>1, <1>4, <2>1 DEF MoneyPolled
  <2>4. RefundPolled(h, task[h])'
    <3>1. (RefundTx(h))' = RefundTx(h)
      BY DEF RefundTx
    <3>2. AtRisk(h) /\ 1000 * now >= escrows[h].timelock => 1000 * now' >= escrows'[h].timelock
      <4>1. AtRisk(h) => escrows[h] # NoEscrow
        BY DEF Inv, RiskOK, Ours
      <4> QED BY <1>1, <1>2, <4>1, EscrowType DEF Inv, ChainTypes
    <3> QED BY <1>1, <1>2, <1>4, <2>1, <3>1, <3>2 DEF RefundPolled
  <2>5. ClaimPolled(h, task[h])'
    BY <1>1, <1>4, <2>1 DEF ClaimPolled, EthClaimed
  <2> QED BY <2>2, <2>3, <2>4, <2>5 DEF Polls
<1> QED
  BY <1>3, <1>5, <1>6 DEF PromptInv

-----------------------------------------------------------------------------
(***************************************************************************)
(* The invariant of the prompt world holds at the start, and every step    *)
(* keeps it if the margin covers a poll for each fault.                    *)
(***************************************************************************)
LEMMA InitPrompt ==
    ASSUME Init
    PROVE  PromptInv
<1>1. /\ htlcs = [id \in SwapIds |-> "EMPTY"] /\ escrows = [h \in Hashlocks |-> NoEscrow]
      /\ task = [h \in Hashlocks |-> Idle] /\ Inv
  BY InitInv DEF Init, Eth!Init, Lez!Init
<1>2. RefundedLate
  BY <1>1 DEF RefundedLate
<1>3. ASSUME NEW h \in Hashlocks PROVE PollsOK(h) /\ Timely(h)
  <2>1. task[h] = Idle /\ escrows[h] = NoEscrow /\ RiskOK(h)
    BY <1>1 DEF Inv
  <2> QED BY <2>1 DEF PollsOK, Timely, Ours, RiskOK
<1> QED
  BY <1>2, <1>3 DEF PromptInv

(***************************************************************************)
(* All steps of the bot.                                                   *)
(***************************************************************************)
LEMMA BotPrompt ==
    ASSUME Covered, Inv, PromptInv,
           \/ BotStep \/ WatchTimesOut \/ Crash
           \/ \E id \in SwapIds : RejectLock(id)
    PROVE  PromptInv'
<1>1. ASSUME NEW h \in Hashlocks, TaskStep(h)
      PROVE  PromptInv'
  BY <1>1, RecordPrompt, AcceptedPrompt, SubmitPrompt, ConfirmPrompt, FundPrompt, MarkPrompt,
     AwaitPrompt, TimelockExpiresPrompt, RefundPollPrompt, ClaimPrompt, ClearPrompt,
     QuarantinePrompt, RecordOutcomePrompt, NextEntryPrompt, ReadEscrowPrompt,
     ReadBalancePrompt, DecidePrompt, JudgePrompt DEF TaskStep
<1> QED
  BY <1>1, LoopPrompt, AcceptLockPrompt DEF BotStep

(***************************************************************************)
(* All steps.                                                              *)
(***************************************************************************)
LEMMA NextPrompt ==
    ASSUME Covered, Inv, PromptInv, [PromptNext]_vars
    PROVE  PromptInv'
<1>1. CASE UNCHANGED vars
  <2>1. NoChain /\ NoFault /\ mem' = mem /\ task' = task
    BY <1>1 DEF vars, NoChain, NoFault, botVars
  <2> QED BY <2>1, PaceNoChain, IdlePrompt DEF Kept
<1>2. CASE Tick /\ PromptNext
  <2>1. now' # now
    BY <1>2 DEF Tick, Eth!Tick, Inv, ChainTypes, Lez!TypeOK
  <2> QED BY <1>2, <2>1, TickPrompt DEF PromptNext
<1>3. CASE Environment /\ ~Tick
  BY <1>3, EthCallsPrompt, OthersPrompt, SequencePrompt DEF Environment
<1> QED
  BY <1>1, <1>2, <1>3, BotPrompt DEF PromptNext, Next

(***************************************************************************)
(* The swap is atomic for the maker: if the timelock margin is more than   *)
(* one poll for each fault, no taker gets both its LEZ and its own ETH     *)
(* back (eth_timelock_covers_lez in run_maker, the journal, and the order  *)
(* of refund and claim in resume_swap), in a world where all delay is in   *)
(* the polls of the bot.                                                   *)
(***************************************************************************)
THEOREM MakerIsWhole ==
    timelock_margin_secs > PollSecs * MaxFaults => (PromptSpec => []MakerNeverLoses)
<1> SUFFICES ASSUME Covered PROVE PromptSpec => []MakerNeverLoses
  BY DEF Covered
<1>1. Init => Inv /\ PromptInv
  BY InitInv, InitPrompt
<1>2. Inv /\ PromptInv /\ [PromptNext]_vars => Inv' /\ PromptInv'
  <2> SUFFICES ASSUME Inv, PromptInv, [PromptNext]_vars
               PROVE  Inv' /\ PromptInv'
    OBVIOUS
  <2>1. [Next]_vars
    BY DEF PromptNext
  <2> QED BY <2>1, NextInv, NextPrompt
<1>3. Inv /\ PromptInv => MakerNeverLoses
  <2> SUFFICES ASSUME Inv, PromptInv, NEW h \in Hashlocks,
                      Ours(h), escrows[h].state = "Claimed"
               PROVE  \E id \in Answered(h) : htlcs[id] # "REFUNDED"
    BY DEF MakerNeverLoses
  <2>1. PICK id \in Answered(h) : htlcs[id] = "CLAIMED" \/ InTime(h, now)
    BY DEF PromptInv, Timely
  <2>2. InTime(h, now) => htlcs[id] # "REFUNDED"
    BY MarginHolds DEF PromptInv, Ours
  <2> QED BY <2>1, <2>2
<1> QED
  BY <1>1, <1>2, <1>3, PTL DEF PromptSpec

=============================================================================

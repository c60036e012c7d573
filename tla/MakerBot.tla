------------------------------ MODULE MakerBot ------------------------------
(***************************************************************************)
(* The standing maker: cmd_maker_loop (src/cli/maker.rs), reconcile and    *)
(* resume_swap (src/cli/bot.rs), run_maker_loop and run_maker              *)
(* (src/swap/maker.rs) and the LezClient and EthClient calls they make,    *)
(* against both chains, takers who do as they like, and faults.            *)
(*                                                                         *)
(* A start reads the journal, reconciles its entries one after the other,  *)
(* waits for the resumed ones, and only then watches for ETH locks, one    *)
(* swap at a time.  "task" is what is being done about each hashlock: by   *)
(* run_maker (ctx "maker"), by reconcile, or by a resume_swap it spawned.  *)
(*                                                                         *)
(* A step is one call to a chain or one journal or ledger write; a crash   *)
(* may come between any two.  "faults" counts what goes wrong: crashes,    *)
(* failed or half-done calls, phantom reads, failed writes, transactions   *)
(* lost by the sequencer.                                                  *)
(***************************************************************************)
EXTENDS StateStore, SwapPolicy, Sequences, FiniteSets

CONSTANTS
    Accounts, ZeroAddress, ZeroBytes32, Preimages, Sha256, LezAccounts,
    minTimelockDelta, InitialBalance, MaxTime,
    NoEscrow, NoPreimage, LezBalance, MaxPending,
    Maker,          \* config.eth_recipient_address
    MakerLez,       \* the maker's LEZ account
    Served,         \* takers it serves: all LEZ accounts, or the one configured
    eth_amount, lez_amount,
    lez_timelock_secs,
    timelock_margin_secs,
    PollSecs,       \* the deadline of the confirmation polls, 300 s
    MAX_REJECTED,   \* how many rejected hashlocks run_maker remembers
    OtherTxs,       \* LEZ transactions of others, besides the takers' claims
    MaxFaults,
    Idle            \* no task for a hashlock

LockTx(h, taker_id, timelock) ==
    [op |-> "Lock", signer |-> MakerLez, hashlock |-> h, taker_id |-> taker_id,
     amount |-> lez_amount, timelock |-> timelock]
RefundTx(h) == [op |-> "Refund", signer |-> MakerLez, hashlock |-> h]
FundTx(h) == [op |-> "Transfer", signer |-> MakerLez, hashlock |-> h, amount |-> lez_amount]
TakerClaimTx(id, p) ==
    [op |-> "Claim", signer |-> id.takerLezAccount, hashlock |-> id.hashlock, preimage |-> p]

(***************************************************************************)
(* The requests the contract does not refuse for a zero hashlock or        *)
(* account, and the LEZ transactions they can lead to.                     *)
(***************************************************************************)
Usable == {id \in SwapIds : id.hashlock \in Hashlocks /\ id.takerLezAccount \in LezAccounts}
TakerClaims == {TakerClaimTx(id, p) : id \in Usable, p \in Preimages}
Txs == UNION { {LockTx(id.hashlock, id.takerLezAccount, 1000 * (t + lez_timelock_secs)) :
                   id \in Usable, t \in 0..MaxTime},
               {RefundTx(h) : h \in Hashlocks}, {FundTx(h) : h \in Hashlocks},
               TakerClaims, OtherTxs }

VARIABLES
    now, htlcs, events, balances, held, frames,   \* Ethereum
    escrows, pdas, wallets, pending,              \* LEZ
    ethPool,     \* swap ids whose claim by the maker waits to be mined
    pc,          \* where the process is
    queue,       \* journal entries reconcile has not looked at yet
    task,        \* what is being done about each hashlock
    rejected,    \* hashlocks this run_maker turned away
    ops,         \* state of each hashlock's record in the operations ledger
    faults

Eth == INSTANCE EthHTLC WITH Contracts <- {}, MaxDepth <- 1
Lez == INSTANCE LezHTLC WITH LezHashlocks <- Hashlocks, LezPreimages <- Preimages,
                             LezSha256 <- Sha256, MaxSeconds <- MaxTime

(***************************************************************************)
(* What the two chains assume of their constants.  Others lock, claim and  *)
(* refund as they like, but do not sign for the maker nor pay into escrows.*)
(***************************************************************************)
ASSUME ChainsAssumption ==
    /\ ZeroAddress \notin Accounts
    /\ ZeroBytes32 \notin Hashlocks \cup LezAccounts
    /\ Sha256 \in [Preimages -> Hashlocks]
    /\ \A p, q \in Preimages : Sha256[p] = Sha256[q] => p = q
    /\ SwapIds \subseteq [sender : Accounts, recipient : Accounts \cup {ZeroAddress},
                          amount : Nat, hashlock : Hashlocks \cup {ZeroBytes32},
                          timelock : Nat,
                          takerLezAccount : LezAccounts \cup {ZeroBytes32}]
    /\ NoPreimage \notin Preimages
    /\ NoEscrow \notin Lez!HTLCEscrow
    /\ OtherTxs \subseteq Lez!LockTx \cup Lez!ClaimTx \cup Lez!RefundTx
    /\ \A tx \in OtherTxs : tx.signer # MakerLez
    /\ minTimelockDelta \in Nat /\ InitialBalance \in Nat /\ MaxTime \in Nat
    /\ LezBalance \in Nat /\ MaxPending \in Nat

ethVars == <<htlcs, events, balances, held, frames>>
lezVars == <<escrows, pdas, wallets, pending>>
botVars == <<mem, disk, pc, queue, task, rejected, ops>>
vars == <<now, ethVars, lezVars, ethPool, botVars, faults>>

Steps == {"record", "accepted", "check", "submit", "confirm", "fund", "funding", "mark",
          "await", "refund", "claim", "receipt", "clear", "ops", "quarantine",
          "read", "balance", "decide", "pre", "rebalance", "post"}
Task == [ctx : {"maker", "reconcile", "resume"}, step : Steps, swap_id : SwapIds,
         expiry : Nat, deadline : Nat, submitted : BOOLEAN,
         pre : {"None", "Locked", "Claimed", "Refunded"},
         balance : {"enough", "low", "unknown"},
         outcome : {"none", "Completed", "Refunded", "Failed"}]

(***************************************************************************)
(* The maker offers something, no sum of times leaves a u64, and the LEZ   *)
(* timelock is longer than the confirmation poll (validate_timelocks also  *)
(* accepts equal ones).                                                    *)
(***************************************************************************)
ASSUME BotAssumption ==
    /\ Maker \in Accounts /\ MakerLez \in LezAccounts /\ Served \subseteq LezAccounts
    /\ eth_amount \in Nat /\ lez_amount \in Nat \ {0}
    /\ lez_timelock_secs \in Nat /\ timelock_margin_secs \in Nat /\ PollSecs \in Nat
    /\ MaxTime + lez_timelock_secs + timelock_margin_secs <= U64Max
    /\ lez_timelock_secs > PollSecs
    /\ MAX_REJECTED \in Nat /\ MaxFaults \in Nat
    /\ NoEntry \notin InFlightSwap /\ Idle \notin Task

NewTask(ctx, step, id) ==
    [ctx |-> ctx, step |-> step, swap_id |-> id, expiry |-> 0, deadline |-> 0,
     submitted |-> FALSE, pre |-> "None", balance |-> "unknown", outcome |-> "none"]

-----------------------------------------------------------------------------
(***************************************************************************)
(* Faults and reads.                                                       *)
(***************************************************************************)
Fault == faults < MaxFaults /\ faults' = faults + 1
NoFault == UNCHANGED faults
Outcome(ok) == IF ok THEN NoFault ELSE Fault

StateOf(h) == IF escrows[h] = NoEscrow THEN "None" ELSE escrows[h].state
Funded(h) == escrows[h] # NoEscrow /\ pdas[h] >= escrows[h].amount

(***************************************************************************)
(* get_escrow: the state, or a phantom "None", or an error ("Err").        *)
(***************************************************************************)
get_escrow(h, r) == (r = StateOf(h) /\ NoFault) \/ (r \in {"None", "Err"} /\ Fault)

(***************************************************************************)
(* read_escrow_bounded: five reads in a row, so a phantom is outlived;     *)
(* "Err" stands for no data and at least one error.                        *)
(***************************************************************************)
read_escrow_bounded(h, r) == (r = StateOf(h) /\ NoFault) \/ (r = "Err" /\ Fault)

(***************************************************************************)
(* max_escrow_balance, compared with the escrow's amount.                  *)
(***************************************************************************)
max_escrow_balance(h, b) ==
    (b = (IF Funded(h) THEN "enough" ELSE "low") /\ NoFault) \/ (b = "unknown" /\ Fault)

(***************************************************************************)
(* Sending a LEZ transaction: submitted; or an error, and then it may have *)
(* been submitted all the same.                                            *)
(***************************************************************************)
Send(tx, ok) ==
    /\ Outcome(ok)
    /\ \/ Lez!Submit(tx)
       \/ ~ok /\ UNCHANGED lezVars

At(h, step) == task[h] # Idle /\ task[h].step = step
In(h, ctxs) == task[h].ctx \in ctxs
Goto(h, step) == task' = [task EXCEPT ![h].step = step]
Late(deadline) == now >= deadline \/ now = MaxTime

(*************************************************************************)
(* A mistake: the loop goes on with a swap unresolved.                  *)
(*************************************************************************)
EndTask_goes_on(h) ==
    /\ task' = [task EXCEPT ![h] = Idle]
    /\ pc' = IF In(h, {"maker"}) THEN "loop" ELSE pc
    /\ UNCHANGED <<queue, rejected>>

(***************************************************************************)
(* The task is over.  After run_maker, the loop stops if the journal holds *)
(* anything (loop_must_stop_after_iteration); reconcile goes on to its     *)
(* next entry; a resumed task just ends.                                   *)
(***************************************************************************)
EndTask(h) ==
    /\ task' = [task EXCEPT ![h] = Idle]
    /\ pc' = IF In(h, {"maker"})
             THEN IF \E k \in Hashlocks : mem'.in_flight[k] # NoEntry THEN "down" ELSE "loop"
             ELSE pc
    /\ UNCHANGED <<queue, rejected>>

Fail(h) == UNCHANGED <<mem, disk, ops>> /\ EndTask(h)

(***************************************************************************)
(* The swap is resolved.  run_maker and reconcile clear the journal entry  *)
(* and then tell the ledger; resume_swap tells the ledger first.           *)
(***************************************************************************)
Resolve(h, outcome) ==
    /\ task' = [task EXCEPT ![h].outcome = outcome,
                            ![h].step = IF In(h, {"resume"}) THEN "ops" ELSE "clear"]
    /\ UNCHANGED <<mem, disk, pc, queue, rejected, ops>>

Continue(h, step) == Goto(h, step) /\ UNCHANGED <<mem, disk, pc, queue, rejected, ops>>

NoChain == UNCHANGED <<now, ethVars, lezVars, ethPool>>

-----------------------------------------------------------------------------
(***************************************************************************)
(* run_maker_loop and the event loop of run_maker.                         *)
(***************************************************************************)
StartIteration ==
    /\ pc = "loop"
    /\ wallets[MakerLez] >= lez_amount
    /\ pc' = "watch"
    /\ rejected' = {}
    /\ NoFault /\ NoChain /\ UNCHANGED <<mem, disk, queue, task, ops>>

(***************************************************************************)
(* The iteration ends without a match: the wait timed out.                 *)
(***************************************************************************)
WatchTimesOut ==
    /\ pc = "watch"
    /\ \A h \in Hashlocks : task[h] = Idle
    /\ pc' = "loop"
    /\ NoFault /\ NoChain /\ UNCHANGED <<mem, disk, queue, task, rejected, ops>>

(***************************************************************************)
(* watch_events: every run_maker starts it anew, and it delivers the       *)
(* events of the last 256 blocks again before the new ones.                *)
(***************************************************************************)
Delivered(id) ==
    \E i \in 1..Len(events) : events[i] = [kind |-> "Locked", swapId |-> id]

(***************************************************************************)
(* A Locked event, new or replayed, that pays the maker enough.            *)
(***************************************************************************)
Matches(id) ==
    /\ pc = "watch"
    /\ \A h \in Hashlocks : task[h] = Idle
    /\ Delivered(id)
    /\ id.recipient = Maker
    /\ id.amount >= eth_amount

Disposition(id) ==
    classify_candidate(
        [taker_lez_account |-> id.takerLezAccount, eth_timelock |-> id.timelock],
        [maker_lez_account |-> MakerLez, zero |-> ZeroBytes32, served |-> Served,
         lez_expiry_secs |-> fresh_lez_expiry_secs(now, lez_timelock_secs),
         margin |-> timelock_margin_secs],
        id.hashlock \in rejected \/ contains(id.hashlock))

(*************************************************************************)
(* A mistake: the bound on remembered hashlocks is forgotten.           *)
(*************************************************************************)
RejectLock_unbounded(id) ==
    /\ Matches(id)
    /\ Disposition(id) \notin {"Skip", "Accept"}
    /\ rejected' = rejected \cup {id.hashlock}
    /\ NoFault /\ NoChain /\ UNCHANGED <<mem, disk, pc, queue, task, ops>>

RejectLock(id) ==
    /\ Matches(id)
    /\ Disposition(id) \notin {"Skip", "Accept"}
    /\ rejected' = IF Cardinality(rejected) < MAX_REJECTED
                   THEN rejected \cup {id.hashlock} ELSE rejected
    /\ NoFault /\ NoChain /\ UNCHANGED <<mem, disk, pc, queue, task, ops>>

(***************************************************************************)
(* The HTLC must read as OPEN; if it cannot be read, the maker goes on.    *)
(***************************************************************************)
AcceptLock(id) ==
    /\ Matches(id)
    /\ Disposition(id) = "Accept"
    /\ Outcome(htlcs[id] = "OPEN")
    /\ task' = [task EXCEPT ![id.hashlock] =
                   [NewTask("maker", "record", id) EXCEPT
                       !.expiry = fresh_lez_expiry_secs(now, lez_timelock_secs)]]
    /\ NoChain /\ UNCHANGED <<mem, disk, pc, queue, rejected, ops>>

(***************************************************************************)
(* journal.record, before any LEZ moves: no durable entry, no lock.        *)
(***************************************************************************)
Record(h) ==
    /\ At(h, "record")
    /\ \E ok \in BOOLEAN :
          /\ Outcome(ok)
          /\ record(h, task[h].swap_id, ok)
          /\ IF ok
             THEN Goto(h, "accepted") /\ UNCHANGED <<pc, queue, rejected>>
             ELSE EndTask(h)
    /\ NoChain /\ UNCHANGED ops

(***************************************************************************)
(* OpsLedger: a hashlock is accepted once, and its first outcome stays; a  *)
(* write that fails changes nothing.                                       *)
(***************************************************************************)
ops_accepted(h, ok) ==
    ops' = IF ok /\ ops[h] = "none" THEN [ops EXCEPT ![h] = "Accepted"] ELSE ops
record_terminal(h, state, ok) ==
    ops' = IF ok /\ ops[h] = "Accepted" THEN [ops EXCEPT ![h] = state] ELSE ops

Accepted(h) ==
    /\ At(h, "accepted")
    /\ \E ok \in BOOLEAN : Outcome(ok) /\ ops_accepted(h, ok)
    /\ Goto(h, "check")
    /\ NoChain /\ UNCHANGED <<mem, disk, pc, queue, rejected>>

-----------------------------------------------------------------------------
(***************************************************************************)
(* LezClient::lock: check, submit, confirm, fund, confirm the funding.     *)
(***************************************************************************)
CheckBeforeFund(h) ==
    /\ At(h, "check")
    /\ \E r \in {"None", "Locked", "Claimed", "Refunded", "Err"} :
          /\ get_escrow(h, r)
          /\ IF r = "Err" \/ existing_escrow_blocks_fresh_lock(r)
             THEN Fail(h)
             ELSE Continue(h, "submit")
    /\ NoChain

SubmitLock(h) ==
    /\ At(h, "submit")
    /\ \E ok \in BOOLEAN :
          /\ Send(LockTx(h, task[h].swap_id.takerLezAccount, 1000 * task[h].expiry), ok)
          /\ IF ok
             THEN /\ task' = [task EXCEPT ![h].step = "confirm", ![h].deadline = now + PollSecs]
                  /\ UNCHANGED <<mem, disk, pc, queue, rejected, ops>>
             ELSE Fail(h)
    /\ UNCHANGED <<now, ethVars, ethPool>>

(***************************************************************************)
(* Any escrow that appears and is not exactly ours is not funded.          *)
(***************************************************************************)
ConfirmLock(h) ==
    /\ At(h, "confirm")
    /\ escrows[h] # NoEscrow
    /\ IF escrow_confirms_our_lock(escrows[h], MakerLez, task[h].swap_id.takerLezAccount,
                                   lez_amount, 1000 * task[h].expiry)
       THEN Continue(h, "fund")
       ELSE Fail(h)
    /\ NoFault /\ NoChain

FundEscrow(h) ==
    /\ At(h, "fund")
    /\ \E ok \in BOOLEAN :
          /\ Send(FundTx(h), ok)
          /\ IF ok
             THEN /\ task' = [task EXCEPT ![h].step = "funding", ![h].deadline = now + PollSecs]
                  /\ UNCHANGED <<mem, disk, pc, queue, rejected, ops>>
             ELSE Fail(h)
    /\ UNCHANGED <<now, ethVars, ethPool>>

ConfirmFunding(h) ==
    /\ At(h, "funding")
    /\ pdas[h] >= lez_amount
    /\ Continue(h, "mark")
    /\ NoFault /\ NoChain

(***************************************************************************)
(* A poll reaches its deadline, or (confirm only) a read fails.            *)
(***************************************************************************)
PollFails(h) ==
    /\ At(h, "confirm") \/ At(h, "funding")
    /\ \/ Late(task[h].deadline) /\ NoFault
       \/ At(h, "confirm") /\ Fault
    /\ Fail(h)
    /\ NoChain

MarkFunded(h) ==
    /\ At(h, "mark")
    /\ \E ok \in BOOLEAN : Outcome(ok) /\ mark_funded(h, ok)
    /\ Goto(h, "await")
    /\ NoChain /\ UNCHANGED <<pc, queue, rejected, ops>>

-----------------------------------------------------------------------------
(***************************************************************************)
(* Waiting for the taker: watch_escrow's events against the LEZ timelock,  *)
(* in run_maker and in resume_swap.                                        *)
(***************************************************************************)
EscrowEvent(h) ==
    /\ At(h, "await")
    /\ \/ StateOf(h) = "Claimed" /\ Continue(h, "claim")
       \/ StateOf(h) = "Refunded" /\ Resolve(h, "Refunded")
    /\ NoFault /\ NoChain

TimelockExpires(h) ==
    /\ At(h, "await")
    /\ now >= task[h].expiry
    /\ task' = [task EXCEPT ![h].step = "refund", ![h].submitted = FALSE,
                            ![h].deadline = now + PollSecs]
    /\ NoFault /\ NoChain /\ UNCHANGED <<mem, disk, pc, queue, rejected, ops>>

(***************************************************************************)
(* refund_confirmed: the refund is sent once, and only a terminal read     *)
(* ends the wait well.  Absent reads are phantoms and are read again.      *)
(***************************************************************************)
RefundPoll(h) ==
    /\ At(h, "refund")
    /\ \/ /\ StateOf(h) = "Refunded"
          /\ Resolve(h, "Refunded") /\ NoFault /\ UNCHANGED lezVars
       \/ /\ StateOf(h) = "Claimed"
          /\ Continue(h, "claim") /\ NoFault /\ UNCHANGED lezVars
       \/ /\ StateOf(h) = "Locked"
          /\ ~task[h].submitted
          /\ \E ok \in BOOLEAN : Send(RefundTx(h), ok)
          /\ task' = [task EXCEPT ![h].submitted = TRUE]
          /\ UNCHANGED <<mem, disk, pc, queue, rejected, ops>>
    /\ UNCHANGED <<now, ethVars, ethPool>>

RefundFails(h) ==
    /\ At(h, "refund")
    /\ (task[h].submitted /\ Late(task[h].deadline) /\ NoFault) \/ Fault
    /\ Fail(h)
    /\ NoChain

-----------------------------------------------------------------------------
(***************************************************************************)
(* Claiming the ETH with the secret the escrow shows: claim_eth_after_     *)
(* reveal in run_maker, claim_eth elsewhere.  Sending estimates the gas    *)
(* first, so a claim of an HTLC that is not OPEN fails at once.            *)
(***************************************************************************)
Settle(h, claim_outcome) ==
    IF retain_after_eth_claim(claim_outcome) THEN Fail(h) ELSE Resolve(h, "Completed")

ClaimEth(h) ==
    LET id == task[h].swap_id
    IN  /\ At(h, "claim")
        /\ \/ /\ htlcs[id] = "OPEN"
              /\ ethPool' = ethPool \cup {id}
              /\ Continue(h, "receipt")
           \/ /\ htlcs[id] # "OPEN"
              /\ Settle(h, IF In(h, {"maker"}) /\ htlcs[id] # "CLAIMED"
                           THEN "Failed" ELSE "AlreadyTerminal")
              /\ UNCHANGED ethPool
        /\ NoFault /\ UNCHANGED <<now, ethVars, lezVars>>

(***************************************************************************)
(* EthClient::claim returns Ok for a mined transaction, reverted or not.   *)
(***************************************************************************)
ClaimReceipt(h) ==
    /\ At(h, "receipt")
    /\ task[h].swap_id \notin ethPool
    /\ Settle(h, "Claimed")
    /\ NoFault /\ NoChain

(***************************************************************************)
(* The send or the receipt fails, the transaction may be out or not.       *)
(* run_maker tries again, six times, and then gives up; the others give up *)
(* at once; all look again whether the HTLC is CLAIMED.                    *)
(***************************************************************************)
ClaimErrs(h) ==
    LET id == task[h].swap_id
    IN  /\ At(h, "claim") \/ At(h, "receipt")
        /\ Fault
        /\ ethPool' \in {ethPool, ethPool \cup IF htlcs[id] = "OPEN" THEN {id} ELSE {}}
        /\ \/ htlcs[id] = "CLAIMED" /\ Settle(h, "AlreadyTerminal")
           \/ In(h, {"maker"}) /\ Continue(h, "claim")
           \/ Settle(h, "Failed")
        /\ UNCHANGED <<now, ethVars, lezVars>>

-----------------------------------------------------------------------------
(***************************************************************************)
(* The end of a task: the journal write and the ledger write.              *)
(***************************************************************************)
Clear(h) ==
    /\ At(h, "clear")
    /\ \E ok \in BOOLEAN : Outcome(ok) /\ remove(h, ok)
    /\ IF In(h, {"resume"})
       THEN EndTask(h)
       ELSE Goto(h, "ops") /\ UNCHANGED <<pc, queue, rejected>>
    /\ NoChain /\ UNCHANGED ops

Quarantine(h) ==
    /\ At(h, "quarantine")
    /\ \E ok \in BOOLEAN : Outcome(ok) /\ quarantine(h, ok)
    /\ task' = [task EXCEPT ![h].step = "ops", ![h].outcome = "Failed"]
    /\ NoChain /\ UNCHANGED <<pc, queue, rejected, ops>>

RecordOutcome(h) ==
    /\ At(h, "ops")
    /\ \E ok \in BOOLEAN : Outcome(ok) /\ record_terminal(h, task[h].outcome, ok)
    /\ UNCHANGED <<mem, disk>>
    /\ IF In(h, {"resume"})
       THEN Goto(h, "clear") /\ UNCHANGED <<pc, queue, rejected>>
       ELSE EndTask(h)
    /\ NoChain

-----------------------------------------------------------------------------
(***************************************************************************)
(* reconcile: one journal entry after the other.                           *)
(***************************************************************************)
Reconciling == \E h \in Hashlocks : task[h] # Idle /\ In(h, {"reconcile"})

NextEntry(h) ==
    /\ pc = "reconcile"
    /\ ~Reconciling
    /\ h \in queue
    /\ queue' = queue \ {h}
    /\ task' = [task EXCEPT ![h] = NewTask("reconcile", "read", mem.in_flight[h].swap_id)]
    /\ NoFault /\ NoChain /\ UNCHANGED <<mem, disk, pc, rejected, ops>>

(***************************************************************************)
(* An entry with an escrow is promoted to Funded; one without is retired   *)
(* if it was never locked and every read answered, and kept otherwise.     *)
(***************************************************************************)
ReadEscrow(h) ==
    /\ At(h, "read")
    /\ \E r \in {"None", "Locked", "Claimed", "Refunded", "Err"}, ok \in BOOLEAN :
          \/ /\ r \in {"None", "Err"} /\ ok
             /\ read_escrow_bounded(h, r)
             /\ IF classify_absent_escrow(mem.in_flight[h].stage, r = "Err") = "RetirePreLock"
                THEN Continue(h, "quarantine")
                ELSE Fail(h)
          \/ /\ r = StateOf(h) /\ r # "None"
             /\ Outcome(ok)
             /\ mark_funded(h, ok)
             /\ task' = [task EXCEPT
                           ![h].step = IF r = "Claimed" THEN "claim"
                                       ELSE IF r = "Refunded" THEN "clear" ELSE "balance",
                           ![h].outcome = IF r = "Refunded" THEN "Refunded" ELSE "none",
                           ![h].expiry = escrows[h].timelock \div 1000]
             /\ UNCHANGED <<pc, queue, rejected, ops>>
    /\ NoChain

ReadBalance(h) ==
    /\ At(h, "balance")
    /\ \E b \in {"enough", "low", "unknown"} :
          /\ max_escrow_balance(h, b)
          /\ IF b = "unknown"
             THEN Fail(h)
             ELSE /\ task' = [task EXCEPT ![h].step = "decide", ![h].balance = b]
                  /\ UNCHANGED <<mem, disk, pc, queue, rejected, ops>>
    /\ NoChain

(***************************************************************************)
(* Underfunded and expired: read again.  Expired: refund.  Else resume.    *)
(***************************************************************************)
Decide(h) ==
    LET t == task[h]
        now_ms == 1000 * now
        timelock == escrows[h].timelock
    IN  /\ At(h, "decide")
        /\ task' = [task EXCEPT ![h] =
              IF is_partial_lock_wedge("Locked", now_ms, timelock, t.balance = "enough")
              THEN [t EXCEPT !.step = "pre"]
              ELSE IF now_ms >= timelock
                   THEN [t EXCEPT !.step = "refund", !.deadline = now + PollSecs]
                   ELSE [t EXCEPT !.ctx = "resume", !.step = "await"]]
        /\ NoFault /\ NoChain /\ UNCHANGED <<mem, disk, pc, queue, rejected, ops>>

(***************************************************************************)
(* The wedge is judged on three fresh reads: state, balance, state.        *)
(***************************************************************************)
NoneIfErr(r) == IF r = "Err" THEN "None" ELSE r

RereadState(h) ==
    /\ At(h, "pre")
    /\ \E r \in {"None", "Locked", "Claimed", "Refunded", "Err"} :
          /\ read_escrow_bounded(h, r)
          /\ task' = [task EXCEPT ![h].step = "rebalance", ![h].pre = NoneIfErr(r)]
    /\ NoChain /\ UNCHANGED <<mem, disk, pc, queue, rejected, ops>>

RereadBalance(h) ==
    /\ At(h, "rebalance")
    /\ \E b \in {"enough", "low", "unknown"} :
          /\ max_escrow_balance(h, b)
          /\ task' = [task EXCEPT ![h].step = "post", ![h].balance = b]
    /\ NoChain /\ UNCHANGED <<mem, disk, pc, queue, rejected, ops>>

JudgeWedge(h) ==
    /\ At(h, "post")
    /\ \E r \in {"None", "Locked", "Claimed", "Refunded", "Err"} :
          /\ read_escrow_bounded(h, r)
          /\ LET d == classify_wedge_reread(task[h].pre, task[h].balance, NoneIfErr(r),
                                            1000 * now, escrows[h].timelock)
             IN  \/ d = "Quarantine" /\ Continue(h, "quarantine")
                 \/ d = "RecoverClaimed" /\ Continue(h, "claim")
                 \/ d = "Dropped" /\ Resolve(h, "Refunded")
                 \/ d = "Retain" /\ Fail(h)
    /\ NoChain

(*************************************************************************)
(* A mistake: entries reconcile had to keep do not stop the bot.        *)
(*************************************************************************)
Drained_goes_on ==
    /\ pc = "reconcile"
    /\ queue = {}
    /\ \A h \in Hashlocks : task[h] = Idle
    /\ pc' = "loop"
    /\ NoFault /\ NoChain /\ UNCHANGED <<mem, disk, queue, task, rejected, ops>>

(***************************************************************************)
(* Every entry was looked at and every resumed task is over: go on if the  *)
(* journal is empty and there is LEZ to offer, else leave and be restarted.*)
(***************************************************************************)
Drained ==
    /\ pc = "reconcile"
    /\ queue = {}
    /\ \A h \in Hashlocks : task[h] = Idle
    /\ pc' = IF has_in_flight \/ wallets[MakerLez] < lez_amount THEN "down" ELSE "loop"
    /\ NoFault /\ NoChain /\ UNCHANGED <<mem, disk, queue, task, rejected, ops>>

-----------------------------------------------------------------------------
(***************************************************************************)
(* The process starts, and dies at any point; what it had in memory is     *)
(* gone.                                                                   *)
(***************************************************************************)
Start ==
    /\ pc = "down"
    /\ pc' = "reconcile"
    /\ load
    /\ queue' = {h \in Hashlocks : disk.in_flight[h] # NoEntry}
    /\ NoFault /\ NoChain /\ UNCHANGED <<task, rejected, ops>>

Crash ==
    /\ pc # "down"
    /\ Fault
    /\ pc' = "down"
    /\ task' = [h \in Hashlocks |-> Idle]
    /\ queue' = {}
    /\ rejected' = {}
    /\ NoChain /\ UNCHANGED <<mem, disk, ops>>

-----------------------------------------------------------------------------
(***************************************************************************)
(* The rest of the world: takers lock and refund ETH and claim LEZ, the    *)
(* sequencer executes or drops transactions, Ethereum mines the claim.     *)
(***************************************************************************)
TakerLocks(id) ==
    /\ Eth!lock(id)
    /\ NoFault /\ UNCHANGED <<lezVars, ethPool, botVars>>

TakerRefunds(id) ==
    /\ Eth!refund(id)
    /\ NoFault /\ UNCHANGED <<lezVars, ethPool, botVars>>

TakerClaimsLez(id, p) ==
    /\ id \in Usable
    /\ StateOf(id.hashlock) = "Locked"
    /\ pending[TakerClaimTx(id, p)] = 0
    /\ Lez!Submit(TakerClaimTx(id, p))
    /\ NoFault /\ UNCHANGED <<now, ethVars, ethPool, botVars>>

OthersSubmit(tx) ==
    /\ pending[tx] = 0
    /\ Lez!Submit(tx)
    /\ NoFault /\ UNCHANGED <<now, ethVars, ethPool, botVars>>

Executes(tx) ==
    \/ Lez!execute_lock(tx)
    \/ Lez!execute_claim(tx)
    \/ Lez!execute_refund(tx)
    \/ Lez!transfer(tx)

(***************************************************************************)
(* A transaction that could be executed is dropped only by a fault.        *)
(***************************************************************************)
Sequence(tx) ==
    /\ pending[tx] > 0
    /\ \/ Executes(tx) /\ NoFault
       \/ Lez!Drop(tx) /\ (IF Lez!Accepts(tx) THEN Fault ELSE NoFault)
    /\ UNCHANGED <<now, ethVars, ethPool, botVars>>

MineClaim(id) ==
    /\ id \in ethPool
    /\ ethPool' = ethPool \ {id}
    /\ \/ \E p \in Preimages : Eth!claim(id, p)
       \/ htlcs[id] # "OPEN" /\ UNCHANGED <<now, ethVars>>
    /\ NoFault /\ UNCHANGED <<lezVars, botVars>>

(***************************************************************************)
(* The clock.  Two assumptions on speed, without which quarantining an     *)
(* expired, unfunded escrow is not conclusive: LezClient::lock is done     *)
(* with an escrow before its timelock (its steps take no time and its two  *)
(* polls end at their deadlines), and the sequencer does not keep a        *)
(* funding transfer pending until the timelock of its escrow.  The first   *)
(* holds when lez_timelock_secs > PollSecs.                                *)
(***************************************************************************)
LockIsPrompt ==
    \A h \in Hashlocks :
        /\ \A step \in {"record", "accepted", "check", "submit", "fund", "mark"} : ~At(h, step)
        /\ At(h, "confirm") \/ At(h, "funding") => ~Late(task[h].deadline)

FundingIsPrompt ==
    \A h \in Hashlocks :
        pending[FundTx(h)] > 0 /\ escrows[h] # NoEscrow => 1000 * (now + 1) < escrows[h].timelock

Tick ==
    /\ LockIsPrompt
    /\ FundingIsPrompt
    /\ Eth!Tick
    /\ NoFault /\ UNCHANGED <<lezVars, ethPool, botVars>>

-----------------------------------------------------------------------------
Init ==
    /\ Eth!Init
    /\ Lez!Init
    /\ ethPool = {}
    /\ mem = EmptyState /\ disk = EmptyState
    /\ pc = "down"
    /\ queue = {}
    /\ task = [h \in Hashlocks |-> Idle]
    /\ rejected = {}
    /\ ops = [h \in Hashlocks |-> "none"]
    /\ faults = 0

TaskStep(h) ==
    \/ Record(h) \/ Accepted(h) \/ CheckBeforeFund(h) \/ SubmitLock(h) \/ ConfirmLock(h)
    \/ FundEscrow(h) \/ ConfirmFunding(h) \/ PollFails(h) \/ MarkFunded(h)
    \/ EscrowEvent(h) \/ TimelockExpires(h) \/ RefundPoll(h) \/ RefundFails(h)
    \/ ClaimEth(h) \/ ClaimReceipt(h) \/ ClaimErrs(h)
    \/ Clear(h) \/ Quarantine(h) \/ RecordOutcome(h)
    \/ NextEntry(h) \/ ReadEscrow(h) \/ ReadBalance(h) \/ Decide(h)
    \/ RereadState(h) \/ RereadBalance(h) \/ JudgeWedge(h)

BotStep ==
    \/ Start \/ Drained \/ StartIteration
    \/ \E id \in SwapIds : AcceptLock(id)
    \/ \E h \in Hashlocks : TaskStep(h)

Environment ==
    \/ \E id \in SwapIds : TakerLocks(id) \/ TakerRefunds(id)
    \/ \E id \in SwapIds, p \in Preimages : TakerClaimsLez(id, p)
    \/ \E tx \in OtherTxs : OthersSubmit(tx)
    \/ \E tx \in Txs : Sequence(tx)
    \/ \E id \in SwapIds : MineClaim(id)
    \/ Tick

Next ==
    \/ BotStep
    \/ WatchTimesOut
    \/ \E id \in SwapIds : RejectLock(id)
    \/ Crash
    \/ Environment

Spec == Init /\ [][Next]_vars

(***************************************************************************)
(* The process runs (a supervisor restarts it), the sequencer and Ethereum *)
(* take in what they are given, and the clock goes on.  Takers owe nothing.*)
(***************************************************************************)
Fairness ==
    /\ WF_vars(Start) /\ WF_vars(Drained) /\ WF_vars(StartIteration)
    /\ \A h \in Hashlocks : WF_vars(TaskStep(h))
    /\ \A tx \in Txs : WF_vars(Sequence(tx))
    /\ \A id \in SwapIds : WF_vars(MineClaim(id))
    /\ WF_vars(Tick)

FairSpec == Spec /\ Fairness

(***************************************************************************)
(* A prompt world: the clock moves only while everybody waits for it, so   *)
(* all delay is in the polls of the bot, and the timelock margin has to    *)
(* cover these.                                                            *)
(***************************************************************************)
Waiting(h) ==
    \/ task[h] = Idle
    \/ At(h, "await") /\ StateOf(h) = "Locked" /\ now < task[h].expiry
    \/ At(h, "refund") /\ StateOf(h) = "Locked" /\ task[h].submitted /\ ~Late(task[h].deadline)
    \/ At(h, "confirm") /\ escrows[h] = NoEscrow /\ ~Late(task[h].deadline)
    \/ At(h, "funding") /\ pdas[h] < lez_amount /\ ~Late(task[h].deadline)

AllWait ==
    /\ \A h \in Hashlocks : Waiting(h)
    /\ \A tx \in Txs : pending[tx] = 0
    /\ ethPool = {} /\ queue = {}
    /\ pc \in {"down", "reconcile"} =>
          \A h \in Hashlocks : disk.in_flight[h] # NoEntry => task[h] # Idle

PromptNext == Next /\ (now' # now => AllWait)
PromptSpec == Init /\ [][PromptNext]_vars

-----------------------------------------------------------------------------
(***************************************************************************)
(* Every variable has its type.                                            *)
(***************************************************************************)
TypeOK ==
    /\ Eth!TypeOK
    /\ Lez!TypeOK
    /\ ethPool \subseteq SwapIds
    /\ mem \in BotState /\ disk \in BotState
    /\ pc \in {"down", "reconcile", "loop", "watch"}
    /\ queue \subseteq Hashlocks
    /\ task \in [Hashlocks -> Task \cup {Idle}]
    /\ rejected \subseteq Hashlocks /\ Cardinality(rejected) <= MAX_REJECTED
    /\ ops \in [Hashlocks -> {"none", "Accepted", "Completed", "Refunded", "Failed"}]
    /\ faults \in 0..MaxFaults

(***************************************************************************)
(* The ETH locks an escrow of the maker may be the answer to: they pay the *)
(* maker enough, name the escrow's taker, and stay locked for the margin   *)
(* after the escrow may be refunded.                                       *)
(***************************************************************************)
Ours(h) == escrows[h] # NoEscrow /\ escrows[h].maker_id = MakerLez
Answered(h) ==
    {id \in SwapIds : /\ id.hashlock = h
                      /\ id.recipient = Maker /\ id.amount >= eth_amount
                      /\ id.takerLezAccount = escrows[h].taker_id
                      /\ 1000 * id.timelock >= escrows[h].timelock + 1000 * timelock_margin_secs
                      /\ htlcs[id] # "EMPTY"}

(***************************************************************************)
(* The maker's LEZ is only ever on its way into, or in, an escrow it can   *)
(* get it out of: an escrow of its own, still Locked, for exactly this     *)
(* much, which answers an ETH lock made for it.  Crashes, calls that fail  *)
(* after they took effect, retries of the same hashlock and escrows of     *)
(* others on it never make the maker pay twice or pay into a finished or   *)
(* foreign escrow (LezClient::lock, and the order run_maker calls it in).  *)
(***************************************************************************)
LezOnlyInOwnEscrow ==
    \A h \in Hashlocks :
        LET paid == pdas[h] + lez_amount * pending[FundTx(h)]
        IN  paid > 0 => /\ Ours(h) /\ escrows[h].state = "Locked"
                        /\ paid = lez_amount /\ escrows[h].amount = lez_amount
                        /\ Answered(h) # {}

(***************************************************************************)
(* Whatever can still be recovered is in the journal a restart will read:  *)
(* LEZ in a Locked escrow, LEZ on its way there, and ETH still OPEN after  *)
(* the taker took the LEZ and revealed the secret, with the id to claim it *)
(* by.  So a crash at any point, a failed write, an ambiguous read or a    *)
(* wrongly judged wedge never makes the bot forget money it is owed        *)
(* (StateStore, reconcile, resume_swap, refund_confirmed).                 *)
(***************************************************************************)
RecoverableIsJournaled ==
    \A h \in Hashlocks : Ours(h) =>
        /\ pdas[h] + pending[FundTx(h)] > 0 => disk.in_flight[h] # NoEntry
        /\ escrows[h].state = "Claimed" /\ Answered(h) # {} =>
              \E id \in Answered(h) :
                  htlcs[id] = "OPEN" => /\ disk.in_flight[h] # NoEntry
                                       /\ disk.in_flight[h].swap_id = id

(***************************************************************************)
(* The maker's LEZ is at risk in one escrow at a time: no crash, retained  *)
(* entry or late transaction gets it to fund a second swap while a first   *)
(* is unresolved (run_maker_loop stops, cmd_maker_loop leaves, when the    *)
(* journal is not empty).                                                  *)
(***************************************************************************)
OneSwapAtRisk ==
    \A h, k \in Hashlocks :
        /\ Ours(h) /\ pdas[h] + pending[FundTx(h)] > 0
        /\ Ours(k) /\ pdas[k] + pending[FundTx(k)] > 0
        => h = k

(***************************************************************************)
(* The swap is atomic for the maker: when a taker has its LEZ, the ETH     *)
(* locked for it does not go back to the taker.  This is what the margin   *)
(* between the two timelocks is for (eth_timelock_covers_lez), whatever    *)
(* crashes and call failures come between the claim and the bot's answer,  *)
(* as long as the polls they cost fit in the margin.                       *)
(***************************************************************************)
MakerNeverLoses ==
    \A h \in Hashlocks :
        Ours(h) /\ escrows[h].state = "Claimed" =>
            \E id \in Answered(h) : htlcs[id] # "REFUNDED"

(***************************************************************************)
(* No LEZ of the maker stays locked, and no revealed secret goes unused:   *)
(* once faults stop, a funded escrow comes to its end and after a claim    *)
(* the ETH does not stay OPEN.                                             *)
(***************************************************************************)
SwapsEnd ==
    \A h \in Hashlocks :
        /\ (Ours(h) /\ Funded(h) /\ StateOf(h) = "Locked") ~> (StateOf(h) \in {"Claimed", "Refunded"})
        /\ (Ours(h) /\ StateOf(h) = "Claimed") ~>
               (Ours(h) /\ \E id \in Answered(h) : htlcs[id] # "OPEN")

(***************************************************************************)
(* An escrow of somebody else on the hashlock, Locked and with what it     *)
(* asks for: the maker has nothing in it and can neither refund it nor     *)
(* claim it.                                                               *)
(***************************************************************************)
Usurped(h) == ~Ours(h) /\ Funded(h) /\ escrows[h].state = "Locked"

(***************************************************************************)
(* The journal drains: an entry, of whatever age and truth, is taken out   *)
(* in the end, so the bot comes back to serving takers instead of          *)
(* restarting into the same entry for ever.  The one exception: while      *)
(* somebody else's funded escrow sits on the hashlock, reconcile takes it  *)
(* for the maker's own, its refund is refused, and the entry is kept       *)
(* (resume_swap, reconcile).                                               *)
(***************************************************************************)
JournalDrains ==
    \A h \in Hashlocks : (mem.in_flight[h] # NoEntry) ~> (mem.in_flight[h] = NoEntry \/ Usurped(h))
=============================================================================

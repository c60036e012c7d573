------------------------------- MODULE LezMcp -------------------------------
(***************************************************************************)
(* The LEZ MCP server (lez-mcp/src/server.rs) and the faucet it drives     *)
(* (src/lez/faucet.rs): concurrent tool calls that write to one LEZ        *)
(* account, under three locks, a cap on proof-of-work solvers and a        *)
(* verified fingerprint of the sequencer.                                  *)
(*                                                                         *)
(* A call is dropped when its client goes away: what it awaits goes with   *)
(* it, locks included, except a section already detached                   *)
(* (run_guarded_detached), which runs on and keeps its lock.               *)
(*                                                                         *)
(* Time counts only for the fingerprint.  Waiting for a lock, solving and  *)
(* confirming may take long; every other step is short against             *)
(* FINGERPRINT_TTL, so Tick waits for it.                                  *)
(***************************************************************************)
EXTENDS Naturals, FiniteSets

CONSTANTS
    Requests,          \* tool calls the clients make
    Workloads,         \* what the calls ask for
    FINGERPRINT_TTL,
    POW_CONCURRENCY,
    MaxClaims,         \* max_claims of a faucet call
    Prize, StartBalance,
    MaxOutside, MaxFaults,
    Free, NoTx

Call == [tool : {"transfer", "claim", "fingerprint"}, amount : Nat, known : BOOLEAN,
         target : Nat]

Tx == [op : {"init", "transfer", "claim"}, n : Nat, amount : Nat]

ASSUME McpAssumption ==
    /\ IsFiniteSet(Requests) /\ Workloads \subseteq [Requests -> Call]
    /\ FINGERPRINT_TTL \in Nat \ {0} /\ POW_CONCURRENCY \in Nat \ {0}
    /\ MaxClaims \in Nat /\ Prize \in Nat /\ StartBalance \in Nat
    /\ MaxOutside \in Nat /\ MaxFaults \in Nat
    /\ Free \notin Requests /\ NoTx \notin Tx

VARIABLES
    nonce, inited, balance, seed,   \* the signer's account and the pinata's seed
    pool, committed,                \* transactions sent, and those executed
    upgraded, sinceUpgrade,         \* the sequencer's programs changed, and how long ago
    gate,                           \* GateState: the verdict and its age
    refresh_lock, signed_write_lock, claim_lock,
    previews, tokens,               \* the calls a token was issued for; tokens left
    orphans,                        \* solvers whose call was dropped
    req,                            \* each call: what it asks and how far it is
    sent, loose,                    \* all transactions sent; those given up on
    outside, faults

chain == <<nonce, inited, balance, seed, pool, committed>>
locks == <<signed_write_lock, claim_lock>>
gating == <<gate, refresh_lock>>
clock == <<upgraded, sinceUpgrade>>
vars == <<chain, clock, gating, locks, previews, tokens, orphans, req, sent, loose,
          outside, faults>>

Fault == faults < MaxFaults /\ faults' = faults + 1
NoFault == UNCHANGED faults
Quietly == /\ NoFault          \* only the call moves, and the locks it takes
           /\ UNCHANGED <<chain, clock, gating, previews, tokens, orphans, sent, loose, outside>>

At(r, l) == req[r].pc = l
Goto(r, l) == req' = [req EXCEPT ![r].pc = l]
Claiming(r) == req[r].call.tool = "claim"

(***************************************************************************)
(* A mistake: a guard is not dropped.                                      *)
(***************************************************************************)
Unlock_Kept(lock, r) == lock

(***************************************************************************)
(* A call ends: its guards are dropped.                                    *)
(***************************************************************************)
Unlock(lock, r) == IF lock = r THEN Free ELSE lock
EndAs(r, rec) ==
    /\ req' = [req EXCEPT ![r] = [rec EXCEPT !.pc = "done"]]
    /\ signed_write_lock' = Unlock(signed_write_lock, r)
    /\ claim_lock' = Unlock(claim_lock, r)
End(r) == EndAs(r, req[r])

-----------------------------------------------------------------------------
(***************************************************************************)
(* The sequencer (external): a transaction is executed if it is valid and  *)
(* silently dropped if it is not.                                          *)
(***************************************************************************)
account_exists == inited \/ balance > 0
Signed(t) == t.op \in {"init", "transfer"}
Valid(t) ==
    /\ ~upgraded
    /\ t.op = "init" => t.n = nonce /\ ~inited
    /\ t.op = "transfer" => t.n = nonce /\ inited /\ t.amount <= balance
    /\ t.op = "claim" => t.n = seed /\ account_exists

Execute(t) ==
    /\ t \in pool
    /\ pool' = pool \ {t}
    /\ IF Valid(t)
       THEN /\ committed' = committed \cup {t}
            /\ nonce' = IF Signed(t) THEN nonce + 1 ELSE nonce
            /\ inited' = (inited \/ t.op = "init")
            /\ seed' = IF t.op = "claim" THEN seed + 1 ELSE seed
            /\ balance' = CASE t.op = "claim" -> balance + Prize
                            [] t.op = "transfer" -> balance - t.amount
                            [] OTHER -> balance
       ELSE UNCHANGED <<nonce, inited, balance, seed, committed>>
    /\ UNCHANGED <<clock, gating, locks, previews, tokens, orphans, req, sent, loose, outside,
                   faults>>

OutsideClaim ==
    /\ outside < MaxOutside
    /\ outside' = outside + 1 /\ seed' = seed + 1
    /\ UNCHANGED <<nonce, inited, balance, pool, committed, clock, gating, locks, previews,
                   tokens, orphans, req, sent, loose, faults>>

Upgrade ==
    /\ ~upgraded
    /\ upgraded' = TRUE
    /\ UNCHANGED <<sinceUpgrade, chain, gating, locks, previews, tokens, orphans, req, sent,
                   loose, outside, faults>>

Long == {"idle", "done", "t_lock", "ci_lock", "c_lock", "f_lock", "permit", "solving",
         "hash", "fallback"}
Older(age) == IF age < FINGERPRINT_TTL THEN age + 1 ELSE age
Tick ==
    /\ \A r \in Requests : \/ req[r].pc \in Long /\ req[r].flight = "no"
                           \/ req[r].flight = "queued"
    /\ sinceUpgrade' = IF upgraded THEN Older(sinceUpgrade) ELSE 0
    /\ gate' = [gate EXCEPT !.age = Older(gate.age)]
    /\ <<sinceUpgrade', gate'>> # <<sinceUpgrade, gate>>
    /\ UNCHANGED <<upgraded, chain, refresh_lock, locks, previews, tokens, orphans, req, sent,
                   loose, outside, faults>>

-----------------------------------------------------------------------------
(***************************************************************************)
(* The write gate.                                                         *)
(***************************************************************************)
gate_is_fresh == gate.verdict = "verified" /\ gate.age < FINGERPRINT_TTL

Gates == {"c_gate", "ci_gate", "cs_gate", "t_gate", "t_gate2", "t_gate3"}
AfterGate(r) ==
    [c_gate |-> "c_exists", ci_gate |-> "i_read", cs_gate |-> "c_submit",
     t_gate |-> "t_checks",
     t_gate2 |-> IF req[r].needsInit THEN "i_read" ELSE "t_gate3",
     t_gate3 |-> "t_balance"][req[r].pc]

(***************************************************************************)
(* ensure_fresh_write_gate: the fast path, or the queue for a refresh.     *)
(***************************************************************************)
EnsureFreshWriteGate(r) ==
    /\ req[r].pc \in Gates /\ req[r].flight = "no"
    /\ req' = [req EXCEPT ![r] = IF gate_is_fresh THEN [@ EXCEPT !.pc = AfterGate(r)]
                                                  ELSE [@ EXCEPT !.flight = "queued"]]
    /\ Quietly /\ UNCHANGED locks

(***************************************************************************)
(* A mistake: fingerprints are taken side by side.                         *)
(***************************************************************************)
TakeFlight_NoLock(r) ==
    /\ req[r].flight = "queued"
    /\ req' = [req EXCEPT ![r].flight = "run"]
    /\ refresh_lock' = r
    /\ NoFault
    /\ UNCHANGED <<chain, clock, gate, locks, previews, tokens, orphans, sent, loose, outside>>

(***************************************************************************)
(* refresh_gate_single_flight: under refresh_lock, unless another call     *)
(* refreshed the gate meanwhile.  lez_fingerprint does not ask.            *)
(***************************************************************************)
TakeFlight(r) ==
    /\ req[r].flight = "queued" /\ refresh_lock = Free
    /\ IF gate_is_fresh /\ req[r].pc \in Gates
       THEN /\ req' = [req EXCEPT ![r] = [@ EXCEPT !.flight = "no", !.pc = AfterGate(r)]]
            /\ UNCHANGED refresh_lock
       ELSE /\ req' = [req EXCEPT ![r].flight = "run"]
            /\ refresh_lock' = r
    /\ NoFault
    /\ UNCHANGED <<chain, clock, gate, locks, previews, tokens, orphans, sent, loose, outside>>

(***************************************************************************)
(* run_fingerprint: what the sequencer answers, or an error.               *)
(***************************************************************************)
RunFingerprint(r) ==
    /\ req[r].flight = "run"
    /\ \E v \in {"verified", "mismatch", "unverified"} :
          /\ \/ v = (IF upgraded THEN "mismatch" ELSE "verified") /\ NoFault
             \/ v = "unverified" /\ Fault
          /\ req' = [req EXCEPT ![r].flight = v]
    /\ UNCHANGED <<chain, clock, gating, locks, previews, tokens, orphans, sent, loose, outside>>

(***************************************************************************)
(* The verdict is stored and stamped; a call that is not cleared ends.     *)
(***************************************************************************)
StoreGate(r) ==
    LET v == req[r].flight
        back == [req[r] EXCEPT !.flight = "no"] IN
    /\ v \in {"verified", "mismatch", "unverified"}
    /\ gate' = [verdict |-> v, age |-> 0]
    /\ refresh_lock' = Unlock(refresh_lock, r)
    /\ IF req[r].pc \in Gates /\ v = "verified"
       THEN req' = [req EXCEPT ![r] = [back EXCEPT !.pc = AfterGate(r)]] /\ UNCHANGED locks
       ELSE EndAs(r, back)
    /\ NoFault
    /\ UNCHANGED <<chain, clock, previews, tokens, orphans, sent, loose, outside>>

(***************************************************************************)
(* lez_fingerprint on the configured sequencer.                            *)
(***************************************************************************)
LezFingerprint(r) ==
    /\ At(r, "idle") /\ req[r].call.tool = "fingerprint"
    /\ req' = [req EXCEPT ![r] = [@ EXCEPT !.flight = "queued", !.pc = "f_lock"]]
    /\ Quietly /\ UNCHANGED locks

Gating(r) == \/ EnsureFreshWriteGate(r) \/ TakeFlight(r) \/ RunFingerprint(r)
             \/ StoreGate(r) \/ LezFingerprint(r)

-----------------------------------------------------------------------------
(***************************************************************************)
(* Sending: an error leaves it open whether the sequencer got it.          *)
(***************************************************************************)
Send(r, t, next) ==
    /\ sent' = sent \cup {t}
    /\ \/ /\ pool' = pool \cup {t}
          /\ req' = [req EXCEPT ![r] = [@ EXCEPT !.tx = t, !.how = "none", !.pc = next]]
          /\ NoFault /\ UNCHANGED <<loose, locks>>
       \/ /\ pool' \in {pool, pool \cup {t}}
          /\ End(r)
          /\ Fault /\ loose' = loose \cup {t}
    /\ UNCHANGED <<nonce, inited, balance, seed, committed, clock, gating, previews, tokens,
                   orphans, outside>>

(***************************************************************************)
(* confirm_submitted_tx, by hash: seen; or getTransaction is unavailable,  *)
(* and the fallback decides; or not seen in time, and the call gives up.   *)
(***************************************************************************)
AfterConfirm(t) == [init |-> "i_owner", transfer |-> "done", claim |-> "c_next"][t.op]
Confirmed(r, how) ==
    LET rec == [req[r] EXCEPT !.how = how, !.pc = AfterConfirm(req[r].tx)] IN
    IF rec.pc = "done" THEN EndAs(r, rec)
                       ELSE req' = [req EXCEPT ![r] = rec] /\ UNCHANGED locks
GiveUp(r) == loose' = loose \cup {req[r].tx} /\ EndAs(r, [req[r] EXCEPT !.how = "unconfirmed"])

ConfirmSubmittedTx(r) ==
    /\ At(r, "hash")
    /\ \/ /\ req[r].tx \in committed
          /\ Confirmed(r, "tx_committed") /\ UNCHANGED loose
       \/ Goto(r, "fallback") /\ UNCHANGED <<locks, loose>>
       \/ req[r].tx \notin committed /\ GiveUp(r)
    /\ NoFault
    /\ UNCHANGED <<chain, clock, gating, previews, tokens, orphans, sent, outside>>

(***************************************************************************)
(* A mistake: the nonce that was submitted counts as an advance.           *)
(***************************************************************************)
nonce_advanced_Reached(submitted) == nonce >= submitted

nonce_advanced(submitted) == nonce > submitted
seed_rotated(solved) == seed # solved

(***************************************************************************)
(* confirm_via_nonce_advance and confirm_via_seed_rotation, which poll     *)
(* until a deadline (poll_for_confirmation).                               *)
(***************************************************************************)
ConfirmFallback(r) ==
    LET signed == Signed(req[r].tx)
        seen == IF signed THEN nonce_advanced(req[r].nonce) ELSE seed_rotated(req[r].tx.n) IN
    /\ At(r, "fallback")
    /\ \/ seen /\ Confirmed(r, IF signed THEN "nonce_advanced" ELSE "seed_rotated")
               /\ UNCHANGED loose
       \/ ~seen /\ GiveUp(r)
    /\ NoFault
    /\ UNCHANGED <<chain, clock, gating, previews, tokens, orphans, sent, outside>>

-----------------------------------------------------------------------------
(***************************************************************************)
(* initialize_signer_account, under signed_write_lock: skipped if the      *)
(* account is owned by now.                                                *)
(***************************************************************************)
LeaveInit(r) ==
    IF Claiming(r)
    THEN /\ signed_write_lock' = Free /\ UNCHANGED claim_lock
         /\ req' = [req EXCEPT ![r].pc = IF req[r].dropped THEN "done" ELSE "c_balance"]
    ELSE Goto(r, "t_gate3") /\ UNCHANGED locks

InitRead(r) ==
    /\ At(r, "i_read")
    /\ IF inited THEN LeaveInit(r) ELSE Goto(r, "i_nonce") /\ UNCHANGED locks
    /\ Quietly

InitNonce(r) ==
    /\ At(r, "i_nonce")
    /\ req' = [req EXCEPT ![r] = [@ EXCEPT !.nonce = nonce, !.pc = "i_send"]]
    /\ Quietly /\ UNCHANGED locks

InitSend(r) ==
    At(r, "i_send") /\ Send(r, [op |-> "init", n |-> req[r].nonce, amount |-> 0], "hash")

InitOwner(r) ==
    /\ At(r, "i_owner")
    /\ IF inited THEN LeaveInit(r) ELSE End(r)
    /\ Quietly

-----------------------------------------------------------------------------
(***************************************************************************)
(* lez_transfer with confirm = false, before the client of r confirms:     *)
(* expired tokens are dropped, one for its parameters is issued.           *)
(***************************************************************************)
Preview(r) ==
    /\ At(r, "idle") /\ req[r].call.tool = "transfer"
    /\ r \notin previews
    /\ previews' = previews \cup {r}
    /\ \E live \in SUBSET tokens : tokens' = live \cup {r}
    /\ UNCHANGED <<chain, clock, gating, locks, orphans, req, sent, loose, outside,
                   faults>>

(***************************************************************************)
(* confirm = true: the accounts are read before anything is awaited on.    *)
(***************************************************************************)
TransferRead(r) ==
    /\ At(r, "idle") /\ req[r].call.tool = "transfer"
    /\ req' = [req EXCEPT ![r] = [@ EXCEPT !.needsInit = ~inited, !.balance = balance,
                                           !.pc = "t_token"]]
    /\ Quietly /\ UNCHANGED locks

(***************************************************************************)
(* A mistake: a token is good for more than one transfer.                  *)
(***************************************************************************)
CheckAndConsumeToken_Kept(r) ==
    /\ At(r, "t_token")
    /\ \E t \in previews \cup {Free} :
          IF t \in tokens /\ req[t].call.amount = req[r].call.amount
          THEN Goto(r, "t_gate") /\ UNCHANGED locks
          ELSE End(r)
    /\ Quietly

(***************************************************************************)
(* check_and_consume_token: expired tokens are dropped, and whatever is    *)
(* presented; only a live one for these parameters lets the call go on.    *)
(***************************************************************************)
CheckAndConsumeToken(r) ==
    /\ At(r, "t_token")
    /\ \E t \in previews \cup {Free}, live \in SUBSET tokens :
          /\ tokens' = live \ {t}
          /\ IF t \in live /\ req[t].call.amount = req[r].call.amount
             THEN Goto(r, "t_gate") /\ UNCHANGED locks
             ELSE End(r)
    /\ NoFault
    /\ UNCHANGED <<chain, clock, gating, previews, orphans, sent, loose, outside>>

TransferChecks(r) ==
    /\ At(r, "t_checks")
    /\ IF req[r].call.known /\ req[r].call.amount <= req[r].balance
       THEN Goto(r, "t_lock") /\ UNCHANGED locks
       ELSE End(r)
    /\ Quietly

(***************************************************************************)
(* The signed section starts; it is detached from here on.                 *)
(***************************************************************************)
TransferLock(r) ==
    /\ At(r, "t_lock") /\ signed_write_lock = Free
    /\ signed_write_lock' = r
    /\ Goto(r, "t_gate2")
    /\ Quietly /\ UNCHANGED claim_lock

TransferBalance(r) ==
    /\ At(r, "t_balance")
    /\ IF req[r].call.amount <= balance THEN Goto(r, "t_nonce") /\ UNCHANGED locks ELSE End(r)
    /\ Quietly

TransferNonce(r) ==
    /\ At(r, "t_nonce")
    /\ req' = [req EXCEPT ![r] = [@ EXCEPT !.nonce = nonce, !.pc = "t_send"]]
    /\ Quietly /\ UNCHANGED locks

(***************************************************************************)
(* LezClient::transfer reads the nonce once more.                          *)
(***************************************************************************)
TransferSend(r) ==
    /\ At(r, "t_send")
    /\ Send(r, [op |-> "transfer", n |-> nonce, amount |-> req[r].call.amount], "hash")

Transfer(r) == \/ TransferRead(r) \/ CheckAndConsumeToken(r) \/ TransferChecks(r)
               \/ TransferLock(r) \/ TransferBalance(r) \/ TransferNonce(r) \/ TransferSend(r)

-----------------------------------------------------------------------------
(***************************************************************************)
(* lez_faucet_claim: the gate, then the account is initialized if need be. *)
(***************************************************************************)
ClaimStart(r) ==
    /\ At(r, "idle") /\ Claiming(r)
    /\ Goto(r, "c_gate")
    /\ Quietly /\ UNCHANGED locks

ClaimExists(r) ==
    /\ At(r, "c_exists")
    /\ Goto(r, IF account_exists THEN "c_balance" ELSE "ci_lock")
    /\ Quietly /\ UNCHANGED locks

ClaimInitLock(r) ==
    /\ At(r, "ci_lock") /\ signed_write_lock = Free
    /\ signed_write_lock' = r
    /\ Goto(r, "ci_gate")
    /\ Quietly /\ UNCHANGED claim_lock

(***************************************************************************)
(* The claim loop: on to the next claim, unless the target is reached, or  *)
(* max_claims, or one claim was all that was asked for.                    *)
(***************************************************************************)
TargetReached(r, b) == req[r].call.target # 0 /\ b >= req[r].call.target
Enough(r, b, made) ==
    \/ TargetReached(r, b)
    \/ made = MaxClaims
    \/ made > 0 /\ req[r].call.target = 0

ClaimBalance(r) ==
    /\ At(r, "c_balance")
    /\ IF Enough(r, balance, 0)
       THEN End(r)
       ELSE /\ req' = [req EXCEPT ![r] = [@ EXCEPT !.balance = balance, !.pc = "c_lock"]]
            /\ UNCHANGED locks
    /\ Quietly

ClaimLock(r) ==
    /\ At(r, "c_lock") /\ claim_lock = Free
    /\ claim_lock' = r
    /\ Goto(r, "c_reread")
    /\ Quietly /\ UNCHANGED signed_write_lock

(***************************************************************************)
(* A mistake: the balance from before the lock decides.                    *)
(***************************************************************************)
ClaimReread_Skipped(r) ==
    /\ At(r, "c_reread")
    /\ Goto(r, "c_fetch")
    /\ Quietly /\ UNCHANGED locks

(***************************************************************************)
(* The balance again, under the lock; a failed read keeps the last one.    *)
(***************************************************************************)
ClaimReread(r) ==
    /\ At(r, "c_reread")
    /\ \E b \in {balance, req[r].balance} :
          /\ IF b = balance THEN NoFault ELSE Fault
          /\ IF TargetReached(r, b)
             THEN End(r)
             ELSE /\ req' = [req EXCEPT ![r] = [@ EXCEPT !.balance = b, !.pc = "c_fetch",
                                                         !.blind = (b # balance)]]
                  /\ UNCHANGED locks
    /\ UNCHANGED <<chain, clock, gating, previews, tokens, orphans, sent, loose, outside>>

(***************************************************************************)
(* solve_claim: the challenge, a permit, the proof of work.  The permit is *)
(* the solver's own: it outlives a dropped call.                           *)
(***************************************************************************)
Solvers == Cardinality({r \in Requests : At(r, "solving")}) + orphans

PinataChallenge(r) ==
    /\ At(r, "c_fetch")
    /\ req' = [req EXCEPT ![r] = [@ EXCEPT !.seed = seed, !.pc = "permit"]]
    /\ Quietly /\ UNCHANGED locks

AcquirePermit(r) ==
    /\ At(r, "permit") /\ Solvers < POW_CONCURRENCY
    /\ Goto(r, "solving")
    /\ Quietly /\ UNCHANGED locks

(***************************************************************************)
(* A mistake: the gate is not looked at again after the proof of work.     *)
(***************************************************************************)
Solve_NoRecheck(r) ==
    /\ At(r, "solving")
    /\ Goto(r, "c_submit")
    /\ Quietly /\ UNCHANGED locks

(***************************************************************************)
(* compute_solution_bounded: a solution, or none within its budget.        *)
(***************************************************************************)
Solve(r) ==
    /\ At(r, "solving")
    /\ \/ Goto(r, "cs_gate") /\ NoFault /\ UNCHANGED locks
       \/ End(r) /\ Fault
    /\ UNCHANGED <<chain, clock, gating, previews, tokens, orphans, sent, loose, outside>>

OrphanStops ==
    /\ orphans > 0
    /\ orphans' = orphans - 1
    /\ UNCHANGED <<chain, clock, gating, locks, previews, tokens, req, sent, loose, outside,
                   faults>>

(***************************************************************************)
(* submit_solved_claim, in the detached section.                           *)
(***************************************************************************)
ClaimSubmit(r) ==
    At(r, "c_submit") /\ Send(r, [op |-> "claim", n |-> req[r].seed, amount |-> 0], "hash")

(***************************************************************************)
(* A claim is confirmed: its guard is dropped, the balance read.           *)
(***************************************************************************)
ClaimNext(r) ==
    /\ At(r, "c_next")
    /\ claim_lock' = Unlock(claim_lock, r) /\ UNCHANGED signed_write_lock
    /\ \E b \in {balance, req[r].balance} :
          /\ IF b = balance THEN NoFault ELSE Fault
          /\ req' = [req EXCEPT ![r] =
                [@ EXCEPT !.balance = b, !.made = req[r].made + 1,
                          !.pc = IF req[r].dropped \/ Enough(r, b, req[r].made + 1)
                                 THEN "done" ELSE "c_lock"]]
    /\ UNCHANGED <<chain, clock, gating, previews, tokens, orphans, sent, loose, outside>>

Claim(r) == \/ ClaimStart(r) \/ ClaimExists(r) \/ ClaimInitLock(r) \/ ClaimBalance(r)
            \/ ClaimLock(r) \/ ClaimReread(r) \/ PinataChallenge(r) \/ AcquirePermit(r)
            \/ Solve(r) \/ ClaimSubmit(r) \/ ClaimNext(r)

-----------------------------------------------------------------------------
(***************************************************************************)
(* A read of the chain fails and the tool gives the error back.            *)
(***************************************************************************)
Reads == {"t_balance", "t_nonce", "c_exists", "c_balance", "c_fetch", "i_read", "i_nonce",
          "i_owner"}
ReadFails(r) ==
    /\ req[r].pc \in Reads
    /\ End(r)
    /\ Fault
    /\ UNCHANGED <<chain, clock, gating, previews, tokens, orphans, sent, loose, outside>>

(***************************************************************************)
(* A mistake: what was sent is dropped with its request.                   *)
(***************************************************************************)
Detached_Nothing == {}

(***************************************************************************)
(* The client goes away.  run_guarded_detached: a detached section runs    *)
(* on, with its guard; anything else is dropped where it is (CancelOnDrop  *)
(* only tells the solver).                                                 *)
(***************************************************************************)
Detached == {"t_gate2", "i_read", "i_nonce", "i_send", "i_owner", "t_gate3", "t_balance",
             "t_nonce", "t_send", "hash", "fallback", "c_submit"}
DropRequest(r) ==
    /\ req[r].pc \notin {"idle", "done"} /\ ~req[r].dropped
    /\ IF req[r].pc \in Detached
       THEN /\ req' = [req EXCEPT ![r].dropped = TRUE]
            /\ UNCHANGED <<locks, refresh_lock, orphans>>
       ELSE /\ EndAs(r, [req[r] EXCEPT !.dropped = TRUE, !.flight = "no"])
            /\ refresh_lock' = Unlock(refresh_lock, r)
            /\ orphans' = IF At(r, "solving") THEN orphans + 1 ELSE orphans
    /\ UNCHANGED <<chain, clock, gate, previews, tokens, sent, loose, outside, faults>>

-----------------------------------------------------------------------------
NewRequest(call) ==
    [call |-> call, pc |-> "idle", flight |-> "no", needsInit |-> FALSE, balance |-> 0,
     nonce |-> 0, seed |-> 0, tx |-> NoTx, how |-> "none", made |-> 0, dropped |-> FALSE,
     blind |-> FALSE]

Init ==
    /\ nonce = 0 /\ inited \in BOOLEAN
    /\ balance \in IF inited THEN {StartBalance} ELSE {0, StartBalance}
    /\ seed = 0
    /\ pool = {} /\ committed = {} /\ sent = {} /\ loose = {}
    /\ upgraded = FALSE /\ sinceUpgrade = 0
    /\ gate \in [verdict : {"verified", "unverified"}, age : {0}]
    /\ refresh_lock = Free /\ signed_write_lock = Free /\ claim_lock = Free
    /\ previews = {} /\ tokens = {} /\ orphans = 0
    /\ req \in {[r \in Requests |-> NewRequest(w[r])] : w \in Workloads}
    /\ outside = 0 /\ faults = 0

Step(r) == \/ Gating(r) \/ Transfer(r) \/ Claim(r)
           \/ InitRead(r) \/ InitNonce(r) \/ InitSend(r) \/ InitOwner(r)
           \/ ConfirmSubmittedTx(r) \/ ConfirmFallback(r)

Next ==
    \/ \E r \in Requests : Preview(r) \/ Step(r) \/ ReadFails(r) \/ DropRequest(r)
    \/ \E t \in pool : Execute(t)
    \/ OrphanStops
    \/ OutsideClaim \/ Upgrade \/ Tick

Spec == Init /\ [][Next]_vars

-----------------------------------------------------------------------------
(***************************************************************************)
(* Every variable has its type.                                            *)
(***************************************************************************)
Flights == {"no", "queued", "run", "verified", "mismatch", "unverified"}
Places == Long \cup Gates \cup Reads
              \cup {"t_token", "t_checks", "i_send", "t_send", "c_reread", "c_submit", "c_next"}
Request ==
    [call : Call, pc : Places, flight : Flights, needsInit : BOOLEAN, balance : Nat, nonce : Nat,
     seed : Nat, tx : Tx \cup {NoTx},
     how : {"none", "unconfirmed", "tx_committed", "nonce_advanced", "seed_rotated"},
     made : Nat, dropped : BOOLEAN, blind : BOOLEAN]
TypeOK ==
    /\ nonce \in Nat /\ inited \in BOOLEAN /\ balance \in Nat /\ seed \in Nat
    /\ pool \subseteq Tx /\ committed \subseteq Tx /\ loose \subseteq Tx /\ sent \subseteq Tx
    /\ upgraded \in BOOLEAN /\ sinceUpgrade \in 0..FINGERPRINT_TTL
    /\ gate \in [verdict : {"verified", "mismatch", "unverified"}, age : 0..FINGERPRINT_TTL]
    /\ refresh_lock \in Requests \cup {Free} /\ signed_write_lock \in Requests \cup {Free}
    /\ claim_lock \in Requests \cup {Free}
    /\ previews \subseteq Requests /\ tokens \subseteq previews
    /\ orphans \in Nat /\ outside \in Nat /\ faults \in Nat
    /\ req \in [Requests -> Request]

(***************************************************************************)
(* A signed write that its call gave up on and that is committed after all *)
(* (external: the sequencer still has it).                                 *)
(***************************************************************************)
CameLate(t) == t \in loose /\ t \in committed /\ Signed(t)

(***************************************************************************)
(* Signed writes are serialized from the nonce read to the commitment:     *)
(* two transactions carry one nonce only if the call that sent one of them *)
(* gave up on it, or if one was given up on earlier and committed late:    *)
(* its nonce can then be taken for that of the next, which is not awaited. *)
(* No client that goes away changes that (Ctx.signed_write_lock,           *)
(* run_guarded_detached, confirm_via_nonce_advance).                       *)
(***************************************************************************)
NonceUsedOnce ==
    \A a, b \in sent :
        Signed(a) /\ Signed(b) /\ a.n = b.n =>
            a = b \/ a \in loose \/ b \in loose \/ \E t \in loose : CameLate(t) /\ t.n < a.n

(***************************************************************************)
(* What a tool reports as confirmed is committed.  The fallbacks infer it, *)
(* and only two things mislead them: a claim of somebody else, for the     *)
(* rotated seed, and another signed write that was given up on and came    *)
(* late, for the nonce (confirm_submitted_tx).                             *)
(***************************************************************************)
ConfirmedMeansCommitted ==
    \A r \in Requests :
        /\ req[r].how = "tx_committed" => req[r].tx \in committed
        /\ req[r].how = "seed_rotated" => req[r].tx \in committed \/ outside > 0
        /\ req[r].how = "nonce_advanced" =>
              req[r].tx \in committed \/ \E t \in loose : CameLate(t) /\ t # req[r].tx

(***************************************************************************)
(* What the server says of its fallbacks: they watch "a signal that can    *)
(* only advance when THIS transaction commits", so what they confirm is    *)
(* committed, without exception (confirm_via_nonce_advance,                *)
(* confirm_via_seed_rotation).                                             *)
(***************************************************************************)
FallbackIsSound ==
    \A r \in Requests : req[r].how \in {"nonce_advanced", "seed_rotated"} => req[r].tx \in committed

(***************************************************************************)
(* Nothing is sent on an obsolete fingerprint: when the sequencer was      *)
(* upgraded a TTL ago, every send is past, whatever locks and proofs of    *)
(* work the call waited for (ensure_fresh_write_gate).                     *)
(***************************************************************************)
NoStaleSend == [][sent' # sent => sinceUpgrade < FINGERPRINT_TTL]_vars

(***************************************************************************)
(* A verdict is not overwritten by an older one: once a mismatch is        *)
(* stored, no answer from before the upgrade re-enables writes             *)
(* (refresh_lock).                                                         *)
(***************************************************************************)
NoResurrection == [][gate.verdict = "mismatch" => gate'.verdict # "verified"]_vars

(***************************************************************************)
(* A transfer is sent only if it was previewed, each preview good for one  *)
(* (check_and_consume_token).                                              *)
(***************************************************************************)
TransfersPreviewed ==
    \A a \in {t.amount : t \in sent} :
        Cardinality({r \in Requests : req[r].tx # NoTx /\ req[r].tx.op = "transfer"
                                      /\ req[r].tx.amount = a})
            <= Cardinality({r \in previews : req[r].call.amount = a})

(***************************************************************************)
(* No claim is sent for an account that has reached the target, although   *)
(* the call queued behind other claims: unless its read of the balance     *)
(* failed or a claim that was given up on lands (lez_faucet_claim).        *)
(***************************************************************************)
NoNeedlessClaim ==
    [][\A r \in Requests :
          At(r, "c_submit") /\ req'[r].pc = "hash" =>
              \/ ~TargetReached(r, balance)
              \/ req[r].blind
              \/ \E t \in loose : t.op = "claim"]_vars

(***************************************************************************)
(* No order of locks, drops and give-ups leaves a call waiting for ever:   *)
(* while calls are under way one of them can go on, or a solver nobody     *)
(* waits for is about to free its permit.                                  *)
(***************************************************************************)
NobodyStuck ==
    (\E r \in Requests : req[r].pc \notin {"idle", "done"}) =>
        orphans > 0 \/ ENABLED \E r \in Requests : Step(r)
=============================================================================

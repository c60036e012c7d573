# Verification of the ETH–LEZ atomic swaps

TLA+ modules, TLC runs and TLAPS proofs for the swap protocol of this repository (an HTLC
contract on Ethereum, an escrow program on LEZ, the maker bot that serves takers unattended,
the taker) and for the services around it: the bot's process and its tasks, the faucet claims
that fund it, the MCP server that writes to LEZ, and the report that counts swaps on chain.
`PROJECT.json` holds the map from definitions to source lines, the runs, the mutants, the
hazards and the findings.

A swap: the taker makes a secret and locks ETH under its hash, naming the LEZ account that shall
be paid. The maker sees the lock and locks LEZ for that account under the same hash, with a
shorter timelock. The taker claims the LEZ, which shows the secret; the maker claims the ETH
with it. Whoever does not go on is refunded after its timelock.

## 1. Inventory

| Part | State | Operations | Hard about it |
|---|---|---|---|
| `contracts/src/EthHTLC.sol` | HTLC per swapId, ETH held, event log | `lock`, `claim`, `refund` | payees that are contracts call back in or revert |
| `programs/lez-htlc` (guest) | one escrow account per hashlock: data and balance | `Lock`, `Claim`, `Refund` | locking and funding are two transactions; anyone may lock a hashlock first |
| LEZ sequencer, transfer program (external) | submitted transactions | execute, drop | no order, duplicates, silent loss of a transaction that panics |
| `src/lez/client.rs` | none | `lock` (lock, confirm, fund, confirm), `claim`, `refund`, `refund_confirmed`, reads | fails between steps; reads may be phantoms; an error may hide an effect |
| `src/eth/client.rs`, `src/eth/watcher.rs` | poll cursor | `lock`, `claim`, `refund`, `get_htlc`; new and replayed events | 256 blocks replayed at every start; a reverted receipt counts as success |
| `src/swap/maker.rs` | rejected hashlocks, current swap | `run_maker`, `run_maker_loop`, classifiers | timelock race, one swap at a time, retries of the ETH claim |
| `src/cli/bot.rs`: `StateStore` | journal in memory and on disk | `record`, `mark_funded`, `remove`, `quarantine`, `load` | best-effort writes; rename done but directory sync failed |
| `src/cli/bot.rs`: reconciler | queue of entries, resumed tasks | `reconcile`, `resume_swap`, `recover_claimed_escrow` | judges half-made swaps from several reads while both chains move |
| `src/cli/maker.rs` | process life cycle, cancel flag | `cmd_maker_loop`, signal handler, `cmd_maker_status` | leaves and is restarted while the journal is not empty; a stop races the tasks |
| `src/cli/bot.rs`: publisher, status writer | sidecar process, status file and its temporary file | `spawn_offer_publisher`, `spawn_status_writer`, `write_status_file` | a child that outlives its parent; two writers of one temporary file |
| `src/cli/bot.rs`: topper; `src/lez/onboard.rs`, `src/lez/faucet.rs` | claims counted, failures in a row | `spawn_fund_topper`, `ensure_initialized`, `claim_to_target`, `await_claim_commit`, `solve_claim` | a claim is recognized by a balance and a seed that others move too |
| `src/ops.rs` | record per hashlock, append-only file | `accepted`, `completed`, `refunded`, `failed` | written apart from the journal; torn lines |
| `src/swap/taker.rs`, `src/cli/refund.rs` | secret, swapId | `run_taker`, `verify_escrow_binding`, refund command | must not show the secret to an escrow it cannot be paid from |
| `src/eth/report.rs`, `src/cli/report.rs` | window, anchors, scan cursor, tally | both block searches, `probe_canaries`, `scan_range`, counts | an empty answer may mean that a backend does not know; retries and halving must not lose or repeat a log |
| `lez-mcp/src/server.rs`, `fingerprint.rs` | three locks, solver permits, write gate, preview tokens | `lez_transfer`, `lez_faucet_claim`, `lez_fingerprint` | clients that go away in the middle of a write; checks that are stale after a wait |
| `swap-ffi`, `swap-module`, `swap-ui`, `offer-publisher`, `canary` | job registry, delivery node, balance refreshes, offers | user interface and distribution | callbacks out of order, cancellation |

The parts meet in four places. Maker and taker share nothing but the two chains. Inside the bot
the loop, the recovery, the topper and the status writer are tasks of one process that share the
journal, the LEZ account and a cancel flag; the sidecar and the healthcheck are processes that
see only what the bot starts or writes. The topper and the MCP server drive the same faucet
code. The chain report reads the events that the contract of `EthHTLC` emits.

What makes the parts correct: the contract and the program pay each swap once and to the right
party; a claim on LEZ always leaves the secret to read; the maker's LEZ only goes into an escrow
it can get it out of; whatever it can still recover survives a crash; it is not left without
both coins; the taker likewise; everything ends; a green healthcheck, a confirmed write, a
counted claim and a published number mean what they say.

## 2. Modules

| Module | Models | Extends / uses |
|---|---|---|
| `EthHTLC` | the contract | |
| `LezHTLC` | the program, the transfer program, the sequencer | |
| `SwapPolicy` | the pure decision functions | |
| `StateStore` | the journal | |
| `MakerBot` | the maker's swaps and recovery with faults, and both chains | `StateStore`, `SwapPolicy`; instances of `EthHTLC`, `LezHTLC` |
| `TakerRun` | one run of the taker and its refund command, with both chains | `SwapPolicy`; instances of `EthHTLC`, `LezHTLC` |
| `BotService` | the bot's process, sidecar, status file, healthcheck | |
| `Funding` | the fund topper, onboarding, faucet claims | |
| `LezMcp` | the MCP server's writing tools | |
| `ChainReport` | the chain report | |
| `MCEthHTLC`, `MCLezHTLC`, `MCMakerBot`, `MCTakerRun`, `MCLezMcp`, `MCChainReport` | the instances TLC checks | |
| `EthHTLCProofs`, `LezHTLCProofs`, `MakerBotProofs`, `TakerRunProofs`, `LezMcpProofs`, `ChainReportProofs`, `FundingProofs`, `BotServiceProofs` | theorems and their lemmas, section 4 | each extends its component's module (`MakerBotProofs` also covers `SwapPolicy` and `StateStore`) |

**EthHTLC.** `htlcs` maps a swapId to its state. swapId is a hash of the six lock parameters, so
the parameters stand for it. `claim` and `refund` change the state, emit the event, then pay; if
the payee is a contract, `frames` holds what to restore, and the payee may call any operation
until `CallReturns` or `CallFails`. Calls that revert before paying are no steps.

**LezHTLC.** `escrows` is the data and `pdas` the balance of the escrow accounts, which depend on
the hashlock alone. `pending` counts the copies of each submitted transaction; the sequencer
executes or drops them in any order. A panic drops the transaction; `Accepts` says which ones would
not panic. Clock in seconds, timelocks in milliseconds, as in the code.

**SwapPolicy.** One operator per Rust function, with u64 saturation at `U64Max`.

**StateStore.** `mem` and `disk`. A failed `persist` may or may not have replaced the file.
`record` reports the failure and takes the entry back; the others go on.

**MakerBot.** `pc` is the process (down, reconcile, loop, watch), `task[h]` what is being done about
hashlock `h`, by run_maker, by reconcile, or by a resumed task; its `step` is the next call. One
step is one chain call or one journal or ledger write. `Fault` counts what goes wrong. The actions
follow the code's order: `AcceptLock`, `Record`, `Accepted`, `CheckBeforeFund`, `SubmitLock`,
`ConfirmLock`, `FundEscrow`, `ConfirmFunding`, `MarkFunded`, then `EscrowEvent` or
`TimelockExpires`, `RefundPoll`, `ClaimEth`, `ClaimReceipt`, `Clear`, `RecordOutcome`; after a
start `NextEntry`, `ReadEscrow`, `ReadBalance`, `Decide`, and for a suspected wedge `RereadState`,
`RereadBalance`, `JudgeWedge`. Takers lock, refund and claim as they like; strangers submit
`OtherTxs`. A transaction that LEZ would accept is dropped only by a fault (`Sequence`).

**TakerRun.** `pc` is the next call of `run_taker` (start, watch, verify, balance, claim, refund) or
how the run ended (completed, refunded, failed); `escrow` is what it read, `revealed` says that the
secret has left it. `LockEth`, `LockSeen`, `RefundSeen`, `TimelockExpires`, `VerifyEscrow`,
`VerifyBalance`, `ClaimLez` and `RefundEth` are the run; `RefundCommand` is what the user may do
afterwards. The maker locks on any terms of the instance, pays or not, refunds, and claims the ETH as
soon as the secret is out. The secret is only in memory, so a crash is a failed run.

**BotService.** `proc` is `cmd_maker_loop` (down, starting, loop, drain, final, exit), `publisher` and
`child` are `spawn_offer_publisher` and its Node process, `writer` is `spawn_status_writer`, `tmp` and
`file` what `write_status_file` writes, with an open descriptor per writer in `fd`. Ages take the place
of timestamps; one `Tick` is the writer's interval of 15 seconds. While the loop runs nobody else writes
the file and a write is one step; during a shutdown open, write and rename are steps of their own, for
the task and for the final write. `cmd_maker_status` is the healthcheck. A publisher's task that is
dropped with its child in it (`AbortPublisher`, `Exit`) leaves it to kill_on_drop, which kills it or not
(`Dropped`); the task that sees the flag kills and reaps it (`KillSidecar`). An orphaned sidecar is not
followed once the next process starts its loop. What happens inside the loop is `MakerBot`.

**Funding.** `pc` walks through `spawn_fund_topper`, `ensure_initialized`, `claim_to_target` and
`await_claim_commit`: the balance before a claim (`prev`), the seed that was solved (`solved`), the
commit observed as a higher balance (`AwaitBalance`) and attributed by the seed (`Attribute`,
`AwaitSeed`, `Reread`). `Spend`, `ForeignCredit` and `RivalClaim` are what others do meanwhile. The
proof of work is a step. A transaction that is lost is one that its sender never hears of again.

**LezMcp.** `req[r]` is a tool call with its place in the handler; `signed_write_lock`, `claim_lock`
and `refresh_lock` hold their owner; `gate` is the verdict on the sequencer and its age. `Gating` is
`ensure_fresh_write_gate` with its single flight, `Send` any submission, `ConfirmSubmittedTx` and
`ConfirmFallback` the confirmation by hash and by inference, `Init...`, `Transfer...` and `Claim...` the
tools. `DropRequest` is a client that goes away: `Detached` lists the places where the call is inside
`run_guarded_detached` and runs on. Two transactions of equal content are one transaction.

**ChainReport.** One run of the command. `world` is the chain, `Backends` the blocks each backend
keeps logs of; `SinceEdge`, `SinceMid`, `UntilEdge`, `UntilMid` are the probes of the two binary
searches, `ProbeAnswered`, `ProbeFailed`, `WalkMissed` the walks of `probe_canaries`, `Decide` is
`scan_decision`, `SpanAnswered`, `SpanDoubted`, `SpanFailed` the outcomes of `corroborated_get_logs` and
what `scan_range` does about them, `Reconnect` the retry on a new connection. Parsing of times and the
printed form are left out.

## 3. Runs

| Run | Question | Bounds |
|---|---|---|
| `eth_contract` | Is every wei explained and is settlement final under re-entrancy? | 3 accounts, 2 of them contracts; 3 valid and 5 invalid requests; depth 3 |
| `lez_program` | Does an escrow end once and show its secret? | 2 accounts, 10 transactions, 3 in flight |
| `recovery` | Is LEZ only in the maker's own escrow, and is all that is recoverable journaled; do swaps end, does the journal drain? | 1 hashlock, 1 fault, a stranger's lock on it, fair scheduling |
| `prompt` | Can the taker get both coins, or the wrong one of two takers on a hashlock the LEZ; is only one swap at risk, is the memory of rejected locks bounded? | 2 hashlocks, 3 requests, ETH for two, LEZ for three swaps, margin 2, polls of 1, 1 fault |
| `taker` | Can the maker get both coins; does the run end, and is a completed one paid? | 4 kinds of escrow, 2 payments, 1 fault, claim margin 2 |
| `stalled_loss` | what the repository says and the code does not do, see section 6 | no fault |
| `mcp` | Are nonces used once, reports of confirmation true, checks not stale; does nobody wait for ever? | 2 calls from 7 pairs, 1 fault, 1 foreign claim, 1 upgrade, TTL 1, 1 solver permit |
| `unsound_fallback` | the same, of the fallbacks of the MCP server | 2 transfers, nobody else, no fault |
| `chain_report` | Is the window exact, the count complete, silence not counted; does a run end? | 5 blocks, 3 backends, 2 swaps, 9 command lines, each retry limit 1 or 2 |
| `funding` | Has every counted claim its credit, and does a low balance come back? | low water 2, prize 1, 1 each of faults, spendings, payments, rival claims |
| `bot_service` | Is green honest, a working bot not called dead, the sidecar brought back, and reaped by an announced stop? | heartbeat 0 or 1 intervals, backoff 2, 2 faults |
| `stop_unseen` | what the repository says of a stop and the code does not do, see section 6 | no fault |

What they show, beyond the table:

- `recovery`, `prompt`: a `LezOnlyInOwnEscrow` counterexample would be an escrow the maker paid on
  somebody else's terms; the stranger's lock, a late lock of the bot's own first attempt and a lock
  with a margin too short are the ways to it. `prompt` is sharp: each fault costs the maker at most one
  poll, and with a margin not larger than faults times polls (1 instead of 2) TLC finds a behaviour in
  which the taker refunds the ETH after it claimed the LEZ. That a larger margin is enough is a
  theorem (`MakerIsWhole`).
- `recovery`: the stranger locks an escrow of 0 LEZ, which the program accepts and which is funded from
  the start. While it is Locked the journal keeps the entry (`Usurped`), and this exception of
  `JournalDrains` is needed: without it TLC finds the bot restarting into the entry for ever.
- `mcp`: with one lock, permit, gate check or detached section taken away, each property fails
  (the mutants). `ConfirmedMeansCommitted` states what the fallbacks can infer: only a claim of somebody
  else (the seed), or another signed write that was given up on and was committed late (the nonce),
  makes them wrong. The comments of the code name no exception; `unsound_fallback` checks what they
  say (`FallbackIsSound`), and TLC refutes it.
- `chain_report`: `CorroboratedIsComplete` holds between the two anchors, `ReportIsTrue` where the
  anchors are the first and last block of the scan.
- `funding`: `AttributedCommitted` holds while nobody else claims from the faucet; a rival's claim
  and a payment together make a foreign credit look like one's own, which the code accepts.
- `bot_service`: `NoFalseAlarm` is about a heartbeat of at least one writer interval (15 s): with a
  shorter one the file is older than three heartbeats before it is written again.

Why the bounds are enough: the code treats hashlocks independently except for the "one at a time"
rule, which two hashlocks show. A half-made swap takes one fault; what a second adds, a recovery
that itself fails, is in the proofs of the safety properties, which are for any number of them. ETH
for two locks gives every pair of the three requests of `prompt`. Time runs past both timelocks and
one poll. `MaxPending` 2 lets a retried transaction meet its first copy. Two tool calls are enough
for every pair of locks; what a third adds is in the proofs, which are for any number of calls
(section 4). In the chain report five blocks give a backend that lacks old ones, one that lacks new
ones, a scan of two spans that can be halved, and windows that end before the head. In `bot_service`
two faults let a sidecar fail twice in a row and a crash follow a failed write.

Deadlock is not checked where the system may stop: a taker's run, a report, tool calls and a stopped
bot end, and the chains of `eth_contract` and `lez_program` run out of clock.

### Assumptions

- *Speed of the funding* (`LockIsPrompt`, `FundingIsPrompt`): `LezClient::lock` is over before the
  LEZ timelock, and no funding transfer is pending that long. The reconciler's verdict that an
  expired, empty escrow will stay empty needs it. It is a real condition on
  the configuration: `validate_timelocks` accepts a LEZ timelock of 5 minutes, as long as the
  confirmation poll, and with `lez_timelock_secs = PollSecs` the run `recovery` fails
  (`RecoverableIsJournaled`). The default is four times that. `BotAssumption` therefore asks for
  `lez_timelock_secs > PollSecs`.
- *Reads*: `read_escrow_bounded` reads five times, and that outlives a phantom "absent"; the single
  read of `LezClient::lock` does not. `watch_escrow` and `refund_confirmed` read again and again, so
  their absent reads are stutters.
- *Strangers* lock escrows but do not pay into the maker's, and cannot sign for the maker.
- *Prompt world* (`PromptSpec`, for `prompt` only): the clock moves only when all wait for it.
- *Claims* (`ClaimIsPrompt`): the taker's claim is sent and executed within `LEZ_CLAIM_MARGIN_SECS` of
  the verification, and the sequencer does not lose it. The code sends it once and does not wait, so
  nothing could be said of the taker without this.
- *Short steps of the MCP server*: only waiting for a lock or permit, solving and confirming take long
  against `FINGERPRINT_TTL`; the single reads between two awaits do not (`Long`).
- *Batches* (`ChainReport`): over HTTP one backend answers all parts of a batch, and a backend's logs
  are of a contiguous range of blocks. Both are stated in the comments of `Canary` and `connect`.
- *Scheduling of the bot's tasks* (`BotService`): what is due is done before the next `Tick`.
- In `MakerBot` the bot stops when its LEZ is used up; that it is topped up is `Funding`.

### Fairness

`recovery` assumes weak fairness of the process (a supervisor restarts it), of each task (async tasks run
on their own), of the sequencer and of Ethereum for what they were given, and of the clock. Faults are
bounded. Takers and strangers owe nothing. `taker` assumes weak fairness of the run, the sequencer and
the clock, and none of the maker or of the user's refund command. `chain_report` assumes weak fairness of
the command, a single task whose requests all have timeouts; `RunEnds` puts no bound on failures, the
code's own retry limits end the run. `funding` assumes weak fairness of the topper's task and of the
sequencer; faults, spendings and rivals are bounded. `bot_service` and `mcp` assume none: a sidecar's
return is a bound in time (`SidecarReturns`), and that nobody waits for ever is stated as "somebody can
go on" (`NobodyStuck`).

## 4. Proofs

All theorems hold for every value of the constants that satisfies the named assumptions: any
number of accounts, secrets, transactions, calls, faults, retries, any margin, lifetime or backoff.
Each theorem but the compositional ones and the one about a pure function is proved from an inductive
invariant, which TLC checked on the run's instance first; what follows says which, and why the property
alone does not carry itself.

**The contract** (`EthHTLCProofs`).

- `TypeCorrect`: `Spec => []TypeOK`, of the saved states of nested calls too.
- `SettlementIsFinal`: `Spec => SettledForGood`. The invariant is over the stack of calls: each saved
  state may become the next one and the last the current one, so a `CallFails` at any depth goes back
  to a state the committed one may still become; and REFUNDED anywhere in the stack means that the
  timelock has passed.
- `LogTellsState`: `Spec => []EventsTellState`. The log has to tell the state in every saved frame too,
  because a revert restores the log and the states together.

**The LEZ program** (`LezHTLCProofs`): `TypeCorrect`, `SecretRevealed` (`[]ClaimRevealsSecret`, inductive
with the types) and `EscrowIsFinal` (`EscrowSettlesOnce`).

**The maker** (`MakerBotProofs`), for any number of hashlocks, requests, strangers' transactions and
faults. One inductive invariant, `Inv`, carries the first four results; none of the properties is
inductive alone, since each says what is so of the money and not what the bot will do next.

- `TypeCorrect`: `Spec => []TypeOK`; `LezStaysOwn`: `Spec => []LezOnlyInOwnEscrow`; `NothingForgotten`:
  `Spec => []RecoverableIsJournaled`; `OneAtATime`: `Spec => []OneSwapAtRisk`.
- What `Inv` adds: memory is covered by the disk, entry by entry (`JournalOK`); while run_maker works the
  journal holds its swap and no other, and reconcile meets each entry without a task (`Control`); escrows
  in the maker's name have the terms of its lock (`OwnTerms`); LEZ at risk is one payment, into an own,
  Locked escrow that answers the request in the journal, and one on its way is not late (`RiskOK`);
  after a claim the ETH is settled or in the journal (`ClaimedKept`); and what a task may rely on at
  each of its steps (`TaskOK`): where it can be (`Placed`), its entry (`Journaled`), that nothing is at
  risk before the funding and that the confirmed escrow is the answer (`Answers`), that a swap is settled
  when its entry is cleared (`Settling`), and that a wedge that was judged empty stays empty (`Judging`).
- Along the argument: a step of LEZ does one of five things to an account (`LezStep`), a call of the
  contract moves an HTLC forward only (`EthCall`), a journal operation changes one entry or, if its write
  failed, none on disk (`Recorded`, `Marked`, `Removed`), and a step of the bot that does not fund changes
  nothing the invariant says of the chains (`Quiet`, `QuietStep`). The funding has a proof of its own,
  and so has the clock.
- `ChainsAreFollowed`: `Spec => Eth!Spec /\ Lez!Spec`, so what is proved of the two chains holds in it.
- `MakerIsWhole`: if `timelock_margin_secs > PollSecs * MaxFaults` then
  `PromptSpec => []MakerNeverLoses`. The second invariant, `PromptInv`, is about time: each fault so far
  may have cost one poll (`Slack`), and LEZ at risk or ETH to be claimed is never later than the LEZ
  timelock by more than that (`Timely`). It is kept because a bot that waits past the timelock waits for
  a poll that a fault has paid for: a lock not executed at once (`LockPolled`), a refund not executed at
  once (`RefundPolled`), both lost by a fault only (`LockLost`, `RefundLost`); and while the clock goes,
  a task looks after every entry (`LookedAfter`, `WaitsInTime`). The ETH is refundable a margin later
  (`RefundedLate`, `MarginHolds`), so a swap is called completed only when the ETH is the maker's
  (`NotOpenClaimed`).
- `AcceptedCoversMargin`, on the lemma `SaturatingTo`: a lock `classify_candidate` accepts clears the LEZ
  expiry by the whole margin where the arithmetic did not saturate. `BotAssumption` keeps the sum of
  times within a u64.

With polls of 300 s the hypothesis of `MakerIsWhole` tells an operator how many faults in a row a
configured margin survives: more than 300 s of margin for one, more than 600 s for two. The default of
five minutes (`src/src/cli/maker.rs:149`) is exactly one poll, so the theorem covers it without a fault.

**The taker** (`TakerRunProofs`).

- `SwapIsAtomic`: `Spec => []TakerNeverLoses`, for every swap, whatever transactions others have and
  wherever the run fails. What is needed around it: the escrow that was read is still the one on the
  chain (`Read`); a verified one is the taker's own, holds what was agreed and expires a margin after
  the verification (`Verified`); escrows are refunded after their timelock only (`RefundedLate`), and
  with a claim at stake it is not that late (`Prompt`), so the escrow has not been refunded
  (`NotRefunded`); and the claim is one the program accepts, so it stays in the queue until it was
  executed (`ClaimWaits`). The sum in `verify_escrow_binding` saturates, and the lemma `Binding` shows
  that it cannot have done so when the escrow also ends before an ETH timelock that is a u64.
- `RevealsInOrder`: `Spec => []RevealedInOrder`, from the same invariant; `TypeCorrect`.
- `ChainsAreFollowed`: `Spec => Eth!Spec /\ Lez!Spec`. Every step of a run is a step of the contract or
  leaves it alone, and the same for the LEZ program, so the theorems about the two chains hold in it.

**The MCP server** (`LezMcpProofs`). Every action is first shown to be one of a few forms of step (it
walks, takes or frees a lock, sends, concludes a confirmation, is dropped: lemma `NextSteps`), then
each invariant is shown for each form.

- `SendsAreCleared`: `NoStaleSend`. `OneFlight`: one refresh at a time, where a call waits for it;
  `VerdictsDated`: a verdict from before the upgrade is at least as old as the upgrade, or on its way
  with no time in between; `ClearedInTime`: no time passes from the gate to the send.
- `MismatchStays`: `NoResurrection`, from the same.
- `NoncesAreSerialized`: `NonceUsedOnce`. `LocksHeld`: a call between the nonce read and the commitment
  has the lock; `ChainCounts`: the nonce counts committed writes; `SignedSettled`: a sent write nobody
  awaits or gave up on is behind the nonce; `NonceIsOwn`: no other write has the nonce that was read.
- `ConfirmationIsRight`: `ConfirmedMeansCommitted`, part of the same induction: a nonce that has passed
  the one the call read was used by its own write, or by one that came late (`Advanced`).
- `ClaimsAreNeeded`: `NoNeedlessClaim`, with `ClaimsSettled`: a claim that can still pay is awaited or
  was given up on.
- `PreviewsPay`: `TransfersPreviewed`, with `TokensPaid`: the transfers past their token and the tokens
  that are left are together no more than the previews of their amount.
- `TypeCorrect`.

The proof corrected a property. `NonceUsedOnce` used to allow one nonce twice only if one of the two
writes had been given up on. With two calls that is so, and TLC agreed. With three it is false: a
write that was given up on commits late, between the nonce read and the send of the next call;
`nonce_advanced` then holds for that call at once, though its own write did not commit, and the third
call reads the nonce the second still needs. The comments at `lez-mcp/src/server.rs:349` and `:1340`
take the advance of the nonce for the commitment of one's own write. The property now names the case.

**The chain report** (`ChainReportProofs`).

- `SearchIsExact`: `WindowExact`. While a search runs, the block it looks for is between `lo` and `hi`
  (`SinceBounds`, `UntilBounds`), and the first end stays exact while the second is sought (`FromExact`).
- `CorroborationHolds`: `CorroboratedIsComplete`. Nothing between the anchors and before the cursor is
  missing (`CountedSoFar`): a corroborated batch was answered by one backend that keeps both anchors,
  so it keeps the blocks between, as its range is contiguous.
- `PublishedIsTrue`: `ReportIsTrue`, with `CountedIsSought` (nothing else is counted).
- `SilenceProvesNothing`: `NothingFromSilence`; `TypeCorrect`, with `Bounded`.

**Funding** (`FundingProofs`).

- `CountsAreCredits`: `CountedIsCredited`. A balance above the one an attempt started from is a credit
  no count has used (`CreditsCounted`).
- `AttributionHolds`: `AttributedCommitted`. The seed has moved past every committed claim, and with no
  rival only because of one (`SeedsSpent`). `TypeCorrect`.

**The bot's process** (`BotServiceProofs`). `Control` ties the tasks, descriptors and flags to how far
the process is.

- `StopsAreSeen`: `raced \/ StopIsSeen`. `StopIsSeen` itself is refuted (`stop_unseen`); the theorem says
  that the race with the status writer, which `raced` remembers, is the only way a stop goes unseen
  when no write fails: an undisturbed final write is one step behind its text (`StopWritten`).
- `SidecarsReturn`: `SidecarReturns`; what a missing sidecar has cost at each place of its task
  (`Supervised`).
- `GreenIsHonest`: `HealthIsHonest`; true of every text that is or may still get into the file, the
  snapshots and the temporary file too (`AllHonest`).
- `NoAlarmIsFalse`: `NoFalseAlarm`; how old the file can be at each place of the writer (`KeptFresh`).
- `StopsReap`: `AnnouncedStopReaps`. After an interval with the flag the publisher's task has ended and
  its child is reaped, so a death or a drop finds nothing to orphan (`Reaped`). `TypeCorrect`.

Assumptions on constants, all evaluated by TLC on the instances: `EthAssumption` (SHA-256 is collision
free, requests are well formed), `LezAssumption`, `PolicyAssumption`; `TakerAssumption` (the taker locks
for its own secret, its timelock is a u64, its margin is not zero); `ChainsAssumption` (those of the two
chains, in `TakerRun` and in `MakerBot`, and that strangers neither sign for the maker nor pay into
escrows); `BotAssumption` (something is offered, the LEZ timelock is longer than the poll, times fit a
u64); `McpAssumption` (finitely many calls); `ReportAssumption`, `WorldsAssumption` (an HTLC is not
both claimed and refunded, which is `SettledForGood`) and `CommandsAssumption`; `FundingAssumption`;
`ServiceAssumption`, `FileAssumption`. What the modules assume of time and of backends (section 3,
Assumptions) is part of the specifications and so of what is proved.

Only model-checked, and why:

- conservation of money (`BalancesExplained`, `LambdaConserved`): sums over sets, which need induction
  over data;
- liveness (`SwapsEnd`, `JournalDrains`, both `RunEnds`, `CompletedIsPaid`, `FundsReturn`) and
  `NobodyStuck`, which is about `ENABLED`: out of the prover's reach.

## 5. Not modelled, and the plan

Next, in this order:

1. `OpsLedger` with its file: a crash in the middle of an append leaves a line without an end, and the
   next append continues it; and between the journal's removal of an entry and the ledger's record of
   its outcome (`src/swap/maker.rs:681-682`, `707-708`, `731-732`, `768-769`, `src/cli/bot.rs:806-809`)
   a crash loses the outcome.
2. `EthWatcher` with its cursor; the maker-loop slot of `swap-ffi` with its cancel flag; job registry,
   delivery adapter and balance refresh of the user interface; the offer publisher with its RFQ answers.
3. `AtomicSwap`: an abstract timed swap with the safety of both sides, which `MakerBot` and `TakerRun`
   implement.

Left out for good: parsing, formatting, QML views, development scripts, deployment, the canary (I/O
around the same calls), the MCP server's reading tools (no state), the escrow's byte layout. Ethereum
reorganisations and the single-shot maker without a journal are not modelled either.

## 6. Findings

- `stalled_loss`: `run_taker` compares the escrow's amount and the account's balance with the agreed
  amount, and not with each other; the program pays only if the balance covers the escrow's amount.
  `TakerNeverLoses` is therefore stated for escrows on the agreed amount.
- `unsound_fallback`: a transfer is sent and given up on, the next one reads the same nonce and is sent,
  the first commits, and `confirm_via_nonce_advance` reports the second as confirmed, which the
  sequencer can only drop. `lez-mcp/src/server.rs:184-187`, `:348-353`, `:405-411` and `:1340-1344` call
  the fallback sound because signed writes are serialized; they are, but the lock is released when a
  confirmation gives up, and the transaction is not taken back. The seed has the same weakness, when
  somebody else claims from the faucet.
- `stop_unseen`: the status writer takes its snapshot, is aborted, and writes it all the same: both
  writers have the temporary file open, the final write is renamed into place, and the writer's text
  lands in it. The file says that the loop runs, for up to three intervals, where
  `src/cli/maker.rs:725-729` wants the stop "visible the moment the process actually stops".
- The proof of `NonceUsedOnce` found that three calls can use one nonce twice in a way two cannot
  (section 4, the MCP server).

### Known differences

Places where a comment or a document says more than the code does. The properties are stated for
what the code does.

- `StateStore::contains` (`src/cli/bot.rs:379`) looks at `in_flight` only, so a replayed event takes a
  quarantined hashlock up again, where `src/cli/bot.rs:204` and `docs/liquidity-bot.md:224` say never.
  The check of an existing escrow in `LezClient::lock` keeps it from paying into the old one
  (`LezOnlyInOwnEscrow` holds).
- `recover_claimed_escrow` (`src/cli/bot.rs:802`) counts a REFUNDED HTLC as completed;
  `docs/counting-the-campaign.md:518` says otherwise.
- A taker's run that refuses an escrow ends (`src/swap/taker.rs:174`), and its ETH stays locked until
  somebody runs the refund command, where `swap-ui/src/qml/SwapCopy/Copy.qml:89` says that it comes back
  by itself.
- A corroborated count of the chain report lacks nothing between its anchors; events before the oldest
  or after the newest one may be missing, and the count still says `corroborated`.
- A window of the chain report from block 0 that ends before block 0 keeps the genesis block
  (`saturating_sub`); it holds no logs.
- The healthcheck sees the status writer, a task of its own, and not the swap loop: a loop that hangs
  stays green.
- The sidecar is to be killed and reaped on a stop because kill_on_drop alone can race the teardown
  (`src/cli/bot.rs:1383-1387`). `src/cli/maker.rs:721` aborts the publisher's task in favour of
  kill_on_drop, and a loop that ends within 200 ms of the signal, or by itself, gives the task no time to
  look at the flag. `AnnouncedStopReaps` is stated for a stop that had the time. A crash, and a signal
  that comes before its handler is installed, orphan the sidecar too.
- `status.failed` is incremented twice for a failed swap that leaves a journal entry
  (`src/swap/maker.rs:970-1005`).
- A funded escrow of a stranger on a journaled hashlock keeps the entry until the stranger refunds it or
  its taker claims it: `reconcile` does not look whose it is, and the refund of the maker is refused
  (`src/cli/bot.rs:860`, `:1125-1149`; `Usurped`).

------------------------------ MODULE Funding ------------------------------
(***************************************************************************)
(* How the maker keeps its LEZ balance up (lez/onboard.rs, cli/bot.rs):    *)
(* the fund topper looks at the balance now and then and claims from the   *)
(* pinata faucet, first initializing the account, one proof of work and    *)
(* one commitment after the other.                                         *)
(*                                                                         *)
(* The account is not the topper's alone: the swap loop spends from it,    *)
(* others pay into it, and others claim from the same faucet, whose seed   *)
(* changes with every claim.  A claim is recognized by a balance above the *)
(* one read before, and attributed to its transaction by a changed seed.   *)
(***************************************************************************)
EXTENDS Naturals, FiniteSets

CONSTANTS
    LowWater,          \* fund_low_water, the target of the claims
    PRIZE_PER_CLAIM,
    MAX_CONSECUTIVE_CLAIM_FAILURES,
    StartBalances,
    MaxSpends, MaxForeign, MaxRivals, MaxFaults

ASSUME FundingAssumption ==
    /\ LowWater \in Nat /\ PRIZE_PER_CLAIM \in Nat \ {0}
    /\ MAX_CONSECUTIVE_CLAIM_FAILURES \in Nat \ {0}
    /\ StartBalances \subseteq Nat
    /\ MaxSpends \in Nat /\ MaxForeign \in Nat /\ MaxRivals \in Nat /\ MaxFaults \in Nat

VARIABLES
    inited, balance, seed,          \* the account and the faucet
    pool, committed,                \* our transactions: sent, and executed
    pc,
    prev, solved,                   \* the balance before a claim, the seed it solves
    failures,                       \* consecutive_failures of this claim_to_target
    counted, attributed,            \* claims counted; those named by their transaction
    cancel,
    spends, foreign, rivals, faults

chain == <<inited, balance, seed, pool, committed>>
locals == <<prev, solved>>
claimant == <<locals, failures, counted, attributed>>
world == <<cancel, spends, foreign, rivals>>
vars == <<chain, pc, claimant, world, faults>>

Fault == faults < MaxFaults /\ faults' = faults + 1
NoFault == UNCHANGED faults
Goto(l) == pc' = l

-----------------------------------------------------------------------------
(***************************************************************************)
(* The sequencer (external): a claim of a seed that is gone, or for an     *)
(* account that was never initialized, is dropped without a word.          *)
(***************************************************************************)
InitTx == [op |-> "init", seed |-> 0]
ClaimTx(s) == [op |-> "claim", seed |-> s]

Execute(t) ==
    /\ pool' = pool \ {t}
    /\ IF t.op = "init"
       THEN /\ inited' = TRUE
            /\ committed' = IF inited THEN committed ELSE committed \cup {t}
            /\ UNCHANGED <<balance, seed>>
       ELSE IF inited /\ t.seed = seed
       THEN /\ balance' = balance + PRIZE_PER_CLAIM /\ seed' = seed + 1
            /\ committed' = committed \cup {t}
            /\ UNCHANGED inited
       ELSE UNCHANGED <<inited, balance, seed, committed>>
    /\ UNCHANGED <<pc, claimant, world, faults>>

Spend ==
    /\ spends < MaxSpends /\ inited /\ balance > 0
    /\ spends' = spends + 1 /\ balance' = balance - 1
    /\ UNCHANGED <<inited, seed, pool, committed, pc, claimant, cancel, foreign, rivals, faults>>

ForeignCredit ==
    /\ foreign < MaxForeign
    /\ foreign' = foreign + 1 /\ balance' = balance + 1
    /\ UNCHANGED <<inited, seed, pool, committed, pc, claimant, cancel, spends, rivals, faults>>

RivalClaim ==
    /\ rivals < MaxRivals
    /\ rivals' = rivals + 1 /\ seed' = seed + 1
    /\ UNCHANGED <<inited, balance, pool, committed, pc, claimant, cancel, spends, foreign, faults>>

-----------------------------------------------------------------------------
(***************************************************************************)
(* spawn_fund_topper: the flag is looked at before a check, and while the  *)
(* task waits for the next one.                                            *)
(***************************************************************************)
TopperWakes ==
    /\ pc = "sleep"
    /\ Goto(IF cancel THEN "stopped" ELSE "check")
    /\ NoFault /\ UNCHANGED <<chain, claimant, world>>

(***************************************************************************)
(* A mistake: a failed read ends the topper.                               *)
(***************************************************************************)
TopperChecks_Once ==
    /\ pc = "check"
    /\ \/ NoFault /\ Goto(IF balance < LowWater THEN "i_read" ELSE "sleep")
       \/ Fault /\ Goto("stopped")
    /\ failures' = 0
    /\ UNCHANGED <<chain, locals, counted, attributed, world>>

TopperChecks ==
    /\ pc = "check"
    /\ \/ NoFault /\ Goto(IF balance < LowWater THEN "i_read" ELSE "sleep")
       \/ Fault /\ Goto("sleep")
    /\ failures' = 0
    /\ UNCHANGED <<chain, locals, counted, attributed, world>>

(***************************************************************************)
(* claim_to_target gives up; the topper tries again at its next interval.  *)
(***************************************************************************)
GiveUp == Fault /\ Goto("sleep")

-----------------------------------------------------------------------------
(***************************************************************************)
(* ensure_initialized: the owner, the nonce, Initialize, and the owner     *)
(* again until it changes or the deadline passes.                          *)
(***************************************************************************)
EnsureInitialized ==
    /\ pc = "i_read"
    /\ \/ NoFault /\ Goto(IF inited THEN "read" ELSE "i_send")
       \/ GiveUp
    /\ UNCHANGED <<chain, claimant, world>>

SendInit ==
    /\ pc = "i_send"
    /\ \/ pool' = pool \cup {InitTx} /\ Goto("i_wait") /\ NoFault
       \/ pool' \in {pool, pool \cup {InitTx}} /\ GiveUp
    /\ UNCHANGED <<inited, balance, seed, committed, claimant, world>>

AwaitInit ==
    /\ pc = "i_wait"
    /\ Goto(IF inited THEN "read" ELSE "sleep")
    /\ NoFault /\ UNCHANGED <<chain, claimant, world>>

-----------------------------------------------------------------------------
(***************************************************************************)
(* claim_to_target, its loop: the balance, and the next attempt if it is   *)
(* below the target.                                                       *)
(***************************************************************************)
ReadBalance ==
    /\ pc = "read"
    /\ \/ NoFault /\ prev' = balance /\ Goto(IF balance >= LowWater THEN "sleep" ELSE "fetch")
       \/ GiveUp /\ UNCHANGED prev
    /\ UNCHANGED <<chain, solved, failures, counted, attributed, world>>

(***************************************************************************)
(* An attempt ends: it is counted, or it is one more failure in a row.     *)
(***************************************************************************)
Forget == prev' = 0 /\ solved' = 0
Claimed(byUs) ==
    /\ failures' = 0 /\ counted' = counted + 1
    /\ attributed' = IF byUs THEN attributed \cup {ClaimTx(solved)} ELSE attributed
    /\ Goto("read") /\ Forget
ClaimFailed ==
    /\ failures' = failures + 1
    /\ Goto(IF failures + 1 >= MAX_CONSECUTIVE_CLAIM_FAILURES THEN "sleep" ELSE "read")
    /\ Forget /\ UNCHANGED <<counted, attributed>>

(***************************************************************************)
(* solve_claim: the challenge, and the proof of work within its budget.    *)
(***************************************************************************)
SolveClaim ==
    /\ pc = "fetch"
    /\ \/ /\ solved' = seed /\ Goto("submit") /\ NoFault
          /\ UNCHANGED <<prev, failures, counted, attributed>>
       \/ ClaimFailed /\ Fault
    /\ UNCHANGED <<chain, world>>

SubmitSolvedClaim ==
    /\ pc = "submit"
    /\ \/ /\ pool' = pool \cup {ClaimTx(solved)} /\ Goto("w_balance") /\ NoFault
          /\ UNCHANGED claimant
       \/ pool' \in {pool, pool \cup {ClaimTx(solved)}} /\ ClaimFailed /\ Fault
    /\ UNCHANGED <<inited, balance, seed, committed, world>>

(***************************************************************************)
(* A mistake: an unchanged balance counts as a credit.                     *)
(***************************************************************************)
AwaitBalance_NotLess ==
    /\ pc = "w_balance"
    /\ Goto(IF balance >= prev THEN "w_attr" ELSE "w_seed")
    /\ NoFault /\ UNCHANGED <<chain, claimant, world>>

(***************************************************************************)
(* await_claim_commit: the balance; if it rose, the seed says whether our  *)
(* claim is why.                                                           *)
(***************************************************************************)
AwaitBalance ==
    /\ pc = "w_balance"
    /\ \/ NoFault /\ Goto(IF balance > prev THEN "w_attr" ELSE "w_seed")
       \/ Fault /\ Goto("w_seed")
    /\ UNCHANGED <<chain, claimant, world>>

(***************************************************************************)
(* A mistake: every credit is taken for our own.                           *)
(***************************************************************************)
Attribute_Always ==
    /\ pc = "w_attr"
    /\ NoFault /\ Claimed(TRUE)
    /\ UNCHANGED <<chain, world>>

Attribute ==
    /\ pc = "w_attr"
    /\ \/ NoFault /\ Claimed(seed # solved)
       \/ Fault /\ Claimed(FALSE)
    /\ UNCHANGED <<chain, world>>

(***************************************************************************)
(* It did not rise: a changed seed is looked into, an unchanged one (or a  *)
(* failed read) waited on until the deadline.                              *)
(***************************************************************************)
AwaitSeed ==
    /\ pc = "w_seed"
    /\ \/ /\ seed # solved /\ Goto("w_reread") /\ NoFault
          /\ UNCHANGED claimant
       \/ /\ IF seed = solved THEN NoFault ELSE Fault
          /\ \/ Goto("w_balance") /\ UNCHANGED claimant
             \/ ClaimFailed
    /\ UNCHANGED <<chain, world>>

Reread ==
    /\ pc = "w_reread"
    /\ \/ NoFault /\ IF balance > prev THEN Claimed(TRUE) ELSE ClaimFailed
       \/ Fault /\ ClaimFailed
    /\ UNCHANGED <<chain, world>>

-----------------------------------------------------------------------------
(***************************************************************************)
(* The maker shuts down: the flag, and once the loop has drained the task  *)
(* is aborted wherever it waits.                                           *)
(***************************************************************************)
Cancel ==
    /\ ~cancel
    /\ cancel' = TRUE
    /\ UNCHANGED <<chain, pc, claimant, spends, foreign, rivals, faults>>

Abort ==
    /\ cancel /\ pc # "stopped"
    /\ Goto("stopped")
    /\ NoFault /\ UNCHANGED <<chain, claimant, world>>

Init ==
    /\ inited \in BOOLEAN /\ seed = 0
    /\ balance \in IF inited THEN StartBalances ELSE {0}
    /\ pool = {} /\ committed = {}
    /\ pc = "check"
    /\ prev = 0 /\ solved = 0 /\ failures = 0 /\ counted = 0 /\ attributed = {}
    /\ cancel = FALSE /\ spends = 0 /\ foreign = 0 /\ rivals = 0 /\ faults = 0

Topper ==
    \/ TopperWakes \/ TopperChecks
    \/ EnsureInitialized \/ SendInit \/ AwaitInit
    \/ ReadBalance \/ SolveClaim \/ SubmitSolvedClaim
    \/ AwaitBalance \/ Attribute \/ AwaitSeed \/ Reread

Next ==
    \/ Topper \/ Cancel \/ Abort
    \/ \E t \in pool : Execute(t)
    \/ Spend \/ ForeignCredit \/ RivalClaim

Spec == Init /\ [][Next]_vars

(***************************************************************************)
(* The runtime polls the topper, and the sequencer executes what it        *)
(* accepted.                                                               *)
(***************************************************************************)
FairSpec == Spec /\ WF_vars(Topper) /\ WF_vars(\E t \in pool : Execute(t))
-----------------------------------------------------------------------------
(***************************************************************************)
(* Every variable has its type.                                            *)
(***************************************************************************)
Tx == [op : {"init", "claim"}, seed : Nat]
TypeOK ==
    /\ inited \in BOOLEAN /\ balance \in Nat /\ seed \in Nat
    /\ pool \subseteq Tx /\ committed \subseteq Tx /\ attributed \subseteq Tx
    /\ prev \in Nat /\ solved \in Nat /\ counted \in Nat
    /\ failures \in 0..MAX_CONSECUTIVE_CLAIM_FAILURES
    /\ cancel \in BOOLEAN
    /\ spends \in Nat /\ foreign \in Nat /\ rivals \in Nat /\ faults \in Nat
    /\ pc \in {"sleep", "stopped", "check", "i_read", "i_send", "i_wait", "read", "fetch", "submit",
               "w_balance", "w_attr", "w_seed", "w_reread"}

OwnClaims == {t \in committed : t.op = "claim"}

(***************************************************************************)
(* Every claim counted is backed by a credit of its own: one of our claims *)
(* that committed, or somebody's payment (await_claim_commit).  Acceptance *)
(* by the sequencer, a late commitment or a repeated claim of one seed     *)
(* counts nothing twice.                                                   *)
(***************************************************************************)
CountedIsCredited == counted <= Cardinality(OwnClaims) + foreign

(***************************************************************************)
(* A transaction is named for a credit only if it committed: payments and  *)
(* our own late claims do not deceive the attribution as long as nobody    *)
(* else claims from the faucet (FundingProgress::Claimed).                 *)
(***************************************************************************)
AttributedCommitted == attributed \subseteq committed \/ rivals > 0

(***************************************************************************)
(* A maker that runs low is funded again, however claims are lost, late or *)
(* overtaken and whatever the swaps spend meanwhile: no failure stops the  *)
(* topper for good (spawn_fund_topper).                                    *)
(***************************************************************************)
FundsReturn == balance < LowWater ~> (balance >= LowWater \/ cancel)
=============================================================================

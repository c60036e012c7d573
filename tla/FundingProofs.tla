--------------------------- MODULE FundingProofs ---------------------------
(***************************************************************************)
(* Proofs about Funding, for every prize, low-water mark and limit on      *)
(* failures, and any number of spends, payments, rivals and faults.        *)
(***************************************************************************)
EXTENDS Funding, FiniteSetTheorems, TLAPS

(***************************************************************************)
(* The steps of one attempt, from the balance it starts from to its end.   *)
(***************************************************************************)
Attempt == {"fetch", "submit", "w_balance", "w_attr", "w_seed", "w_reread"}
Credits == Cardinality(OwnClaims) + foreign

(***************************************************************************)
(* A run of claims starts with a chance to fail.                           *)
(***************************************************************************)
MayFail ==
    pc \in Attempt \cup {"i_read", "i_send", "i_wait", "read"} =>
        failures < MAX_CONSECUTIVE_CLAIM_FAILURES

(***************************************************************************)
(* The seed has moved past every claim that committed; with no rival, each *)
(* of its moves was such a claim.                                          *)
(***************************************************************************)
SeedsSpent ==
    /\ IsFiniteSet(committed)
    /\ \A t \in OwnClaims : t.seed < seed
    /\ rivals = 0 => \A s \in 0..seed : s < seed => ClaimTx(s) \in committed
    /\ solved <= seed
    /\ pc = "w_reread" => solved < seed

(***************************************************************************)
(* A balance above the one an attempt started from is a credit that no     *)
(* count has used: counts are one behind the credits from then on.         *)
(***************************************************************************)
CreditsCounted ==
    /\ counted <= Credits
    /\ pc \in Attempt /\ balance > prev => counted < Credits
    /\ pc = "w_attr" => counted < Credits

Inv == TypeOK /\ MayFail /\ SeedsSpent /\ CreditsCounted /\ AttributedCommitted

-----------------------------------------------------------------------------
(***************************************************************************)
(* The credits are a number.                                               *)
(***************************************************************************)
LEMMA CreditsType ==
    ASSUME TypeOK, SeedsSpent
    PROVE  Cardinality(OwnClaims) \in Nat /\ Credits \in Nat /\ IsFiniteSet(OwnClaims)
<1>1. IsFiniteSet(OwnClaims)
  BY FS_Subset DEF SeedsSpent, OwnClaims
<1> QED
  BY <1>1, FS_CardinalityType DEF TypeOK, Credits

(***************************************************************************)
(* A step of the topper leaves the chain alone but for what it sends: only *)
(* its own counters can break the invariant.                               *)
(***************************************************************************)
LEMMA TopperKeeps ==
    ASSUME Inv, TypeOK', MayFail', UNCHANGED <<inited, balance, seed, committed, world>>,
           solved' <= seed,
           pc' = "w_reread" => solved' < seed,
           /\ counted' <= Credits
           /\ pc' \in Attempt /\ balance > prev' => counted' < Credits
           /\ pc' = "w_attr" => counted' < Credits,
           attributed' \subseteq committed \/ rivals > 0
    PROVE  Inv'
<1>1. OwnClaims' = OwnClaims /\ Credits' = Credits
  BY DEF OwnClaims, Credits, world
<1>2. SeedsSpent'
  BY <1>1 DEF Inv, SeedsSpent, world
<1>3. CreditsCounted'
  BY <1>1 DEF CreditsCounted
<1>4. AttributedCommitted'
  BY DEF AttributedCommitted, world
<1> QED
  BY <1>2, <1>3, <1>4 DEF Inv

(***************************************************************************)
(* A claim executed: a credit the counts have not seen, under a seed that  *)
(* nothing committed has used.                                             *)
(***************************************************************************)
LEMMA ExecuteStep ==
    ASSUME Inv, NEW t \in pool, Execute(t)
    PROVE  Inv'
<1> USE FundingAssumption
<1>0. TypeOK /\ SeedsSpent /\ CreditsCounted /\ MayFail /\ AttributedCommitted
  BY DEF Inv
<1>1. t \in Tx /\ t.op \in {"init", "claim"} /\ t.seed \in Nat
  BY <1>0 DEF TypeOK, Tx
<1>2. UNCHANGED <<pc, prev, solved, failures, counted, attributed, cancel, spends, foreign, rivals,
                  faults>>
  BY DEF Execute, claimant, locals, world
<1>3. TypeOK' /\ MayFail'
  <2>1. balance' \in Nat /\ seed' \in Nat
    BY <1>0, <1>1 DEF TypeOK, Execute
  <2>0. inited' \in BOOLEAN
    BY <1>0, Zenon DEF TypeOK, Execute
  <2>2. pool' \subseteq Tx /\ committed' \subseteq Tx
    BY <1>0, <1>1 DEF TypeOK, Execute
  <2> QED
    BY <1>0, <1>2, <2>0, <2>1, <2>2 DEF TypeOK, MayFail
<1>4. CASE t.op = "claim" /\ inited /\ t.seed = seed
  <2>1. /\ balance' = balance + PRIZE_PER_CLAIM /\ seed' = seed + 1 /\ committed' = committed \cup {t}
    BY <1>4 DEF Execute
  <2>2. t \notin OwnClaims /\ OwnClaims' = OwnClaims \cup {t}
    <3>1. t \notin OwnClaims
      BY <1>0, <1>4 DEF SeedsSpent, TypeOK
    <3> QED
      BY <1>4, <2>1, <3>1 DEF OwnClaims
  <2>3. Credits' = Credits + 1
    <3>1. Cardinality(OwnClaims') = Cardinality(OwnClaims) + 1
      BY <1>0, <2>2, CreditsType, FS_AddElement
    <3> QED
      BY <1>0, <1>2, <3>1, CreditsType DEF Credits, TypeOK
  <2>4. CreditsCounted'
    BY <1>0, <1>2, <2>3, CreditsType DEF CreditsCounted, TypeOK
  <2>5. t = ClaimTx(seed)
    BY <1>1, <1>4 DEF Tx, ClaimTx
  <2>6. SeedsSpent'
    <3>1. IsFiniteSet(committed')
      BY <1>0, <2>1, FS_AddElement DEF SeedsSpent
    <3>2. \A u \in OwnClaims' : u.seed < seed'
      <4>1. \A u \in OwnClaims : u.seed \in Nat /\ u.seed < seed
        BY <1>0 DEF SeedsSpent, OwnClaims, TypeOK, Tx
      <4> QED
        BY <1>0, <1>4, <2>1, <2>2, <4>1 DEF TypeOK
    <3>3. rivals' = 0 => \A s \in 0..seed' : s < seed' => ClaimTx(s) \in committed'
      <4>1. \A s \in 0..(seed + 1) : s < seed + 1 => (s \in 0..seed /\ s < seed) \/ s = seed
        BY <1>0 DEF TypeOK
      <4> QED
        BY <1>0, <1>2, <2>1, <2>5, <4>1 DEF SeedsSpent
    <3>4. solved' <= seed' /\ (pc' = "w_reread" => solved' < seed')
      BY <1>0, <1>2, <2>1 DEF SeedsSpent, TypeOK
    <3> QED
      BY <3>1, <3>2, <3>3, <3>4 DEF SeedsSpent
  <2> QED
    BY <1>0, <1>2, <1>3, <2>1, <2>4, <2>6 DEF Inv, AttributedCommitted
<1>5. CASE ~(t.op = "claim" /\ inited /\ t.seed = seed)
  <2>1. balance' = balance /\ seed' = seed /\ committed' \in {committed, committed \cup {t}}
        /\ (committed' # committed => t.op = "init")
    BY <1>1, <1>5 DEF Execute
  <2>2. OwnClaims' = OwnClaims /\ Credits' = Credits
    BY <1>2, <2>1 DEF OwnClaims, Credits
  <2>3. IsFiniteSet(committed')
    BY <1>0, <2>1, FS_AddElement DEF SeedsSpent
  <2>4. SeedsSpent'
    BY <1>0, <1>2, <2>1, <2>2, <2>3 DEF SeedsSpent
  <2>5. CreditsCounted'
    BY <1>0, <1>2, <2>1, <2>2 DEF CreditsCounted
  <2> QED
    BY <1>0, <1>2, <1>3, <2>1, <2>4, <2>5 DEF Inv, AttributedCommitted
<1> QED
  BY <1>4, <1>5

(***************************************************************************)
(* What others do to the account and to the faucet.                        *)
(***************************************************************************)
LEMMA OthersStep ==
    ASSUME Inv, Spend \/ ForeignCredit \/ RivalClaim
    PROVE  Inv'
<1>0. TypeOK /\ SeedsSpent /\ CreditsCounted /\ MayFail /\ AttributedCommitted
  BY DEF Inv
<1>1. /\ UNCHANGED <<inited, pool, committed, pc, prev, solved, failures, counted, attributed, cancel,
                     faults>>
      /\ OwnClaims' = OwnClaims
  BY DEF Spend, ForeignCredit, RivalClaim, OwnClaims, claimant, locals
<1>2. CASE Spend
  <2>1. balance' = balance - 1 /\ balance > 0 /\ UNCHANGED <<seed, foreign, rivals>>
        /\ spends' = spends + 1
    BY <1>2 DEF Spend
  <2>2. TypeOK' /\ MayFail'
    BY <1>0, <1>1, <2>1 DEF TypeOK, MayFail
  <2>3. CreditsCounted'
    BY <1>0, <1>1, <2>1 DEF CreditsCounted, Credits, TypeOK
  <2> QED
    BY <1>0, <1>1, <2>1, <2>2, <2>3 DEF Inv, SeedsSpent, AttributedCommitted
<1>3. CASE ForeignCredit
  <2>1. balance' = balance + 1 /\ foreign' = foreign + 1 /\ UNCHANGED <<seed, spends, rivals>>
    BY <1>3 DEF ForeignCredit
  <2>2. TypeOK' /\ MayFail'
    BY <1>0, <1>1, <2>1 DEF TypeOK, MayFail
  <2>3. Credits' = Credits + 1
    BY <1>0, <1>1, <2>1, CreditsType DEF Credits, TypeOK
  <2>4. CreditsCounted'
    BY <1>0, <1>1, <2>3, CreditsType DEF CreditsCounted, TypeOK
  <2> QED
    BY <1>0, <1>1, <2>1, <2>2, <2>4 DEF Inv, SeedsSpent, AttributedCommitted
<1>4. CASE RivalClaim
  <2>1. seed' = seed + 1 /\ rivals' = rivals + 1 /\ UNCHANGED <<balance, spends, foreign>>
    BY <1>4 DEF RivalClaim
  <2>2. TypeOK' /\ MayFail'
    BY <1>0, <1>1, <2>1 DEF TypeOK, MayFail
  <2>3. CreditsCounted'
    BY <1>0, <1>1, <2>1 DEF CreditsCounted, Credits
  <2>4. \A u \in OwnClaims' : u.seed < seed'
    <3>1. \A u \in OwnClaims : u.seed \in Nat /\ u.seed < seed
      BY <1>0 DEF SeedsSpent, OwnClaims, TypeOK, Tx
    <3> QED
      BY <1>0, <1>1, <2>1, <3>1 DEF TypeOK
  <2>5. rivals' # 0 /\ rivals' > 0 /\ solved' <= seed' /\ (pc' = "w_reread" => solved' < seed')
    BY <1>0, <1>1, <2>1 DEF TypeOK, SeedsSpent
  <2>6. SeedsSpent'
    BY <1>0, <1>1, <2>4, <2>5 DEF SeedsSpent
  <2> QED
    BY <2>2, <2>3, <2>5, <2>6 DEF Inv, AttributedCommitted
<1> QED
  BY <1>2, <1>3, <1>4

(***************************************************************************)
(* An attempt that fails, and one that is counted.                         *)
(***************************************************************************)
LEMMA AttemptFails ==
    ASSUME Inv, ClaimFailed, pc \in Attempt, faults' \in Nat, pool' \subseteq Tx,
           UNCHANGED <<inited, balance, seed, committed, world>>
    PROVE  Inv'
<1>0. TypeOK /\ SeedsSpent /\ CreditsCounted /\ MayFail /\ AttributedCommitted
  BY DEF Inv
<1>1. /\ failures \in Nat /\ failures < MAX_CONSECUTIVE_CLAIM_FAILURES
      /\ MAX_CONSECUTIVE_CLAIM_FAILURES \in Nat
  BY <1>0, FundingAssumption DEF MayFail, TypeOK
<1>2. TypeOK' /\ MayFail' /\ pc' \in {"sleep", "read"}
  <2>1. /\ failures' \in 0..MAX_CONSECUTIVE_CLAIM_FAILURES /\ pc' \in {"sleep", "read"}
        /\ pc' = "read" => failures' < MAX_CONSECUTIVE_CLAIM_FAILURES
    BY <1>1 DEF ClaimFailed, Goto
  <2> QED
    BY <1>0, <2>1 DEF TypeOK, MayFail, Attempt, ClaimFailed, Forget, world
<1>3. solved' <= seed
  BY <1>0 DEF TypeOK, ClaimFailed, Forget
<1> QED
  BY <1>0, <1>2, <1>3, TopperKeeps DEF ClaimFailed, CreditsCounted, AttributedCommitted, Attempt

(***************************************************************************)
(* An attempt that ends counted uses up a credit, and names its own        *)
(* transaction only when its seed was spent.                               *)
(***************************************************************************)
LEMMA AttemptCounts ==
    ASSUME Inv, NEW byUs \in BOOLEAN, Claimed(byUs), pc \in Attempt, faults' \in Nat,
           counted < Credits, byUs => solved < seed,
           UNCHANGED <<inited, balance, seed, pool, committed, world>>
    PROVE  Inv'
<1>0. TypeOK /\ SeedsSpent /\ CreditsCounted /\ MayFail /\ AttributedCommitted
  BY DEF Inv
<1>1. ClaimTx(solved) \in Tx
  BY <1>0 DEF TypeOK, ClaimTx, Tx
<1>2. attributed' \subseteq Tx
  BY <1>0, <1>1 DEF TypeOK, Claimed
<1>3. TypeOK' /\ MayFail'
  BY <1>0, <1>2, FundingAssumption DEF TypeOK, MayFail, Attempt, Claimed, Forget, Goto, world
<1>4. attributed' \subseteq committed \/ rivals > 0
  <2>1. CASE rivals = 0
    BY <1>0, <2>1 DEF AttributedCommitted, SeedsSpent, TypeOK, Claimed
  <2>2. CASE rivals # 0
    BY <1>0, <2>2 DEF TypeOK
  <2> QED
    BY <2>1, <2>2
<1>5. counted' <= Credits /\ pc' = "read" /\ solved' <= seed
  BY <1>0, CreditsType DEF TypeOK, Claimed, Goto, Forget
<1> QED
  BY <1>3, <1>4, <1>5, TopperKeeps DEF Attempt

(***************************************************************************)
(* The topper's steps outside an attempt.                                  *)
(***************************************************************************)
LEMMA OutsideStep ==
    ASSUME Inv,
           \/ TopperWakes \/ TopperChecks \/ EnsureInitialized \/ SendInit \/ AwaitInit
           \/ ReadBalance \/ Abort
    PROVE  Inv'
<1>0. TypeOK /\ SeedsSpent /\ CreditsCounted /\ MayFail /\ AttributedCommitted
  BY DEF Inv
<1>1. /\ UNCHANGED <<inited, balance, seed, committed, cancel, spends, foreign, rivals, solved, counted,
                     attributed>>
      /\ world' = world
  BY DEF TopperWakes, TopperChecks, EnsureInitialized, SendInit, AwaitInit, ReadBalance, Abort,
     chain, claimant, locals, world
<1>2. faults' \in Nat
  BY <1>0 DEF TypeOK, TopperWakes, TopperChecks, EnsureInitialized, SendInit, AwaitInit,
     ReadBalance, Abort, GiveUp, Fault, NoFault
<1>3. pool' \subseteq Tx
  <2>1. InitTx \in Tx
    BY DEF InitTx, Tx
  <2> QED
    BY <1>0, <2>1 DEF TypeOK, TopperWakes, TopperChecks, EnsureInitialized, SendInit, AwaitInit,
       ReadBalance, Abort, chain
<1>4. /\ pc' \in {"stopped", "check", "i_read", "sleep", "read", "i_send", "i_wait", "fetch"}
      /\ prev' \in Nat /\ (pc' = "fetch" => prev' = balance)
      /\ failures' \in 0..MAX_CONSECUTIVE_CLAIM_FAILURES /\ MayFail'
  <2>1. CASE TopperWakes \/ Abort
    BY <1>0, <2>1 DEF TypeOK, TopperWakes, Abort, Goto, MayFail, Attempt, claimant, locals
  <2>2. CASE TopperChecks
    BY <1>0, <2>2, FundingAssumption DEF TypeOK, TopperChecks, Goto, MayFail, Attempt, locals
  <2>3. CASE EnsureInitialized \/ SendInit \/ AwaitInit
    BY <1>0, <2>3 DEF TypeOK, EnsureInitialized, SendInit, AwaitInit, GiveUp, Goto, MayFail, Attempt,
       claimant, locals
  <2>4. CASE ReadBalance
    BY <1>0, <2>4 DEF TypeOK, ReadBalance, GiveUp, Goto, MayFail, Attempt, locals
  <2> QED
    BY <2>1, <2>2, <2>3, <2>4
<1>5. TypeOK'
  BY <1>0, <1>1, <1>2, <1>3, <1>4 DEF TypeOK
<1>6. ~(balance > prev') \/ pc' \notin Attempt
  BY <1>0, <1>4 DEF Attempt, TypeOK
<1> QED
  BY <1>0, <1>1, <1>4, <1>5, <1>6, TopperKeeps DEF CreditsCounted, SeedsSpent, AttributedCommitted

(***************************************************************************)
(* The steps of an attempt: solve, submit, and await the commitment.       *)
(***************************************************************************)
LEMMA AttemptStep ==
    ASSUME Inv,
           SolveClaim \/ SubmitSolvedClaim \/ AwaitBalance \/ Attribute \/ AwaitSeed \/ Reread
    PROVE  Inv'
<1>0. TypeOK /\ SeedsSpent /\ CreditsCounted /\ MayFail /\ AttributedCommitted
  BY DEF Inv
<1>1. /\ pc \in Attempt
      /\ UNCHANGED <<inited, balance, seed, committed, world, cancel, spends, foreign, rivals>>
  BY DEF SolveClaim, SubmitSolvedClaim, AwaitBalance, Attribute, AwaitSeed, Reread, Attempt,
     chain, world
<1>2. faults' \in Nat
  <2>1. Fault \/ NoFault
    BY DEF SolveClaim, SubmitSolvedClaim, AwaitBalance, Attribute, AwaitSeed, Reread
  <2> QED
    BY <1>0, <2>1 DEF TypeOK, Fault, NoFault
<1>3. pool' \subseteq Tx
  <2>1. ClaimTx(solved) \in Tx
    BY <1>0 DEF TypeOK, ClaimTx, Tx
  <2> QED
    BY <1>0, <2>1 DEF TypeOK, SolveClaim, SubmitSolvedClaim, AwaitBalance, Attribute, AwaitSeed,
       Reread, chain
<1>4. ASSUME ClaimFailed PROVE Inv'
  BY <1>1, <1>2, <1>3, <1>4, AttemptFails
<1>5. ASSUME UNCHANGED <<prev, failures, counted, attributed>>, pc' \in Attempt,
             solved' \in Nat, solved' <= seed, pc' = "w_reread" => solved' < seed,
             pc' = "w_attr" => counted < Credits
      PROVE  Inv'
  <2>1. TypeOK' /\ MayFail'
    BY <1>0, <1>1, <1>2, <1>3, <1>5 DEF TypeOK, MayFail, Attempt
  <2> QED
    BY <1>0, <1>1, <1>5, <2>1, TopperKeeps DEF CreditsCounted, AttributedCommitted
<1>6. CASE SolveClaim
  BY <1>0, <1>4, <1>5, <1>6 DEF SolveClaim, Goto, Attempt, TypeOK
<1>7. CASE SubmitSolvedClaim
  BY <1>0, <1>4, <1>5, <1>7 DEF SubmitSolvedClaim, Goto, Attempt, TypeOK, SeedsSpent, claimant,
     locals
<1>8. CASE AwaitBalance
  BY <1>0, <1>1, <1>5, <1>8 DEF AwaitBalance, Goto, Attempt, TypeOK, SeedsSpent, CreditsCounted,
     claimant, locals
<1>9. CASE Attribute
  <2>1. pool' = pool /\ pc = "w_attr" /\ counted < Credits
    BY <1>0, <1>9 DEF Attribute, chain, CreditsCounted
  <2>2. CASE Claimed(FALSE)
    BY <1>1, <1>2, <2>1, <2>2, AttemptCounts
  <2>3. CASE Claimed(seed # solved)
    <3>1. (seed # solved) \in BOOLEAN /\ (seed # solved => solved < seed)
      BY <1>0 DEF TypeOK, SeedsSpent
    <3> QED
      BY <1>1, <1>2, <2>1, <2>3, <3>1, AttemptCounts
  <2> QED
    BY <1>9, <2>2, <2>3 DEF Attribute
<1>10. CASE AwaitSeed
  <2>1. CASE ClaimFailed
    BY <1>4, <2>1
  <2>2. CASE ~ClaimFailed
    BY <1>0, <1>5, <1>10, <2>2 DEF AwaitSeed, Goto, Attempt, TypeOK, SeedsSpent, claimant, locals
  <2> QED
    BY <2>1, <2>2
<1>11. CASE Reread
  <2>1. CASE ClaimFailed
    BY <1>4, <2>1
  <2>2. CASE ~ClaimFailed
    <3>1. /\ Claimed(TRUE) /\ balance > prev /\ pc = "w_reread" /\ pool' = pool
      BY <1>11, <2>2 DEF Reread, chain
    <3>2. counted < Credits /\ solved < seed
      BY <1>0, <1>1, <3>1 DEF CreditsCounted, SeedsSpent
    <3> QED
      BY <1>1, <1>2, <3>1, <3>2, AttemptCounts
  <2> QED
    BY <2>1, <2>2
<1> QED
  BY <1>6, <1>7, <1>8, <1>9, <1>10, <1>11

(***************************************************************************)
(* Every step keeps the invariant.                                         *)
(***************************************************************************)
LEMMA InvStep ==
    ASSUME Inv, [Next]_vars
    PROVE  Inv'
<1>1. CASE Cancel
  BY <1>1 DEF Cancel, chain, claimant, locals, Inv, TypeOK, MayFail, SeedsSpent, CreditsCounted,
     Credits, OwnClaims, AttributedCommitted
<1>2. CASE UNCHANGED vars
  BY <1>2 DEF vars, chain, claimant, locals, world, Inv, TypeOK, MayFail, SeedsSpent,
     CreditsCounted, Credits, OwnClaims, AttributedCommitted
<1> QED
  BY <1>1, <1>2, ExecuteStep, OthersStep, OutsideStep, AttemptStep DEF Next, Topper

(***************************************************************************)
(* Before the first step nothing is claimed or counted.                    *)
(***************************************************************************)
LEMMA InvInit == Init => Inv
<1> SUFFICES ASSUME Init PROVE Inv
  OBVIOUS
<1>1. OwnClaims = {}
  BY DEF Init, OwnClaims
<1>2. Credits = 0
  BY <1>1, FS_EmptySet DEF Init, Credits
<1>3. TypeOK
  <2>1. inited \in BOOLEAN /\ cancel \in BOOLEAN
    BY Zenon DEF Init
  <2>2. balance \in Nat
    BY FundingAssumption DEF Init
  <2> QED
    BY <2>1, <2>2, FundingAssumption DEF Init, TypeOK
<1> QED
  BY <1>1, <1>2, <1>3, FS_EmptySet, FundingAssumption DEF Init, Inv, MayFail, SeedsSpent,
     CreditsCounted, AttributedCommitted, Attempt

(***************************************************************************)
(* Every variable keeps its type.                                          *)
(***************************************************************************)
THEOREM TypeCorrect == Spec => []TypeOK
<1>1. Inv => TypeOK
  BY DEF Inv
<1> QED
  BY InvInit, InvStep, <1>1, PTL DEF Spec

(***************************************************************************)
(* No claim is counted without a credit of its own.                        *)
(***************************************************************************)
THEOREM CountsAreCredits == Spec => []CountedIsCredited
<1>1. Inv => CountedIsCredited
  BY DEF Inv, CreditsCounted, Credits, CountedIsCredited
<1> QED
  BY InvInit, InvStep, <1>1, PTL DEF Spec

(***************************************************************************)
(* Without a rival at the faucet, a transaction named for a credit is one  *)
(* that committed.                                                         *)
(***************************************************************************)
THEOREM AttributionHolds == Spec => []AttributedCommitted
<1>1. Inv => AttributedCommitted
  BY DEF Inv
<1> QED
  BY InvInit, InvStep, <1>1, PTL DEF Spec
=============================================================================

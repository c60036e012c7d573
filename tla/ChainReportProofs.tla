------------------------- MODULE ChainReportProofs -------------------------
(***************************************************************************)
(* Proofs about ChainReport, for every chain, every endpoint whose         *)
(* backends keep contiguous ranges of blocks, every command line and every *)
(* limit on probes and retries.                                            *)
(***************************************************************************)
EXTENDS ChainReport, FiniteSetTheorems, TLAPS

(***************************************************************************)
(* A binary search has both its bounds or neither.                         *)
(***************************************************************************)
Bounded == lo = NoBlock <=> hi = NoBlock

(***************************************************************************)
(* The constants, one fact each.                                           *)
(***************************************************************************)
LEMMA Limits ==
    /\ HeadBlock \in Nat /\ PINNED_DEPLOY_BLOCK \in Nat
    /\ CANARY_PROBE_BLOCKS \in Nat /\ CANARY_PROBE_BLOCKS > 0
    /\ CANARY_PROBE_ATTEMPTS \in Nat /\ CANARY_PROBE_ATTEMPTS > 0
    /\ MAX_CORROBORATION_ATTEMPTS \in Nat /\ MAX_CORROBORATION_ATTEMPTS > 0
    /\ MAX_SCAN_ATTEMPTS \in Nat /\ MAX_SCAN_ATTEMPTS > 0
    /\ MIN_CHUNK_BLOCKS \in Nat /\ MIN_CHUNK_BLOCKS > 0
    /\ CANARY_RATE_LIMIT_RETRIES \in Nat /\ MAX_RATE_LIMIT_RETRIES \in Nat
    /\ NoBlock \notin Int /\ NoArg \notin Int
<1>1. \A n \in {CANARY_PROBE_BLOCKS, CANARY_PROBE_ATTEMPTS, MAX_CORROBORATION_ATTEMPTS,
                MAX_SCAN_ATTEMPTS, MIN_CHUNK_BLOCKS} : n \in Nat /\ n > 0
  <2>1. \A n \in {CANARY_PROBE_BLOCKS, CANARY_PROBE_ATTEMPTS, MAX_CORROBORATION_ATTEMPTS,
                  MAX_SCAN_ATTEMPTS, MIN_CHUNK_BLOCKS} : n \in Nat \ {0}
    BY ReportAssumption, Zenon
  <2> QED
    BY <2>1
<1>2. /\ HeadBlock \in Nat /\ PINNED_DEPLOY_BLOCK \in Nat
      /\ CANARY_RATE_LIMIT_RETRIES \in Nat /\ MAX_RATE_LIMIT_RETRIES \in Nat
      /\ NoBlock \notin Int /\ NoArg \notin Int
  BY ReportAssumption, Zenon
<1> QED
  BY <1>1, <1>2

(***************************************************************************)
(* The arguments of a command that passed the parser are numbers, or       *)
(* absent.                                                                 *)
(***************************************************************************)
LEMMA ArgTypes ==
    ASSUME args \in Commands
    PROVE  /\ args.chunk \in Nat
           /\ args.from_block \in Nat \cup {NoArg} /\ args.to_block \in Nat \cup {NoArg}
           /\ args.since \in Nat \cup {NoArg} /\ args.until \in Nat \cup {NoArg}
           /\ search_floor \in Nat
<1>1. /\ args.chunk \in Nat
      /\ args.from_block \in Nat \cup {NoArg} /\ args.to_block \in Nat \cup {NoArg}
      /\ args.since \in Nat \cup {NoArg} /\ args.until \in Nat \cup {NoArg}
  BY CommandsAssumption
<1> QED
  BY <1>1, Limits DEF search_floor

(***************************************************************************)
(* The last block of the scan is that of the attempt window or later.      *)
(***************************************************************************)
LEMMA SpanEndType ==
    ASSUME TypeOK
    PROVE  /\ outcomes_to \in Nat /\ span_end \in Nat
           /\ to <= outcomes_to /\ span_end = outcomes_to
           /\ to < from => span_end < from
  BY Limits DEF TypeOK, outcomes_to, span_end

(***************************************************************************)
(* One step of a walk keeps its counters in their ranges.                  *)
(***************************************************************************)
LEMMA AttemptedType ==
    ASSUME TypeOK, probe.passed < Candidates
    PROVE  /\ Attempted \in [passed : 0..CANARY_PROBE_BLOCKS,
                             attempts : 0..(CANARY_PROBE_ATTEMPTS - 1),
                             throttled : 0..CANARY_RATE_LIMIT_RETRIES]
           /\ \A end \in Ends : Candidate(end) \in Nat
<1>1. probe.passed \in Nat /\ probe.attempts \in Nat /\ Candidates <= CANARY_PROBE_BLOCKS
  BY Limits, SpanEndType DEF TypeOK, Candidates
<1>2. \A end \in Ends : Candidate(end) \in Nat
  BY <1>1, Limits, SpanEndType DEF TypeOK, Candidates, Candidate
<1>3. Attempted \in [passed : 0..CANARY_PROBE_BLOCKS,
                     attempts : 0..(CANARY_PROBE_ATTEMPTS - 1),
                     throttled : 0..CANARY_RATE_LIMIT_RETRIES]
  <2>1. CASE probe.attempts + 1 < CANARY_PROBE_ATTEMPTS
    <3>1. Attempted = [probe EXCEPT !.attempts = probe.attempts + 1]
      BY <2>1 DEF Attempted
    <3>2. probe.attempts + 1 \in 0..(CANARY_PROBE_ATTEMPTS - 1)
      BY <1>1, <2>1, Limits
    <3> QED
      BY <3>1, <3>2 DEF TypeOK
  <2>2. CASE ~(probe.attempts + 1 < CANARY_PROBE_ATTEMPTS)
    <3>1. Attempted = [passed |-> probe.passed + 1, attempts |-> 0, throttled |-> 0]
      BY <2>2 DEF Attempted, NoProbe
    <3>2. probe.passed + 1 \in 0..CANARY_PROBE_BLOCKS
      BY <1>1, Limits, SpanEndType DEF TypeOK, Candidates
    <3> QED
      BY <3>1, <3>2, Limits
  <2> QED
    BY <2>1, <2>2
<1> QED
  BY <1>2, <1>3

(***************************************************************************)
(* Dropping the connection and starting the corroboration over keeps the   *)
(* types.                                                                  *)
(***************************************************************************)
LEMMA ReconnectType ==
    ASSUME TypeOK, NEW why \in {"may_be_vouched_for", "throttled", "not_answered",
                                "uncorroborated"},
           Reconnect(why), UNCHANGED <<world, args, search, window>>,
           tries' \in 0..MAX_RATE_LIMIT_RETRIES
    PROVE  TypeOK'
  BY Limits DEF TypeOK, Reconnect, Finish, NoProbe, NoMiss, NoTally, Ends, search, window

-----------------------------------------------------------------------------
(***************************************************************************)
(* Every step keeps the types, and both bounds of a search or neither.     *)
(***************************************************************************)
LEMMA TypeStep ==
    ASSUME TypeOK, Bounded, [Next]_vars
    PROVE  TypeOK' /\ Bounded'
<1> USE Limits
<1>1. CASE CheckArgs
  BY <1>1 DEF TypeOK, Bounded, CheckArgs, Finish, search, window, anchoring, scanning
<1>2. CASE OpeningHandshake
  BY <1>2 DEF TypeOK, Bounded, OpeningHandshake, Finish, search, window, anchoring, scanning
<1>3. CASE FirstBlockAtOrAfter
  <2>1. lo' \in Nat \cup {NoBlock} /\ hi' \in Nat \cup {NoBlock} /\ Bounded'
    BY <1>3, ArgTypes DEF TypeOK, Bounded, FirstBlockAtOrAfter, SinceSkipped, SinceEdge,
       SinceMid, SinceFound, Since, search, window
  <2>2. from' \in Nat /\ to' = to /\ pc' \in {"since", "until"}
    BY <1>3, ArgTypes DEF TypeOK, Bounded, FirstBlockAtOrAfter, SinceSkipped, SinceEdge,
       SinceMid, SinceFound, Since, search, window
  <2> QED
    BY <1>3, <2>1, <2>2 DEF TypeOK, FirstBlockAtOrAfter, anchoring, scanning
<1>4. CASE LastBlockAtOrBefore
  <2>1. lo' \in Nat \cup {NoBlock} /\ hi' \in Nat \cup {NoBlock} /\ Bounded'
    BY <1>4, ArgTypes DEF TypeOK, Bounded, LastBlockAtOrBefore, UntilSkipped, UntilEdge,
       UntilMid, UntilFound, Until, UntilFloor, search, window
  <2>2. to' \in Nat /\ from' = from /\ pc' \in {"until", "collect"}
    BY <1>4, ArgTypes DEF TypeOK, Bounded, LastBlockAtOrBefore, UntilSkipped, UntilEdge,
       UntilMid, UntilFound, Until, search, window
  <2> QED
    BY <1>4, <2>1, <2>2 DEF TypeOK, LastBlockAtOrBefore, anchoring, scanning
<1>5. CASE BlockTimestampPaced
  BY <1>5 DEF TypeOK, Bounded, BlockTimestampPaced, Finish, search, window, anchoring, scanning
<1>6. CASE CollectTally
  BY <1>6 DEF TypeOK, Bounded, CollectTally, Finish, search, window, scanning
<1>7. CASE ProbeCanaries
  <2>1. PICK end \in Ends : ProbeAnswered(end) \/ ProbeFailed(end) \/ WalkMissed(end)
    BY <1>7 DEF ProbeCanaries
  <2>2. CASE ProbeAnswered(end)
    <3>1. Attempted \in [passed : 0..CANARY_PROBE_BLOCKS,
                         attempts : 0..(CANARY_PROBE_ATTEMPTS - 1),
                         throttled : 0..CANARY_RATE_LIMIT_RETRIES] /\ Candidate(end) \in Nat
      BY <2>2, AttemptedType DEF ProbeAnswered
    <3>2. anchor' \in [Ends -> Nat \cup {NoBlock}]
      BY <2>2, <3>1 DEF TypeOK, ProbeAnswered
    <3>3. miss' \in [Ends -> SUBSET {"empty_responses", "failed_requests"}]
      BY <2>2 DEF TypeOK, ProbeAnswered
    <3>4. probe' \in [passed : 0..CANARY_PROBE_BLOCKS,
                      attempts : 0..(CANARY_PROBE_ATTEMPTS - 1),
                      throttled : 0..CANARY_RATE_LIMIT_RETRIES]
      BY <2>2, <3>1 DEF TypeOK, ProbeAnswered, NoProbe
    <3>5. pc' \in {pc, "newest", "decide"}
      BY <2>2 DEF ProbeAnswered, AfterWalk
    <3> QED
      BY <2>2, <3>2, <3>3, <3>4, <3>5 DEF TypeOK, Bounded, ProbeAnswered, search, window, scanning
  <2>3. CASE ProbeFailed(end)
    <3>1. Attempted \in [passed : 0..CANARY_PROBE_BLOCKS,
                         attempts : 0..(CANARY_PROBE_ATTEMPTS - 1),
                         throttled : 0..CANARY_RATE_LIMIT_RETRIES]
      BY <2>3, AttemptedType DEF ProbeFailed
    <3>2. miss' \in [Ends -> SUBSET {"empty_responses", "failed_requests"}]
      BY <2>3 DEF TypeOK, ProbeFailed
    <3>3. probe' \in [passed : 0..CANARY_PROBE_BLOCKS,
                      attempts : 0..(CANARY_PROBE_ATTEMPTS - 1),
                      throttled : 0..CANARY_RATE_LIMIT_RETRIES]
      BY <2>3, <3>1 DEF TypeOK, ProbeFailed
    <3> QED
      BY <2>3, <3>2, <3>3 DEF TypeOK, Bounded, ProbeFailed, search, window, scanning
  <2>4. CASE WalkMissed(end)
    BY <2>4 DEF TypeOK, Bounded, WalkMissed, AfterWalk, NoProbe, search, window, scanning
  <2> QED
    BY <2>1, <2>2, <2>3, <2>4
<1>8. CASE Decide
  <2>1. CASE scan_decision(args.allow) = "Refuse"
    <3>1. refusal_message \in {"may_be_vouched_for", "throttled", "not_answered"}
      BY DEF refusal_message
    <3>2. Reconnect(refusal_message) /\ tries' = 0 /\ UNCHANGED <<world, args, search, window>>
      BY <1>8, <2>1 DEF Decide
    <3> QED
      BY <3>1, <3>2, ReconnectType DEF Bounded, search
  <2>2. CASE scan_decision(args.allow) # "Refuse"
    <3>1. scan_decision(args.allow) \in {"Corroborated", "ProceedUnproven"}
      BY <2>2 DEF scan_decision
    <3> QED
      BY <1>8, <2>2, <3>1, ArgTypes DEF TypeOK, Bounded, Decide, search, window
  <2> QED
    BY <2>1, <2>2
<1>9. CASE SpanAnswered
  <2>1. SpanEnd + 1 \in Nat
    <3>1. RangeEnd \in Nat /\ cursor \in Nat /\ chunk \in Nat
      BY SpanEndType DEF TypeOK, RangeEnd
    <3> QED
      BY <3>1 DEF SpanEnd
  <2>2. PICK k : tally' = Ingested(GetLogs(k))
    BY <1>9 DEF SpanAnswered
  <2>3. \A kind : Swaps(GetLogs(k), kind) \subseteq DOMAIN world.maker
    BY WorldsAssumption DEF TypeOK, Swaps, GetLogs
  <2>4. tally' \in [locks : SUBSET DOMAIN world.maker, claimed : SUBSET DOMAIN world.maker,
                    refunded : SUBSET DOMAIN world.maker]
    BY <2>2, <2>3 DEF TypeOK, Ingested
  <2> QED
    BY <1>9, <2>1, <2>4 DEF TypeOK, Bounded, SpanAnswered, search, window, anchoring
<1>10. CASE SpanDoubted
  <2>1. CASE doubts + 1 < MAX_CORROBORATION_ATTEMPTS
    BY <1>10, <2>1 DEF TypeOK, Bounded, SpanDoubted, search, window, anchoring
  <2>2. CASE ~(doubts + 1 < MAX_CORROBORATION_ATTEMPTS)
    <3>1. /\ Reconnect("uncorroborated") /\ tries' \in 0..MAX_RATE_LIMIT_RETRIES
          /\ UNCHANGED <<world, args, search, window>>
      BY <1>10, <2>2 DEF TypeOK, SpanDoubted
    <3> QED
      BY <3>1, ReconnectType DEF Bounded, search
  <2> QED
    BY <2>1, <2>2
<1>11. CASE SpanFailed
  BY <1>11 DEF TypeOK, Bounded, SpanFailed, Finish, search, window, anchoring
<1>12. CASE RangeDone
  BY <1>12, ArgTypes DEF TypeOK, Bounded, RangeDone, Finish, search, window, anchoring
<1>13. CASE UNCHANGED vars
  BY <1>13 DEF TypeOK, Bounded, vars, search, window, anchoring, scanning
<1> QED
  BY <1>1, <1>2, <1>3, <1>4, <1>5, <1>6, <1>7, <1>8, <1>9, <1>10, <1>11, <1>12, <1>13 DEF Next

(***************************************************************************)
(* Every variable keeps its type, whatever the endpoint answers.           *)
(***************************************************************************)
THEOREM TypeCorrect == Spec => [](TypeOK /\ Bounded)
<1>1. Init => TypeOK /\ Bounded
  BY Limits DEF Init, TypeOK, Bounded, NoProbe, NoMiss, NoTally, Ends
<1>2. TypeOK /\ Bounded /\ [Next]_vars => TypeOK' /\ Bounded'
  BY TypeStep
<1> QED
  BY <1>1, <1>2, PTL DEF Spec

-----------------------------------------------------------------------------
(***************************************************************************)
(* The window.  While first_block_at_or_after searches, the block it looks *)
(* for is within lo..hi; while last_block_at_or_before does, so is its     *)
(* own, and the first end of the window is already exact.                  *)
(***************************************************************************)
FromExact ==
    \A b \in Blocks :
        from <= b <=> /\ b >= search_floor
                      /\ args.since # NoArg => BlockTime(b) >= args.since
UntilAsks(b) ==
    /\ args.until # NoArg => BlockTime(b) <= args.until
    /\ args.until = NoArg /\ args.to_block # NoArg => b <= args.to_block
SinceBounds ==
    pc = "since" /\ lo # NoBlock =>
        /\ args.since # NoArg
        /\ search_floor <= lo /\ lo <= hi /\ hi <= HeadBlock
        /\ BlockTime(hi) >= args.since
        /\ \A b \in Blocks : search_floor <= b /\ b < lo => BlockTime(b) < args.since
UntilBounds ==
    pc = "until" /\ lo # NoBlock =>
        /\ args.until # NoArg
        /\ lo <= hi /\ hi <= HeadBlock
        /\ BlockTime(lo) <= args.until
        /\ \A b \in Blocks : hi < b => BlockTime(b) > args.until
WindowInv ==
    /\ pc \in {"start", "handshake"} => lo = NoBlock
    /\ SinceBounds
    /\ UntilBounds
    /\ pc = "until" => FromExact
    /\ WindowExact
    /\ outcome = "published" => pc = "done"

(***************************************************************************)
(* Blocks are in the order of their timestamps.                            *)
(***************************************************************************)
LEMMA TimeGrows ==
    /\ \A b \in Blocks : BlockTime(b) \in Nat /\ b \in Nat
    /\ \A a, b \in Blocks : a <= b => BlockTime(a) <= BlockTime(b)
<1>1. \A b \in Blocks : BlockTime(b) \in Nat /\ b \in Nat
  BY ReportAssumption DEF Blocks
<1>2. \A a, b \in Blocks : a < b => BlockTime(a) < BlockTime(b)
  BY ReportAssumption, Zenon
<1> QED
  BY <1>1, <1>2

(***************************************************************************)
(* A step that leaves the searches and the window alone, and is no step    *)
(* back to them, keeps them exact.                                         *)
(***************************************************************************)
LEMMA WindowKept ==
    ASSUME WindowInv, UNCHANGED <<args, search, window>>,
           pc' \in {"start", "handshake", "since", "until"} => pc' = pc,
           Resolved' => Resolved,
           outcome' = "published" => pc' = "done"
    PROVE  WindowInv'
<1>1. SinceBounds' /\ UntilBounds' /\ (pc' = "until" => FromExact')
  BY DEF WindowInv, SinceBounds, UntilBounds, FromExact, search_floor, search, window
<1>2. WindowExact'
  BY DEF WindowInv, WindowExact, InWindow, search_floor, search, window
<1> QED
  BY <1>1, <1>2 DEF WindowInv, search

(***************************************************************************)
(* The first end of the window is set only where the search has ended.     *)
(***************************************************************************)
LEMMA SinceStep ==
    ASSUME TypeOK, Bounded, WindowInv, FirstBlockAtOrAfter
    PROVE  WindowInv'
<1> USE Limits, ArgTypes, TimeGrows
<1>1. TypeOK /\ pc = "since" /\ args' = args /\ outcome' = outcome /\ outcome # "published"
  BY DEF FirstBlockAtOrAfter, WindowInv
<1>2. search_floor' = search_floor
  BY <1>1 DEF search_floor
<1>3. ASSUME NEW b \in Nat, Since(b),
             \A x \in Blocks :
                b <= x <=> /\ x >= search_floor
                           /\ args.since # NoArg => BlockTime(x) >= args.since
      PROVE  WindowInv'
  BY <1>1, <1>2, <1>3 DEF WindowInv, Since, SinceBounds, UntilBounds, FromExact, WindowExact,
     Resolved
<1>4. ASSUME UNCHANGED <<pc, window>>, SinceBounds'
      PROVE  WindowInv'
  BY <1>1, <1>4 DEF WindowInv, UntilBounds, WindowExact, Resolved
<1>5. CASE SinceSkipped
  BY <1>1, <1>3, <1>5 DEF SinceSkipped, Blocks, TypeOK
<1>6. CASE SinceEdge
  <2>0. HeadBlock \in Blocks
    BY DEF Blocks
  <2>1. CASE BlockTime(HeadBlock) < args.since
    <3>1. \A x \in Blocks : BlockTime(x) < args.since /\ x < HeadBlock + 1
      BY <1>1, <1>6, <2>0, <2>1 DEF SinceEdge, Blocks, TypeOK
    <3> QED
      BY <1>1, <1>3, <1>6, <2>1, <3>1 DEF SinceEdge, TypeOK
  <2>2. CASE ~(BlockTime(HeadBlock) < args.since)
    <3>1. SinceBounds'
      BY <1>1, <1>2, <1>6, <2>0, <2>2 DEF SinceEdge, SinceBounds, TypeOK
    <3> QED
      BY <1>4, <1>6, <2>2, <3>1 DEF SinceEdge
  <2> QED
    BY <2>1, <2>2
<1>7. CASE SinceMid
  <2> DEFINE mid == lo + (hi - lo) \div 2
  <2>1. lo \in Nat /\ hi \in Nat /\ lo < hi
    BY <1>7, <1>1 DEF SinceMid, Bounded, TypeOK
  <2>2. mid \in Nat /\ lo <= mid /\ mid < hi
    BY <2>1
  <2>3. /\ args.since \in Nat /\ search_floor <= lo /\ hi <= HeadBlock
        /\ BlockTime(hi) >= args.since
        /\ \A b \in Blocks : search_floor <= b /\ b < lo => BlockTime(b) < args.since
    BY <1>1, <1>7 DEF WindowInv, SinceBounds, SinceMid, TypeOK
  <2>4. mid \in Blocks /\ hi \in Blocks
    BY <2>1, <2>2, <2>3 DEF Blocks
  <2>5. SinceBounds'
    <3>1. CASE BlockTime(mid) >= args.since
      BY <1>1, <1>2, <1>7, <2>1, <2>2, <2>3, <3>1 DEF SinceMid, SinceBounds
    <3>2. CASE ~(BlockTime(mid) >= args.since)
      <4>1. \A b \in Blocks : b < mid + 1 => BlockTime(b) < args.since
        BY <2>2, <2>3, <2>4, <3>2
      <4>2. lo' = mid + 1 /\ hi' = hi
        BY <1>7, <3>2 DEF SinceMid
      <4>3. search_floor <= mid + 1 /\ mid + 1 <= hi
        BY <1>1, <2>1, <2>2, <2>3 DEF TypeOK
      <4> HIDE DEF mid
      <4> QED
        BY <1>1, <1>2, <2>3, <4>1, <4>2, <4>3 DEF SinceBounds
    <3> QED
      BY <3>1, <3>2
  <2> QED
    BY <1>4, <1>7, <2>5 DEF SinceMid
<1>8. CASE SinceFound
  <2>1. /\ lo \in Nat /\ lo = hi /\ args.since \in Nat /\ search_floor <= lo /\ lo <= HeadBlock
        /\ BlockTime(lo) >= args.since
        /\ \A b \in Blocks : search_floor <= b /\ b < lo => BlockTime(b) < args.since
    BY <1>1, <1>8 DEF WindowInv, SinceBounds, SinceFound, TypeOK
  <2>2. lo \in Blocks
    BY <2>1 DEF Blocks
  <2>3. \A x \in Blocks : lo <= x <=> x >= search_floor /\ BlockTime(x) >= args.since
    BY <1>1, <2>1, <2>2 DEF TypeOK
  <2> QED
    BY <1>3, <1>8, <2>1, <2>3 DEF SinceFound
<1> QED
  BY <1>5, <1>6, <1>7, <1>8 DEF FirstBlockAtOrAfter

(***************************************************************************)
(* So is the last one; the window then is what the command line asks for.  *)
(***************************************************************************)
LEMMA UntilStep ==
    ASSUME TypeOK, Bounded, WindowInv, LastBlockAtOrBefore
    PROVE  WindowInv'
<1> USE Limits, ArgTypes, TimeGrows
<1>1. /\ TypeOK /\ pc = "until" /\ args' = args /\ outcome' = outcome /\ outcome # "published"
      /\ from' = from /\ FromExact
  BY DEF LastBlockAtOrBefore, UntilSkipped, UntilEdge, UntilMid, UntilFound, Until, WindowInv,
     window
<1>2. search_floor' = search_floor
  BY <1>1 DEF search_floor
<1>3. ASSUME NEW b, Until(b),
             \/ \A x \in Blocks : from <= x => (x <= b <=> UntilAsks(x))
             \/ from = 0 /\ b = 0 /\ args.until # NoArg /\ args.until < BlockTime(0)
      PROVE  WindowInv'
  <2>1. WindowExact'
    <3>1. to' = b /\ from' = from
      BY <1>3 DEF Until
    <3>2. CASE from = 0 /\ b = 0 /\ args.until # NoArg /\ args.until < BlockTime(0)
      BY <1>1, <3>1, <3>2 DEF WindowExact
    <3>3. CASE \A x \in Blocks : from <= x => (x <= b <=> UntilAsks(x))
      <4>1. \A x \in Blocks : (from <= x /\ x <= b) <=> InWindow(x)
        <5> TAKE x \in Blocks
        <5>1. from <= x <=> x >= search_floor /\ (args.since # NoArg => BlockTime(x) >= args.since)
          BY <1>1 DEF FromExact
        <5>2. InWindow(x) <=> /\ x >= search_floor
                              /\ args.since # NoArg => BlockTime(x) >= args.since
                              /\ UntilAsks(x)
          BY DEF InWindow, UntilAsks
        <5> QED
          BY <3>3, <5>1, <5>2
      <4>2. \A x \in Blocks : InWindow(x)' <=> InWindow(x)
        BY <1>1, <1>2 DEF InWindow
      <4> QED
        BY <3>1, <4>1, <4>2 DEF WindowExact
    <3> QED
      BY <1>3, <3>2, <3>3
  <2> QED
    BY <1>1, <1>3, <2>1 DEF WindowInv, Until, SinceBounds, UntilBounds
<1>4. ASSUME UNCHANGED <<pc, window>>, UntilBounds'
      PROVE  WindowInv'
  BY <1>1, <1>2, <1>4 DEF WindowInv, SinceBounds, FromExact, WindowExact, Resolved, window
<1>5. CASE UntilSkipped
  <2>1. CASE args.to_block = NoArg \/ args.to_block > HeadBlock
    <3>1. \A x \in Blocks : x <= HeadBlock /\ (args.to_block # NoArg => x <= args.to_block)
      BY <1>1, <2>1 DEF Blocks, TypeOK
    <3> QED
      BY <1>3, <1>5, <2>1, <3>1 DEF UntilSkipped, UntilAsks
  <2>2. CASE ~(args.to_block = NoArg \/ args.to_block > HeadBlock)
    BY <1>3, <1>5, <2>2 DEF UntilSkipped, UntilAsks
  <2> QED
    BY <2>1, <2>2
<1>6. CASE UntilEdge
  <2>0. UntilFloor \in Blocks
    BY <1>1 DEF UntilFloor, Blocks, TypeOK
  <2>1. CASE BlockTime(UntilFloor) > args.until
    <3>1. \A x \in Blocks : from <= x => BlockTime(x) > args.until
      BY <1>1, <1>6, <2>0, <2>1 DEF UntilEdge, UntilFloor, Blocks, TypeOK
    <3>2. CASE from = 0
      BY <1>3, <1>6, <2>1, <3>2 DEF UntilEdge, UntilFloor
    <3>3. CASE from # 0
      <4>1. \A x \in Blocks : from <= x => ~(x <= from - 1) /\ ~(BlockTime(x) <= args.until)
        BY <1>1, <1>6, <3>1 DEF UntilEdge, TypeOK
      <4>2. args.until # NoArg /\ Until(from - 1)
        BY <1>6, <2>1, <3>3 DEF UntilEdge
      <4> QED
        BY <1>3, <4>1, <4>2 DEF UntilAsks
    <3> QED
      BY <3>2, <3>3
  <2>2. CASE ~(BlockTime(UntilFloor) > args.until)
    <3>1. UntilBounds'
      BY <1>1, <1>6, <2>0, <2>2 DEF UntilEdge, UntilBounds, TypeOK, Blocks
    <3> QED
      BY <1>4, <1>6, <2>2, <3>1 DEF UntilEdge
  <2> QED
    BY <2>1, <2>2
<1>7. CASE UntilMid
  <2> DEFINE mid == hi - (hi - lo) \div 2
  <2>1. lo \in Nat /\ hi \in Nat /\ lo < hi
    BY <1>7, <1>1 DEF UntilMid, Bounded, TypeOK
  <2>2. mid \in Nat /\ lo < mid /\ mid <= hi
    BY <2>1
  <2>3. /\ args.until \in Nat /\ hi <= HeadBlock /\ BlockTime(lo) <= args.until
        /\ \A b \in Blocks : hi < b => BlockTime(b) > args.until
    BY <1>1, <1>7 DEF WindowInv, UntilBounds, UntilMid, TypeOK
  <2>4. mid \in Blocks /\ lo \in Blocks
    BY <2>1, <2>2, <2>3 DEF Blocks
  <2>5. UntilBounds'
    <3>1. CASE BlockTime(mid) <= args.until
      BY <1>1, <1>7, <2>1, <2>2, <2>3, <3>1 DEF UntilMid, UntilBounds
    <3>2. CASE ~(BlockTime(mid) <= args.until)
      <4>1. \A b \in Blocks : mid - 1 < b => BlockTime(b) > args.until
        BY <2>2, <2>3, <2>4, <3>2
      <4>2. hi' = mid - 1 /\ lo' = lo
        BY <1>7, <3>2 DEF UntilMid
      <4> HIDE DEF mid
      <4> QED
        BY <1>1, <2>1, <2>2, <2>3, <4>1, <4>2 DEF UntilBounds
    <3> QED
      BY <3>1, <3>2
  <2> QED
    BY <1>4, <1>7, <2>5 DEF UntilMid
<1>8. CASE UntilFound
  <2>1. /\ lo \in Nat /\ lo = hi /\ args.until \in Nat /\ lo <= HeadBlock
        /\ BlockTime(lo) <= args.until
        /\ \A b \in Blocks : lo < b => BlockTime(b) > args.until
    BY <1>1, <1>8 DEF WindowInv, UntilBounds, UntilFound, TypeOK
  <2>2. lo \in Blocks
    BY <2>1 DEF Blocks
  <2>3. \A x \in Blocks : x <= lo <=> BlockTime(x) <= args.until
    BY <2>1, <2>2
  <2>4. args.until # NoArg /\ Until(lo)
    BY <1>8, <2>1 DEF UntilFound
  <2> QED
    BY <1>3, <2>3, <2>4 DEF UntilAsks
<1> QED
  BY <1>5, <1>6, <1>7, <1>8 DEF LastBlockAtOrBefore

(***************************************************************************)
(* Every step keeps what the two binary searches know of the window.       *)
(***************************************************************************)
LEMMA WindowStep ==
    ASSUME TypeOK, Bounded, WindowInv, [Next]_vars
    PROVE  WindowInv'
<1>1. CASE CheckArgs
  BY <1>1, WindowKept DEF CheckArgs, Finish, WindowInv, SinceBounds, UntilBounds, WindowExact,
     Resolved, search
<1>2. CASE OpeningHandshake
  BY <1>2 DEF OpeningHandshake, Finish, WindowInv, SinceBounds, UntilBounds, WindowExact,
     Resolved, search
<1>3. CASE FirstBlockAtOrAfter
  BY <1>3, SinceStep
<1>4. CASE LastBlockAtOrBefore
  BY <1>4, UntilStep
<1>5. CASE BlockTimestampPaced
  BY <1>5, WindowKept DEF BlockTimestampPaced, Reads, Finish, Resolved, WindowInv
<1>6. CASE CollectTally
  BY <1>6, WindowKept DEF CollectTally, Finish, Resolved, WindowInv
<1>7. CASE ProbeCanaries
  <2>1. PICK end \in Ends : ProbeAnswered(end) \/ ProbeFailed(end) \/ WalkMissed(end)
    BY <1>7 DEF ProbeCanaries
  <2>2. /\ UNCHANGED <<args, search, window, outcome>> /\ pc \in {"oldest", "newest"}
        /\ pc' \in {pc, "newest", "decide"}
    BY <2>1 DEF ProbeAnswered, ProbeFailed, WalkMissed, AfterWalk, Ends
  <2> QED
    BY <2>2, WindowKept DEF Resolved, WindowInv
<1>8. CASE Decide
  <2>1. /\ UNCHANGED <<args, search, window>> /\ pc = "decide"
        /\ pc' \in {"scan", "collect", "done"} /\ outcome' # "published"
    BY <1>8 DEF Decide, Reconnect, Finish, refusal_message, WindowInv
  <2> QED
    BY <2>1, WindowKept DEF Resolved
<1>9. CASE SpanAnswered
  BY <1>9, WindowKept DEF SpanAnswered, Spanning, Resolved, WindowInv
<1>10. CASE SpanDoubted
  <2>1. /\ UNCHANGED <<args, search, window>> /\ pc = "scan"
        /\ pc' \in {"scan", "collect", "done"} /\ outcome' # "published"
    BY <1>10 DEF SpanDoubted, Spanning, Reconnect, Finish, WindowInv
  <2> QED
    BY <2>1, WindowKept DEF Resolved
<1>11. CASE SpanFailed
  BY <1>11, WindowKept DEF SpanFailed, Spanning, Finish, Resolved, WindowInv
<1>12. CASE RangeDone
  BY <1>12, WindowKept DEF RangeDone, Finish, Resolved, WindowInv
<1>13. CASE UNCHANGED vars
  BY <1>13, WindowKept DEF vars, search, window, Resolved, WindowInv
<1> QED
  BY <1>1, <1>2, <1>3, <1>4, <1>5, <1>6, <1>7, <1>8, <1>9, <1>10, <1>11, <1>12, <1>13 DEF Next

(***************************************************************************)
(* What the searches know holds in every state.                            *)
(***************************************************************************)
LEMMA WindowInvariant == Spec => [](TypeOK /\ Bounded /\ WindowInv)
<1>1. Init => WindowInv
  BY DEF Init, WindowInv, SinceBounds, UntilBounds, WindowExact, Resolved
<1>2. TypeOK /\ Bounded /\ WindowInv /\ [Next]_vars => WindowInv'
  BY WindowStep
<1> QED
  BY <1>1, <1>2, TypeCorrect, PTL DEF Spec

(***************************************************************************)
(* Whatever the timestamps and the command line, the binary searches of    *)
(* first_block_at_or_after and last_block_at_or_before end on exactly the  *)
(* blocks asked for, and throttled reads do not move them.                 *)
(***************************************************************************)
THEOREM SearchIsExact == Spec => []WindowExact
<1>1. WindowInv => WindowExact
  BY DEF WindowInv
<1> QED
  BY <1>1, WindowInvariant, PTL

-----------------------------------------------------------------------------
(***************************************************************************)
(* The scan.  What is counted was sought, and between the anchors nothing  *)
(* before the cursor is missing: a corroborated batch was answered by one  *)
(* backend, which keeps both anchors and so every block between them.      *)
(***************************************************************************)
Batching == to_http_url(args.scheme) \in BATCHING_SCHEMES
Answered == \A end \in Ends : anchor[end] # NoBlock \/ "empty_responses" \in miss[end]
Anchored == \A end \in Ends : anchor[end] # NoBlock
Between(e) == anchor["oldest"] <= e.block /\ e.block <= anchor["newest"]
CountedSoFar == \A e \in world.events : Sought(e) /\ Between(e) /\ e.block < cursor => Counted(e)
CountedIsSought ==
    /\ \A s \in tally.locks : Did(s, "Locked")
    /\ \A s \in tally.claimed : Did(s, "Claimed")
    /\ \A s \in tally.refunded : Did(s, "Refunded")
AtCursor ==
    /\ from <= cursor /\ cursor <= RangeEnd + 1
    /\ range = "outcomes" => to < cursor /\ to < outcomes_to
ScanInv ==
    /\ pc \notin {"start", "done"} => Batching
    /\ pc \notin {"scan", "done"} => tally = NoTally
    /\ pc \in {"oldest", "newest", "decide", "scan"} => from <= to
    /\ pc = "scan" => Answered /\ AtCursor
    /\ pc = "scan" /\ decision = "Corroborated" => Anchored /\ CountedSoFar
    /\ CountedIsSought
    /\ CorroboratedIsComplete
    /\ NothingFromSilence

(***************************************************************************)
(* With an empty tally, and neither scanning nor published, the invariant  *)
(* asks for little.                                                        *)
(***************************************************************************)
LEMMA NothingCounted ==
    ASSUME tally' = NoTally, pc' # "scan", outcome' # "published",
           pc' \notin {"start", "done"} => Batching',
           pc' \in {"oldest", "newest", "decide"} => from' <= to'
    PROVE  ScanInv'
  BY DEF ScanInv, NoTally, CountedIsSought, CorroboratedIsComplete, Corroborated,
     NothingFromSilence

(***************************************************************************)
(* What a scan has counted does not depend on how it goes on.              *)
(***************************************************************************)
LEMMA CountsKept ==
    ASSUME UNCHANGED <<world, window, anchor, tally>>
    PROVE  /\ CountedIsSought => CountedIsSought'
           /\ \A e : (Sought(e)' <=> Sought(e)) /\ (Between(e)' <=> Between(e))
                    /\ (Counted(e)' <=> Counted(e))
           /\ outcomes_to' = outcomes_to /\ span_end' = span_end
  BY DEF window, CountedIsSought, Did, Sought, Between, Counted, outcomes_to, span_end

(***************************************************************************)
(* A span that goes on, or ends in a failure, keeps its cursor.            *)
(***************************************************************************)
LEMMA CursorKept ==
    ASSUME ScanInv, pc = "scan", pc' \in {"scan", "done"}, outcome' # "published",
           UNCHANGED <<world, args, window, anchoring, range, cursor, tally>>
    PROVE  ScanInv'
<1>1. UNCHANGED <<from, to, anchor, miss, decision>>
  BY DEF window, anchoring
<1>2. CountedIsSought' /\ (CountedSoFar => CountedSoFar')
  BY <1>1, CountsKept DEF ScanInv, CountedSoFar
<1>3. (Batching' <=> Batching) /\ (Answered' <=> Answered) /\ (Anchored' <=> Anchored)
  BY <1>1 DEF Batching, Answered, Anchored
<1>4. AtCursor => AtCursor'
  BY <1>1, CountsKept DEF AtCursor, RangeEnd
<1> QED
  BY <1>1, <1>2, <1>3, <1>4 DEF ScanInv, CorroboratedIsComplete, Corroborated,
     NothingFromSilence

(***************************************************************************)
(* A batch over HTTP that brings every canary back has its subject from a  *)
(* backend that keeps every block between them.                            *)
(***************************************************************************)
LEMMA ServedByOne ==
    ASSUME TypeOK, Batching, Anchored, NEW batch \in Served(canaries), is_corroborated(batch),
           NEW b \in Blocks, anchor["oldest"] <= b, b <= anchor["newest"]
    PROVE  b \in batch.subject
<1>1. PICK s \in Backends, c \in [canaries -> Backends] : batch = [subject |-> s, canary |-> c]
  BY DEF Served, Batch
<1>2. \A x \in canaries : batch.canary[x] = s
  BY <1>1 DEF Served, OneBackend, Batching
<1>3. anchor["oldest"] \in canaries /\ anchor["newest"] \in canaries
  BY DEF canaries, Anchored, Ends
<1>4. anchor["oldest"] \in s /\ anchor["newest"] \in s
  BY <1>2, <1>3 DEF is_corroborated
<1> QED
  BY <1>1, <1>4, ReportAssumption, Zenon

(***************************************************************************)
(* A counted span: nothing is lost up to its end, and nothing is made up.  *)
(***************************************************************************)
LEMMA SpanCounted ==
    ASSUME TypeOK, ScanInv, WindowInv, SpanAnswered
    PROVE  ScanInv'
<1>0. /\ pc = "scan" /\ pc' = "scan" /\ cursor <= RangeEnd /\ cursor' = SpanEnd + 1
      /\ UNCHANGED <<world, args, from, to, anchor, miss, decision, range, outcome>>
      /\ outcome # "published"
  BY DEF SpanAnswered, Spanning, window, anchoring, WindowInv
<1>1. /\ cursor \in Nat /\ chunk \in Nat /\ from \in Nat /\ to \in Nat /\ RangeEnd \in Nat
      /\ outcomes_to \in Nat /\ to <= outcomes_to /\ SpanEnd \in Int /\ SpanEnd <= RangeEnd
      /\ from <= cursor /\ Batching /\ (range = "outcomes" => to < cursor /\ to < outcomes_to)
  <2>1. cursor \in Nat /\ chunk \in Nat /\ from \in Nat /\ to \in Nat /\ RangeEnd \in Nat
    BY SpanEndType DEF TypeOK, RangeEnd
  <2> QED
    BY <1>0, <2>1, SpanEndType DEF ScanInv, AtCursor, SpanEnd
<1>2. PICK batch \in Served(canaries) : /\ is_corroborated(batch)
                                       /\ tally' = Ingested(GetLogs(batch.subject))
  BY DEF SpanAnswered
<1> DEFINE logs == GetLogs(batch.subject)
<1>3. /\ tally'.locks = tally.locks \cup Swaps(logs, "Locked")
      /\ tally'.claimed = tally.claimed \cup Swaps(logs, "Claimed")
      /\ tally'.refunded = tally.refunded \cup Swaps(logs, "Refunded")
  BY <1>2 DEF Ingested
<1>4. outcomes_to' = outcomes_to /\ \A e : (Sought(e)' <=> Sought(e))
  BY <1>0 DEF Sought, outcomes_to
<1>5. \A e \in logs : e \in world.events /\ Sought(e)
  <2> SUFFICES ASSUME NEW e \in logs
               PROVE  e \in world.events /\ Sought(e)
    OBVIOUS
  <2>1. /\ e \in world.events /\ e.kind \in Topics /\ e.block \in cursor..SpanEnd
    BY DEF GetLogs
  <2>2. range = "locks" \/ (range = "outcomes" /\ e.kind # "Locked")
    BY <2>1 DEF TypeOK, Topics
  <2> QED
    BY <1>1, <2>1, <2>2 DEF Sought, RangeEnd
<1>6. CountedIsSought'
  <2>1. \A s, kind : Did(s, kind) => Did(s, kind)'
    BY <1>0, <1>4 DEF Did
  <2>2. \A kind : \A s \in Swaps(logs, kind) : Did(s, kind)
    BY <1>5 DEF Swaps, Did
  <2> HIDE DEF logs
  <2> QED
    BY <1>3, <2>1, <2>2 DEF ScanInv, CountedIsSought
<1>7. ASSUME decision = "Corroborated"
      PROVE  Anchored /\ CountedSoFar'
  <2>1. Anchored /\ CountedSoFar
    BY <1>0, <1>7 DEF ScanInv
  <2>2. SUFFICES ASSUME NEW e \in world.events, Sought(e), Between(e), e.block < SpanEnd + 1
                 PROVE  Counted(e)'
    BY <1>0, <1>4, <2>1 DEF CountedSoFar, Between
  <2>3. e.kind \in Kinds /\ e.block \in Blocks /\ e.block \in Nat
    BY WorldsAssumption, Limits DEF TypeOK, Blocks
  <2>4. CASE e.block < cursor
    <3>1. Counted(e)
      BY <2>1, <2>2, <2>4 DEF CountedSoFar
    <3> HIDE DEF logs
    <3> QED
      BY <1>3, <2>3, <3>1 DEF Counted, Kinds
  <2>5. CASE ~(e.block < cursor)
    <3>1. e.block \in batch.subject
      BY <1>1, <1>2, <2>1, <2>2, <2>3, ServedByOne DEF Between
    <3>2. e.kind \in Topics
      BY <1>1, <2>2, <2>3, <2>5 DEF Topics, Sought, Kinds, TypeOK
    <3>3. e.block \in cursor..SpanEnd
      BY <1>1, <2>2, <2>3, <2>5
    <3>4. e \in logs
      BY <3>1, <3>2, <3>3 DEF GetLogs
    <3>5. e.swap \in Swaps(logs, e.kind)
      BY <3>4 DEF Swaps
    <3> HIDE DEF logs
    <3> QED
      BY <1>3, <2>3, <3>5 DEF Counted, Kinds
  <2> QED
    BY <2>4, <2>5
<1>8. AtCursor'
  BY <1>0, <1>1, <1>4 DEF AtCursor, RangeEnd, SpanEnd
<1>9. Answered' /\ Batching' /\ (Anchored => Anchored')
  BY <1>0 DEF ScanInv, Answered, Batching, Anchored
<1> QED
  BY <1>0, <1>6, <1>7, <1>8, <1>9 DEF ScanInv, CorroboratedIsComplete, Corroborated,
     NothingFromSilence

(***************************************************************************)
(* A scan given up leaves nothing behind.                                  *)
(***************************************************************************)
LEMMA GivenUp ==
    ASSUME ScanInv, pc \in {"decide", "scan"}, UNCHANGED <<args, window>>,
           NEW why, why # "published", Reconnect(why), outcome # "published"
    PROVE  ScanInv'
<1>1. /\ tally' = NoTally /\ pc' \in {"collect", "done"} /\ outcome' # "published"
      /\ Batching'
  BY DEF Reconnect, Finish, ScanInv, Batching
<1> QED
  BY <1>1, NothingCounted

(***************************************************************************)
(* The scan starts at the first block of the window, with what the probes  *)
(* established.                                                            *)
(***************************************************************************)
LEMMA DecideCounts ==
    ASSUME TypeOK, ScanInv, WindowInv, Decide
    PROVE  ScanInv'
<1>0. pc = "decide" /\ outcome # "published" /\ UNCHANGED <<world, args, window>>
  BY DEF Decide, WindowInv
<1>1. CASE scan_decision(args.allow) = "Refuse"
  <2>1. Reconnect(refusal_message) /\ refusal_message # "published"
    BY <1>1 DEF Decide, refusal_message
  <2> QED
    BY <1>0, <2>1, GivenUp
<1>2. CASE scan_decision(args.allow) # "Refuse"
  <2>1. /\ pc' = "scan" /\ decision' = scan_decision(args.allow)
        /\ range' = "locks" /\ cursor' = from /\ UNCHANGED <<from, to, outcome, miss, anchor, tally>>
    BY <1>2 DEF Decide, window
  <2>2. Batching /\ tally = NoTally /\ from <= to /\ from \in Nat /\ to \in Nat
    BY <1>0 DEF ScanInv, TypeOK
  <2>3. Answered' /\ Batching'
    BY <1>0, <1>2, <2>1, <2>2 DEF scan_decision, unanswered_ends, answered_successfully, Answered,
       Batching
  <2>4. decision' = "Corroborated" => Anchored'
    BY <2>1 DEF scan_decision, Anchored
  <2>5. AtCursor'
    BY <2>1, <2>2 DEF AtCursor, RangeEnd
  <2>6. CountedSoFar'
    <3>1. \A e \in world.events : e.block \in Nat
      BY WorldsAssumption, Limits DEF TypeOK, Blocks
    <3> QED
      BY <1>0, <2>1, <2>2, <3>1 DEF CountedSoFar, Sought
  <2>7. CountedIsSought'
    BY <2>1, <2>2 DEF CountedIsSought, NoTally
  <2> QED
    BY <1>0, <2>1, <2>2, <2>3, <2>4, <2>5, <2>6, <2>7 DEF ScanInv, CorroboratedIsComplete,
       Corroborated, NothingFromSilence
<1> QED
  BY <1>1, <1>2

(***************************************************************************)
(* The outcomes are followed from where the attempt window ends; a report  *)
(* is published when nothing sought is left.                               *)
(***************************************************************************)
LEMMA RangeCounts ==
    ASSUME TypeOK, ScanInv, WindowInv, RangeDone
    PROVE  ScanInv'
<1>0. /\ pc = "scan" /\ cursor > RangeEnd /\ outcome # "published"
      /\ UNCHANGED <<world, args, from, to, anchor, miss, decision, tally>>
  BY DEF RangeDone, WindowInv, window, anchoring
<1>1. /\ cursor \in Nat /\ from \in Nat /\ to \in Nat /\ outcomes_to \in Nat /\ to <= outcomes_to
      /\ range \in {"locks", "outcomes"} /\ span_end = outcomes_to
  BY SpanEndType DEF TypeOK
<1>2. /\ Answered /\ AtCursor /\ Batching /\ CountedIsSought /\ from <= to
      /\ decision = "Corroborated" => Anchored /\ CountedSoFar
  BY <1>0 DEF ScanInv
<1>3. /\ CountedIsSought' /\ outcomes_to' = outcomes_to
      /\ \A e : (Sought(e)' <=> Sought(e)) /\ (Between(e)' <=> Between(e))
                /\ (Counted(e)' <=> Counted(e))
  BY <1>0, <1>2, CountsKept DEF window
<1>4. Answered' /\ Batching' /\ (Anchored => Anchored')
  BY <1>0, <1>2 DEF Answered, Batching, Anchored
<1>5. \A e \in world.events : e.block \in Nat
  BY WorldsAssumption, Limits DEF TypeOK, Blocks
<1>6. CASE range = "locks" /\ outcomes_to > to
  <2>1. range' = "outcomes" /\ cursor' = to + 1 /\ pc' = "scan" /\ outcome' # "published"
    BY <1>0, <1>6 DEF RangeDone
  <2>2. AtCursor'
    BY <1>0, <1>1, <1>2, <1>3, <1>6, <2>1 DEF AtCursor, RangeEnd
  <2>3. decision = "Corroborated" => CountedSoFar'
    <3>1. cursor > to
      BY <1>0, <1>6 DEF RangeEnd
    <3>2. \A e \in world.events : e.block < to + 1 => e.block < cursor
      BY <1>1, <1>5, <3>1
    <3> QED
      BY <1>0, <1>2, <1>3, <2>1, <3>2 DEF CountedSoFar
  <2> QED
    BY <1>0, <1>2, <1>3, <1>4, <2>1, <2>2, <2>3 DEF ScanInv, CorroboratedIsComplete, Corroborated,
       NothingFromSilence
<1>7. CASE ~(range = "locks" /\ outcomes_to > to)
  <2>1. pc' = "done"
    BY <1>7 DEF RangeDone, Finish
  <2>2. outcomes_to < cursor
    BY <1>0, <1>1, <1>7 DEF RangeEnd
  <2>3. \A e \in world.events : Sought(e) => e.block < cursor
    BY <1>1, <1>5, <2>2 DEF Sought
  <2>4. CorroboratedIsComplete'
    BY <1>0, <1>2, <1>3, <2>3 DEF CorroboratedIsComplete, Corroborated, CountedSoFar, Between
  <2>5. NothingFromSilence'
    BY <1>4 DEF NothingFromSilence, Answered
  <2> QED
    BY <1>3, <2>1, <2>4, <2>5 DEF ScanInv
<1> QED
  BY <1>6, <1>7

(***************************************************************************)
(* Every step keeps the tally within what was asked for, and an event that *)
(* a corroborated range holds within the tally.                            *)
(***************************************************************************)
LEMMA ScanStep ==
    ASSUME TypeOK, WindowInv, ScanInv, [Next]_vars
    PROVE  ScanInv'
<1>1. CASE CheckArgs
  <2>1. /\ tally' = NoTally /\ pc' \in {"handshake", "done"} /\ outcome' # "published"
        /\ pc' = "handshake" => Batching'
    BY <1>1 DEF CheckArgs, Finish, ScanInv, WindowInv, Batching, scanning
  <2> QED
    BY <2>1, NothingCounted
<1>2. CASE OpeningHandshake
  <2>1. /\ tally' = NoTally /\ pc' \in {"handshake", "since", "done"} /\ outcome' # "published"
        /\ Batching'
    BY <1>2 DEF OpeningHandshake, Finish, ScanInv, WindowInv, Batching, scanning
  <2> QED
    BY <2>1, NothingCounted
<1>3. CASE FirstBlockAtOrAfter
  <2>1. /\ tally' = NoTally /\ pc' \in {"since", "until"} /\ outcome' # "published" /\ Batching'
    BY <1>3 DEF FirstBlockAtOrAfter, SinceSkipped, SinceEdge, SinceMid, SinceFound, Since,
       ScanInv, WindowInv, Batching, scanning
  <2> QED
    BY <2>1, NothingCounted
<1>4. CASE LastBlockAtOrBefore
  <2>1. /\ tally' = NoTally /\ pc' \in {"until", "collect"} /\ outcome' # "published" /\ Batching'
    BY <1>4 DEF LastBlockAtOrBefore, UntilSkipped, UntilEdge, UntilMid, UntilFound, Until,
       ScanInv, WindowInv, Batching, scanning
  <2> QED
    BY <2>1, NothingCounted
<1>5. CASE BlockTimestampPaced
  <2>1. /\ tally' = NoTally /\ pc' \in {"since", "until", "done"} /\ outcome' # "published"
        /\ Batching'
    BY <1>5 DEF BlockTimestampPaced, Reads, Finish, ScanInv, WindowInv, Batching, scanning
  <2> QED
    BY <2>1, NothingCounted
<1>6. CASE CollectTally
  <2>0. /\ pc = "collect" /\ outcome # "published" /\ tally' = NoTally /\ tally = NoTally
        /\ UNCHANGED <<world, args, from, to>> /\ Batching'
    BY <1>6 DEF CollectTally, ScanInv, WindowInv, Batching, scanning, window
  <2>1. CASE span_end < from
    <3>1. pc' = "done" /\ span_end' = span_end /\ outcomes_to' = outcomes_to
      BY <1>6, <2>0, <2>1 DEF CollectTally, Finish, span_end, outcomes_to
    <3>2. /\ from \in Nat /\ to \in Nat /\ outcomes_to \in Nat /\ span_end = outcomes_to
          /\ to <= outcomes_to
      BY SpanEndType DEF TypeOK
    <3>3. \A e \in world.events : ~Sought(e)'
      <4>1. \A e \in world.events : e.block \in Nat
        BY WorldsAssumption, Limits DEF TypeOK, Blocks
      <4> QED
        BY <2>0, <2>1, <3>1, <3>2, <4>1 DEF Sought
    <3>4. CorroboratedIsComplete' /\ NothingFromSilence'
      BY <2>0, <2>1, <3>1, <3>2, <3>3 DEF CorroboratedIsComplete, NothingFromSilence
    <3>5. CountedIsSought'
      BY <2>0 DEF CountedIsSought, NoTally
    <3> QED
      BY <3>1, <3>4, <3>5 DEF ScanInv
  <2>2. CASE ~(span_end < from)
    <3>1. from <= to
      BY <2>2, SpanEndType DEF TypeOK
    <3>2. pc' = "oldest" /\ outcome' # "published"
      BY <1>6, <2>0, <2>2 DEF CollectTally
    <3> QED
      BY <2>0, <3>1, <3>2, NothingCounted
  <2> QED
    BY <2>1, <2>2
<1>7. CASE ProbeCanaries
  <2>1. PICK end \in Ends : ProbeAnswered(end) \/ ProbeFailed(end) \/ WalkMissed(end)
    BY <1>7 DEF ProbeCanaries
  <2>2. /\ UNCHANGED <<args, scanning, window, outcome>> /\ pc \in {"oldest", "newest"}
        /\ pc' \in {pc, "newest", "decide"}
    BY <2>1 DEF ProbeAnswered, ProbeFailed, WalkMissed, AfterWalk, Ends
  <2>3. /\ tally' = NoTally /\ outcome' # "published" /\ Batching' /\ from' <= to'
    BY <2>2 DEF ScanInv, WindowInv, Batching, scanning, window
  <2> QED
    BY <2>2, <2>3, NothingCounted
<1>8. CASE Decide
  BY <1>8, DecideCounts
<1>9. CASE SpanAnswered
  BY <1>9, SpanCounted
<1>10. CASE SpanDoubted
  <2>1. pc = "scan" /\ outcome # "published" /\ UNCHANGED <<world, args, window>>
    BY <1>10 DEF SpanDoubted, Spanning, WindowInv
  <2>2. CASE doubts + 1 < MAX_CORROBORATION_ATTEMPTS
    BY <1>10, <2>1, <2>2, CursorKept DEF SpanDoubted
  <2>3. CASE ~(doubts + 1 < MAX_CORROBORATION_ATTEMPTS)
    BY <1>10, <2>1, <2>3, GivenUp DEF SpanDoubted
  <2> QED
    BY <2>2, <2>3
<1>11. CASE SpanFailed
  BY <1>11, CursorKept DEF SpanFailed, Spanning, Finish, WindowInv
<1>12. CASE RangeDone
  BY <1>12, RangeCounts
<1>13. CASE UNCHANGED vars
  <2>1. /\ UNCHANGED <<world, args, pc, from, to, anchor, miss, decision, range, cursor, tally,
                       outcome>>
    BY <1>13 DEF vars, window, anchoring, scanning
  <2>2. /\ CountedIsSought' /\ outcomes_to' = outcomes_to /\ span_end' = span_end
        /\ \A e : (Sought(e)' <=> Sought(e)) /\ (Between(e)' <=> Between(e))
                  /\ (Counted(e)' <=> Counted(e))
    BY <2>1, CountsKept DEF window, ScanInv
  <2>3. /\ (Batching' <=> Batching) /\ (Answered' <=> Answered) /\ (Anchored' <=> Anchored)
        /\ (AtCursor' <=> AtCursor) /\ (CountedSoFar => CountedSoFar')
    BY <2>1, <2>2 DEF Batching, Answered, Anchored, AtCursor, CountedSoFar, RangeEnd
  <2>4. CorroboratedIsComplete' /\ NothingFromSilence'
    BY <2>1, <2>2 DEF ScanInv, CorroboratedIsComplete, Corroborated, NothingFromSilence
  <2> QED
    BY <2>1, <2>2, <2>3, <2>4 DEF ScanInv
<1> QED
  BY <1>1, <1>2, <1>3, <1>4, <1>5, <1>6, <1>7, <1>8, <1>9, <1>10, <1>11, <1>12, <1>13 DEF Next

(***************************************************************************)
(* What the scan knows holds in every state.                               *)
(***************************************************************************)
LEMMA ScanInvariant == Spec => [](TypeOK /\ ScanInv)
<1>1. Init => ScanInv
  BY DEF Init, ScanInv, CountedIsSought, NoTally, CorroboratedIsComplete, Corroborated,
     NothingFromSilence
<1>2. TypeOK /\ WindowInv /\ ScanInv /\ [Next]_vars => ScanInv'
  BY ScanStep
<1> QED
  BY <1>1, <1>2, WindowInvariant, PTL DEF Spec

(***************************************************************************)
(* A count called corroborated lacks no event between its two anchors, for *)
(* any number of backends of any ranges, spans of any size, halved and     *)
(* repeated at will, and any number of reconnections.                      *)
(***************************************************************************)
THEOREM CorroborationHolds == Spec => []CorroboratedIsComplete
<1>1. ScanInv => CorroboratedIsComplete
  BY DEF ScanInv
<1> QED
  BY <1>1, ScanInvariant, PTL

(***************************************************************************)
(* No report is published on an end of the scan that was never answered.   *)
(***************************************************************************)
THEOREM SilenceProvesNothing == Spec => []NothingFromSilence
<1>1. ScanInv => NothingFromSilence
  BY DEF ScanInv
<1> QED
  BY <1>1, ScanInvariant, PTL

-----------------------------------------------------------------------------
(***************************************************************************)
(* The published numbers.  When the tally holds exactly what happened, so  *)
(* do the counts of any of its swaps.                                      *)
(***************************************************************************)
TallyIsTrue ==
    /\ tally.locks = {s \in DOMAIN world.maker : Did(s, "Locked")}
    /\ tally.claimed = {s \in DOMAIN world.maker : Did(s, "Claimed")}
    /\ tally.refunded = {s \in DOMAIN world.maker : Did(s, "Refunded")}

(***************************************************************************)
(* Between two canaries at the ends of the span the tally is that of the   *)
(* chain.                                                                  *)
(***************************************************************************)
LEMMA TallyHolds ==
    ASSUME TypeOK, ScanInv, Corroborated, anchor["oldest"] = from, anchor["newest"] = span_end
    PROVE  TallyIsTrue
<1>1. \A e \in world.events : e.swap \in DOMAIN world.maker /\ e.block \in Nat
  BY WorldsAssumption, Limits DEF TypeOK, Blocks
<1>2. \A e \in world.events : Sought(e) => Counted(e)
  <2> SUFFICES ASSUME NEW e \in world.events, Sought(e)
               PROVE  Counted(e)
    OBVIOUS
  <2>1. from <= e.block /\ e.block <= span_end
    BY <1>1, SpanEndType DEF Sought, TypeOK
  <2> QED
    BY <2>1 DEF ScanInv, CorroboratedIsComplete
<1>3. /\ \A s : Did(s, "Locked") => s \in tally.locks
      /\ \A s : Did(s, "Claimed") => s \in tally.claimed
      /\ \A s : Did(s, "Refunded") => s \in tally.refunded
  BY <1>2 DEF Did, Counted
<1>4. /\ tally.locks \subseteq DOMAIN world.maker /\ tally.claimed \subseteq DOMAIN world.maker
      /\ tally.refunded \subseteq DOMAIN world.maker
  BY DEF TypeOK
<1> QED
  BY <1>3, <1>4 DEF TallyIsTrue, ScanInv, CountedIsSought

(***************************************************************************)
(* The counts of a true tally are those of the chain.                      *)
(***************************************************************************)
LEMMA CountsHold ==
    ASSUME TypeOK, TallyIsTrue, NEW L \in SUBSET tally.locks
    PROVE  Counts(L) =
             [attempted |-> Cardinality(L),
              completed |-> Cardinality({s \in L : Did(s, "Claimed")}),
              refunded |-> Cardinality({s \in L : Did(s, "Refunded")}),
              still_open |-> Cardinality({s \in L : ~Did(s, "Claimed") /\ ~Did(s, "Refunded")})]
<1> DEFINE C == {s \in L : Did(s, "Claimed")}
           R == {s \in L : Did(s, "Refunded")}
           O == {s \in L : ~Did(s, "Claimed") /\ ~Did(s, "Refunded")}
<1>1. L \subseteq DOMAIN world.maker /\ IsFiniteSet(DOMAIN world.maker)
  BY WorldsAssumption DEF TypeOK
<1>2. IsFiniteSet(L) /\ Cardinality(L) \in Nat
  BY <1>1, FS_Subset, FS_CardinalityType
<1>3. L \cap tally.claimed = C
  BY <1>1 DEF TallyIsTrue
<1>4. \A s : ~(Did(s, "Claimed") /\ Did(s, "Refunded"))
  BY WorldsAssumption DEF TypeOK, Did
<1>5. (L \cap tally.refunded) \ C = R
  BY <1>1, <1>4 DEF TallyIsTrue
<1>6. Cardinality(O) = Cardinality(L) - Cardinality(C) - Cardinality(R)
  <2>1. Cardinality(L \ C) = Cardinality(L) - Cardinality(C) /\ IsFiniteSet(L \ C)
    <3>1. L \cap C = C
      OBVIOUS
    <3> QED
      BY <1>2, <3>1, FS_Difference
  <2>2. Cardinality((L \ C) \ R) = Cardinality(L \ C) - Cardinality(R)
    <3>1. (L \ C) \cap R = R
      BY <1>4
    <3> QED
      BY <2>1, <3>1, FS_Difference
  <2>3. O = (L \ C) \ R
    OBVIOUS
  <2> QED
    BY <2>1, <2>2, <2>3
<1> HIDE DEF C, R, O
<1>7. Counts(L) = [attempted |-> Cardinality(L), completed |-> Cardinality(C),
                   refunded |-> Cardinality(R), still_open |-> Cardinality(O)]
  BY <1>3, <1>5, <1>6 DEF Counts
<1> QED
  BY <1>7 DEF C, R, O

(***************************************************************************)
(* What the scan knows makes a published report true.                      *)
(***************************************************************************)
LEMMA TruthStep ==
    ASSUME TypeOK, ScanInv
    PROVE  ReportIsTrue
<1> SUFFICES ASSUME Corroborated, anchor["oldest"] = from, anchor["newest"] = span_end
             PROVE  /\ counts = TrueCounts(DOMAIN world.maker)
                    /\ \A m \in DOMAIN by_maker :
                          by_maker[m] = TrueCounts({s \in DOMAIN world.maker : world.maker[s] = m})
                    /\ distinct_taker_wallets =
                          Cardinality({world.taker[s] :
                                         s \in {t \in DOMAIN world.taker : Did(t, "Locked")}})
  BY DEF ReportIsTrue
<1>1. TallyIsTrue
  BY TallyHolds
<1>2. \A S \in SUBSET DOMAIN world.maker :
         TrueCounts(S) = Counts({s \in tally.locks : s \in S})
  <2> TAKE S \in SUBSET DOMAIN world.maker
  <2> DEFINE L == {s \in S : Did(s, "Locked")}
  <2>1. L = {s \in tally.locks : s \in S}
    BY <1>1 DEF TallyIsTrue
  <2>2. L \in SUBSET tally.locks
    BY <2>1
  <2> HIDE DEF L
  <2>3. Counts(L) =
             [attempted |-> Cardinality(L),
              completed |-> Cardinality({s \in L : Did(s, "Claimed")}),
              refunded |-> Cardinality({s \in L : Did(s, "Refunded")}),
              still_open |-> Cardinality({s \in L : ~Did(s, "Claimed") /\ ~Did(s, "Refunded")})]
    BY <1>1, <2>2, CountsHold
  <2> QED
    BY <2>1, <2>3, Zenon DEF TrueCounts, L
<1>3. counts = TrueCounts(DOMAIN world.maker)
  <2>1. {s \in tally.locks : s \in DOMAIN world.maker} = tally.locks
    BY <1>1 DEF TallyIsTrue
  <2> QED
    BY <1>2, <2>1 DEF counts
<1>4. ASSUME NEW m \in DOMAIN by_maker
      PROVE  by_maker[m] = TrueCounts({s \in DOMAIN world.maker : world.maker[s] = m})
  <2> DEFINE S == {s \in DOMAIN world.maker : world.maker[s] = m}
  <2>1. {s \in tally.locks : s \in S} = {s \in tally.locks : world.maker[s] = m}
    BY <1>1 DEF TallyIsTrue
  <2>2. by_maker[m] = Counts({s \in tally.locks : world.maker[s] = m})
    BY <1>4 DEF by_maker
  <2>3. S \in SUBSET DOMAIN world.maker
    OBVIOUS
  <2> HIDE DEF S
  <2>4. by_maker[m] = TrueCounts(S)
    BY <1>2, <2>1, <2>2, <2>3
  <2> QED
    BY <2>4 DEF S
<1>5. distinct_taker_wallets =
        Cardinality({world.taker[s] : s \in {t \in DOMAIN world.taker : Did(t, "Locked")}})
  <2>1. tally.locks = {t \in DOMAIN world.taker : Did(t, "Locked")}
    BY <1>1, WorldsAssumption DEF TallyIsTrue, TypeOK
  <2> QED
    BY <2>1 DEF distinct_taker_wallets
<1> QED
  BY <1>3, <1>4, <1>5

(***************************************************************************)
(* With anchors at both ends of the scan the report is the truth about its *)
(* window: attempts, outcomes and what is open, in total and per maker.    *)
(***************************************************************************)
THEOREM PublishedIsTrue == Spec => []ReportIsTrue
<1>1. TypeOK /\ ScanInv => ReportIsTrue
  BY TruthStep
<1> QED
  BY <1>1, ScanInvariant, PTL
=============================================================================

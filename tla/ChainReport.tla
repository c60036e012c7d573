---------------------------- MODULE ChainReport ----------------------------
(***************************************************************************)
(* swap-cli chain-report (cli/report.rs, eth/report.rs): counts the swaps  *)
(* of the EthHTLC contract from eth_getLogs of a load-balanced endpoint.   *)
(* Its backends keep logs of different blocks, each of a contiguous range, *)
(* and answer [] for the others: an empty answer proves nothing.           *)
(*                                                                         *)
(* The report resolves its window of blocks, finds a block with logs near  *)
(* either end of the scan, and batches a query for those two (the          *)
(* canaries) with every query it counts.  A batch is answered by one       *)
(* backend if the transport is HTTP.                                       *)
(***************************************************************************)
EXTENDS Integers, FiniteSets

CONSTANTS
    Backends,          \* the blocks each backend keeps logs of
    HeadBlock,
    BlockTime(_),      \* a block's timestamp
    Worlds,            \* the chains looked at
    Commands,          \* the command lines
    PINNED_DEPLOY_BLOCK,
    CANARY_PROBE_BLOCKS, CANARY_PROBE_ATTEMPTS, CANARY_RATE_LIMIT_RETRIES,
    MAX_CORROBORATION_ATTEMPTS, MAX_RATE_LIMIT_RETRIES, MAX_SCAN_ATTEMPTS,
    MIN_CHUNK_BLOCKS,
    NoArg, NoBlock

Blocks == 0..HeadBlock

(***************************************************************************)
(* A chain: the contract's events and the blocks with logs of others.      *)
(***************************************************************************)
Kinds == {"Locked", "Claimed", "Refunded"}
LogsIn(world, b) == b \in world.busy \/ \E e \in world.events : e.block = b

ASSUME ReportAssumption ==
    /\ HeadBlock \in Nat /\ PINNED_DEPLOY_BLOCK \in Nat
    /\ \A b \in Blocks : BlockTime(b) \in Nat
    /\ \A a, b \in Blocks : a < b => BlockTime(a) < BlockTime(b)
    /\ \A k \in Backends :
          k \subseteq Blocks /\ \A a, c \in k, b \in Blocks : a <= b /\ b <= c => b \in k
    /\ \A n \in {CANARY_PROBE_BLOCKS, CANARY_PROBE_ATTEMPTS, MAX_CORROBORATION_ATTEMPTS,
                 MAX_SCAN_ATTEMPTS, MIN_CHUNK_BLOCKS} : n \in Nat \ {0}
    /\ CANARY_RATE_LIMIT_RETRIES \in Nat /\ MAX_RATE_LIMIT_RETRIES \in Nat
    /\ NoArg \notin Int /\ NoBlock \notin Int

(***************************************************************************)
(* The contract settles a swap once: no swap is both claimed and refunded. *)
(***************************************************************************)
ASSUME WorldsAssumption ==
    \A w \in Worlds :
        /\ IsFiniteSet(DOMAIN w.maker) /\ DOMAIN w.taker = DOMAIN w.maker
        /\ \A e \in w.events : e.swap \in DOMAIN w.maker /\ e.kind \in Kinds /\ e.block \in Blocks
        /\ \A c, r \in w.events : c.kind = "Claimed" /\ r.kind = "Refunded" => c.swap # r.swap

ASSUME CommandsAssumption ==
    \A c \in Commands :
        /\ c.chunk \in Nat
        /\ \A n \in {c.from_block, c.to_block, c.since, c.until} : n \in Nat \cup {NoArg}

VARIABLES
    world, args,
    pc, attempt,       \* where the command is, and its connections so far
    tries,             \* retries of the request under way
    lo, hi,            \* the binary search; NoBlock before its first read
    from, to,          \* the attempt window
    probe,             \* the walk: candidates passed, attempts, throttled retries
    miss,              \* per end: ProbeMiss, as what occurred
    anchor,            \* per end: the block anchored on
    decision,
    range, cursor, chunk,
    doubts,            \* answers to the span under way that proved nothing
    tally,
    outcome            \* what the command ends with

window == <<from, to>>
search == <<lo, hi>>
anchoring == <<probe, miss, anchor, decision>>
scanning == <<range, cursor, chunk, doubts, tally>>
vars == <<world, args, pc, attempt, tries, search, window, anchoring, scanning, outcome>>

Ends == {"oldest", "newest"}
NoTally == [locks |-> {}, claimed |-> {}, refunded |-> {}]
NoProbe == [passed |-> 0, attempts |-> 0, throttled |-> 0]
NoMiss == [e \in Ends |-> {}]
outcomes_to == IF to < from \/ to > HeadBlock THEN to ELSE HeadBlock

Finish(how) == pc' = "done" /\ outcome' = how

-----------------------------------------------------------------------------
(***************************************************************************)
(* connect: a WebSocket URL is rewritten to HTTP, and nothing else will do.*)
(***************************************************************************)
to_http_url(scheme) ==
    CASE scheme = "wss" -> "https" [] scheme = "ws" -> "http" [] OTHER -> scheme
BATCHING_SCHEMES == {"http", "https"}

(***************************************************************************)
(* Who answers the parts of a batch: one backend, unless the transport     *)
(* splits it.                                                              *)
(***************************************************************************)
Batch(canaries) ==
    {[subject |-> s, canary |-> c] : s \in Backends, c \in [canaries -> Backends]}
OneBackend(b) == \A x \in DOMAIN b.canary : b.canary[x] = b.subject
Served(canaries) ==
    {b \in Batch(canaries) : to_http_url(args.scheme) \in BATCHING_SCHEMES => OneBackend(b)}

(***************************************************************************)
(* cmd_chain_report: what it refuses before it connects.                   *)
(***************************************************************************)
CheckArgs ==
    /\ pc = "start"
    /\ IF \/ args.chunk = 0
          \/ ~args.pinned /\ args.from_block = NoArg /\ args.since = NoArg
          \/ to_http_url(args.scheme) \notin BATCHING_SCHEMES
       THEN Finish("failed")
       ELSE pc' = "handshake" /\ UNCHANGED outcome
    /\ UNCHANGED <<world, args, attempt, tries, search, window, anchoring, scanning>>

(***************************************************************************)
(* opening_handshake: only a transport fault is worth another connection.  *)
(***************************************************************************)
OpeningHandshake ==
    /\ pc = "handshake"
    /\ \/ pc' = "since" /\ attempt' = 1 /\ UNCHANGED outcome
       \/ attempt < MAX_SCAN_ATTEMPTS /\ attempt' = attempt + 1 /\ UNCHANGED <<pc, outcome>>
       \/ Finish("failed") /\ UNCHANGED attempt
    /\ UNCHANGED <<world, args, tries, search, window, anchoring, scanning>>

-----------------------------------------------------------------------------
search_floor ==
    IF args.from_block # NoArg THEN args.from_block
    ELSE IF args.pinned THEN PINNED_DEPLOY_BLOCK ELSE 0

(***************************************************************************)
(* first_block_at_or_after, from the floor to the head.                    *)
(***************************************************************************)
Since(b) ==
    /\ from' = b /\ pc' = "until"
    /\ lo' = NoBlock /\ hi' = NoBlock /\ UNCHANGED to

SinceSkipped ==
    /\ lo = NoBlock
    /\ \/ args.since = NoArg /\ Since(search_floor)
       \/ args.since # NoArg /\ search_floor > HeadBlock /\ Since(HeadBlock + 1)

SinceEdge ==
    /\ args.since # NoArg /\ lo = NoBlock /\ search_floor <= HeadBlock
    /\ IF BlockTime(HeadBlock) < args.since
       THEN Since(HeadBlock + 1)
       ELSE lo' = search_floor /\ hi' = HeadBlock /\ UNCHANGED <<pc, window>>

(***************************************************************************)
(* A mistake: a block of exactly the time asked for is too old.            *)
(***************************************************************************)
SinceMid_After ==
    LET mid == lo + (hi - lo) \div 2 IN
    /\ lo # NoBlock /\ lo < hi
    /\ IF BlockTime(mid) > args.since
       THEN hi' = mid /\ UNCHANGED lo
       ELSE lo' = mid + 1 /\ UNCHANGED hi
    /\ UNCHANGED <<pc, window>>

SinceMid ==
    LET mid == lo + (hi - lo) \div 2 IN
    /\ lo # NoBlock /\ lo < hi
    /\ IF BlockTime(mid) >= args.since
       THEN hi' = mid /\ UNCHANGED lo
       ELSE lo' = mid + 1 /\ UNCHANGED hi
    /\ UNCHANGED <<pc, window>>

SinceFound == lo # NoBlock /\ lo = hi /\ Since(lo)

FirstBlockAtOrAfter ==
    /\ pc = "since"
    /\ SinceSkipped \/ SinceEdge \/ SinceMid \/ SinceFound
    /\ tries' = 0
    /\ UNCHANGED <<world, args, attempt, anchoring, scanning, outcome>>

(***************************************************************************)
(* last_block_at_or_before, from the first block of the window.            *)
(***************************************************************************)
UntilFloor == IF from > HeadBlock THEN HeadBlock ELSE from
Until(b) ==
    /\ to' = b /\ pc' = "collect"
    /\ lo' = NoBlock /\ hi' = NoBlock /\ UNCHANGED from

UntilSkipped ==
    /\ args.until = NoArg
    /\ Until(IF args.to_block = NoArg \/ args.to_block > HeadBlock
             THEN HeadBlock ELSE args.to_block)

UntilEdge ==
    /\ args.until # NoArg /\ lo = NoBlock
    /\ IF BlockTime(UntilFloor) > args.until
       THEN Until(IF from = 0 THEN 0 ELSE from - 1)
       ELSE lo' = UntilFloor /\ hi' = HeadBlock /\ UNCHANGED <<pc, window>>

(***************************************************************************)
(* A mistake: the middle is biased down, and the search stands still.      *)
(***************************************************************************)
UntilMid_BiasDown ==
    LET mid == lo + (hi - lo) \div 2 IN
    /\ lo # NoBlock /\ lo < hi
    /\ IF BlockTime(mid) <= args.until
       THEN lo' = mid /\ UNCHANGED hi
       ELSE hi' = mid - 1 /\ UNCHANGED lo
    /\ UNCHANGED <<pc, window>>

UntilMid ==
    LET mid == hi - (hi - lo) \div 2 IN
    /\ lo # NoBlock /\ lo < hi
    /\ IF BlockTime(mid) <= args.until
       THEN lo' = mid /\ UNCHANGED hi
       ELSE hi' = mid - 1 /\ UNCHANGED lo
    /\ UNCHANGED <<pc, window>>

UntilFound == lo # NoBlock /\ lo = hi /\ Until(lo)

LastBlockAtOrBefore ==
    /\ pc = "until"
    /\ UntilSkipped \/ UntilEdge \/ UntilMid \/ UntilFound
    /\ tries' = 0
    /\ UNCHANGED <<world, args, attempt, anchoring, scanning, outcome>>

(***************************************************************************)
(* block_timestamp_paced: a throttled read is repeated, any other failure  *)
(* ends the command.                                                       *)
(***************************************************************************)
Reads == /\ lo = NoBlock \/ lo # hi
         /\ \/ pc = "since" /\ args.since # NoArg /\ search_floor <= HeadBlock
            \/ pc = "until" /\ args.until # NoArg
BlockTimestampPaced ==
    /\ Reads
    /\ \/ tries < MAX_RATE_LIMIT_RETRIES /\ tries' = tries + 1 /\ UNCHANGED <<pc, outcome>>
       \/ Finish("failed") /\ UNCHANGED tries
    /\ UNCHANGED <<world, args, attempt, search, window, anchoring, scanning>>

-----------------------------------------------------------------------------
(***************************************************************************)
(* collect_tally starts: an empty window asks nothing and is published.    *)
(***************************************************************************)
span_end == IF outcomes_to > to THEN outcomes_to ELSE to

CollectTally ==
    /\ pc = "collect"
    /\ IF span_end < from
       THEN Finish("published") /\ decision' = "Corroborated"
       ELSE pc' = "oldest" /\ UNCHANGED <<outcome, decision>>
    /\ UNCHANGED <<world, args, attempt, tries, search, window, probe, miss, anchor, scanning>>

(***************************************************************************)
(* A scan that proves nothing is given up, and tried on a new connection.  *)
(***************************************************************************)
Reconnect(why) ==
    /\ IF attempt < MAX_SCAN_ATTEMPTS
       THEN \/ pc' = "collect" /\ attempt' = attempt + 1 /\ UNCHANGED outcome
            \/ Finish("failed") /\ UNCHANGED attempt
       ELSE Finish(why) /\ UNCHANGED attempt
    /\ probe' = NoProbe /\ miss' = NoMiss /\ anchor' = [e \in Ends |-> NoBlock]
    /\ decision' = "none"
    /\ range' = "locks" /\ cursor' = 0 /\ chunk' = 0 /\ doubts' = 0 /\ tally' = NoTally

(***************************************************************************)
(* anchor_in: the blocks from one end inwards, several attempts each.      *)
(***************************************************************************)
Candidate(end) == IF end = "oldest" THEN from + probe.passed ELSE span_end - probe.passed
Candidates == IF span_end - from + 1 < CANARY_PROBE_BLOCKS
              THEN span_end - from + 1 ELSE CANARY_PROBE_BLOCKS
AfterWalk(end) == IF end = "oldest" THEN "newest" ELSE "decide"

Attempted ==
    IF probe.attempts + 1 < CANARY_PROBE_ATTEMPTS
    THEN [probe EXCEPT !.attempts = @ + 1]
    ELSE [NoProbe EXCEPT !.passed = probe.passed + 1]

(***************************************************************************)
(* Logs are what a walk is after; an empty answer uses up an attempt.      *)
(***************************************************************************)
ProbeAnswered(end) ==
    /\ pc = end /\ probe.passed < Candidates
    /\ \E k \in Backends :
          IF Candidate(end) \in k /\ LogsIn(world, Candidate(end))
          THEN /\ anchor' = [anchor EXCEPT ![end] = Candidate(end)]
               /\ probe' = NoProbe /\ pc' = AfterWalk(end)
               /\ miss' = [miss EXCEPT ![end] = {}]
          ELSE /\ probe' = Attempted
               /\ miss' = [miss EXCEPT ![end] = @ \cup {"empty_responses"}]
               /\ UNCHANGED <<anchor, pc>>
    /\ UNCHANGED <<world, args, attempt, tries, search, window, decision, scanning, outcome>>

(***************************************************************************)
(* A throttled probe has retries of its own before it uses up an attempt.  *)
(***************************************************************************)
ProbeFailed(end) ==
    /\ pc = end /\ probe.passed < Candidates
    /\ \/ /\ probe' = IF probe.throttled < CANARY_RATE_LIMIT_RETRIES
                      THEN [probe EXCEPT !.throttled = @ + 1] ELSE Attempted
          /\ UNCHANGED miss
       \/ /\ miss' = [miss EXCEPT ![end] = @ \cup {"failed_requests"}]
          /\ probe' = Attempted
    /\ UNCHANGED <<world, args, pc, attempt, tries, search, window, anchor, decision, scanning,
                   outcome>>

WalkMissed(end) ==
    /\ pc = end /\ probe.passed = Candidates
    /\ probe' = NoProbe /\ pc' = AfterWalk(end)
    /\ UNCHANGED <<world, args, attempt, tries, search, window, miss, anchor, decision, scanning,
                   outcome>>

ProbeCanaries ==
    \E end \in Ends : ProbeAnswered(end) \/ ProbeFailed(end) \/ WalkMissed(end)

-----------------------------------------------------------------------------
(***************************************************************************)
(* What the probes established, and whether the scan may be counted.       *)
(***************************************************************************)
canaries == {anchor[e] : e \in Ends} \ {NoBlock}
(***************************************************************************)
(* A mistake: an error counts as an answer.                                *)
(***************************************************************************)
answered_AtAll(end) == miss[end] # {}

answered_successfully(end) == "empty_responses" \in miss[end]
unanswered_ends == {e \in Ends : anchor[e] = NoBlock /\ ~answered_successfully(e)}

scan_decision(allow) ==
    IF \A e \in Ends : anchor[e] # NoBlock THEN "Corroborated"
    ELSE IF unanswered_ends = {} /\ allow THEN "ProceedUnproven" ELSE "Refuse"

(***************************************************************************)
(* refusal_message, by what it advises.                                    *)
(***************************************************************************)
refusal_message ==
    IF unanswered_ends = {} THEN "may_be_vouched_for"
    ELSE IF \A e \in unanswered_ends : "failed_requests" \notin miss[e]
         THEN "throttled" ELSE "not_answered"

Decide ==
    LET d == scan_decision(args.allow) IN
    /\ pc = "decide"
    /\ IF d = "Refuse"
       THEN Reconnect(refusal_message)
       ELSE /\ pc' = "scan" /\ decision' = d
            /\ range' = "locks" /\ cursor' = from /\ chunk' = args.chunk
            /\ UNCHANGED <<attempt, outcome, probe, miss, anchor, doubts, tally>>
    /\ tries' = 0
    /\ UNCHANGED <<world, args, search, window>>

-----------------------------------------------------------------------------
(***************************************************************************)
(* scan_range: the spans of block_chunks, one after the other.             *)
(***************************************************************************)
RangeEnd == IF range = "locks" THEN to ELSE outcomes_to
Topics == IF range = "locks" THEN Kinds ELSE {"Claimed", "Refunded"}
SpanEnd == IF cursor + chunk - 1 < RangeEnd THEN cursor + chunk - 1 ELSE RangeEnd
Spanning == pc = "scan" /\ cursor <= RangeEnd

GetLogs(k) ==
    {e \in world.events : e.kind \in Topics /\ e.block \in k /\ e.block \in cursor..SpanEnd}

(***************************************************************************)
(* ingest_log, for every log of an answer.                                 *)
(***************************************************************************)
Swaps(logs, kind) == {e.swap : e \in {l \in logs : l.kind = kind}}
Ingested(logs) ==
    [locks    |-> tally.locks \cup Swaps(logs, "Locked"),
     claimed  |-> tally.claimed \cup Swaps(logs, "Claimed"),
     refunded |-> tally.refunded \cup Swaps(logs, "Refunded")]

(***************************************************************************)
(* A mistake: one canary is proof enough.                                  *)
(***************************************************************************)
is_corroborated_Once(batch) == canaries = {} \/ \E x \in canaries : x \in batch.canary[x]

(***************************************************************************)
(* is_corroborated: every canary came back with its logs.                  *)
(***************************************************************************)
is_corroborated(batch) == \A x \in canaries : x \in batch.canary[x]

(***************************************************************************)
(* corroborated_get_logs: counted, or doubted; a canary that fails makes   *)
(* an answer doubtful too.  Enough doubts and the scan is given up.        *)
(***************************************************************************)
SpanAnswered ==
    /\ Spanning
    /\ \E batch \in Served(canaries) :
          /\ is_corroborated(batch)
          /\ tally' = Ingested(GetLogs(batch.subject))
    /\ cursor' = SpanEnd + 1 /\ tries' = 0 /\ doubts' = 0
    /\ UNCHANGED <<world, args, pc, attempt, search, window, anchoring, range, chunk, outcome>>

SpanDoubted ==
    /\ Spanning /\ canaries # {}
    /\ IF doubts + 1 < MAX_CORROBORATION_ATTEMPTS
       THEN /\ doubts' = doubts + 1
            /\ UNCHANGED <<pc, attempt, anchoring, range, cursor, chunk, tally, outcome>>
       ELSE Reconnect("uncorroborated")
    /\ UNCHANGED <<world, args, tries, search, window>>

(***************************************************************************)
(* A request fails: wait and ask again, or ask for less, or give up.       *)
(***************************************************************************)
SpanFailed ==
    /\ Spanning
    /\ \/ /\ tries < MAX_RATE_LIMIT_RETRIES
          /\ tries' = tries + 1 /\ UNCHANGED <<pc, chunk, outcome>>
       \/ /\ chunk > MIN_CHUNK_BLOCKS
          /\ chunk' = IF chunk \div 2 > MIN_CHUNK_BLOCKS THEN chunk \div 2 ELSE MIN_CHUNK_BLOCKS
          /\ UNCHANGED <<pc, tries, outcome>>
       \/ Finish("failed") /\ UNCHANGED <<tries, chunk>>
    /\ doubts' = 0
    /\ UNCHANGED <<world, args, attempt, search, window, anchoring, range, cursor, tally>>

(***************************************************************************)
(* After the attempt window the outcomes are followed to the head, with a  *)
(* filter that carries no Locked.                                          *)
(***************************************************************************)
RangeDone ==
    /\ pc = "scan" /\ cursor > RangeEnd
    /\ IF range = "locks" /\ outcomes_to > to
       THEN /\ range' = "outcomes" /\ cursor' = to + 1 /\ chunk' = args.chunk
            /\ UNCHANGED <<pc, outcome>>
       ELSE Finish("published") /\ UNCHANGED <<range, cursor, chunk>>
    /\ tries' = 0
    /\ UNCHANGED <<world, args, attempt, search, window, anchoring, doubts, tally>>

(***************************************************************************)
(* A mistake: every claim seen counts as completed.                        *)
(***************************************************************************)
Counts_Unmatched(locks) ==
    LET completed == Cardinality(tally.claimed)
        refunded == Cardinality(tally.refunded) IN
    [attempted |-> Cardinality(locks), completed |-> completed, refunded |-> refunded,
     still_open |-> Cardinality(locks) - completed - refunded]

(***************************************************************************)
(* SwapTally::counts, and its split by maker.                              *)
(***************************************************************************)
Counts(locks) ==
    LET completed == locks \cap tally.claimed
        refunded == (locks \cap tally.refunded) \ completed IN
    [attempted |-> Cardinality(locks), completed |-> Cardinality(completed),
     refunded |-> Cardinality(refunded),
     still_open |-> Cardinality(locks) - Cardinality(completed) - Cardinality(refunded)]
counts == Counts(tally.locks)
by_maker == [m \in {world.maker[s] : s \in tally.locks} |->
                Counts({s \in tally.locks : world.maker[s] = m})]
distinct_taker_wallets == Cardinality({world.taker[s] : s \in tally.locks})

-----------------------------------------------------------------------------
Init ==
    /\ world \in Worlds /\ args \in Commands
    /\ pc = "start" /\ attempt = 1 /\ tries = 0
    /\ lo = NoBlock /\ hi = NoBlock /\ from = 0 /\ to = 0
    /\ probe = NoProbe /\ miss = NoMiss /\ anchor = [e \in Ends |-> NoBlock]
    /\ decision = "none"
    /\ range = "locks" /\ cursor = 0 /\ chunk = 0 /\ doubts = 0 /\ tally = NoTally
    /\ outcome = "none"

Next ==
    \/ CheckArgs \/ OpeningHandshake
    \/ FirstBlockAtOrAfter \/ LastBlockAtOrBefore \/ BlockTimestampPaced
    \/ CollectTally \/ ProbeCanaries \/ Decide
    \/ SpanAnswered \/ SpanDoubted \/ SpanFailed \/ RangeDone

Spec == Init /\ [][Next]_vars

(***************************************************************************)
(* One task runs the command, and every request has a timeout.             *)
(***************************************************************************)
FairSpec == Spec /\ WF_vars(Next)
-----------------------------------------------------------------------------
(***************************************************************************)
(* Every variable has its type.                                            *)
(***************************************************************************)
TypeOK ==
    /\ world \in Worlds /\ args \in Commands
    /\ pc \in {"start", "handshake", "since", "until", "collect", "oldest", "newest", "decide",
               "scan", "done"}
    /\ attempt \in 1..MAX_SCAN_ATTEMPTS /\ tries \in 0..MAX_RATE_LIMIT_RETRIES
    /\ lo \in Nat \cup {NoBlock} /\ hi \in Nat \cup {NoBlock} /\ from \in Nat /\ to \in Nat
    /\ probe \in [passed : 0..CANARY_PROBE_BLOCKS, attempts : 0..(CANARY_PROBE_ATTEMPTS - 1),
                  throttled : 0..CANARY_RATE_LIMIT_RETRIES]
    /\ miss \in [Ends -> SUBSET {"empty_responses", "failed_requests"}]
    /\ anchor \in [Ends -> Nat \cup {NoBlock}]
    /\ decision \in {"none", "Corroborated", "ProceedUnproven"}
    /\ range \in {"locks", "outcomes"} /\ cursor \in Nat /\ chunk \in Nat
    /\ doubts \in 0..(MAX_CORROBORATION_ATTEMPTS - 1)
    /\ tally \in [locks : SUBSET DOMAIN world.maker, claimed : SUBSET DOMAIN world.maker,
                  refunded : SUBSET DOMAIN world.maker]
    /\ outcome \in {"none", "failed", "published", "may_be_vouched_for", "throttled",
                    "not_answered", "uncorroborated"}

Resolved == pc \in {"collect", "oldest", "newest", "decide", "scan"} \/ outcome = "published"
Corroborated == outcome = "published" /\ decision = "Corroborated"
InWindow(b) ==
    /\ b >= search_floor
    /\ args.since # NoArg => BlockTime(b) >= args.since
    /\ args.until # NoArg => BlockTime(b) <= args.until
    /\ args.until = NoArg /\ args.to_block # NoArg => b <= args.to_block

(***************************************************************************)
(* The attempt window holds exactly the blocks the command line asks for:  *)
(* the searches of first_block_at_or_after and last_block_at_or_before are *)
(* off by none, and an empty window comes out empty.  The exception is a   *)
(* window from block 0 on that ends before it: saturating_sub keeps the    *)
(* genesis block, which has no logs.                                       *)
(***************************************************************************)
WindowExact ==
    Resolved =>
        \/ \A b \in Blocks : (from <= b /\ b <= to) <=> InWindow(b)
        \/ from = 0 /\ to = 0 /\ args.until # NoArg /\ args.until < BlockTime(0)

(***************************************************************************)
(* A published count that is called corroborated lacks no event between    *)
(* its two anchors, whichever backends answered which requests, however    *)
(* often spans were halved and repeated (Canary, scan_range).              *)
(***************************************************************************)
Counted(e) ==
    CASE e.kind = "Locked" -> e.swap \in tally.locks
      [] e.kind = "Claimed" -> e.swap \in tally.claimed
      [] e.kind = "Refunded" -> e.swap \in tally.refunded
Sought(e) == e.block >= from /\ e.block <= (IF e.kind = "Locked" THEN to ELSE outcomes_to)
CorroboratedIsComplete ==
    Corroborated =>
        \A e \in world.events :
            /\ Sought(e)
            /\ anchor["oldest"] <= e.block /\ e.block <= anchor["newest"]
            => Counted(e)

(***************************************************************************)
(* With anchors in the first and the last block of the scan, the report is *)
(* the truth about the window: attempts, outcomes and what is still open,  *)
(* in total and per maker (SwapTally::counts).                             *)
(***************************************************************************)
Did(s, kind) == \E e \in world.events : e.swap = s /\ e.kind = kind /\ Sought(e)
TrueCounts(swaps) ==
    LET locks == {s \in swaps : Did(s, "Locked")} IN
    [attempted |-> Cardinality(locks),
     completed |-> Cardinality({s \in locks : Did(s, "Claimed")}),
     refunded |-> Cardinality({s \in locks : Did(s, "Refunded")}),
     still_open |-> Cardinality({s \in locks : ~Did(s, "Claimed") /\ ~Did(s, "Refunded")})]
ReportIsTrue ==
    Corroborated /\ anchor["oldest"] = from /\ anchor["newest"] = span_end =>
        /\ counts = TrueCounts(DOMAIN world.maker)
        /\ \A m \in DOMAIN by_maker :
              by_maker[m] = TrueCounts({s \in DOMAIN world.maker : world.maker[s] = m})
        /\ distinct_taker_wallets =
              Cardinality({world.taker[s] : s \in {t \in DOMAIN world.taker : Did(t, "Locked")}})

(***************************************************************************)
(* No number comes out of silence: an end of the scan without an anchor    *)
(* was at least answered once, whatever the operator vouches for           *)
(* (ProbeMiss::answered_successfully).                                     *)
(***************************************************************************)
NothingFromSilence ==
    outcome = "published" /\ from <= span_end =>
        \A e \in Ends : anchor[e] # NoBlock \/ "empty_responses" \in miss[e]

(***************************************************************************)
(* Every run ends: the searches narrow, and every kind of retry runs out.  *)
(***************************************************************************)
RunEnds == <>(pc = "done")
=============================================================================

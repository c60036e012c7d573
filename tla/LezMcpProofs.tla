---------------------------- MODULE LezMcpProofs ----------------------------
(***************************************************************************)
(* Proofs about LezMcp, for any finite set of calls, every workload, every *)
(* lifetime of a fingerprint and every limit on solvers, claims and        *)
(* faults.                                                                 *)
(***************************************************************************)
EXTENDS LezMcp, FiniteSetTheorems, TLAPS

(***************************************************************************)
(* A call confirms what it sent.                                           *)
(***************************************************************************)
Confirming(r) == req[r].pc \in {"hash", "fallback"}
AwaitsSent == \A r \in Requests : Confirming(r) => req[r].tx \in sent
TypeInv == TypeOK /\ AwaitsSent

(***************************************************************************)
(* A refresh of the gate is under way for one call at a time, and only     *)
(* where a call waits for the gate.                                        *)
(***************************************************************************)
Answers == {"verified", "mismatch", "unverified"}
OneFlight ==
    \A r \in Requests :
        /\ req[r].flight # "no" => req[r].pc \in Gates \cup {"f_lock"}
        /\ req[r].flight \in {"run"} \cup Answers => refresh_lock = r

(***************************************************************************)
(* A verdict is from before the upgrade only if it is older than that, or  *)
(* on its way to the gate with no time in between.                         *)
(***************************************************************************)
VerdictsDated ==
    /\ ~upgraded => sinceUpgrade = 0 /\ gate.verdict # "mismatch"
    /\ gate.verdict = "verified" => sinceUpgrade <= gate.age
    /\ \A r \in Requests :
          /\ req[r].flight = "verified" => sinceUpgrade = 0 /\ gate.verdict # "mismatch"
          /\ req[r].flight = "mismatch" => upgraded

(***************************************************************************)
(* From the gate to the send a call takes no time.                         *)
(***************************************************************************)
Cleared == {"i_read", "i_nonce", "i_send", "t_balance", "t_nonce", "t_send", "c_submit"}
ClearedInTime == \A r \in Requests : req[r].pc \in Cleared => sinceUpgrade < FINGERPRINT_TTL

GateInv == TypeInv /\ OneFlight /\ VerdictsDated /\ ClearedInTime

(***************************************************************************)
(* Where a call is under a lock it has it.                                 *)
(***************************************************************************)
Signing(r) ==
    \/ req[r].pc \in {"ci_gate", "t_gate2", "t_gate3", "t_balance", "t_nonce", "t_send",
                      "i_read", "i_nonce", "i_send", "i_owner"}
    \/ Confirming(r) /\ Signed(req[r].tx)
Solving(r) == req[r].pc \in {"c_fetch", "permit", "solving", "cs_gate", "c_submit"}
ClaimHeld(r) ==
    \/ Solving(r) \/ req[r].pc \in {"c_reread", "c_next"}
    \/ Confirming(r) /\ req[r].tx.op = "claim"
LocksHeld ==
    \A r \in Requests :
        /\ Signing(r) => signed_write_lock = r
        /\ ClaimHeld(r) => claim_lock = r

(***************************************************************************)
(* The nonce counts the signed writes that committed, the seed the claims  *)
(* (ours or not); what was sent carries one that was current.              *)
(***************************************************************************)
ClaimTx(k) == [op |-> "claim", n |-> k, amount |-> 0]
ChainCounts ==
    /\ pool \subseteq sent /\ committed \subseteq sent /\ loose \subseteq sent
    /\ \A t \in committed : Signed(t) => t.n < nonce
    /\ \A k \in 0..nonce : k < nonce => \E t \in committed : Signed(t) /\ t.n = k
    /\ \A t \in committed : t.op = "claim" => t.n < seed
    /\ outside = 0 => \A k \in 0..seed : k < seed => ClaimTx(k) \in committed
    /\ \A t \in sent : /\ Signed(t) => t.n <= nonce
                       /\ t.op = "claim" => t = ClaimTx(t.n) /\ t.n <= seed

(***************************************************************************)
(* A signed write that nobody awaits or gave up on is behind the nonce,    *)
(* unless one that was given up on came late.                              *)
(***************************************************************************)
Overtaken(t) == \E u \in loose : CameLate(u) /\ u.n < t.n
Awaited(t) == \E r \in Requests : Confirming(r) /\ req[r].tx = t
SignedSettled ==
    \A t \in sent \ loose : Signed(t) => t.n < nonce \/ Overtaken(t) \/ Awaited(t)

(***************************************************************************)
(* Under the lock, from its nonce read on, a call's own write is the only  *)
(* one with that nonce or a later one.                                     *)
(***************************************************************************)
Counting(r) == req[r].pc \in {"i_send", "t_send"} \/ (Confirming(r) /\ Signed(req[r].tx))
NonceIsOwn ==
    \A r \in Requests : Counting(r) =>
        /\ req[r].nonce <= nonce
        /\ Confirming(r) => req[r].nonce <= req[r].tx.n
        /\ \A t \in sent \ loose : Signed(t) =>
              t.n < req[r].nonce \/ Overtaken(t) \/ (Confirming(r) /\ t = req[r].tx)

(***************************************************************************)
(* A claim is for a seed the faucet has had.                               *)
(***************************************************************************)
SeedsPast ==
    \A r \in Requests :
        req[r].pc \in {"permit", "solving", "cs_gate", "c_submit"} => req[r].seed <= seed

NonceInv ==
    /\ GateInv /\ LocksHeld /\ SeedsPast /\ ChainCounts /\ SignedSettled /\ NonceIsOwn
    /\ NonceUsedOnce /\ ConfirmedMeansCommitted

(***************************************************************************)
(* A claim that can still pay is awaited, or given up on.                  *)
(***************************************************************************)
LooseClaim == \E t \in loose : t.op = "claim"
ClaimsSettled ==
    /\ \A t \in pool : t.op = "claim" /\ t.n = seed => t \in loose \/ Awaited(t)
    /\ \A r \in Requests : Solving(r) =>
          ~TargetReached(r, balance) \/ req[r].blind \/ LooseClaim

(***************************************************************************)
(* A transfer that went past its token has used up one that a preview made *)
(* for its amount.                                                         *)
(***************************************************************************)
TransferPlaces == {"t_token", "t_gate", "t_checks", "t_lock", "t_gate2", "t_gate3", "t_balance",
                   "t_nonce", "t_send"}
Transferred(r) == req[r].tx # NoTx /\ req[r].tx.op = "transfer"
ToolsApart ==
    \A r \in Requests :
        /\ req[r].pc \in TransferPlaces \/ Transferred(r) => req[r].call.tool = "transfer"
        /\ req[r].call.tool = "fingerprint" => req[r].pc \in {"idle", "f_lock", "done"}
        /\ Transferred(r) => req[r].tx.amount = req[r].call.amount
        /\ req[r].pc = "t_token" => ~Transferred(r)
        /\ req[r].pc = "idle" => ~Transferred(r)
Spent(r) ==
    req[r].call.tool = "transfer" /\ (req[r].pc \notin {"idle", "t_token", "done"} \/ Transferred(r))
For(S, a) == {r \in S : req[r].call.amount = a}
TokensPaid ==
    \A a \in Nat :
        Cardinality(For({r \in Requests : Spent(r)}, a)) + Cardinality(For(tokens, a))
            <= Cardinality(For(previews, a))

-----------------------------------------------------------------------------
(***************************************************************************)
(* What a step makes of a call is a call, at a known place.                *)
(***************************************************************************)
LEMMA PlaceNames ==
    /\ {"idle", "done", "t_lock", "ci_lock", "c_lock", "f_lock", "permit", "solving", "hash",
        "fallback", "t_token", "t_checks", "i_send", "t_send", "c_reread", "c_submit", "c_next"}
          \subseteq Places
    /\ Gates \subseteq Places /\ Reads \subseteq Places
    /\ Long \subseteq Places /\ Detached \subseteq Places
BY DEF Places, Long, Gates, Reads, Detached

(***************************************************************************)
(* A call that is cleared goes on to one of six places.                    *)
(***************************************************************************)
LEMMA AfterGateType ==
    ASSUME NEW r \in Requests, req[r].pc \in Gates
    PROVE  AfterGate(r) \in {"c_exists", "i_read", "c_submit", "t_checks", "t_gate3", "t_balance"}
BY DEF AfterGate, Gates

(***************************************************************************)
(* What the invariants tell apart in a step of one call: it moves, with    *)
(* what it has read, sent and learnt left alone.                           *)
(***************************************************************************)
Others(r) == req' \in [Requests -> Request] /\ \A q \in Requests \ {r} : req'[q] = req[q]
Kept(old, new) ==
    /\ new.call = old.call /\ new.nonce = old.nonce /\ new.seed = old.seed
    /\ new.tx = old.tx /\ new.how = old.how /\ new.blind = old.blind
Moves(r) == Others(r) /\ Kept(req[r], req'[r])
MovesTo(r, place, flight) ==
    Moves(r) /\ req'[r].pc = place /\ req'[r].flight = flight

(***************************************************************************)
(* One call is replaced, the others stay.                                  *)
(***************************************************************************)
LEMMA Put ==
    ASSUME TypeOK, NEW r \in Requests, NEW rec \in Request, req' = [req EXCEPT ![r] = rec]
    PROVE  Others(r) /\ req'[r] = rec
BY DEF TypeOK, Others

(***************************************************************************)
(* A record with one field replaced: what the invariants look at is kept.  *)
(* One lemma for each field, so that the rest may treat a call as a whole. *)
(***************************************************************************)
LEMMA SetPlace ==
    ASSUME NEW rec \in Request, NEW place \in Places
    PROVE  \E new \in Request : /\ new = [rec EXCEPT !.pc = place]
                                /\ Kept(rec, new) /\ new.pc = place /\ new.flight = rec.flight
<1> DEFINE new == [rec EXCEPT !.pc = place]
<1>1. new \in Request
  BY DEF Request
<1>2. Kept(rec, new) /\ new.pc = place /\ new.flight = rec.flight
  BY DEF Request, Kept
<1> HIDE DEF new
<1> QED
  BY <1>1, <1>2 DEF new

(***************************************************************************)
(* The same for the flight.                                                *)
(***************************************************************************)
LEMMA SetFlight ==
    ASSUME NEW rec \in Request, NEW flight \in Flights
    PROVE  \E new \in Request : /\ new = [rec EXCEPT !.flight = flight]
                                /\ Kept(rec, new) /\ new.pc = rec.pc /\ new.flight = flight
<1> DEFINE new == [rec EXCEPT !.flight = flight]
<1>1. new \in Request
  BY DEF Request
<1>2. Kept(rec, new) /\ new.pc = rec.pc /\ new.flight = flight
  BY DEF Request, Kept
<1> HIDE DEF new
<1> QED
  BY <1>1, <1>2 DEF new

(***************************************************************************)
(* Goto moves a call to a place.                                           *)
(***************************************************************************)
LEMMA GotoMoves ==
    ASSUME TypeOK, NEW r \in Requests, NEW place \in Places, Goto(r, place)
    PROVE  MovesTo(r, place, req[r].flight)
<1>0. req[r] \in Request
  BY DEF TypeOK
<1>1. PICK new \in Request : /\ new = [req[r] EXCEPT !.pc = place] /\ Kept(req[r], new)
                             /\ new.pc = place /\ new.flight = req[r].flight
  BY <1>0, SetPlace
<1>2. Others(r) /\ req'[r] = new
  BY <1>1, Put DEF Goto
<1> QED
  BY <1>1, <1>2 DEF MovesTo, Moves

(***************************************************************************)
(* A flight that changes leaves the call where it is.                      *)
(***************************************************************************)
LEMMA FlightMoves ==
    ASSUME TypeOK, NEW r \in Requests, NEW flight \in Flights,
           req' = [req EXCEPT ![r] = [@ EXCEPT !.flight = flight]]
    PROVE  MovesTo(r, req[r].pc, flight)
<1>0. req[r] \in Request
  BY DEF TypeOK
<1>1. PICK new \in Request : /\ new = [req[r] EXCEPT !.flight = flight] /\ Kept(req[r], new)
                             /\ new.pc = req[r].pc /\ new.flight = flight
  BY <1>0, SetFlight
<1>2. Others(r) /\ req'[r] = new
  BY <1>1, Put
<1> QED
  BY <1>1, <1>2 DEF MovesTo, Moves

(***************************************************************************)
(* A flight and the place together.                                        *)
(***************************************************************************)
LEMMA LandMoves ==
    ASSUME TypeOK, NEW r \in Requests, NEW flight \in Flights, NEW place \in Places,
           req' = [req EXCEPT ![r] = [[req[r] EXCEPT !.flight = flight] EXCEPT !.pc = place]]
    PROVE  MovesTo(r, place, flight)
<1>0. req[r] \in Request
  BY DEF TypeOK
<1>1. PICK rec \in Request : /\ rec = [req[r] EXCEPT !.flight = flight]
                             /\ Kept(req[r], rec) /\ rec.flight = flight
  BY <1>0, SetFlight
<1>2. PICK new \in Request : /\ new = [rec EXCEPT !.pc = place]
                             /\ Kept(rec, new) /\ new.flight = rec.flight /\ new.pc = place
  BY SetPlace
<1>3. req' = [req EXCEPT ![r] = new]
  BY <1>1, <1>2
<1>4. Others(r) /\ req'[r] = new
  BY <1>3, Put
<1> QED
  BY <1>1, <1>2, <1>4 DEF MovesTo, Moves, Kept

(***************************************************************************)
(* A call that ends keeps no lock.                                         *)
(***************************************************************************)
Released(r) ==
    /\ signed_write_lock' = IF signed_write_lock = r THEN Free ELSE signed_write_lock
    /\ claim_lock' = IF claim_lock = r THEN Free ELSE claim_lock

(***************************************************************************)
(* End moves a call to done and drops its guards.                          *)
(***************************************************************************)
LEMMA EndMoves ==
    ASSUME TypeOK, NEW r \in Requests, End(r)
    PROVE  MovesTo(r, "done", req[r].flight) /\ Released(r)
<1>1. Goto(r, "done") /\ Released(r)
  BY DEF End, EndAs, Goto, Released, Unlock
<1> QED
  BY <1>1, GotoMoves, PlaceNames

(***************************************************************************)
(* The steps at the gate.                                                  *)
(***************************************************************************)
LEMMA GatingMoves ==
    ASSUME TypeOK, NEW r \in Requests
    PROVE  /\ EnsureFreshWriteGate(r) =>
                 \/ gate_is_fresh /\ MovesTo(r, AfterGate(r), "no")
                 \/ MovesTo(r, req[r].pc, "queued")
           /\ TakeFlight(r) =>
                 \/ /\ gate_is_fresh /\ req[r].pc \in Gates
                    /\ MovesTo(r, AfterGate(r), "no") /\ UNCHANGED refresh_lock
                 \/ MovesTo(r, req[r].pc, "run") /\ refresh_lock = Free /\ refresh_lock' = r
           /\ StoreGate(r) =>
                 \/ /\ req[r].pc \in Gates /\ req[r].flight = "verified"
                    /\ MovesTo(r, AfterGate(r), "no") /\ UNCHANGED locks
                 \/ MovesTo(r, "done", "no") /\ Released(r)
           /\ LezFingerprint(r) => MovesTo(r, "f_lock", "queued")
<1>0. /\ {"no", "queued", "run"} \subseteq Flights /\ "f_lock" \in Places /\ "done" \in Places
  BY PlaceNames DEF Flights
<1>1. req[r].pc \in Gates => AfterGate(r) \in Places
  BY AfterGateType, PlaceNames DEF Reads, Gates
<1>2. ASSUME EnsureFreshWriteGate(r)
      PROVE  \/ gate_is_fresh /\ MovesTo(r, AfterGate(r), "no")
             \/ MovesTo(r, req[r].pc, "queued")
  <2>1. CASE gate_is_fresh
    <3>1. Goto(r, AfterGate(r)) /\ req[r].flight = "no"
      BY <1>2, <2>1 DEF EnsureFreshWriteGate, Goto
    <3> QED
      BY <1>1, <1>2, <2>1, <3>1, GotoMoves DEF EnsureFreshWriteGate
  <2>2. CASE ~gate_is_fresh
    BY <1>0, <1>2, <2>2, FlightMoves DEF EnsureFreshWriteGate
  <2> QED
    BY <2>1, <2>2
<1>3. ASSUME TakeFlight(r)
      PROVE  \/ /\ gate_is_fresh /\ req[r].pc \in Gates
                /\ MovesTo(r, AfterGate(r), "no") /\ UNCHANGED refresh_lock
             \/ MovesTo(r, req[r].pc, "run") /\ refresh_lock = Free /\ refresh_lock' = r
  <2>1. CASE gate_is_fresh /\ req[r].pc \in Gates
    <3>1. req' = [req EXCEPT ![r] = [[req[r] EXCEPT !.flight = "no"] EXCEPT !.pc = AfterGate(r)]]
      BY <1>3, <2>1 DEF TakeFlight
    <3> QED
      BY <1>0, <1>1, <1>3, <2>1, <3>1, LandMoves DEF TakeFlight
  <2>2. CASE ~(gate_is_fresh /\ req[r].pc \in Gates)
    BY <1>0, <1>3, <2>2, FlightMoves DEF TakeFlight
  <2> QED
    BY <2>1, <2>2
<1>4. ASSUME StoreGate(r)
      PROVE  \/ /\ req[r].pc \in Gates /\ req[r].flight = "verified"
                /\ MovesTo(r, AfterGate(r), "no") /\ UNCHANGED locks
             \/ MovesTo(r, "done", "no") /\ Released(r)
  <2>1. CASE req[r].pc \in Gates /\ req[r].flight = "verified"
    BY <1>0, <1>1, <1>4, <2>1, LandMoves DEF StoreGate
  <2>2. CASE ~(req[r].pc \in Gates /\ req[r].flight = "verified")
    <3>1. EndAs(r, [req[r] EXCEPT !.flight = "no"])
      BY <1>4, <2>2 DEF StoreGate
    <3> QED
      BY <1>0, <3>1, LandMoves DEF EndAs, Released, Unlock
  <2> QED
    BY <2>1, <2>2
<1>5. ASSUME LezFingerprint(r) PROVE MovesTo(r, "f_lock", "queued")
  <2>1. req' = [req EXCEPT ![r] = [[req[r] EXCEPT !.flight = "queued"] EXCEPT !.pc = "f_lock"]]
    BY <1>5 DEF LezFingerprint
  <2> QED
    BY <1>0, <2>1, LandMoves
<1> QED
  BY <1>2, <1>3, <1>4, <1>5

(***************************************************************************)
(* The same for the balance.                                               *)
(***************************************************************************)
LEMMA SetBalance ==
    ASSUME NEW rec \in Request, NEW b \in Nat
    PROVE  \E new \in Request : /\ new = [rec EXCEPT !.balance = b]
                                /\ Kept(rec, new) /\ new.pc = rec.pc /\ new.flight = rec.flight
<1> DEFINE new == [rec EXCEPT !.balance = b]
<1>1. new \in Request
  BY DEF Request
<1>2. Kept(rec, new) /\ new.pc = rec.pc /\ new.flight = rec.flight
  BY DEF Request, Kept
<1> HIDE DEF new
<1> QED
  BY <1>1, <1>2 DEF new

(***************************************************************************)
(* The same for needsInit.                                                 *)
(***************************************************************************)
LEMMA SetNeedsInit ==
    ASSUME NEW rec \in Request, NEW flag \in BOOLEAN
    PROVE  \E new \in Request : /\ new = [rec EXCEPT !.needsInit = flag]
                                /\ Kept(rec, new) /\ new.pc = rec.pc /\ new.flight = rec.flight
<1> DEFINE new == [rec EXCEPT !.needsInit = flag]
<1>1. new \in Request
  BY DEF Request
<1>2. Kept(rec, new) /\ new.pc = rec.pc /\ new.flight = rec.flight
  BY DEF Request, Kept
<1> HIDE DEF new
<1> QED
  BY <1>1, <1>2 DEF new

(***************************************************************************)
(* The same for dropped.                                                   *)
(***************************************************************************)
LEMMA SetDropped ==
    ASSUME NEW rec \in Request, NEW flag \in BOOLEAN
    PROVE  \E new \in Request : /\ new = [rec EXCEPT !.dropped = flag]
                                /\ Kept(rec, new) /\ new.pc = rec.pc /\ new.flight = rec.flight
<1> DEFINE new == [rec EXCEPT !.dropped = flag]
<1>1. new \in Request
  BY DEF Request
<1>2. Kept(rec, new) /\ new.pc = rec.pc /\ new.flight = rec.flight
  BY DEF Request, Kept
<1> HIDE DEF new
<1> QED
  BY <1>1, <1>2 DEF new

(***************************************************************************)
(* The same for the claims made.                                           *)
(***************************************************************************)
LEMMA SetMade ==
    ASSUME NEW rec \in Request
    PROVE  \E new \in Request : /\ new = [rec EXCEPT !.made = rec.made + 1]
                                /\ Kept(rec, new) /\ new.pc = rec.pc /\ new.flight = rec.flight
<1> DEFINE new == [rec EXCEPT !.made = rec.made + 1]
<1>1. new \in Request
  BY DEF Request
<1>2. Kept(rec, new) /\ new.pc = rec.pc /\ new.flight = rec.flight
  BY DEF Request, Kept
<1> HIDE DEF new
<1> QED
  BY <1>1, <1>2 DEF new

(***************************************************************************)
(* A call that notes something on the way, and moves.                      *)
(***************************************************************************)
LEMMA PlacedMoves ==
    ASSUME TypeOK, NEW r \in Requests, NEW rec \in Request, NEW place \in Places,
           Kept(req[r], rec), rec.flight = req[r].flight,
           req' = [req EXCEPT ![r] = [rec EXCEPT !.pc = place]]
    PROVE  MovesTo(r, place, req[r].flight)
<1>1. PICK new \in Request : /\ new = [rec EXCEPT !.pc = place]
                             /\ Kept(rec, new) /\ new.flight = rec.flight /\ new.pc = place
  BY SetPlace
<1>2. Others(r) /\ req'[r] = new
  BY <1>1, Put
<1> QED
  BY <1>1, <1>2 DEF MovesTo, Moves, Kept

(***************************************************************************)
(* The steps of a transfer that send nothing.                              *)
(***************************************************************************)
Walks(r, place) == MovesTo(r, place, req[r].flight)
NonceRead(r, place) ==
    /\ Others(r) /\ req'[r].pc = place /\ req'[r].flight = req[r].flight
    /\ req'[r].nonce = nonce
    /\ req'[r].call = req[r].call /\ req'[r].seed = req[r].seed
    /\ req'[r].tx = req[r].tx /\ req'[r].how = req[r].how /\ req'[r].blind = req[r].blind

(***************************************************************************)
(* A nonce read notes the nonce of the account, and nothing else.          *)
(***************************************************************************)
LEMMA NonceReads ==
    ASSUME TypeOK, NEW r \in Requests, NEW place \in Places,
           req' = [req EXCEPT ![r] = [@ EXCEPT !.nonce = nonce, !.pc = place]]
    PROVE  NonceRead(r, place)
<1>0. req[r] \in Request /\ nonce \in Nat
  BY DEF TypeOK
<1> DEFINE rec == [req[r] EXCEPT !.nonce = nonce]
<1>1. rec \in Request
  BY <1>0 DEF Request
<1>2. /\ rec.nonce = nonce /\ rec.flight = req[r].flight
      /\ rec.call = req[r].call /\ rec.seed = req[r].seed
      /\ rec.tx = req[r].tx /\ rec.how = req[r].how /\ rec.blind = req[r].blind
  BY <1>0 DEF Request
<1>3. req' = [req EXCEPT ![r] = [rec EXCEPT !.pc = place]]
  OBVIOUS
<1> HIDE DEF rec
<1>4. PICK new \in Request : /\ new = [rec EXCEPT !.pc = place]
                             /\ Kept(rec, new) /\ new.flight = rec.flight /\ new.pc = place
  BY <1>1, SetPlace
<1>5. Others(r) /\ req'[r] = new
  BY <1>3, <1>4, Put
<1> QED
  BY <1>2, <1>4, <1>5 DEF NonceRead, Kept

Pays(r) ==
    \E t \in tokens : req[t].call.amount = req[r].call.amount /\ t \notin tokens'

(***************************************************************************)
(* Where each of these steps takes the call.                               *)
(***************************************************************************)
LEMMA TransferMoves ==
    ASSUME TypeOK, NEW r \in Requests
    PROVE  /\ TransferRead(r) => Walks(r, "t_token") /\ UNCHANGED locks
           /\ CheckAndConsumeToken(r) => \/ Walks(r, "t_gate") /\ Pays(r) /\ UNCHANGED locks
                                         \/ Walks(r, "done") /\ Released(r)
           /\ TransferChecks(r) => \/ Walks(r, "t_lock") /\ UNCHANGED locks
                                   \/ Walks(r, "done") /\ Released(r)
           /\ TransferLock(r) => Walks(r, "t_gate2")
           /\ TransferBalance(r) => \/ Walks(r, "t_nonce") /\ UNCHANGED locks
                                    \/ Walks(r, "done") /\ Released(r)
           /\ TransferNonce(r) => NonceRead(r, "t_send")
<1>0. {"t_token", "t_gate", "t_lock", "t_gate2", "t_nonce", "t_send"} \subseteq Places
  BY DEF Places, Long, Gates, Reads
<1>1. ASSUME TransferRead(r) PROVE Walks(r, "t_token") /\ UNCHANGED locks
  <2>1. req[r] \in Request /\ balance \in Nat /\ (~inited) \in BOOLEAN
    BY DEF TypeOK
  <2>2. PICK rec \in Request : /\ rec = [req[r] EXCEPT !.needsInit = ~inited]
                               /\ Kept(req[r], rec) /\ rec.flight = req[r].flight
    BY <2>1, SetNeedsInit
  <2>3. PICK rec2 \in Request : /\ rec2 = [rec EXCEPT !.balance = balance]
                                /\ Kept(rec, rec2) /\ rec2.flight = rec.flight
    BY <2>1, SetBalance
  <2>a. req' = [req EXCEPT ![r] = [[[req[r] EXCEPT !.needsInit = ~inited]
                                            EXCEPT !.balance = balance] EXCEPT !.pc = "t_token"]]
    BY <1>1, Zenon DEF TransferRead
  <2>4. req' = [req EXCEPT ![r] = [rec2 EXCEPT !.pc = "t_token"]]
    BY <2>2, <2>3, <2>a, Zenon
  <2>5. Kept(req[r], rec2) /\ rec2.flight = req[r].flight
    BY <2>2, <2>3 DEF Kept
  <2> QED
    BY <1>0, <1>1, <2>4, <2>5, PlacedMoves DEF Walks, TransferRead
<1>2. ASSUME CheckAndConsumeToken(r)
      PROVE  \/ Walks(r, "t_gate") /\ Pays(r) /\ UNCHANGED locks
             \/ Walks(r, "done") /\ Released(r)
  BY <1>0, <1>2, GotoMoves, EndMoves DEF CheckAndConsumeToken, Walks, Pays
<1>3. ASSUME TransferChecks(r)
      PROVE  \/ Walks(r, "t_lock") /\ UNCHANGED locks
             \/ Walks(r, "done") /\ Released(r)
  BY <1>0, <1>3, GotoMoves, EndMoves DEF TransferChecks, Walks
<1>4. ASSUME TransferLock(r) PROVE Walks(r, "t_gate2")
  BY <1>0, <1>4, GotoMoves DEF TransferLock, Walks
<1>5. ASSUME TransferBalance(r)
      PROVE  \/ Walks(r, "t_nonce") /\ UNCHANGED locks
             \/ Walks(r, "done") /\ Released(r)
  BY <1>0, <1>5, GotoMoves, EndMoves DEF TransferBalance, Walks
<1>6. ASSUME TransferNonce(r) PROVE NonceRead(r, "t_send")
  BY <1>0, <1>6, NonceReads DEF TransferNonce
<1> QED
  BY <1>1, <1>2, <1>3, <1>4, <1>5, <1>6

(***************************************************************************)
(* The steps of a claim that send nothing.                                 *)
(***************************************************************************)
SeedRead(r) ==
    /\ Others(r) /\ req'[r].pc = "permit" /\ req'[r].flight = req[r].flight
    /\ req'[r].seed = seed
    /\ req'[r].call = req[r].call /\ req'[r].nonce = req[r].nonce
    /\ req'[r].tx = req[r].tx /\ req'[r].how = req[r].how /\ req'[r].blind = req[r].blind
BalanceRead(r) ==
    /\ Others(r) /\ req'[r].pc = "c_fetch" /\ req'[r].flight = req[r].flight
    /\ ~TargetReached(r, balance) \/ req'[r].blind
    /\ req'[r].call = req[r].call /\ req'[r].nonce = req[r].nonce /\ req'[r].seed = req[r].seed
    /\ req'[r].tx = req[r].tx /\ req'[r].how = req[r].how

(***************************************************************************)
(* A challenge notes the seed, and nothing else.                           *)
(***************************************************************************)
LEMMA SeedReads ==
    ASSUME TypeOK, NEW r \in Requests, PinataChallenge(r)
    PROVE  SeedRead(r)
<1>0. req[r] \in Request /\ seed \in Nat /\ "permit" \in Places
  BY PlaceNames DEF TypeOK
<1> DEFINE rec == [req[r] EXCEPT !.seed = seed]
<1>1. rec \in Request
  BY <1>0 DEF Request
<1>2. /\ rec.seed = seed /\ rec.flight = req[r].flight
      /\ rec.call = req[r].call /\ rec.nonce = req[r].nonce
      /\ rec.tx = req[r].tx /\ rec.how = req[r].how /\ rec.blind = req[r].blind
  BY <1>0 DEF Request
<1>3. req' = [req EXCEPT ![r] = [rec EXCEPT !.pc = "permit"]]
  BY DEF PinataChallenge
<1> HIDE DEF rec
<1>4. PICK new \in Request : /\ new = [rec EXCEPT !.pc = "permit"]
                             /\ Kept(rec, new) /\ new.flight = rec.flight /\ new.pc = "permit"
  BY <1>0, <1>1, SetPlace
<1>5. Others(r) /\ req'[r] = new
  BY <1>3, <1>4, Put
<1> QED
  BY <1>2, <1>4, <1>5 DEF SeedRead, Kept

(***************************************************************************)
(* The balance read under the lock has not reached the target, or was not  *)
(* read at all.                                                            *)
(***************************************************************************)
LEMMA BalanceReads ==
    ASSUME TypeOK, NEW r \in Requests, NEW b \in {balance, req[r].balance},
           ~TargetReached(r, b),
           req' = [req EXCEPT ![r] = [@ EXCEPT !.balance = b, !.pc = "c_fetch",
                                               !.blind = (b # balance)]]
    PROVE  BalanceRead(r)
<1>0. req[r] \in Request /\ b \in Nat /\ "c_fetch" \in Places
  BY PlaceNames DEF TypeOK, Request, Reads
<1>1. PICK rec \in Request : /\ rec = [req[r] EXCEPT !.balance = b]
                             /\ Kept(req[r], rec) /\ rec.flight = req[r].flight
  BY <1>0, SetBalance
<1>2. PICK rec2 \in Request : /\ rec2 = [rec EXCEPT !.pc = "c_fetch"] /\ Kept(rec, rec2)
                              /\ rec2.flight = rec.flight /\ rec2.pc = "c_fetch"
  BY <1>0, SetPlace
<1>3. PICK blind \in BOOLEAN : blind = (b # balance)
  OBVIOUS
<1> DEFINE new == [rec2 EXCEPT !.blind = blind]
<1>4. new \in Request
  BY DEF Request
<1>5. /\ new.blind = blind /\ new.flight = rec2.flight /\ new.pc = rec2.pc
      /\ new.call = rec2.call /\ new.nonce = rec2.nonce /\ new.seed = rec2.seed
      /\ new.tx = rec2.tx /\ new.how = rec2.how
  BY DEF Request
<1>6. req' = [req EXCEPT ![r] = [[[req[r] EXCEPT !.balance = b] EXCEPT !.pc = "c_fetch"]
                                         EXCEPT !.blind = (b # balance)]]
  BY Zenon
<1>7. req' = [req EXCEPT ![r] = new]
  BY <1>1, <1>2, <1>3, <1>6, Zenon
<1> HIDE DEF new
<1>8. Others(r) /\ req'[r] = new
  BY <1>4, <1>7, Put
<1>9. ~TargetReached(r, balance) \/ blind
  BY <1>3
<1> QED
  BY <1>1, <1>2, <1>5, <1>8, <1>9 DEF BalanceRead, Kept

(***************************************************************************)
(* Where each of these steps takes the call.                               *)
(***************************************************************************)
LEMMA ClaimMoves ==
    ASSUME TypeOK, NEW r \in Requests
    PROVE  /\ ClaimStart(r) => Walks(r, "c_gate")
           /\ ClaimExists(r) => Walks(r, "c_balance") \/ Walks(r, "ci_lock")
           /\ ClaimInitLock(r) => Walks(r, "ci_gate")
           /\ ClaimBalance(r) => \/ Walks(r, "c_lock") /\ UNCHANGED locks
                                 \/ Walks(r, "done") /\ Released(r)
           /\ ClaimLock(r) => Walks(r, "c_reread")
           /\ ClaimReread(r) => \/ BalanceRead(r) /\ UNCHANGED locks
                                \/ Walks(r, "done") /\ Released(r)
           /\ PinataChallenge(r) => SeedRead(r)
           /\ AcquirePermit(r) => Walks(r, "solving")
           /\ Solve(r) => \/ Walks(r, "cs_gate") /\ UNCHANGED locks
                          \/ Walks(r, "done") /\ Released(r)
           /\ ClaimNext(r) => Walks(r, "c_lock") \/ Walks(r, "done")
<1>0. {"c_gate", "c_balance", "ci_lock", "ci_gate", "c_lock", "c_reread", "solving", "cs_gate",
       "done"} \subseteq Places
  BY DEF Places, Long, Gates, Reads
<1>1. /\ ClaimStart(r) => Walks(r, "c_gate")
      /\ ClaimExists(r) => Walks(r, "c_balance") \/ Walks(r, "ci_lock")
      /\ ClaimInitLock(r) => Walks(r, "ci_gate")
  BY <1>0, GotoMoves DEF ClaimStart, ClaimExists, ClaimInitLock, Walks
<1>2. ASSUME ClaimBalance(r)
      PROVE  \/ Walks(r, "c_lock") /\ UNCHANGED locks
             \/ Walks(r, "done") /\ Released(r)
  <2>1. CASE Enough(r, balance, 0)
    BY <1>2, <2>1, EndMoves DEF ClaimBalance, Walks
  <2>2. CASE ~Enough(r, balance, 0)
    <3>1. req[r] \in Request /\ balance \in Nat
      BY DEF TypeOK
    <3>2. PICK rec \in Request : /\ rec = [req[r] EXCEPT !.balance = balance]
                                 /\ Kept(req[r], rec) /\ rec.flight = req[r].flight
      BY <3>1, SetBalance
    <3>3. req' = [req EXCEPT ![r] = [rec EXCEPT !.pc = "c_lock"]] /\ UNCHANGED locks
      BY <1>2, <2>2, <3>2 DEF ClaimBalance
    <3> QED
      BY <1>0, <3>2, <3>3, PlacedMoves DEF Walks
  <2> QED
    BY <2>1, <2>2
<1>3. /\ ClaimLock(r) => Walks(r, "c_reread")
      /\ AcquirePermit(r) => Walks(r, "solving")
  BY <1>0, GotoMoves DEF ClaimLock, AcquirePermit, Walks
<1>4. ASSUME ClaimReread(r)
      PROVE  \/ BalanceRead(r) /\ UNCHANGED locks
             \/ Walks(r, "done") /\ Released(r)
  <2>1. PICK b \in {balance, req[r].balance} :
             IF TargetReached(r, b)
             THEN End(r)
             ELSE /\ req' = [req EXCEPT ![r] = [@ EXCEPT !.balance = b, !.pc = "c_fetch",
                                                         !.blind = (b # balance)]]
                  /\ UNCHANGED locks
    BY <1>4, Zenon DEF ClaimReread
  <2>2. CASE TargetReached(r, b)
    BY <2>1, <2>2, EndMoves DEF Walks
  <2>3. CASE ~TargetReached(r, b)
    <3>1. BalanceRead(r)
      BY <2>1, <2>3, BalanceReads, Zenon
    <3> QED
      BY <2>1, <2>3, <3>1, Zenon
  <2> QED
    BY <2>2, <2>3
<1>5. PinataChallenge(r) => SeedRead(r)
  BY SeedReads
<1>6. ASSUME Solve(r)
      PROVE  \/ Walks(r, "cs_gate") /\ UNCHANGED locks
             \/ Walks(r, "done") /\ Released(r)
  BY <1>0, <1>6, GotoMoves, EndMoves DEF Solve, Walks
<1>7. ASSUME ClaimNext(r) PROVE Walks(r, "c_lock") \/ Walks(r, "done")
  <2>1. PICK b \in {balance, req[r].balance} :
             req' = [req EXCEPT ![r] =
                [@ EXCEPT !.balance = b, !.made = req[r].made + 1,
                          !.pc = IF req[r].dropped \/ Enough(r, b, req[r].made + 1)
                                 THEN "done" ELSE "c_lock"]]
    BY <1>7, Zenon DEF ClaimNext
  <2>2. req[r] \in Request /\ b \in Nat
    BY DEF TypeOK, Request
  <2>3. PICK rec \in Request : /\ rec = [req[r] EXCEPT !.balance = b]
                               /\ Kept(req[r], rec) /\ rec.flight = req[r].flight
    BY <2>2, SetBalance
  <2>4. PICK rec2 \in Request : /\ rec2 = [rec EXCEPT !.made = rec.made + 1]
                                /\ Kept(rec, rec2) /\ rec2.flight = rec.flight
    BY SetMade
  <2>5. PICK place \in {"done", "c_lock"} :
             place = IF req[r].dropped \/ Enough(r, b, req[r].made + 1) THEN "done" ELSE "c_lock"
    OBVIOUS
  <2>6. req' = [req EXCEPT ![r] = [[[req[r] EXCEPT !.balance = b]
                                           EXCEPT !.made = req[r].made + 1] EXCEPT !.pc = place]]
    BY <2>1, <2>5, Zenon
  <2>7. [rec EXCEPT !.made = req[r].made + 1] = rec2
    <3>1. rec.made = req[r].made
      BY <2>2, <2>3 DEF Request
    <3> QED
      BY <2>4, <3>1
  <2>8. req' = [req EXCEPT ![r] = [rec2 EXCEPT !.pc = place]]
    BY <2>3, <2>6, <2>7, Zenon
  <2>9. Kept(req[r], rec2) /\ rec2.flight = req[r].flight
    BY <2>3, <2>4 DEF Kept
  <2> QED
    BY <1>0, <2>5, <2>8, <2>9, PlacedMoves DEF Walks
<1> QED
  BY <1>1, <1>2, <1>3, <1>4, <1>5, <1>6, <1>7

(***************************************************************************)
(* The steps that initialize the account, up to the send.                  *)
(***************************************************************************)
Leaves(r) ==
    \/ /\ Claiming(r) /\ signed_write_lock' = Free /\ UNCHANGED claim_lock
       /\ Walks(r, "done") \/ Walks(r, "c_balance")
    \/ ~Claiming(r) /\ Walks(r, "t_gate3") /\ UNCHANGED locks

(***************************************************************************)
(* Where each of these steps takes the call.                               *)
(***************************************************************************)
LEMMA InitMoves ==
    ASSUME TypeOK, NEW r \in Requests
    PROVE  /\ InitRead(r) => Leaves(r) \/ (Walks(r, "i_nonce") /\ UNCHANGED locks)
           /\ InitNonce(r) => NonceRead(r, "i_send")
           /\ InitOwner(r) => Leaves(r) \/ (Walks(r, "done") /\ Released(r))
<1>0. {"done", "c_balance", "t_gate3", "i_nonce", "i_send"} \subseteq Places
  BY DEF Places, Long, Gates, Reads
<1>1. ASSUME LeaveInit(r) PROVE Leaves(r)
  <2>1. CASE Claiming(r)
    <3>1. PICK place \in {"done", "c_balance"} :
               place = IF req[r].dropped THEN "done" ELSE "c_balance"
      OBVIOUS
    <3>2. Goto(r, place)
      BY <1>1, <2>1, <3>1, Zenon DEF LeaveInit, Goto
    <3> QED
      BY <1>0, <1>1, <2>1, <3>1, <3>2, GotoMoves DEF Leaves, LeaveInit, Walks
  <2>2. CASE ~Claiming(r)
    BY <1>0, <1>1, <2>2, GotoMoves DEF Leaves, LeaveInit, Walks
  <2> QED
    BY <2>1, <2>2
<1>2. ASSUME InitRead(r) PROVE Leaves(r) \/ (Walks(r, "i_nonce") /\ UNCHANGED locks)
  BY <1>0, <1>1, <1>2, GotoMoves DEF InitRead, Walks
<1>3. InitNonce(r) => NonceRead(r, "i_send")
  BY <1>0, NonceReads DEF InitNonce
<1>4. ASSUME InitOwner(r) PROVE Leaves(r) \/ (Walks(r, "done") /\ Released(r))
  BY <1>1, <1>4, EndMoves DEF InitOwner, Walks
<1> QED
  BY <1>2, <1>3, <1>4

(***************************************************************************)
(* A send: the call goes on to confirm it, or ends without knowing.        *)
(***************************************************************************)
HasSent(r, t) ==
    /\ Others(r) /\ req'[r].pc = "hash" /\ req'[r].tx = t /\ req'[r].how = "none"
    /\ req'[r].flight = req[r].flight
    /\ req'[r].call = req[r].call /\ req'[r].nonce = req[r].nonce /\ req'[r].seed = req[r].seed
    /\ req'[r].blind = req[r].blind
SendOutcome(r, t) ==
    /\ sent' = sent \cup {t}
    /\ \/ /\ pool' = pool \cup {t} /\ HasSent(r, t)
          /\ UNCHANGED <<loose, locks>>
       \/ /\ pool' \in {pool, pool \cup {t}} /\ Walks(r, "done") /\ Released(r)
          /\ loose' = loose \cup {t}
    /\ UNCHANGED <<nonce, inited, balance, seed, committed, clock, gating, previews, tokens,
                   outside>>
    /\ orphans' \in Nat /\ faults' \in Nat

(***************************************************************************)
(* A send has one of the two outcomes.                                     *)
(***************************************************************************)
LEMMA SendMoves ==
    ASSUME TypeOK, NEW r \in Requests, NEW t \in Tx, Send(r, t, "hash")
    PROVE  SendOutcome(r, t)
<1>1. CASE /\ pool' = pool \cup {t}
           /\ req' = [req EXCEPT ![r] = [@ EXCEPT !.tx = t, !.how = "none", !.pc = "hash"]]
           /\ NoFault /\ UNCHANGED <<loose, locks>>
  <2>0. req[r] \in Request /\ "hash" \in Places
    BY PlaceNames DEF TypeOK
  <2> DEFINE rec == [req[r] EXCEPT !.tx = t]
  <2>1. rec \in Request
    BY <2>0 DEF Request
  <2>2. /\ rec.tx = t /\ rec.flight = req[r].flight /\ rec.call = req[r].call
        /\ rec.nonce = req[r].nonce /\ rec.seed = req[r].seed /\ rec.blind = req[r].blind
    BY <2>0 DEF Request
  <2>3. req' = [req EXCEPT ![r] = [[rec EXCEPT !.how = "none"] EXCEPT !.pc = "hash"]]
    BY <1>1, Zenon
  <2> HIDE DEF rec
  <2> DEFINE rec2 == [rec EXCEPT !.how = "none"]
  <2>4. rec2 \in Request
    BY <2>1 DEF Request
  <2>5. /\ rec2.tx = rec.tx /\ rec2.flight = rec.flight /\ rec2.call = rec.call
        /\ rec2.nonce = rec.nonce /\ rec2.seed = rec.seed /\ rec2.blind = rec.blind
        /\ rec2.how = "none"
    BY <2>1 DEF Request
  <2> HIDE DEF rec2
  <2>6. PICK new \in Request : /\ new = [rec2 EXCEPT !.pc = "hash"]
                               /\ Kept(rec2, new) /\ new.flight = rec2.flight /\ new.pc = "hash"
    BY <2>0, <2>4, SetPlace
  <2>7. req' = [req EXCEPT ![r] = new]
    BY <2>3, <2>6, Zenon DEF rec2
  <2>8. Others(r) /\ req'[r] = new
    BY <2>7, Put
  <2>9. HasSent(r, t)
    BY <2>2, <2>5, <2>6, <2>8 DEF HasSent, Kept
  <2> QED
    BY <1>1, <2>9 DEF Send, SendOutcome, NoFault, TypeOK
<1>2. CASE /\ pool' \in {pool, pool \cup {t}} /\ End(r)
           /\ Fault /\ loose' = loose \cup {t}
  BY <1>2, EndMoves DEF Send, SendOutcome, Walks, Fault, TypeOK
<1> QED
  BY <1>1, <1>2, Zenon DEF Send

(***************************************************************************)
(* The end of a confirmation: the call has learnt something and goes on,   *)
(* or gives up.                                                            *)
(***************************************************************************)
Hows == {"none", "unconfirmed", "tx_committed", "nonce_advanced", "seed_rotated"}
Learns(r, how, place) ==
    /\ Others(r) /\ req'[r].pc = place /\ req'[r].how = how
    /\ req'[r].flight = req[r].flight
    /\ req'[r].call = req[r].call /\ req'[r].nonce = req[r].nonce /\ req'[r].seed = req[r].seed
    /\ req'[r].tx = req[r].tx /\ req'[r].blind = req[r].blind
GoesOn(r, how) ==
    /\ UNCHANGED loose
    /\ \/ req[r].tx.op = "init" /\ Learns(r, how, "i_owner") /\ UNCHANGED locks
       \/ req[r].tx.op = "transfer" /\ Learns(r, how, "done") /\ Released(r)
       \/ req[r].tx.op = "claim" /\ Learns(r, how, "c_next") /\ UNCHANGED locks
GivesUp(r) ==
    Learns(r, "unconfirmed", "done") /\ Released(r) /\ loose' = loose \cup {req[r].tx}

(***************************************************************************)
(* A call that learns something keeps everything else.                     *)
(***************************************************************************)
LEMMA LearnsMoves ==
    ASSUME TypeOK, NEW r \in Requests, NEW how \in Hows, NEW place \in Places,
           req' = [req EXCEPT ![r] = [[req[r] EXCEPT !.how = how] EXCEPT !.pc = place]]
    PROVE  Learns(r, how, place)
<1>0. req[r] \in Request
  BY DEF TypeOK
<1> DEFINE rec == [req[r] EXCEPT !.how = how]
<1>1. rec \in Request
  BY <1>0 DEF Request, Hows
<1>2. /\ rec.how = how /\ rec.flight = req[r].flight /\ rec.call = req[r].call
      /\ rec.nonce = req[r].nonce /\ rec.seed = req[r].seed /\ rec.tx = req[r].tx
      /\ rec.blind = req[r].blind
  BY <1>0 DEF Request
<1>3. req' = [req EXCEPT ![r] = [rec EXCEPT !.pc = place]]
  OBVIOUS
<1> HIDE DEF rec
<1>4. PICK new \in Request : /\ new = [rec EXCEPT !.pc = place]
                             /\ Kept(rec, new) /\ new.flight = rec.flight /\ new.pc = place
  BY <1>1, SetPlace
<1>5. Others(r) /\ req'[r] = new
  BY <1>3, <1>4, Put
<1> QED
  BY <1>2, <1>4, <1>5 DEF Learns, Kept

(***************************************************************************)
(* A confirmed call goes on where its transaction says.                    *)
(***************************************************************************)
LEMMA ConfirmedMoves ==
    ASSUME TypeOK, NEW r \in Requests, NEW how \in Hows, req[r].tx \in Tx, UNCHANGED loose,
           Confirmed(r, how)
    PROVE  GoesOn(r, how)
<1>1. {"i_owner", "done", "c_next"} \subseteq Places
  BY DEF Places, Long, Reads
<1>2. PICK place \in {"i_owner", "done", "c_next"} :
         /\ place = AfterConfirm(req[r].tx)
         /\ req[r].tx.op = "init" => place = "i_owner"
         /\ req[r].tx.op = "transfer" => place = "done"
         /\ req[r].tx.op = "claim" => place = "c_next"
  BY DEF AfterConfirm, Tx
<1>3. req[r].tx.op \in {"init", "transfer", "claim"}
  BY DEF Tx
<1> DEFINE rec == [req[r] EXCEPT !.how = how]
<1>4. [rec EXCEPT !.pc = place].pc = place
  BY DEF TypeOK, Request
<1>5. [[rec EXCEPT !.pc = place] EXCEPT !.pc = place] = [rec EXCEPT !.pc = place]
  BY DEF TypeOK, Request
<1>6. /\ place = "done" => EndAs(r, [rec EXCEPT !.pc = place])
      /\ place # "done" => req' = [req EXCEPT ![r] = [rec EXCEPT !.pc = place]] /\ UNCHANGED locks
  BY <1>2, <1>4, Zenon DEF Confirmed
<1>7. req' = [req EXCEPT ![r] = [rec EXCEPT !.pc = place]]
  BY <1>5, <1>6, Zenon DEF EndAs
<1>8. Learns(r, how, place)
  BY <1>1, <1>7, LearnsMoves
<1>9. place = "done" => Released(r)
  BY <1>6 DEF EndAs, Released, Unlock
<1> HIDE DEF rec
<1> QED
  BY <1>2, <1>3, <1>6, <1>8, <1>9 DEF GoesOn

(***************************************************************************)
(* A call that gives up ends, and its transaction is loose.                *)
(***************************************************************************)
LEMMA GiveUpMoves ==
    ASSUME TypeOK, NEW r \in Requests, GiveUp(r)
    PROVE  GivesUp(r)
<1>1. "done" \in Places /\ "unconfirmed" \in Hows
  BY PlaceNames DEF Hows
<1>2. EndAs(r, [req[r] EXCEPT !.how = "unconfirmed"]) /\ loose' = loose \cup {req[r].tx}
  BY DEF GiveUp
<1>3. Learns(r, "unconfirmed", "done")
  BY <1>1, <1>2, LearnsMoves DEF EndAs
<1>4. Released(r)
  BY <1>2 DEF EndAs, Released, Unlock
<1> QED
  BY <1>2, <1>3, <1>4 DEF GivesUp

(***************************************************************************)
(* Each confirmation has one of these outcomes.                            *)
(***************************************************************************)
LEMMA ConfirmMoves ==
    ASSUME TypeInv, NEW r \in Requests
    PROVE  /\ ConfirmSubmittedTx(r) =>
                 \/ req[r].tx \in committed /\ GoesOn(r, "tx_committed")
                 \/ Walks(r, "fallback") /\ UNCHANGED <<locks, loose>>
                 \/ GivesUp(r)
           /\ ConfirmFallback(r) =>
                 \/ /\ Signed(req[r].tx) /\ nonce > req[r].nonce
                    /\ GoesOn(r, "nonce_advanced")
                 \/ /\ ~Signed(req[r].tx) /\ seed # req[r].tx.n
                    /\ GoesOn(r, "seed_rotated")
                 \/ GivesUp(r)
<1>0. TypeOK /\ "fallback" \in Places
      /\ {"tx_committed", "nonce_advanced", "seed_rotated"} \subseteq Hows
  BY PlaceNames DEF TypeInv, Hows
<1>1. At(r, "hash") \/ At(r, "fallback") => req[r].tx \in Tx
  BY DEF TypeInv, TypeOK, AwaitsSent, Confirming, At
<1>2. ASSUME ConfirmSubmittedTx(r)
      PROVE  \/ req[r].tx \in committed /\ GoesOn(r, "tx_committed")
             \/ Walks(r, "fallback") /\ UNCHANGED <<locks, loose>>
             \/ GivesUp(r)
  <2>1. CASE req[r].tx \in committed /\ Confirmed(r, "tx_committed") /\ UNCHANGED loose
    BY <1>0, <1>1, <1>2, <2>1, ConfirmedMoves DEF ConfirmSubmittedTx
  <2>2. CASE Goto(r, "fallback") /\ UNCHANGED <<locks, loose>>
    BY <1>0, <2>2, GotoMoves DEF Walks
  <2>3. CASE GiveUp(r)
    BY <1>0, <2>3, GiveUpMoves
  <2> QED
    BY <1>2, <2>1, <2>2, <2>3 DEF ConfirmSubmittedTx
<1>3. ASSUME ConfirmFallback(r)
      PROVE  \/ /\ Signed(req[r].tx) /\ nonce > req[r].nonce
                /\ GoesOn(r, "nonce_advanced")
             \/ /\ ~Signed(req[r].tx) /\ seed # req[r].tx.n
                /\ GoesOn(r, "seed_rotated")
             \/ GivesUp(r)
  <2>1. CASE GiveUp(r)
    BY <1>0, <2>1, GiveUpMoves
  <2>2. CASE Signed(req[r].tx) /\ ~GiveUp(r)
    <3>1. nonce > req[r].nonce /\ Confirmed(r, "nonce_advanced") /\ UNCHANGED loose
      BY <1>3, <2>2 DEF ConfirmFallback, nonce_advanced
    <3> QED
      BY <1>0, <1>1, <1>3, <2>2, <3>1, ConfirmedMoves DEF ConfirmFallback
  <2>3. CASE ~Signed(req[r].tx) /\ ~GiveUp(r)
    <3>1. seed # req[r].tx.n /\ Confirmed(r, "seed_rotated") /\ UNCHANGED loose
      BY <1>3, <2>3 DEF ConfirmFallback, seed_rotated
    <3> QED
      BY <1>0, <1>1, <1>3, <2>3, <3>1, ConfirmedMoves DEF ConfirmFallback
  <2> QED
    BY <2>1, <2>2, <2>3
<1> QED
  BY <1>2, <1>3

(***************************************************************************)
(* A client goes away.                                                     *)
(***************************************************************************)
LEMMA DropMoves ==
    ASSUME TypeOK, NEW r \in Requests, DropRequest(r)
    PROVE  \/ /\ MovesTo(r, req[r].pc, req[r].flight)
              /\ UNCHANGED <<locks, refresh_lock>>
           \/ /\ req[r].pc \notin Detached \cup {"idle", "done"}
              /\ MovesTo(r, "done", "no") /\ Released(r)
              /\ refresh_lock' = Unlock(refresh_lock, r)
<1>0. req[r] \in Request /\ TRUE \in BOOLEAN /\ "done" \in Places /\ "no" \in Flights
  BY PlaceNames DEF TypeOK, Flights
<1>1. PICK rec \in Request : /\ rec = [req[r] EXCEPT !.dropped = TRUE]
                             /\ Kept(req[r], rec) /\ rec.pc = req[r].pc
                             /\ rec.flight = req[r].flight
  BY <1>0, SetDropped
<1>2. CASE req[r].pc \in Detached
  <2>1. req' = [req EXCEPT ![r] = rec]
    BY <1>1, <1>2 DEF DropRequest
  <2>2. Others(r) /\ req'[r] = rec
    BY <2>1, Put
  <2> QED
    BY <1>1, <1>2, <2>2 DEF DropRequest, MovesTo, Moves
<1>3. CASE req[r].pc \notin Detached
  <2>1. PICK rec2 \in Request : /\ rec2 = [rec EXCEPT !.flight = "no"]
                                /\ Kept(rec, rec2) /\ rec2.flight = "no"
    BY <1>0, SetFlight
  <2>2. PICK new \in Request : /\ new = [rec2 EXCEPT !.pc = "done"]
                               /\ Kept(rec2, new) /\ new.flight = rec2.flight /\ new.pc = "done"
    BY <1>0, SetPlace
  <2>3. EndAs(r, [[req[r] EXCEPT !.dropped = TRUE] EXCEPT !.flight = "no"])
    BY <1>3, Zenon DEF DropRequest
  <2>4. req' = [req EXCEPT ![r] = new]
    BY <1>1, <2>1, <2>2, <2>3, Zenon DEF EndAs
  <2>5. Others(r) /\ req'[r] = new
    BY <2>4, Put
  <2>6. MovesTo(r, "done", "no")
    BY <1>1, <2>1, <2>2, <2>5 DEF MovesTo, Moves, Kept
  <2>7. Released(r)
    BY <2>3 DEF EndAs, Released, Unlock
  <2> QED
    BY <1>3, <2>6, <2>7 DEF DropRequest
<1> QED
  BY <1>2, <1>3

-----------------------------------------------------------------------------
(***************************************************************************)
(* The steps of a call that neither send nor end a confirmation, by what   *)
(* becomes of its place and its locks.                                     *)
(***************************************************************************)
Rests ==
    /\ UNCHANGED <<nonce, inited, balance, seed, pool, committed, upgraded, sinceUpgrade, gate,
                   refresh_lock, previews, sent, loose, outside>>
    /\ tokens' \subseteq tokens /\ orphans' \in Nat /\ faults' \in Nat
From(r, here, there) == req[r].pc \in here /\ req'[r].pc \in there
Walked(r) == Moves(r) /\ req'[r].flight = req[r].flight
Plain(r) ==
    /\ Walked(r) /\ UNCHANGED <<signed_write_lock, claim_lock>>
    /\ \/ From(r, {"idle"}, {"t_token"}) /\ req[r].call.tool = "transfer"
       \/ From(r, {"idle"}, {"c_gate"}) /\ Claiming(r)
       \/ From(r, {"t_token"}, {"t_gate"}) /\ Pays(r)
       \/ From(r, {"t_checks"}, {"t_lock"})
       \/ From(r, {"t_balance"}, {"t_nonce"})
       \/ From(r, {"c_exists"}, {"c_balance", "ci_lock"})
       \/ From(r, {"c_balance"}, {"c_lock"})
       \/ From(r, {"permit"}, {"solving"})
       \/ From(r, {"solving"}, {"cs_gate"})
       \/ From(r, {"i_read"}, {"i_nonce"})
       \/ From(r, {"i_read", "i_owner"}, {"t_gate3"}) /\ ~Claiming(r)
       \/ From(r, {"hash"}, {"fallback"})
Takes(r) ==
    /\ Walked(r)
    /\ \/ /\ From(r, {"t_lock"}, {"t_gate2"}) \/ From(r, {"ci_lock"}, {"ci_gate"})
          /\ signed_write_lock = Free /\ signed_write_lock' = r /\ UNCHANGED claim_lock
       \/ /\ From(r, {"c_lock"}, {"c_reread"})
          /\ claim_lock = Free /\ claim_lock' = r /\ UNCHANGED signed_write_lock
Stops(r) ==
    /\ Walked(r) /\ Released(r)
    /\ req[r].pc \notin {"idle", "done", "hash", "fallback"} \cup Gates \cup {"f_lock"}
    /\ req'[r].pc = "done"
Frees(r) ==
    /\ Walked(r)
    /\ \/ /\ From(r, {"i_read", "i_owner"}, {"done", "c_balance"}) /\ Claiming(r)
          /\ signed_write_lock' = Free /\ UNCHANGED claim_lock
       \/ /\ From(r, {"c_next"}, {"done", "c_lock"})
          /\ claim_lock' = Unlock(claim_lock, r) /\ UNCHANGED signed_write_lock
Notes(r) ==
    /\ UNCHANGED <<signed_write_lock, claim_lock>>
    /\ \/ req[r].pc = "t_nonce" /\ NonceRead(r, "t_send")
       \/ req[r].pc = "i_nonce" /\ NonceRead(r, "i_send")
       \/ req[r].pc = "c_fetch" /\ SeedRead(r)
       \/ req[r].pc = "c_reread" /\ BalanceRead(r)
Quiet(r) == Rests /\ (Plain(r) \/ Takes(r) \/ Stops(r) \/ Frees(r) \/ Notes(r))

(***************************************************************************)
(* A transfer is quiet but for its send.                                   *)
(***************************************************************************)
LEMMA TransferSteps ==
    ASSUME TypeInv, NEW r \in Requests, Transfer(r), ~TransferSend(r)
    PROVE  Quiet(r)
<1>0. TypeOK /\ orphans \in Nat /\ faults \in Nat
  BY DEF TypeInv, TypeOK
<1>1. CASE TransferRead(r)
  <2>1. Rests
    BY <1>0, <1>1 DEF TransferRead, Quietly, Fault, NoFault, chain, clock, gating, Rests
  <2>2. Walks(r, "t_token") /\ UNCHANGED <<signed_write_lock, claim_lock>>
    BY <1>0, <1>1, TransferMoves DEF TransferRead, locks
  <2> QED
    BY <1>1, <2>1, <2>2 DEF TransferRead, Quiet, Plain, From, Walked, Walks, MovesTo, At
<1>2. CASE CheckAndConsumeToken(r)
  <2>1. Rests
    BY <1>0, <1>2 DEF CheckAndConsumeToken, Quietly, Fault, NoFault, chain, clock, gating, Rests
  <2>2. \/ Walks(r, "t_gate") /\ Pays(r) /\ UNCHANGED <<signed_write_lock, claim_lock>>
        \/ Walks(r, "done") /\ Released(r)
    BY <1>0, <1>2, TransferMoves DEF locks
  <2> QED
    BY <1>2, <2>1, <2>2
       DEF CheckAndConsumeToken, Quiet, Plain, Stops, From, Walked, Walks, MovesTo, At, Gates
<1>3. CASE TransferChecks(r)
  <2>1. Rests
    BY <1>0, <1>3 DEF TransferChecks, Quietly, Fault, NoFault, chain, clock, gating, Rests
  <2>2. \/ Walks(r, "t_lock") /\ UNCHANGED <<signed_write_lock, claim_lock>>
        \/ Walks(r, "done") /\ Released(r)
    BY <1>0, <1>3, TransferMoves DEF locks
  <2> QED
    BY <1>3, <2>1, <2>2
       DEF TransferChecks, Quiet, Plain, Stops, From, Walked, Walks, MovesTo, At, Gates
<1>4. CASE TransferLock(r)
  <2>1. Rests
    BY <1>0, <1>4 DEF TransferLock, Quietly, Fault, NoFault, chain, clock, gating, Rests
  <2>2. Walks(r, "t_gate2") /\ UNCHANGED claim_lock
    BY <1>0, <1>4, TransferMoves DEF TransferLock, locks
  <2> QED
    BY <1>4, <2>1, <2>2 DEF TransferLock, Quiet, Takes, From, Walked, Walks, MovesTo, At
<1>5. CASE TransferBalance(r)
  <2>1. Rests
    BY <1>0, <1>5 DEF TransferBalance, Quietly, Fault, NoFault, chain, clock, gating, Rests
  <2>2. \/ Walks(r, "t_nonce") /\ UNCHANGED <<signed_write_lock, claim_lock>>
        \/ Walks(r, "done") /\ Released(r)
    BY <1>0, <1>5, TransferMoves DEF locks
  <2> QED
    BY <1>5, <2>1, <2>2
       DEF TransferBalance, Quiet, Plain, Stops, From, Walked, Walks, MovesTo, At, Gates
<1>6. CASE TransferNonce(r)
  <2>1. Rests
    BY <1>0, <1>6 DEF TransferNonce, Quietly, Fault, NoFault, chain, clock, gating, Rests
  <2>2. NonceRead(r, "t_send") /\ UNCHANGED <<signed_write_lock, claim_lock>>
    BY <1>0, <1>6, TransferMoves DEF TransferNonce, locks
  <2> QED
    BY <1>6, <2>1, <2>2 DEF TransferNonce, Quiet, Notes, From, Walked, Walks, MovesTo, At
<1> QED
  BY <1>1, <1>2, <1>3, <1>4, <1>5, <1>6 DEF Transfer

(***************************************************************************)
(* A claim is quiet but for its submission.                                *)
(***************************************************************************)
LEMMA ClaimSteps ==
    ASSUME TypeInv, NEW r \in Requests, Claim(r), ~ClaimSubmit(r)
    PROVE  Quiet(r)
<1>0. TypeOK /\ orphans \in Nat /\ faults \in Nat
  BY DEF TypeInv, TypeOK
<1>1. CASE ClaimStart(r)
  <2>1. Rests
    BY <1>0, <1>1 DEF ClaimStart, Quietly, Fault, NoFault, chain, clock, gating, Rests
  <2>2. Walks(r, "c_gate") /\ UNCHANGED <<signed_write_lock, claim_lock>>
    BY <1>0, <1>1, ClaimMoves DEF ClaimStart, locks
  <2> QED
    BY <1>1, <2>1, <2>2 DEF ClaimStart, Quiet, Plain, From, Walked, Walks, MovesTo, At
<1>2. CASE ClaimExists(r)
  <2>1. Rests
    BY <1>0, <1>2 DEF ClaimExists, Quietly, Fault, NoFault, chain, clock, gating, Rests
  <2>2. (Walks(r, "c_balance") \/ Walks(r, "ci_lock")) /\ UNCHANGED <<signed_write_lock, claim_lock>>
    BY <1>0, <1>2, ClaimMoves DEF ClaimExists, locks
  <2> QED
    BY <1>2, <2>1, <2>2 DEF ClaimExists, Quiet, Plain, From, Walked, Walks, MovesTo, At
<1>3. CASE ClaimInitLock(r)
  <2>1. Rests
    BY <1>0, <1>3 DEF ClaimInitLock, Quietly, Fault, NoFault, chain, clock, gating, Rests
  <2>2. Walks(r, "ci_gate") /\ UNCHANGED claim_lock
    BY <1>0, <1>3, ClaimMoves DEF ClaimInitLock, locks
  <2> QED
    BY <1>3, <2>1, <2>2 DEF ClaimInitLock, Quiet, Takes, From, Walked, Walks, MovesTo, At
<1>4. CASE ClaimBalance(r)
  <2>1. Rests
    BY <1>0, <1>4 DEF ClaimBalance, Quietly, Fault, NoFault, chain, clock, gating, Rests
  <2>2. \/ Walks(r, "c_lock") /\ UNCHANGED <<signed_write_lock, claim_lock>>
        \/ Walks(r, "done") /\ Released(r)
    BY <1>0, <1>4, ClaimMoves DEF locks
  <2> QED
    BY <1>4, <2>1, <2>2
       DEF ClaimBalance, Quiet, Plain, Stops, From, Walked, Walks, MovesTo, At, Gates
<1>5. CASE ClaimLock(r)
  <2>1. Rests
    BY <1>0, <1>5 DEF ClaimLock, Quietly, Fault, NoFault, chain, clock, gating, Rests
  <2>2. Walks(r, "c_reread") /\ UNCHANGED signed_write_lock
    BY <1>0, <1>5, ClaimMoves DEF ClaimLock, locks
  <2> QED
    BY <1>5, <2>1, <2>2 DEF ClaimLock, Quiet, Takes, From, Walked, Walks, MovesTo, At
<1>6. CASE ClaimReread(r)
  <2>1. Rests
    BY <1>0, <1>6 DEF ClaimReread, Quietly, Fault, NoFault, chain, clock, gating, Rests
  <2>2. \/ BalanceRead(r) /\ UNCHANGED <<signed_write_lock, claim_lock>>
        \/ Walks(r, "done") /\ Released(r)
    BY <1>0, <1>6, ClaimMoves DEF locks
  <2> QED
    BY <1>6, <2>1, <2>2
       DEF ClaimReread, Quiet, Notes, Stops, From, Walked, Walks, MovesTo, At, Gates
<1>7. CASE PinataChallenge(r)
  <2>1. Rests
    BY <1>0, <1>7 DEF PinataChallenge, Quietly, Fault, NoFault, chain, clock, gating, Rests
  <2>2. SeedRead(r) /\ UNCHANGED <<signed_write_lock, claim_lock>>
    BY <1>0, <1>7, ClaimMoves DEF PinataChallenge, locks
  <2> QED
    BY <1>7, <2>1, <2>2 DEF PinataChallenge, Quiet, Notes, From, Walked, Walks, MovesTo, At
<1>8. CASE AcquirePermit(r)
  <2>1. Rests
    BY <1>0, <1>8 DEF AcquirePermit, Quietly, Fault, NoFault, chain, clock, gating, Rests
  <2>2. Walks(r, "solving") /\ UNCHANGED <<signed_write_lock, claim_lock>>
    BY <1>0, <1>8, ClaimMoves DEF AcquirePermit, locks
  <2> QED
    BY <1>8, <2>1, <2>2 DEF AcquirePermit, Quiet, Plain, From, Walked, Walks, MovesTo, At
<1>9. CASE Solve(r)
  <2>1. Rests
    BY <1>0, <1>9 DEF Solve, Quietly, Fault, NoFault, chain, clock, gating, Rests
  <2>2. \/ Walks(r, "cs_gate") /\ UNCHANGED <<signed_write_lock, claim_lock>>
        \/ Walks(r, "done") /\ Released(r)
    BY <1>0, <1>9, ClaimMoves DEF locks
  <2> QED
    BY <1>9, <2>1, <2>2 DEF Solve, Quiet, Plain, Stops, From, Walked, Walks, MovesTo, At, Gates
<1>10. CASE ClaimNext(r)
  <2>1. Rests
    BY <1>0, <1>10 DEF ClaimNext, Quietly, Fault, NoFault, chain, clock, gating, Rests
  <2>2. Walks(r, "c_lock") \/ Walks(r, "done")
    BY <1>0, <1>10, ClaimMoves DEF ClaimNext, locks
  <2> QED
    BY <1>10, <2>1, <2>2 DEF ClaimNext, Quiet, Frees, From, Walked, Walks, MovesTo, At
<1> QED
  BY <1>1, <1>2, <1>3, <1>4, <1>5, <1>6, <1>7, <1>8, <1>9, <1>10 DEF Claim

(***************************************************************************)
(* Initializing is quiet but for its send, and a failed read is.           *)
(***************************************************************************)
LEMMA OtherSteps ==
    ASSUME TypeInv, NEW r \in Requests, InitRead(r) \/ InitNonce(r) \/ InitOwner(r) \/ ReadFails(r)
    PROVE  Quiet(r)
<1>0. TypeOK /\ orphans \in Nat /\ faults \in Nat
  BY DEF TypeInv, TypeOK
<1>1. CASE InitRead(r)
  <2>1. Rests
    BY <1>0, <1>1 DEF InitRead, Quietly, Fault, NoFault, chain, clock, gating, Rests
  <2>2. Leaves(r) \/ (Walks(r, "i_nonce") /\ UNCHANGED <<signed_write_lock, claim_lock>>)
    BY <1>0, <1>1, InitMoves DEF InitRead, locks
  <2> QED
    BY <1>1, <2>1, <2>2
       DEF InitRead, Quiet, Plain, Frees, From, Walked, Walks, MovesTo, At, Leaves, locks
<1>2. CASE InitNonce(r)
  <2>1. Rests
    BY <1>0, <1>2 DEF InitNonce, Quietly, Fault, NoFault, chain, clock, gating, Rests
  <2>2. NonceRead(r, "i_send") /\ UNCHANGED <<signed_write_lock, claim_lock>>
    BY <1>0, <1>2, InitMoves DEF InitNonce, locks
  <2> QED
    BY <1>2, <2>1, <2>2 DEF InitNonce, Quiet, Notes, From, Walked, Walks, MovesTo, At
<1>3. CASE InitOwner(r)
  <2>1. Rests
    BY <1>0, <1>3 DEF InitOwner, Quietly, Fault, NoFault, chain, clock, gating, Rests
  <2>2. Leaves(r) \/ (Walks(r, "done") /\ Released(r))
    BY <1>0, <1>3, InitMoves DEF locks
  <2> QED
    BY <1>3, <2>1, <2>2
       DEF InitOwner, Quiet, Plain, Frees, Stops, From, Walked, Walks, MovesTo, At, Leaves, locks,
       Gates
<1>4. CASE ReadFails(r)
  <2>1. Rests
    BY <1>0, <1>4 DEF ReadFails, Quietly, Fault, NoFault, chain, clock, gating, Rests
  <2>2. Walks(r, "done") /\ Released(r)
    BY <1>0, <1>4, EndMoves DEF ReadFails, Walks
  <2> QED
    BY <1>4, <2>1, <2>2 DEF ReadFails, Quiet, Stops, From, Walked, Walks, MovesTo, At, Reads, Gates
<1> QED
  BY <1>1, <1>2, <1>3, <1>4

(***************************************************************************)
(* The other steps of a call.                                              *)
(***************************************************************************)
InitTx(r) == [op |-> "init", n |-> req[r].nonce, amount |-> 0]
TransferTx(r) == [op |-> "transfer", n |-> nonce, amount |-> req[r].call.amount]
Sends(r) ==
    \/ req[r].pc = "i_send" /\ SendOutcome(r, InitTx(r))
    \/ req[r].pc = "t_send" /\ SendOutcome(r, TransferTx(r))
    \/ req[r].pc = "c_submit" /\ SendOutcome(r, ClaimTx(req[r].seed))
Concludes(r) ==
    /\ Confirming(r) /\ req[r].tx \in sent
    /\ \/ req[r].tx \in committed /\ GoesOn(r, "tx_committed")
       \/ Signed(req[r].tx) /\ nonce > req[r].nonce /\ GoesOn(r, "nonce_advanced")
       \/ ~Signed(req[r].tx) /\ seed # req[r].tx.n /\ GoesOn(r, "seed_rotated")
       \/ GivesUp(r)
    /\ UNCHANGED <<nonce, inited, balance, seed, pool, committed, upgraded, sinceUpgrade, gate,
                   refresh_lock, previews, tokens, orphans, sent, outside, faults>>
Drops(r) ==
    /\ \/ /\ MovesTo(r, req[r].pc, req[r].flight)
          /\ UNCHANGED <<signed_write_lock, claim_lock, refresh_lock>>
       \/ /\ req[r].pc \notin Detached \cup {"idle", "done"}
          /\ MovesTo(r, "done", "no") /\ Released(r)
          /\ refresh_lock' = Unlock(refresh_lock, r)
    /\ orphans' \in Nat
    /\ UNCHANGED <<nonce, inited, balance, seed, pool, committed, upgraded, sinceUpgrade, gate,
                   previews, tokens, sent, loose, outside, faults>>

(***************************************************************************)
(* The three sends.                                                        *)
(***************************************************************************)
LEMMA SendSteps ==
    ASSUME TypeInv, NEW r \in Requests, InitSend(r) \/ TransferSend(r) \/ ClaimSubmit(r)
    PROVE  Sends(r)
<1>0. TypeOK /\ req[r] \in Request /\ nonce \in Nat
  BY DEF TypeInv, TypeOK
<1>1. InitTx(r) \in Tx /\ TransferTx(r) \in Tx /\ ClaimTx(req[r].seed) \in Tx
  BY <1>0 DEF InitTx, TransferTx, ClaimTx, Tx, Request, Call
<1>2. CASE InitSend(r)
  BY <1>0, <1>1, <1>2, SendMoves DEF InitSend, InitTx, Sends, At
<1>3. CASE TransferSend(r)
  BY <1>0, <1>1, <1>3, SendMoves DEF TransferSend, TransferTx, Sends, At
<1>4. CASE ClaimSubmit(r)
  BY <1>0, <1>1, <1>4, SendMoves DEF ClaimSubmit, ClaimTx, Sends, At
<1> QED
  BY <1>2, <1>3, <1>4

(***************************************************************************)
(* A confirmation concludes, or turns to the fallback.                     *)
(***************************************************************************)
LEMMA ConfirmSteps ==
    ASSUME TypeInv, NEW r \in Requests, ConfirmSubmittedTx(r) \/ ConfirmFallback(r)
    PROVE  Concludes(r) \/ Quiet(r)
<1>1. UNCHANGED <<nonce, inited, balance, seed, pool, committed, upgraded, sinceUpgrade, gate,
                  refresh_lock, previews, tokens, orphans, sent, outside, faults>>
  BY DEF ConfirmSubmittedTx, ConfirmFallback, NoFault, chain, clock, gating
<1>2. Confirming(r) /\ req[r].tx \in sent
  BY DEF ConfirmSubmittedTx, ConfirmFallback, At, Confirming, TypeInv, AwaitsSent
<1>3. CASE req[r].pc = "hash" /\ Walks(r, "fallback") /\ UNCHANGED <<locks, loose>>
  <2>1. Rests
    BY <1>1, <1>3 DEF Rests, TypeInv, TypeOK
  <2>2. UNCHANGED <<signed_write_lock, claim_lock>>
    BY <1>3 DEF locks
  <2> QED
    BY <1>3, <2>1, <2>2 DEF Quiet, Plain, From, Walked, Walks, MovesTo
<1>4. CASE ConfirmSubmittedTx(r)
  <2>1. req[r].pc = "hash"
    BY <1>4 DEF ConfirmSubmittedTx, At
  <2> QED
    BY <1>1, <1>2, <1>3, <1>4, <2>1, ConfirmMoves DEF Concludes
<1>5. CASE ConfirmFallback(r)
  BY <1>1, <1>2, <1>5, ConfirmMoves DEF Concludes
<1> QED
  BY <1>4, <1>5

(***************************************************************************)
(* A dropped call runs on where it is, or ends.                            *)
(***************************************************************************)
LEMMA DropSteps ==
    ASSUME TypeInv, NEW r \in Requests, DropRequest(r)
    PROVE  Drops(r)
<1>0. TypeOK /\ orphans \in Nat
  BY DEF TypeInv, TypeOK
<1>1. /\ orphans' \in Nat
      /\ UNCHANGED <<nonce, inited, balance, seed, pool, committed, upgraded, sinceUpgrade, gate,
                     previews, tokens, sent, loose, outside, faults>>
  BY <1>0 DEF DropRequest, chain, clock
<1> QED
  BY <1>0, <1>1, DropMoves DEF Drops, locks

(***************************************************************************)
(* Every step is one of these.                                             *)
(***************************************************************************)
LEMMA NextSteps ==
    ASSUME TypeInv, [Next]_vars
    PROVE  \/ \E r \in Requests : \/ Quiet(r) \/ Gating(r) \/ Sends(r) \/ Concludes(r)
                                  \/ Drops(r) \/ Preview(r)
           \/ \E t \in pool : Execute(t)
           \/ OrphanStops \/ OutsideClaim \/ Upgrade \/ Tick
           \/ UNCHANGED vars
<1>1. ASSUME NEW r \in Requests, Preview(r) \/ Step(r) \/ ReadFails(r) \/ DropRequest(r)
      PROVE  \/ Quiet(r) \/ Gating(r) \/ Sends(r) \/ Concludes(r) \/ Drops(r) \/ Preview(r)
  BY <1>1, TransferSteps, ClaimSteps, OtherSteps, SendSteps, ConfirmSteps, DropSteps DEF Step
<1> QED
  BY <1>1 DEF Next

(***************************************************************************)
(* The steps at the gate, by what becomes of the flight.                   *)
(***************************************************************************)
Passes(r) ==
    /\ req[r].pc \in Gates /\ gate_is_fresh /\ MovesTo(r, AfterGate(r), "no")
    /\ UNCHANGED <<gate, refresh_lock, signed_write_lock, claim_lock>>
Queues(r) ==
    /\ \/ req[r].pc \in Gates /\ MovesTo(r, req[r].pc, "queued")
       \/ req[r].pc = "idle" /\ req[r].call.tool = "fingerprint" /\ MovesTo(r, "f_lock", "queued")
    /\ UNCHANGED <<gate, refresh_lock, signed_write_lock, claim_lock>>
Flies(r) ==
    /\ \/ /\ req[r].flight = "queued" /\ MovesTo(r, req[r].pc, "run")
          /\ refresh_lock = Free /\ refresh_lock' = r
       \/ /\ req[r].flight = "run" /\ UNCHANGED refresh_lock
          /\ \/ MovesTo(r, req[r].pc, "unverified")
             \/ upgraded /\ MovesTo(r, req[r].pc, "mismatch")
             \/ ~upgraded /\ MovesTo(r, req[r].pc, "verified")
    /\ UNCHANGED <<gate, signed_write_lock, claim_lock>>
Lands(r) ==
    /\ req[r].flight \in Answers
    /\ gate' = [verdict |-> req[r].flight, age |-> 0]
    /\ refresh_lock' = Unlock(refresh_lock, r)
    /\ \/ /\ req[r].pc \in Gates /\ req[r].flight = "verified"
          /\ MovesTo(r, AfterGate(r), "no") /\ UNCHANGED <<signed_write_lock, claim_lock>>
       \/ MovesTo(r, "done", "no") /\ Released(r)
Gated(r) ==
    /\ Passes(r) \/ Queues(r) \/ Flies(r) \/ Lands(r)
    /\ faults' \in Nat
    /\ UNCHANGED <<nonce, inited, balance, seed, pool, committed, upgraded, sinceUpgrade,
                   previews, tokens, orphans, sent, loose, outside>>

(***************************************************************************)
(* The five actions of the gate, in this form.                             *)
(***************************************************************************)
LEMMA GateSteps ==
    ASSUME TypeInv, NEW r \in Requests, Gating(r)
    PROVE  Gated(r)
<1>0. TypeOK /\ faults \in Nat
  BY DEF TypeInv, TypeOK
<1>1. CASE EnsureFreshWriteGate(r)
  <2>1. /\ faults' \in Nat
        /\ UNCHANGED <<nonce, inited, balance, seed, pool, committed, upgraded, sinceUpgrade,
                       gate, refresh_lock, signed_write_lock, claim_lock,
                       previews, tokens, orphans, sent, loose, outside>>
    BY <1>0, <1>1 DEF EnsureFreshWriteGate, Quietly, NoFault, chain, clock, gating, locks
  <2>2. req[r].pc \in Gates
    BY <1>1 DEF EnsureFreshWriteGate
  <2> QED
    BY <1>0, <1>1, <2>1, <2>2, GatingMoves DEF Gated, Passes, Queues
<1>2. CASE TakeFlight(r)
  <2>1. /\ faults' \in Nat
        /\ UNCHANGED <<nonce, inited, balance, seed, pool, committed, upgraded, sinceUpgrade,
                       gate, signed_write_lock, claim_lock,
                       previews, tokens, orphans, sent, loose, outside>>
    BY <1>0, <1>2 DEF TakeFlight, NoFault, chain, clock, locks
  <2>2. req[r].flight = "queued"
    BY <1>2 DEF TakeFlight
  <2> QED
    BY <1>0, <1>2, <2>1, <2>2, GatingMoves DEF Gated, Passes, Flies
<1>3. CASE RunFingerprint(r)
  <2>1. /\ faults' \in Nat
        /\ UNCHANGED <<nonce, inited, balance, seed, pool, committed, upgraded, sinceUpgrade,
                       gate, refresh_lock, signed_write_lock, claim_lock,
                       previews, tokens, orphans, sent, loose, outside>>
    BY <1>0, <1>3 DEF RunFingerprint, NoFault, Fault, chain, clock, gating, locks
  <2>2. PICK v \in Answers : /\ v = "mismatch" => upgraded
                             /\ v = "verified" => ~upgraded
                             /\ req' = [req EXCEPT ![r].flight = v]
    BY <1>3 DEF RunFingerprint, Answers
  <2>3. v \in Flights /\ req' = [req EXCEPT ![r] = [@ EXCEPT !.flight = v]]
    BY <2>2 DEF Flights, Answers
  <2>4. MovesTo(r, req[r].pc, v) /\ req[r].flight = "run"
    BY <1>0, <1>3, <2>3, FlightMoves DEF RunFingerprint
  <2> QED
    BY <2>1, <2>2, <2>4 DEF Gated, Flies, Answers
<1>4. CASE StoreGate(r)
  <2>1. /\ faults' \in Nat
        /\ UNCHANGED <<nonce, inited, balance, seed, pool, committed, upgraded, sinceUpgrade,
                       previews, tokens, orphans, sent, loose, outside>>
    BY <1>0, <1>4 DEF StoreGate, NoFault, chain, clock
  <2>2. /\ req[r].flight \in Answers
        /\ gate' = [verdict |-> req[r].flight, age |-> 0]
        /\ refresh_lock' = Unlock(refresh_lock, r)
    BY <1>4 DEF StoreGate, Answers
  <2> QED
    BY <1>0, <1>4, <2>1, <2>2, GatingMoves DEF Gated, Lands, locks
<1>5. CASE LezFingerprint(r)
  <2>1. /\ faults' \in Nat
        /\ UNCHANGED <<nonce, inited, balance, seed, pool, committed, upgraded, sinceUpgrade,
                       gate, refresh_lock, signed_write_lock, claim_lock,
                       previews, tokens, orphans, sent, loose, outside>>
    BY <1>0, <1>5 DEF LezFingerprint, Quietly, NoFault, chain, clock, gating, locks
  <2>2. req[r].pc = "idle" /\ req[r].call.tool = "fingerprint"
    BY <1>5 DEF LezFingerprint, At
  <2> QED
    BY <1>0, <1>5, <2>1, <2>2, GatingMoves DEF Gated, Queues
<1> QED
  BY <1>1, <1>2, <1>3, <1>4, <1>5 DEF Gating

-----------------------------------------------------------------------------
(***************************************************************************)
(* Every variable keeps its type, and a call confirms what it sent.        *)
(***************************************************************************)
LEMMA InitTyped == Init => TypeInv
<1> SUFFICES ASSUME Init PROVE TypeInv
  OBVIOUS
<1>1. PICK w \in Workloads : req = [r \in Requests |-> NewRequest(w[r])]
  BY DEF Init
<1>2. \A r \in Requests : w[r] \in Call
  BY McpAssumption
<1>3. ASSUME NEW c \in Call
      PROVE  NewRequest(c) \in Request /\ NewRequest(c).pc = "idle"
  BY PlaceNames DEF NewRequest, Request, Flights
<1>4. req \in [Requests -> Request] /\ \A r \in Requests : req[r].pc = "idle"
  BY <1>1, <1>2, <1>3
<1>5. gate \in [verdict : {"verified", "mismatch", "unverified"}, age : 0..FINGERPRINT_TTL]
  BY McpAssumption DEF Init
<1>6. inited \in BOOLEAN /\ upgraded \in BOOLEAN
  BY Zenon DEF Init
<1>7. /\ nonce \in Nat /\ balance \in Nat /\ seed \in Nat
      /\ sinceUpgrade \in 0..FINGERPRINT_TTL
      /\ orphans \in Nat /\ outside \in Nat /\ faults \in Nat
  BY McpAssumption DEF Init
<1>8. /\ pool \subseteq Tx /\ committed \subseteq Tx /\ loose \subseteq Tx /\ sent \subseteq Tx
      /\ refresh_lock \in Requests \cup {Free} /\ signed_write_lock \in Requests \cup {Free}
      /\ claim_lock \in Requests \cup {Free}
      /\ previews \subseteq Requests /\ tokens \subseteq previews
  BY DEF Init
<1>9. TypeOK
  BY <1>4, <1>5, <1>6, <1>7, <1>8 DEF TypeOK
<1>10. AwaitsSent
  BY <1>4 DEF AwaitsSent, Confirming
<1> QED
  BY <1>9, <1>10 DEF TypeInv

(***************************************************************************)
(* A step of a call leaves every other call what it awaits.                *)
(***************************************************************************)
LEMMA StillAwaits ==
    ASSUME TypeInv, NEW r \in Requests, Others(r), sent \subseteq sent',
           Confirming(r)' => req'[r].tx \in sent'
    PROVE  AwaitsSent'
BY DEF TypeInv, AwaitsSent, Confirming, Others

(***************************************************************************)
(* A released lock is free or held by a call.                              *)
(***************************************************************************)
LEMMA LocksTyped ==
    ASSUME TypeOK, NEW r \in Requests, Released(r)
    PROVE  signed_write_lock' \in Requests \cup {Free} /\ claim_lock' \in Requests \cup {Free}
BY DEF TypeOK, Released

(***************************************************************************)
(* Every step keeps the types, one case for each form of step.             *)
(***************************************************************************)
LEMMA NextTyped == TypeInv /\ [Next]_vars => TypeInv'
<1> SUFFICES ASSUME TypeInv, [Next]_vars PROVE TypeInv'
  OBVIOUS
<1>0. TypeOK /\ AwaitsSent
  BY DEF TypeInv
<1> DEFINE GateType == [verdict : {"verified", "mismatch", "unverified"}, age : 0..FINGERPRINT_TTL]
<1>t. /\ nonce \in Nat /\ inited \in BOOLEAN /\ balance \in Nat /\ seed \in Nat
      /\ pool \subseteq Tx /\ committed \subseteq Tx /\ loose \subseteq Tx /\ sent \subseteq Tx
      /\ upgraded \in BOOLEAN /\ sinceUpgrade \in 0..FINGERPRINT_TTL
      /\ gate \in GateType
      /\ refresh_lock \in Requests \cup {Free} /\ signed_write_lock \in Requests \cup {Free}
      /\ claim_lock \in Requests \cup {Free}
      /\ previews \subseteq Requests /\ tokens \subseteq previews
      /\ orphans \in Nat /\ outside \in Nat /\ faults \in Nat
      /\ req \in [Requests -> Request]
  BY <1>0 DEF TypeOK
<1> HIDE DEF GateType
<1>1. ASSUME NEW r \in Requests, Quiet(r) PROVE TypeInv'
  <2>1. Others(r)
    BY <1>1 DEF Quiet, Plain, Takes, Stops, Frees, Notes, Walked, Moves, NonceRead, SeedRead,
       BalanceRead
  <2>2. signed_write_lock' \in Requests \cup {Free} /\ claim_lock' \in Requests \cup {Free}
    BY <1>0, <1>1, <1>t, LocksTyped DEF Quiet, Plain, Takes, Stops, Frees, Notes, Unlock
  <2>3. inited' \in BOOLEAN /\ upgraded' \in BOOLEAN
    BY <1>1, <1>t, Zenon DEF Quiet, Rests
  <2>4. TypeOK'
    BY <1>1, <1>t, <2>1, <2>2, <2>3 DEF TypeOK, Quiet, Rests, Others, GateType
  <2>5. Confirming(r)' => req'[r].tx \in sent'
    BY <1>0, <1>1 DEF Quiet, Rests, Plain, Takes, Stops, Frees, Notes, From, Walked, Moves, Kept,
       NonceRead, SeedRead, BalanceRead, Confirming, AwaitsSent
  <2>6. AwaitsSent'
    BY <1>1, <2>1, <2>5, StillAwaits DEF Quiet, Rests
  <2> QED
    BY <2>4, <2>6 DEF TypeInv
<1>2. ASSUME NEW r \in Requests, Gated(r) PROVE TypeInv'
  <2>1. Others(r)
    BY <1>2 DEF Gated, Passes, Queues, Flies, Lands, MovesTo, Moves
  <2>2. signed_write_lock' \in Requests \cup {Free} /\ claim_lock' \in Requests \cup {Free}
    BY <1>0, <1>2, <1>t, LocksTyped DEF Gated, Passes, Queues, Flies, Lands
  <2>3. inited' \in BOOLEAN /\ upgraded' \in BOOLEAN
    BY <1>2, <1>t, Zenon DEF Gated
  <2>4. refresh_lock' \in Requests \cup {Free}
    BY <1>2, <1>t DEF Gated, Passes, Queues, Flies, Lands, Unlock
  <2>5. gate' \in GateType
    <3>1. CASE gate' = gate
      BY <1>t, <3>1
    <3>2. CASE Lands(r)
      BY <3>2, McpAssumption DEF Lands, Answers, GateType
    <3> QED
      BY <1>2, <3>1, <3>2 DEF Gated, Passes, Queues, Flies
  <2>6. TypeOK'
    BY <1>2, <1>t, <2>1, <2>2, <2>3, <2>4, <2>5 DEF TypeOK, Gated, Others, GateType
  <2>7. Confirming(r)' => req'[r].tx \in sent'
    <3>1. req[r].pc \in Gates => AfterGate(r) \notin {"hash", "fallback"}
      BY AfterGateType
    <3> QED
      BY <1>0, <1>2, <3>1 DEF Gated, Passes, Queues, Flies, Lands, MovesTo, Moves, Kept, Confirming,
         AwaitsSent
  <2>8. AwaitsSent'
    BY <1>2, <2>1, <2>7, StillAwaits DEF Gated
  <2> QED
    BY <2>6, <2>8 DEF TypeInv
<1>3. ASSUME NEW r \in Requests, Sends(r) PROVE TypeInv'
  <2>1. PICK t \in Tx : SendOutcome(r, t)
    <3>1. req[r] \in Request
      BY <1>t
    <3>2. InitTx(r) \in Tx /\ TransferTx(r) \in Tx /\ ClaimTx(req[r].seed) \in Tx
      BY <1>t, <3>1 DEF InitTx, TransferTx, ClaimTx, Tx, Request, Call
    <3> QED
      BY <1>3, <3>2 DEF Sends
  <2>2. Others(r)
    BY <2>1 DEF SendOutcome, HasSent, Walks, MovesTo, Moves
  <2>3. signed_write_lock' \in Requests \cup {Free} /\ claim_lock' \in Requests \cup {Free}
    BY <1>0, <2>1, <1>t, LocksTyped DEF SendOutcome, locks
  <2>4. inited' \in BOOLEAN /\ upgraded' \in BOOLEAN
    BY <2>1, <1>t, Zenon DEF SendOutcome, clock
  <2>5. pool' \subseteq Tx /\ sent' \subseteq Tx /\ loose' \subseteq Tx
    BY <1>t, <2>1 DEF SendOutcome
  <2>6. TypeOK'
    BY <2>1, <1>t, <2>2, <2>3, <2>4, <2>5 DEF TypeOK, SendOutcome, Others, GateType, clock, gating
  <2>7. Confirming(r)' => req'[r].tx \in sent'
    BY <2>1 DEF SendOutcome, HasSent, Walks, MovesTo, Confirming
  <2>8. AwaitsSent'
    BY <2>1, <2>2, <2>7, StillAwaits DEF SendOutcome
  <2> QED
    BY <2>6, <2>8 DEF TypeInv
<1>4. ASSUME NEW r \in Requests, Concludes(r) PROVE TypeInv'
  <2>1. Others(r) /\ ~Confirming(r)'
    BY <1>4 DEF Concludes, GoesOn, GivesUp, Learns, Confirming
  <2>2. signed_write_lock' \in Requests \cup {Free} /\ claim_lock' \in Requests \cup {Free}
    BY <1>0, <1>4, <1>t, LocksTyped DEF Concludes, GoesOn, GivesUp, locks
  <2>3. inited' \in BOOLEAN /\ upgraded' \in BOOLEAN
    BY <1>4, <1>t, Zenon DEF Concludes
  <2>4. loose' \subseteq Tx
    BY <1>4, <1>t DEF Concludes, GoesOn, GivesUp
  <2>5. TypeOK'
    BY <1>4, <1>t, <2>1, <2>2, <2>3, <2>4 DEF TypeOK, Concludes, Others, GateType
  <2>6. AwaitsSent'
    BY <1>4, <2>1, StillAwaits DEF Concludes
  <2> QED
    BY <2>5, <2>6 DEF TypeInv
<1>5. ASSUME NEW r \in Requests, Drops(r) PROVE TypeInv'
  <2>1. Others(r)
    BY <1>5 DEF Drops, MovesTo, Moves
  <2>2. /\ signed_write_lock' \in Requests \cup {Free} /\ claim_lock' \in Requests \cup {Free}
        /\ refresh_lock' \in Requests \cup {Free}
    BY <1>0, <1>5, <1>t, LocksTyped DEF Drops, Unlock
  <2>3. inited' \in BOOLEAN /\ upgraded' \in BOOLEAN
    BY <1>5, <1>t, Zenon DEF Drops
  <2>4. TypeOK'
    BY <1>5, <1>t, <2>1, <2>2, <2>3 DEF TypeOK, Drops, Others, GateType
  <2>5. Confirming(r)' => req'[r].tx \in sent'
    BY <1>0, <1>5 DEF Drops, MovesTo, Moves, Kept, Confirming, AwaitsSent
  <2>6. AwaitsSent'
    BY <1>5, <2>1, <2>5, StillAwaits DEF Drops
  <2> QED
    BY <2>4, <2>6 DEF TypeInv
<1>6. ASSUME req' = req, sent' = sent PROVE AwaitsSent'
  BY <1>0, <1>6 DEF AwaitsSent, Confirming
<1>7. ASSUME NEW r \in Requests, Preview(r) PROVE TypeInv'
  <2>1. inited' \in BOOLEAN /\ upgraded' \in BOOLEAN
    BY <1>7, <1>t, Zenon DEF Preview, chain, clock
  <2>2. TypeOK'
    BY <1>7, <1>t, <2>1 DEF TypeOK, Preview, chain, clock, gating, locks, GateType
  <2>3. req' = req /\ sent' = sent
    BY <1>7 DEF Preview
  <2> QED
    BY <1>6, <2>2, <2>3 DEF TypeInv
<1>8. ASSUME NEW t \in pool, Execute(t) PROVE TypeInv'
  <2>1. inited' \in BOOLEAN
    BY <1>8, <1>t, Zenon DEF Execute
  <2>2. upgraded' \in BOOLEAN
    BY <1>8, <1>t, Zenon DEF Execute, clock
  <2>3. t \in Tx
    BY <1>t
  <2>4. nonce' \in Nat /\ seed' \in Nat /\ balance' \in Nat
    <3>1. t.op \in {"init", "transfer", "claim"} /\ t.amount \in Nat
      BY <2>3 DEF Tx
    <3>2. CASE Valid(t) /\ t.op = "transfer"
      <4>1. t.amount <= balance
        BY <3>2 DEF Valid
      <4>2. balance' = balance - t.amount /\ seed' = seed
        BY <1>8, <3>2 DEF Execute
      <4>3. nonce' \in {nonce, nonce + 1}
        BY <1>8, <3>2 DEF Execute
      <4> QED
        BY <1>t, <3>1, <4>1, <4>2, <4>3
    <3>3. CASE ~(Valid(t) /\ t.op = "transfer")
      BY <1>8, <1>t, <3>1, <3>3, McpAssumption DEF Execute
    <3> QED
      BY <3>2, <3>3
  <2>5. pool' \subseteq Tx /\ committed' \subseteq Tx
    BY <1>8, <1>t, <2>3 DEF Execute
  <2>6. TypeOK'
    BY <1>8, <1>t, <2>1, <2>2, <2>4, <2>5 DEF TypeOK, Execute, clock, gating, locks, GateType
  <2>7. req' = req /\ sent' = sent
    BY <1>8 DEF Execute
  <2> QED
    BY <1>6, <2>6, <2>7 DEF TypeInv
<1>9. ASSUME OrphanStops \/ OutsideClaim PROVE TypeInv'
  <2>1. inited' \in BOOLEAN /\ upgraded' \in BOOLEAN
    BY <1>9, <1>t, Zenon DEF OrphanStops, OutsideClaim, chain, clock
  <2>2. TypeOK'
    BY <1>9, <1>t, <2>1 DEF TypeOK, OrphanStops, OutsideClaim, chain, clock, gating, locks, GateType
  <2>3. req' = req /\ sent' = sent
    BY <1>9 DEF OrphanStops, OutsideClaim
  <2> QED
    BY <1>6, <2>2, <2>3 DEF TypeInv
<1>10. ASSUME Upgrade \/ Tick \/ UNCHANGED vars PROVE TypeInv'
  <2>1. inited' \in BOOLEAN /\ upgraded' \in BOOLEAN
    BY <1>10, <1>t, Zenon DEF Upgrade, Tick, vars, chain, clock
  <2>2. sinceUpgrade' \in 0..FINGERPRINT_TTL
    BY <1>10, <1>t, McpAssumption DEF Upgrade, Tick, vars, clock, Older
  <2>3. gate' \in GateType
    BY <1>10, <1>t, McpAssumption DEF Upgrade, Tick, vars, gating, Older, GateType
  <2>4. TypeOK'
    BY <1>10, <1>t, <2>1, <2>2, <2>3
       DEF TypeOK, Upgrade, Tick, vars, chain, clock, gating, locks, GateType
  <2>5. req' = req /\ sent' = sent
    BY <1>10 DEF Upgrade, Tick, vars
  <2> QED
    BY <1>6, <2>4, <2>5 DEF TypeInv
<1> QED
  BY <1>1, <1>2, <1>3, <1>4, <1>5, <1>7, <1>8, <1>9, <1>10, NextSteps, GateSteps

(***************************************************************************)
(* Every variable has its type, whatever is called, dropped or lost.       *)
(***************************************************************************)
THEOREM TypeCorrect == Spec => []TypeOK
<1>1. TypeInv => TypeOK
  BY DEF TypeInv
<1> QED
  BY <1>1, InitTyped, NextTyped, PTL DEF Spec

-----------------------------------------------------------------------------
(***************************************************************************)
(* The gate: a step that leaves it alone, by a call that waits for none.   *)
(***************************************************************************)
Onward(r) ==
    /\ Others(r) /\ req[r].flight = "no" /\ req'[r].flight = "no"
    /\ req'[r].pc \in Cleared => req[r].pc \in Cleared
    /\ UNCHANGED <<upgraded, sinceUpgrade, gate, refresh_lock>>

(***************************************************************************)
(* Such a step keeps what is known of the gate.                            *)
(***************************************************************************)
LEMMA OnwardKeeps ==
    ASSUME GateInv, NEW r \in Requests, Onward(r)
    PROVE  OneFlight' /\ VerdictsDated' /\ ClearedInTime'
<1>1. OneFlight'
  BY DEF GateInv, Onward, Others, OneFlight, Answers
<1>2. VerdictsDated'
  BY DEF GateInv, Onward, Others, VerdictsDated
<1>3. ClearedInTime'
  BY DEF GateInv, Onward, Others, ClearedInTime
<1> QED
  BY <1>1, <1>2, <1>3

(***************************************************************************)
(* Quiet steps, sends and conclusions are such steps.                      *)
(***************************************************************************)
LEMMA OnwardSteps ==
    ASSUME GateInv, NEW r \in Requests, Quiet(r) \/ Sends(r) \/ Concludes(r)
    PROVE  Onward(r)
<1>0. req[r].pc \notin Gates \cup {"f_lock"} => req[r].flight = "no"
  BY DEF GateInv, OneFlight
<1>1. CASE Quiet(r)
  <2>1. /\ Others(r) /\ req'[r].flight = req[r].flight
        /\ UNCHANGED <<upgraded, sinceUpgrade, gate, refresh_lock>>
    BY <1>1 DEF Quiet, Rests, Plain, Takes, Stops, Frees, Notes, Walked, Moves, NonceRead,
       SeedRead, BalanceRead
  <2>2. req[r].pc \notin Gates \cup {"f_lock"}
    BY <1>1 DEF Quiet, Plain, Takes, Stops, Frees, Notes, From, Gates
  <2>3. req'[r].pc \in Cleared => req[r].pc \in Cleared
    BY <1>1 DEF Quiet, Plain, Takes, Stops, Frees, Notes, From, Cleared, NonceRead, SeedRead,
       BalanceRead
  <2> QED
    BY <1>0, <2>1, <2>2, <2>3 DEF Onward
<1>2. CASE Sends(r)
  <2>1. req[r].pc \in Cleared /\ req[r].pc \notin Gates \cup {"f_lock"}
    BY <1>2 DEF Sends, Cleared, Gates
  <2>2. PICK t : SendOutcome(r, t)
    BY <1>2 DEF Sends
  <2>3. /\ Others(r) /\ req'[r].flight = req[r].flight
        /\ UNCHANGED <<upgraded, sinceUpgrade, gate, refresh_lock>>
    BY <2>2 DEF SendOutcome, HasSent, Walks, MovesTo, Moves, clock, gating
  <2> QED
    BY <1>0, <2>1, <2>3 DEF Onward
<1>3. CASE Concludes(r)
  <2>1. req[r].pc \notin Gates \cup {"f_lock"}
    BY <1>3 DEF Concludes, Confirming, Gates
  <2>2. /\ Others(r) /\ req'[r].flight = req[r].flight /\ req'[r].pc \notin Cleared
        /\ UNCHANGED <<upgraded, sinceUpgrade, gate, refresh_lock>>
    BY <1>3 DEF Concludes, GoesOn, GivesUp, Learns, Cleared
  <2> QED
    BY <1>0, <2>1, <2>2 DEF Onward
<1> QED
  BY <1>1, <1>2, <1>3

(***************************************************************************)
(* The steps at the gate: an answer in flight belongs to the one call that *)
(* holds refresh_lock, so what lands is never older than what it replaces; *)
(* and no time passes between an answer and its landing.                   *)
(***************************************************************************)
LEMMA GatedKeeps ==
    ASSUME GateInv, NEW r \in Requests, Gated(r)
    PROVE  OneFlight' /\ VerdictsDated' /\ ClearedInTime'
<1>0. /\ FINGERPRINT_TTL \in Nat \ {0} /\ sinceUpgrade \in Nat /\ gate.age \in Nat
      /\ Free \notin Requests
  BY McpAssumption DEF GateInv, TypeInv, TypeOK
<1>1. UNCHANGED <<upgraded, sinceUpgrade>>
  BY DEF Gated
<1>2. CASE Passes(r)
  <2>1. sinceUpgrade < FINGERPRINT_TTL
    BY <1>0, <1>2 DEF GateInv, VerdictsDated, Passes, gate_is_fresh
  <2>2. Others(r) /\ req'[r].flight = "no" /\ UNCHANGED <<gate, refresh_lock>>
    BY <1>2 DEF Passes, MovesTo, Moves
  <2>3. OneFlight'
    BY <2>2 DEF GateInv, OneFlight, Others, Answers
  <2>4. VerdictsDated'
    BY <1>1, <2>2 DEF GateInv, VerdictsDated, Others
  <2>5. ClearedInTime'
    BY <1>1, <2>1, <2>2 DEF ClearedInTime
  <2> QED
    BY <2>3, <2>4, <2>5
<1>3. CASE Queues(r)
  <2>1. /\ Others(r) /\ req'[r].flight = "queued" /\ req'[r].pc \in Gates \cup {"f_lock"}
        /\ UNCHANGED <<gate, refresh_lock>>
    BY <1>3 DEF Queues, MovesTo, Moves
  <2>2. OneFlight'
    BY <2>1 DEF GateInv, OneFlight, Others, Answers
  <2>3. VerdictsDated'
    BY <1>1, <2>1 DEF GateInv, VerdictsDated, Others
  <2>4. ClearedInTime'
    BY <1>1, <2>1 DEF GateInv, ClearedInTime, Others, Cleared, Gates
  <2> QED
    BY <2>2, <2>3, <2>4
<1>4. CASE Flies(r)
  <2>1. /\ Others(r) /\ req'[r].pc = req[r].pc /\ req[r].pc \in Gates \cup {"f_lock"}
        /\ UNCHANGED gate
    BY <1>4 DEF GateInv, OneFlight, Flies, MovesTo, Moves
  <2>2. OneFlight'
    <3>1. CASE req[r].flight = "queued" /\ refresh_lock = Free /\ refresh_lock' = r
      BY <1>0, <2>1, <3>1 DEF GateInv, OneFlight, Others
    <3>2. CASE req[r].flight = "run" /\ UNCHANGED refresh_lock
      BY <2>1, <3>2 DEF GateInv, OneFlight, Others
    <3> QED
      BY <1>4, <3>1, <3>2 DEF Flies
  <2>3. VerdictsDated'
    <3>1. /\ req'[r].flight = "verified" => ~upgraded
          /\ req'[r].flight = "mismatch" => upgraded
      BY <1>4 DEF Flies, MovesTo
    <3> QED
      BY <1>1, <2>1, <3>1 DEF GateInv, VerdictsDated, Others
  <2>4. ClearedInTime'
    BY <1>1, <2>1 DEF GateInv, ClearedInTime, Others
  <2> QED
    BY <2>2, <2>3, <2>4
<1>5. CASE Lands(r)
  <2>1. /\ Others(r) /\ req'[r].flight = "no" /\ refresh_lock = r /\ refresh_lock' = Free
    BY <1>5 DEF Lands, MovesTo, Moves, GateInv, OneFlight, Unlock
  <2>2. \A q \in Requests \ {r} : req[q].flight \notin {"run"} \cup Answers
    BY <2>1 DEF GateInv, OneFlight
  <2>3. OneFlight'
    BY <2>1, <2>2 DEF GateInv, OneFlight, Others, Answers
  <2>4. gate'.verdict = req[r].flight /\ gate'.age = 0
    BY <1>5 DEF Lands
  <2>5. VerdictsDated'
    BY <1>0, <1>1, <2>1, <2>2, <2>4 DEF GateInv, VerdictsDated, Others, Answers
  <2>6. req'[r].pc \in Cleared => sinceUpgrade = 0
    BY <1>5 DEF Lands, MovesTo, Cleared, GateInv, VerdictsDated
  <2>7. ClearedInTime'
    BY <1>0, <1>1, <2>1, <2>6 DEF GateInv, ClearedInTime, Others
  <2> QED
    BY <2>3, <2>5, <2>7
<1> QED
  BY <1>2, <1>3, <1>4, <1>5 DEF Gated

(***************************************************************************)
(* At the start no call is under way and no verdict is a mismatch.         *)
(***************************************************************************)
LEMMA InitGate == Init => GateInv
<1> SUFFICES ASSUME Init PROVE GateInv
  OBVIOUS
<1>1. TypeInv
  BY InitTyped
<1>2. PICK w \in Workloads : req = [r \in Requests |-> NewRequest(w[r])]
  BY DEF Init
<1>3. \A r \in Requests : req[r].pc = "idle" /\ req[r].flight = "no"
  BY <1>2 DEF NewRequest
<1> QED
  BY <1>1, <1>3, McpAssumption
     DEF GateInv, OneFlight, VerdictsDated, ClearedInTime, Cleared, Answers, Init

(***************************************************************************)
(* Every step keeps what is known of the gate. Tick needs that a call past *)
(* the gate, or with an answer in flight, holds time back.                 *)
(***************************************************************************)
LEMMA NextGate == GateInv /\ [Next]_vars => GateInv'
<1> SUFFICES ASSUME GateInv, [Next]_vars PROVE GateInv'
  OBVIOUS
<1>0. TypeInv /\ TypeInv'
  BY NextTyped DEF GateInv
<1>1. ASSUME NEW r \in Requests, Quiet(r) \/ Sends(r) \/ Concludes(r)
      PROVE  OneFlight' /\ VerdictsDated' /\ ClearedInTime'
  BY <1>1, OnwardSteps, OnwardKeeps
<1>2. ASSUME NEW r \in Requests, Gating(r)
      PROVE  OneFlight' /\ VerdictsDated' /\ ClearedInTime'
  BY <1>0, <1>2, GateSteps, GatedKeeps
<1>3. ASSUME NEW r \in Requests, Drops(r)
      PROVE  OneFlight' /\ VerdictsDated' /\ ClearedInTime'
  <2>1. Others(r) /\ UNCHANGED <<upgraded, sinceUpgrade, gate>>
    BY <1>3 DEF Drops, MovesTo, Moves
  <2>2. CASE /\ req'[r].pc = req[r].pc /\ req'[r].flight = req[r].flight
             /\ UNCHANGED refresh_lock
    BY <2>1, <2>2 DEF GateInv, OneFlight, VerdictsDated, ClearedInTime, Others
  <2>3. CASE /\ req'[r].pc = "done" /\ req'[r].flight = "no"
             /\ refresh_lock' = Unlock(refresh_lock, r)
    <3>1. OneFlight'
      BY <2>1, <2>3 DEF GateInv, OneFlight, Others, Answers, Unlock
    <3>2. VerdictsDated' /\ ClearedInTime'
      BY <2>1, <2>3 DEF GateInv, VerdictsDated, ClearedInTime, Others, Cleared
    <3> QED
      BY <3>1, <3>2
  <2> QED
    BY <1>3, <2>2, <2>3 DEF Drops, MovesTo
<1>4. ASSUME req' = req, UNCHANGED <<upgraded, sinceUpgrade, gate, refresh_lock>>
      PROVE  OneFlight' /\ VerdictsDated' /\ ClearedInTime'
  BY <1>4 DEF GateInv, OneFlight, VerdictsDated, ClearedInTime
<1>5. ASSUME NEW r \in Requests, Preview(r)
      PROVE  OneFlight' /\ VerdictsDated' /\ ClearedInTime'
  BY <1>4, <1>5 DEF Preview, clock, gating
<1>6. ASSUME NEW t \in pool, Execute(t)
      PROVE  OneFlight' /\ VerdictsDated' /\ ClearedInTime'
  BY <1>4, <1>6 DEF Execute, clock, gating
<1>7. ASSUME OrphanStops \/ OutsideClaim \/ UNCHANGED vars
      PROVE  OneFlight' /\ VerdictsDated' /\ ClearedInTime'
  BY <1>4, <1>7 DEF OrphanStops, OutsideClaim, clock, gating, vars
<1>8. ASSUME Upgrade PROVE OneFlight' /\ VerdictsDated' /\ ClearedInTime'
  BY <1>8 DEF Upgrade, gating, GateInv, OneFlight, VerdictsDated, ClearedInTime
<1>9. ASSUME Tick PROVE OneFlight' /\ VerdictsDated' /\ ClearedInTime'
  <2>1. req' = req /\ UNCHANGED <<upgraded, refresh_lock>>
    BY <1>9 DEF Tick
  <2>2. \A r \in Requests : req[r].flight \in {"no", "queued"} /\ req[r].pc \notin Cleared
    BY <1>9 DEF Tick, GateInv, OneFlight, Long, Cleared, Gates
  <2>3. /\ sinceUpgrade \in 0..FINGERPRINT_TTL /\ gate.age \in 0..FINGERPRINT_TTL
        /\ FINGERPRINT_TTL \in Nat
    BY <1>0, McpAssumption DEF TypeInv, TypeOK
  <2>4. gate'.verdict = gate.verdict /\ gate'.age = Older(gate.age)
    BY <1>0, <1>9 DEF Tick, TypeInv, TypeOK
  <2>5. sinceUpgrade' = IF upgraded THEN Older(sinceUpgrade) ELSE 0
    BY <1>9 DEF Tick
  <2>6. sinceUpgrade <= gate.age => sinceUpgrade' <= gate'.age
    BY <2>3, <2>4, <2>5 DEF Older
  <2>7. VerdictsDated'
    BY <2>1, <2>2, <2>4, <2>5, <2>6 DEF GateInv, VerdictsDated
  <2> QED
    BY <2>1, <2>2, <2>7 DEF GateInv, OneFlight, ClearedInTime
<1> QED
  BY <1>0, <1>1, <1>2, <1>3, <1>5, <1>6, <1>7, <1>8, <1>9, NextSteps DEF GateInv

(***************************************************************************)
(* Nothing is sent on an obsolete fingerprint (NoStaleSend), however long  *)
(* the locks and the proofs of work take.                                  *)
(***************************************************************************)
THEOREM SendsAreCleared == Spec => NoStaleSend
<1>1. GateInv /\ [Next]_vars => [sent' # sent => sinceUpgrade < FINGERPRINT_TTL]_vars
  <2> SUFFICES ASSUME GateInv, [Next]_vars, sent' # sent
               PROVE  sinceUpgrade < FINGERPRINT_TTL
    OBVIOUS
  <2>1. PICK r \in Requests : Sends(r)
    <3>1. /\ \A r \in Requests : ~Quiet(r) /\ ~Gating(r) /\ ~Concludes(r) /\ ~Drops(r) /\ ~Preview(r)
          /\ \A t \in pool : ~Execute(t)
          /\ ~OrphanStops /\ ~OutsideClaim /\ ~Upgrade /\ ~Tick /\ ~UNCHANGED vars
      BY GateSteps
         DEF GateInv, Quiet, Rests, Gated, Concludes, Drops, Preview, Execute, OrphanStops,
         OutsideClaim, Upgrade, Tick, vars
    <3> QED
      BY <3>1, NextSteps DEF GateInv
  <2> QED
    BY <2>1 DEF Sends, GateInv, ClearedInTime, Cleared
<1> QED
  BY <1>1, InitGate, NextGate, PTL DEF Spec, NoStaleSend

(***************************************************************************)
(* No answer from before the upgrade replaces a mismatch (NoResurrection), *)
(* however many calls refresh the gate.                                    *)
(***************************************************************************)
THEOREM MismatchStays == Spec => NoResurrection
<1>1. GateInv /\ [Next]_vars => [gate.verdict = "mismatch" => gate'.verdict # "verified"]_vars
  <2> SUFFICES ASSUME GateInv, [Next]_vars, gate.verdict = "mismatch"
               PROVE  gate'.verdict # "verified"
    OBVIOUS
  <2>1. ASSUME NEW r \in Requests, Gating(r) PROVE gate'.verdict # "verified"
    <3>1. gate' = gate \/ Lands(r)
      BY <2>1, GateSteps DEF GateInv, Gated, Passes, Queues, Flies
    <3> QED
      BY <3>1 DEF Lands, GateInv, VerdictsDated
  <2>2. ASSUME Tick PROVE gate'.verdict # "verified"
    BY <2>2 DEF Tick, GateInv, TypeInv, TypeOK
  <2>3. ASSUME NEW r \in Requests, Sends(r) PROVE gate' = gate
    BY <2>3 DEF Sends, SendOutcome, gating
  <2>4. /\ \A r \in Requests : Quiet(r) \/ Concludes(r) \/ Drops(r) \/ Preview(r) => gate' = gate
        /\ \A t \in pool : Execute(t) => gate' = gate
        /\ OrphanStops \/ OutsideClaim \/ Upgrade \/ UNCHANGED vars => gate' = gate
    BY DEF Quiet, Rests, Concludes, Drops, Preview, Execute, OrphanStops, OutsideClaim, Upgrade,
       vars, gating
  <2> QED
    BY <2>1, <2>2, <2>3, <2>4, NextSteps DEF GateInv
<1> QED
  BY <1>1, InitGate, NextGate, PTL DEF Spec, NoResurrection

-----------------------------------------------------------------------------
(***************************************************************************)
(* The locks: a step takes one that is free or gives up its own, and what  *)
(* comes under a lock has it.                                              *)
(***************************************************************************)
Locked(r) ==
    /\ Others(r)
    /\ signed_write_lock' = signed_write_lock \/ signed_write_lock \in {r, Free}
    /\ claim_lock' = claim_lock \/ claim_lock \in {r, Free}
    /\ Signing(r)' => signed_write_lock' = r
    /\ ClaimHeld(r)' => claim_lock' = r

(***************************************************************************)
(* Such a step leaves every other call its locks.                          *)
(***************************************************************************)
LEMMA LockedKeeps ==
    ASSUME LocksHeld, NEW r \in Requests, Locked(r)
    PROVE  LocksHeld'
<1>0. Free \notin Requests
  BY McpAssumption
<1>1. ASSUME NEW q \in Requests \ {r}
      PROVE  /\ Signing(q)' => signed_write_lock' = q
             /\ ClaimHeld(q)' => claim_lock' = q
  <2>1. req'[q] = req[q]
    BY DEF Locked, Others
  <2>2. (Signing(q)' <=> Signing(q)) /\ (ClaimHeld(q)' <=> ClaimHeld(q))
    BY <2>1 DEF Signing, ClaimHeld, Solving, Confirming
  <2> QED
    BY <1>0, <2>2 DEF LocksHeld, Locked
<1> QED
  BY <1>1 DEF LocksHeld, Locked

(***************************************************************************)
(* Where each gate leads.                                                  *)
(***************************************************************************)
LEMMA AfterGatePlaces ==
    ASSUME NEW r \in Requests, req[r].pc \in Gates
    PROVE  /\ req[r].pc = "c_gate" => AfterGate(r) = "c_exists"
           /\ req[r].pc = "ci_gate" => AfterGate(r) = "i_read"
           /\ req[r].pc = "cs_gate" => AfterGate(r) = "c_submit"
           /\ req[r].pc = "t_gate" => AfterGate(r) = "t_checks"
           /\ req[r].pc = "t_gate2" => AfterGate(r) \in {"i_read", "t_gate3"}
           /\ req[r].pc = "t_gate3" => AfterGate(r) = "t_balance"
BY DEF AfterGate, Gates

(***************************************************************************)
(* Quiet steps take and give up locks this way.                            *)
(***************************************************************************)
LEMMA QuietLocks ==
    ASSUME LocksHeld, NEW r \in Requests, Quiet(r)
    PROVE  Locked(r)
<1>0. /\ Signing(r) => signed_write_lock = r
      /\ ClaimHeld(r) => claim_lock = r
  BY DEF LocksHeld
<1>1. CASE Plain(r)
  <2>1. Others(r) /\ UNCHANGED <<signed_write_lock, claim_lock>> /\ req'[r].tx = req[r].tx
    BY <1>1 DEF Plain, Walked, Moves, Kept
  <2>2. Signing(r)' => Signing(r)
    BY <1>1, <2>1 DEF Plain, From, Signing, Confirming
  <2>3. ClaimHeld(r)' => ClaimHeld(r)
    BY <1>1, <2>1 DEF Plain, From, ClaimHeld, Solving, Confirming
  <2> QED
    BY <1>0, <2>1, <2>2, <2>3 DEF Locked
<1>2. CASE Takes(r)
  <2>1. Others(r)
    BY <1>2 DEF Takes, Walked, Moves
  <2>2. Signing(r)' => signed_write_lock' = r
    BY <1>2 DEF Takes, From, Signing, Confirming
  <2>3. ClaimHeld(r)' => claim_lock' = r
    BY <1>2 DEF Takes, From, ClaimHeld, Solving, Confirming
  <2> QED
    BY <1>2, <2>1, <2>2, <2>3 DEF Locked, Takes
<1>3. CASE Stops(r)
  <2>1. Others(r) /\ ~Signing(r)' /\ ~ClaimHeld(r)'
    BY <1>3 DEF Stops, Walked, Moves, Signing, ClaimHeld, Solving, Confirming
  <2> QED
    BY <1>3, <2>1 DEF Locked, Stops, Released
<1>4. CASE Frees(r)
  <2>1. Others(r) /\ ~Signing(r)' /\ ~ClaimHeld(r)'
    BY <1>4 DEF Frees, From, Walked, Moves, Signing, ClaimHeld, Solving, Confirming
  <2>2. req[r].pc \in {"i_read", "i_owner"} => signed_write_lock = r
    BY <1>0 DEF Signing
  <2> QED
    BY <1>4, <2>1, <2>2 DEF Locked, Frees, From, Unlock
<1>5. CASE Notes(r)
  <2>1. Others(r) /\ UNCHANGED <<signed_write_lock, claim_lock>> /\ req'[r].tx = req[r].tx
    BY <1>5 DEF Notes, NonceRead, SeedRead, BalanceRead
  <2>2. Signing(r)' => Signing(r)
    BY <1>5, <2>1 DEF Notes, NonceRead, SeedRead, BalanceRead, Signing, Confirming
  <2>3. ClaimHeld(r)' => ClaimHeld(r)
    BY <1>5, <2>1 DEF Notes, NonceRead, SeedRead, BalanceRead, ClaimHeld, Solving, Confirming
  <2> QED
    BY <1>0, <2>1, <2>2, <2>3 DEF Locked
<1> QED
  BY <1>1, <1>2, <1>3, <1>4, <1>5 DEF Quiet

(***************************************************************************)
(* So do the steps at the gate.                                            *)
(***************************************************************************)
LEMMA GatedLocks ==
    ASSUME LocksHeld, NEW r \in Requests, Gated(r)
    PROVE  Locked(r)
<1>0. /\ Signing(r) => signed_write_lock = r
      /\ ClaimHeld(r) => claim_lock = r
  BY DEF LocksHeld
<1>1. Others(r) /\ req'[r].tx = req[r].tx
  BY DEF Gated, Passes, Queues, Flies, Lands, MovesTo, Moves, Kept
<1>2. CASE req'[r].pc = "done" /\ Released(r)
  BY <1>1, <1>2 DEF Locked, Released, Signing, ClaimHeld, Solving, Confirming
<1>3. CASE /\ req'[r].pc \in {req[r].pc, "f_lock"}
           /\ UNCHANGED <<signed_write_lock, claim_lock>>
  <2>1. (Signing(r)' => Signing(r)) /\ (ClaimHeld(r)' => ClaimHeld(r))
    BY <1>1, <1>3 DEF Signing, ClaimHeld, Solving, Confirming
  <2> QED
    BY <1>0, <1>1, <1>3, <2>1 DEF Locked
<1>4. CASE /\ req[r].pc \in Gates /\ req'[r].pc = AfterGate(r)
           /\ UNCHANGED <<signed_write_lock, claim_lock>>
  <2>1. Signing(r)' => Signing(r)
    BY <1>1, <1>4, AfterGatePlaces DEF Gates, Signing, Confirming
  <2>2. ClaimHeld(r)' => ClaimHeld(r)
    BY <1>1, <1>4, AfterGatePlaces DEF Gates, ClaimHeld, Solving, Confirming
  <2> QED
    BY <1>0, <1>1, <1>4, <2>1, <2>2 DEF Locked
<1> QED
  BY <1>2, <1>3, <1>4 DEF Gated, Passes, Queues, Flies, Lands, MovesTo

(***************************************************************************)
(* So does a send: the lock is kept for the confirmation.                  *)
(***************************************************************************)
LEMMA SendLocks ==
    ASSUME LocksHeld, NEW r \in Requests, Sends(r)
    PROVE  Locked(r)
<1>0. /\ Signing(r) => signed_write_lock = r
      /\ ClaimHeld(r) => claim_lock = r
  BY DEF LocksHeld
<1>1. ASSUME NEW t, SendOutcome(r, t),
             Signed(t) => Signing(r), t.op = "claim" => ClaimHeld(r)
      PROVE  Locked(r)
  <2>1. CASE HasSent(r, t) /\ UNCHANGED <<signed_write_lock, claim_lock>>
    BY <1>0, <1>1, <2>1 DEF HasSent, Locked, Signing, ClaimHeld, Solving, Confirming
  <2>2. CASE Walks(r, "done") /\ Released(r)
    BY <2>2 DEF Walks, MovesTo, Moves, Locked, Released, Signing, ClaimHeld, Solving, Confirming
  <2> QED
    BY <1>1, <2>1, <2>2 DEF SendOutcome, locks
<1>2. CASE req[r].pc = "i_send" /\ SendOutcome(r, InitTx(r))
  BY <1>1, <1>2 DEF InitTx, Signed, Signing
<1>3. CASE req[r].pc = "t_send" /\ SendOutcome(r, TransferTx(r))
  BY <1>1, <1>3 DEF TransferTx, Signed, Signing
<1>4. CASE req[r].pc = "c_submit" /\ SendOutcome(r, ClaimTx(req[r].seed))
  BY <1>1, <1>4 DEF ClaimTx, Signed, ClaimHeld, Solving
<1> QED
  BY <1>2, <1>3, <1>4 DEF Sends

(***************************************************************************)
(* So does the end of a confirmation.                                      *)
(***************************************************************************)
LEMMA ConcludeLocks ==
    ASSUME LocksHeld, NEW r \in Requests, Concludes(r)
    PROVE  Locked(r)
<1>0. /\ Signing(r) => signed_write_lock = r
      /\ ClaimHeld(r) => claim_lock = r
  BY DEF LocksHeld
<1>1. Others(r) /\ Confirming(r) /\ req'[r].tx = req[r].tx
  BY DEF Concludes, GoesOn, GivesUp, Learns
<1>2. CASE req'[r].pc = "done" /\ Released(r)
  BY <1>1, <1>2 DEF Locked, Released, Signing, ClaimHeld, Solving, Confirming
<1>3. CASE /\ req[r].tx.op = "init" /\ req'[r].pc = "i_owner"
           /\ UNCHANGED <<signed_write_lock, claim_lock>>
  BY <1>0, <1>1, <1>3 DEF Locked, Signing, Signed, ClaimHeld, Solving, Confirming
<1>4. CASE /\ req[r].tx.op = "claim" /\ req'[r].pc = "c_next"
           /\ UNCHANGED <<signed_write_lock, claim_lock>>
  BY <1>0, <1>1, <1>4 DEF Locked, Signing, Signed, ClaimHeld, Solving, Confirming
<1> QED
  BY <1>2, <1>3, <1>4 DEF Concludes, GoesOn, GivesUp, Learns, locks

(***************************************************************************)
(* Every step keeps the locks where they are needed.                       *)
(***************************************************************************)
LEMMA NextLocks ==
    ASSUME TypeInv, LocksHeld, [Next]_vars
    PROVE  LocksHeld'
<1>1. ASSUME NEW r \in Requests, Drops(r) PROVE Locked(r)
  <2>1. Others(r) /\ req'[r].tx = req[r].tx
    BY <1>1 DEF Drops, MovesTo, Moves, Kept
  <2>2. CASE req'[r].pc = "done" /\ Released(r)
    BY <2>1, <2>2 DEF Locked, Released, Signing, ClaimHeld, Solving, Confirming
  <2>3. CASE req'[r].pc = req[r].pc /\ UNCHANGED <<signed_write_lock, claim_lock>>
    BY <2>1, <2>3 DEF Locked, LocksHeld, Signing, ClaimHeld, Solving, Confirming
  <2> QED
    BY <1>1, <2>2, <2>3 DEF Drops, MovesTo
<1>2. ASSUME NEW r \in Requests, \/ Quiet(r) \/ Gating(r) \/ Sends(r) \/ Concludes(r) \/ Drops(r)
      PROVE  LocksHeld'
  BY <1>1, <1>2, LockedKeeps, QuietLocks, GateSteps, GatedLocks, SendLocks, ConcludeLocks
<1>3. ASSUME req' = req, UNCHANGED <<signed_write_lock, claim_lock>> PROVE LocksHeld'
  BY <1>3 DEF LocksHeld, Signing, ClaimHeld, Solving, Confirming
<1>4. \/ (\E r \in Requests : Preview(r)) \/ (\E t \in pool : Execute(t))
      \/ OrphanStops \/ OutsideClaim \/ Upgrade \/ Tick \/ UNCHANGED vars
      => req' = req /\ UNCHANGED <<signed_write_lock, claim_lock>>
  BY DEF Preview, Execute, OrphanStops, OutsideClaim, Upgrade, Tick, vars, locks
<1> QED
  BY <1>2, <1>3, <1>4, NextSteps

(***************************************************************************)
(* The seed of the faucet only grows, so a claim is never for a later one. *)
(***************************************************************************)
LEMMA NextSeeds ==
    ASSUME TypeInv, SeedsPast, [Next]_vars
    PROVE  SeedsPast'
<1>0. seed \in Nat /\ \A r \in Requests : req[r].seed \in Nat
  BY DEF TypeInv, TypeOK, Request
<1> DEFINE Asked == {"permit", "solving", "cs_gate", "c_submit"}
<1>1. ASSUME NEW r \in Requests, Others(r), seed' = seed,
             req'[r].pc \in Asked => \/ req[r].pc \in Asked /\ req'[r].seed = req[r].seed
                                     \/ req'[r].seed = seed
      PROVE  SeedsPast'
  BY <1>0, <1>1 DEF SeedsPast, Others
<1>2. ASSUME NEW r \in Requests, Quiet(r) PROVE SeedsPast'
  <2>1. seed' = seed /\ Others(r)
    BY <1>2 DEF Quiet, Rests, Plain, Takes, Stops, Frees, Notes, Walked, Moves, NonceRead, SeedRead,
       BalanceRead
  <2>2. req'[r].pc \in Asked => \/ req[r].pc \in Asked /\ req'[r].seed = req[r].seed
                                \/ req'[r].seed = seed
    BY <1>2 DEF Quiet, Plain, Takes, Stops, Frees, Notes, From, Walked, Moves, Kept, NonceRead,
       SeedRead, BalanceRead
  <2> QED
    BY <1>1, <2>1, <2>2
<1>3. ASSUME NEW r \in Requests, Gated(r) PROVE SeedsPast'
  <2>1. seed' = seed /\ Others(r) /\ req'[r].seed = req[r].seed
    BY <1>3 DEF Gated, Passes, Queues, Flies, Lands, MovesTo, Moves, Kept
  <2>2. req'[r].pc \in Asked => req[r].pc \in Asked
    BY <1>3, AfterGatePlaces DEF Gated, Passes, Queues, Flies, Lands, MovesTo, Gates
  <2> QED
    BY <1>1, <2>1, <2>2
<1>4. ASSUME NEW r \in Requests, Sends(r) \/ Concludes(r) PROVE SeedsPast'
  BY <1>1, <1>4 DEF Sends, SendOutcome, HasSent, Walks, MovesTo, Moves, Concludes, GoesOn, GivesUp,
     Learns
<1>5. ASSUME NEW r \in Requests, Drops(r) PROVE SeedsPast'
  BY <1>1, <1>5 DEF Drops, MovesTo, Moves, Kept
<1>6. ASSUME req' = req, seed' \in {seed, seed + 1} PROVE SeedsPast'
  BY <1>0, <1>6 DEF SeedsPast
<1>7. \/ (\E r \in Requests : Preview(r)) \/ (\E t \in pool : Execute(t))
      \/ OrphanStops \/ OutsideClaim \/ Upgrade \/ Tick \/ UNCHANGED vars
      => req' = req /\ seed' \in {seed, seed + 1}
  BY DEF Preview, Execute, OrphanStops, OutsideClaim, Upgrade, Tick, vars, chain
<1> QED
  BY <1>2, <1>3, <1>4, <1>5, <1>6, <1>7, NextSteps, GateSteps

-----------------------------------------------------------------------------
(***************************************************************************)
(* The nonce: a step that neither sends, learns, nor touches the chain.    *)
(***************************************************************************)
NonceParts ==
    ChainCounts /\ SignedSettled /\ NonceIsOwn /\ NonceUsedOnce /\ ConfirmedMeansCommitted
Records(r) ==
    /\ Others(r) /\ req'[r].tx = req[r].tx /\ req'[r].how = req[r].how
    /\ Confirming(r)' <=> Confirming(r)
    /\ UNCHANGED <<nonce, seed, pool, committed, sent, loose, outside>>
Idles(r) == Records(r) /\ req'[r].nonce = req[r].nonce /\ (Counting(r)' => Counting(r))

(***************************************************************************)
(* Such a step keeps all that is not about the nonces calls have read.     *)
(***************************************************************************)
LEMMA RecordsKeep ==
    ASSUME NonceInv, NEW r \in Requests, Records(r)
    PROVE  /\ ChainCounts' /\ SignedSettled' /\ NonceUsedOnce' /\ ConfirmedMeansCommitted'
           /\ \A t : Overtaken(t)' <=> Overtaken(t)
<1>1. ChainCounts'
  BY DEF NonceInv, ChainCounts, Records
<1>2. \A t : Overtaken(t)' <=> Overtaken(t)
  BY DEF Records, Overtaken, CameLate
<1>3. \A t : Awaited(t) => Awaited(t)'
  <2> SUFFICES ASSUME NEW t, NEW q \in Requests, Confirming(q), req[q].tx = t
               PROVE  Confirming(q)' /\ req'[q].tx = t
    BY DEF Awaited
  <2> QED
    BY DEF Records, Others, Confirming
<1>4. SignedSettled'
  BY <1>2, <1>3 DEF NonceInv, SignedSettled, Records
<1>5. NonceUsedOnce'
  BY DEF NonceInv, NonceUsedOnce, CameLate, Records
<1>6. ConfirmedMeansCommitted'
  BY DEF NonceInv, ConfirmedMeansCommitted, CameLate, Records, Others
<1> QED
  BY <1>1, <1>2, <1>4, <1>5, <1>6

(***************************************************************************)
(* And that too, if the call reads no nonce.                               *)
(***************************************************************************)
LEMMA IdlesKeep ==
    ASSUME NonceInv, NEW r \in Requests, Idles(r)
    PROVE  NonceParts'
<1>1. /\ ChainCounts' /\ SignedSettled' /\ NonceUsedOnce' /\ ConfirmedMeansCommitted'
      /\ \A t : Overtaken(t)' <=> Overtaken(t)
  BY RecordsKeep DEF Idles
<1>2. NonceIsOwn'
  <2> SUFFICES ASSUME NEW q \in Requests, Counting(q)'
               PROVE  /\ req'[q].nonce <= nonce'
                      /\ Confirming(q)' => req'[q].nonce <= req'[q].tx.n
                      /\ \A t \in sent' \ loose' : Signed(t) =>
                            \/ t.n < req'[q].nonce \/ Overtaken(t)'
                            \/ Confirming(q)' /\ t = req'[q].tx
    BY DEF NonceIsOwn
  <2>1. /\ Counting(q) /\ req'[q].nonce = req[q].nonce /\ req'[q].tx = req[q].tx
        /\ Confirming(q)' <=> Confirming(q)
    BY DEF Idles, Records, Others, Counting, Confirming
  <2> QED
    BY <1>1, <2>1 DEF NonceInv, NonceIsOwn, Idles, Records
<1> QED
  BY <1>1, <1>2 DEF NonceParts

(***************************************************************************)
(* Quiet steps that read no nonce, steps at the gate and drops are such    *)
(* steps.                                                                  *)
(***************************************************************************)
LEMMA IdleSteps ==
    ASSUME OneFlight, NEW r \in Requests, Quiet(r) \/ Gated(r) \/ Drops(r),
           req[r].pc \notin {"t_nonce", "i_nonce"} \/ ~Quiet(r) \/ ~Notes(r)
    PROVE  Idles(r)
<1>1. CASE Quiet(r)
  <2>1. /\ Others(r) /\ req'[r].tx = req[r].tx /\ req'[r].how = req[r].how
        /\ req'[r].nonce = req[r].nonce
        /\ UNCHANGED <<nonce, seed, pool, committed, sent, loose, outside>>
    BY <1>1 DEF Quiet, Rests, Plain, Takes, Stops, Frees, Notes, Walked, Moves, Kept, SeedRead,
       BalanceRead
  <2>2. (Confirming(r)' <=> Confirming(r)) /\ (Counting(r)' => Counting(r))
    BY <1>1, <2>1 DEF Quiet, Plain, Takes, Stops, Frees, Notes, From, SeedRead, BalanceRead,
       Confirming, Counting
  <2> QED
    BY <2>1, <2>2 DEF Idles, Records
<1>2. CASE Gated(r)
  <2>1. /\ Others(r) /\ req'[r].tx = req[r].tx /\ req'[r].how = req[r].how
        /\ req'[r].nonce = req[r].nonce
        /\ UNCHANGED <<nonce, seed, pool, committed, sent, loose, outside>>
    BY <1>2 DEF Gated, Passes, Queues, Flies, Lands, MovesTo, Moves, Kept
  <2>2. \/ req'[r].pc = req[r].pc
        \/ /\ req[r].pc \in Gates \cup {"idle", "f_lock"}
           /\ req'[r].pc \notin {"hash", "fallback", "i_send", "t_send"}
    <3>1. req[r].flight \in Answers => req[r].pc \in Gates \cup {"f_lock"}
      BY DEF OneFlight, Answers
    <3> QED
      BY <1>2, <3>1, AfterGatePlaces DEF Gated, Passes, Queues, Flies, Lands, MovesTo, Gates
  <2>3. (Confirming(r)' <=> Confirming(r)) /\ (Counting(r)' => Counting(r))
    BY <2>1, <2>2 DEF Confirming, Counting, Gates
  <2> QED
    BY <2>1, <2>3 DEF Idles, Records
<1>3. CASE Drops(r)
  <2>1. /\ Others(r) /\ req'[r].tx = req[r].tx /\ req'[r].how = req[r].how
        /\ req'[r].nonce = req[r].nonce
        /\ UNCHANGED <<nonce, seed, pool, committed, sent, loose, outside>>
    BY <1>3 DEF Drops, MovesTo, Moves, Kept
  <2>2. (Confirming(r)' <=> Confirming(r)) /\ (Counting(r)' => Counting(r))
    BY <1>3, <2>1 DEF Drops, MovesTo, Detached, Confirming, Counting
  <2> QED
    BY <2>1, <2>2 DEF Idles, Records
<1> QED
  BY <1>1, <1>2, <1>3

(***************************************************************************)
(* The nonce is read: under the lock nobody else awaits a signed write.    *)
(***************************************************************************)
LEMMA NonceReadKeeps ==
    ASSUME NonceInv, NEW r \in Requests, req[r].pc \in {"t_nonce", "i_nonce"}, Quiet(r), Notes(r)
    PROVE  NonceParts'
<1>0. nonce \in Nat
  BY DEF NonceInv, GateInv, TypeInv, TypeOK
<1>1. /\ Records(r) /\ req'[r].nonce = nonce /\ ~Confirming(r) /\ ~Confirming(r)'
  BY DEF Quiet, Rests, Notes, NonceRead, Records, Confirming
<1>2. /\ ChainCounts' /\ SignedSettled' /\ NonceUsedOnce' /\ ConfirmedMeansCommitted'
      /\ \A t : Overtaken(t)' <=> Overtaken(t)
  BY <1>1, RecordsKeep
<1>3. ASSUME NEW t \in sent \ loose, Signed(t), ~(t.n < nonce), ~Overtaken(t)
      PROVE  FALSE
  <2>1. PICK q \in Requests : Confirming(q) /\ req[q].tx = t
    BY <1>3 DEF NonceInv, SignedSettled, Awaited
  <2>2. Signing(q) /\ Signing(r)
    BY <1>3, <2>1 DEF Signing
  <2> QED
    BY <1>1, <2>1, <2>2 DEF NonceInv, LocksHeld
<1>4. NonceIsOwn'
  <2> SUFFICES ASSUME NEW q \in Requests, Counting(q)'
               PROVE  /\ req'[q].nonce <= nonce'
                      /\ Confirming(q)' => req'[q].nonce <= req'[q].tx.n
                      /\ \A t \in sent' \ loose' : Signed(t) =>
                            \/ t.n < req'[q].nonce \/ Overtaken(t)'
                            \/ Confirming(q)' /\ t = req'[q].tx
    BY DEF NonceIsOwn
  <2>1. CASE q = r
    BY <1>0, <1>1, <1>2, <1>3, <2>1 DEF Records
  <2>2. CASE q # r
    <3>1. /\ Counting(q) /\ req'[q] = req[q] /\ (Confirming(q)' <=> Confirming(q))
      BY <1>1, <2>2 DEF Records, Others, Counting, Confirming
    <3> QED
      BY <1>1, <1>2, <3>1 DEF NonceInv, NonceIsOwn, Records
  <2> QED
    BY <2>1, <2>2
<1> QED
  BY <1>2, <1>4 DEF NonceParts

(***************************************************************************)
(* What a step adds to the transactions given up on or committed takes     *)
(* nothing back.                                                           *)
(***************************************************************************)
LEMMA OvertakenStays ==
    ASSUME loose \subseteq loose', committed \subseteq committed'
    PROVE  \A t : Overtaken(t) => Overtaken(t)'
BY DEF Overtaken, CameLate

(***************************************************************************)
(* A nonce that has advanced: the call's own write is behind it, or one    *)
(* that was given up on came late.                                         *)
(***************************************************************************)
LEMMA Advanced ==
    ASSUME NonceInv, NEW r \in Requests, Confirming(r), Signed(req[r].tx), nonce > req[r].nonce
    PROVE  /\ req[r].tx.n < nonce \/ Overtaken(req[r].tx)
           /\ req[r].tx \in committed \/ \E t \in loose : CameLate(t) /\ t # req[r].tx
<1>0. nonce \in Nat /\ req[r].nonce \in Nat /\ sent \subseteq Tx /\ loose \subseteq Tx
  BY DEF NonceInv, GateInv, TypeInv, TypeOK, Request
<1>1. nonce - 1 \in 0..nonce /\ nonce - 1 < nonce
  BY <1>0
<1>2. PICK u \in committed : Signed(u) /\ u.n = nonce - 1
  BY <1>1 DEF NonceInv, ChainCounts
<1>3. u \in sent /\ req[r].tx \in sent
  BY DEF NonceInv, ChainCounts, GateInv, TypeInv, AwaitsSent
<1>4. req[r].tx.n \in Nat /\ u.n \in Nat
  BY <1>0, <1>3 DEF Tx
<1>5. Counting(r)
  BY DEF Counting
<1>6. CASE u \in loose
  <2>1. req[r].tx.n >= nonce => Overtaken(req[r].tx)
    BY <1>0, <1>2, <1>4, <1>6 DEF Overtaken, CameLate
  <2> QED
    BY <1>0, <1>2, <1>4, <1>6, <2>1 DEF CameLate
<1>7. CASE u \notin loose
  <2>1. u.n < req[r].nonce \/ Overtaken(u) \/ u = req[r].tx
    BY <1>2, <1>3, <1>5, <1>7 DEF NonceInv, NonceIsOwn
  <2>2. CASE u = req[r].tx
    BY <1>0, <1>2, <2>2
  <2>3. CASE Overtaken(u)
    <3>1. PICK w \in loose : w \in committed /\ Signed(w) /\ w.n < u.n
      BY <2>3 DEF Overtaken, CameLate
    <3>2. w.n \in Nat
      BY <1>0, <3>1 DEF Tx
    <3>3. req[r].tx.n >= nonce => Overtaken(req[r].tx)
      BY <1>0, <1>2, <1>4, <3>1, <3>2 DEF Overtaken, CameLate
    <3>4. req[r].tx \in committed \/ w # req[r].tx
      BY <3>1
    <3> QED
      BY <1>0, <1>4, <3>1, <3>3, <3>4 DEF CameLate
  <2> QED
    BY <1>0, <1>2, <1>4, <2>1, <2>2, <2>3
<1> QED
  BY <1>6, <1>7

(***************************************************************************)
(* A confirmation ends: what the call sent is behind the nonce or          *)
(* overtaken, or loose; and what it reports is right.                      *)
(***************************************************************************)
LEMMA ConcludesKeeps ==
    ASSUME NonceInv, NEW r \in Requests, Concludes(r)
    PROVE  NonceParts'
<1>0. /\ nonce \in Nat /\ seed \in Nat /\ sent \subseteq Tx /\ req[r].tx \in Tx
      /\ Confirming(r) /\ req[r].tx \in sent
  BY DEF NonceInv, GateInv, TypeInv, TypeOK, Concludes
<1>1. /\ Others(r) /\ req'[r].tx = req[r].tx /\ ~Confirming(r)' /\ ~Counting(r)'
      /\ loose \subseteq loose' /\ loose' \subseteq sent
      /\ UNCHANGED <<nonce, seed, pool, committed, sent, outside>>
  <2>1. loose \subseteq sent
    BY DEF NonceInv, ChainCounts
  <2> QED
    BY <1>0, <2>1 DEF Concludes, GoesOn, GivesUp, Learns, Confirming, Counting
<1>2. ChainCounts'
  BY <1>1 DEF NonceInv, ChainCounts
<1>3. \A t : Overtaken(t) => Overtaken(t)'
  BY <1>1, OvertakenStays
<1>4. SignedSettled'
  <2> SUFFICES ASSUME NEW t \in sent \ loose', Signed(t)
               PROVE  t.n < nonce \/ Overtaken(t)' \/ Awaited(t)'
    BY <1>1 DEF SignedSettled
  <2>1. CASE t = req[r].tx
    <3>1. CASE t \in committed
      BY <3>1 DEF NonceInv, ChainCounts
    <3>2. CASE nonce > req[r].nonce
      BY <1>0, <1>3, <2>1, <3>2, Advanced
    <3> QED
      BY <2>1, <3>1, <3>2 DEF Concludes, GivesUp
  <2>2. CASE t # req[r].tx
    <3>1. Awaited(t) => Awaited(t)'
      BY <1>1, <2>2 DEF Awaited, Others, Confirming
    <3> QED
      BY <1>1, <1>3, <3>1 DEF NonceInv, SignedSettled
  <2> QED
    BY <2>1, <2>2
<1>5. NonceIsOwn'
  <2> SUFFICES ASSUME NEW q \in Requests, Counting(q)'
               PROVE  /\ req'[q].nonce <= nonce'
                      /\ Confirming(q)' => req'[q].nonce <= req'[q].tx.n
                      /\ \A t \in sent' \ loose' : Signed(t) =>
                            \/ t.n < req'[q].nonce \/ Overtaken(t)'
                            \/ Confirming(q)' /\ t = req'[q].tx
    BY DEF NonceIsOwn
  <2>1. q # r
    BY <1>1
  <2>2. Counting(q) /\ req'[q] = req[q] /\ (Confirming(q)' <=> Confirming(q))
    BY <1>1, <2>1 DEF Others, Counting, Confirming
  <2> QED
    BY <1>1, <1>3, <2>2 DEF NonceInv, NonceIsOwn
<1>6. NonceUsedOnce'
  BY <1>1 DEF NonceInv, NonceUsedOnce, CameLate
<1>7. ConfirmedMeansCommitted'
  <2>1. ASSUME NEW q \in Requests \ {r}
        PROVE  /\ req'[q].how = "tx_committed" => req'[q].tx \in committed'
               /\ req'[q].how = "seed_rotated" => req'[q].tx \in committed' \/ outside' > 0
               /\ req'[q].how = "nonce_advanced" =>
                     req'[q].tx \in committed' \/ \E t \in loose' : CameLate(t)' /\ t # req'[q].tx
    BY <1>1 DEF NonceInv, ConfirmedMeansCommitted, CameLate, Others
  <2>2. /\ req'[r].how = "tx_committed" => req[r].tx \in committed
        /\ req'[r].how = "seed_rotated" => req[r].tx \in committed \/ outside > 0
        /\ req'[r].how = "nonce_advanced" =>
              req[r].tx \in committed \/ \E t \in loose : CameLate(t) /\ t # req[r].tx
    <3>1. CASE req[r].tx \in committed
      BY <3>1
    <3>2. CASE Signed(req[r].tx) /\ nonce > req[r].nonce /\ GoesOn(r, "nonce_advanced")
      BY <1>0, <3>2, Advanced DEF GoesOn, Learns
    <3>3. CASE ~Signed(req[r].tx) /\ seed # req[r].tx.n /\ GoesOn(r, "seed_rotated")
      <4>1. req[r].tx.op = "claim"
        BY <1>0, <3>3 DEF Tx, Signed
      <4>2. req[r].tx = ClaimTx(req[r].tx.n) /\ req[r].tx.n <= seed /\ req[r].tx.n \in Nat
        BY <1>0, <4>1 DEF NonceInv, ChainCounts, Tx
      <4>3. req[r].tx.n \in 0..seed /\ req[r].tx.n < seed
        BY <1>0, <3>3, <4>2
      <4>4. outside \in Nat
        BY DEF NonceInv, GateInv, TypeInv, TypeOK
      <4>5. outside = 0 => req[r].tx \in committed
        BY <4>2, <4>3 DEF NonceInv, ChainCounts
      <4> QED
        BY <3>3, <4>4, <4>5 DEF GoesOn, Learns
    <3>4. CASE GivesUp(r)
      BY <3>4 DEF GivesUp, Learns
    <3> QED
      BY <3>1, <3>2, <3>3, <3>4 DEF Concludes
  <2> QED
    BY <1>1, <2>1, <2>2 DEF ConfirmedMeansCommitted, CameLate
<1> QED
  BY <1>2, <1>4, <1>5, <1>6, <1>7 DEF NonceParts

(***************************************************************************)
(* What is sent is numbered at or after the nonce the call read, or for a  *)
(* seed the faucet has had.                                                *)
(***************************************************************************)
Numbered(r, t) ==
    /\ t \in Tx
    /\ Signed(t) => Counting(r) /\ req[r].nonce <= t.n /\ t.n <= nonce
    /\ t.op = "claim" => t = ClaimTx(t.n) /\ t.n <= seed

(***************************************************************************)
(* The three sends are numbered so.                                        *)
(***************************************************************************)
LEMMA SendsNumbered ==
    ASSUME NonceInv, NEW r \in Requests, Sends(r)
    PROVE  /\ \E t \in Tx : SendOutcome(r, t) /\ Numbered(r, t)
           /\ ~Confirming(r)
<1>0. /\ req[r].nonce \in Nat /\ req[r].seed \in Nat /\ req[r].call.amount \in Nat
      /\ nonce \in Nat /\ seed \in Nat
  BY DEF NonceInv, GateInv, TypeInv, TypeOK, Request, Call
<1>1. ~Confirming(r)
  BY DEF Sends, Confirming
<1>2. CASE req[r].pc = "i_send" /\ SendOutcome(r, InitTx(r))
  <2>1. Counting(r) /\ req[r].nonce <= nonce
    BY <1>2 DEF Counting, NonceInv, NonceIsOwn
  <2>2. InitTx(r) \in Tx /\ InitTx(r).n = req[r].nonce /\ InitTx(r).op = "init"
    BY <1>0 DEF InitTx, Tx
  <2> QED
    BY <1>0, <1>1, <1>2, <2>1, <2>2 DEF Numbered
<1>3. CASE req[r].pc = "t_send" /\ SendOutcome(r, TransferTx(r))
  <2>1. Counting(r) /\ req[r].nonce <= nonce
    BY <1>3 DEF Counting, NonceInv, NonceIsOwn
  <2>2. TransferTx(r) \in Tx /\ TransferTx(r).n = nonce /\ TransferTx(r).op = "transfer"
    BY <1>0 DEF TransferTx, Tx
  <2> QED
    BY <1>0, <1>1, <1>3, <2>1, <2>2 DEF Numbered
<1>4. CASE req[r].pc = "c_submit" /\ SendOutcome(r, ClaimTx(req[r].seed))
  <2>1. req[r].seed <= seed
    BY <1>4 DEF NonceInv, SeedsPast
  <2>2. PICK t \in Tx : t = ClaimTx(req[r].seed) /\ t.n = req[r].seed /\ t.op = "claim"
    <3>1. /\ ClaimTx(req[r].seed) \in Tx /\ ClaimTx(req[r].seed).n = req[r].seed
          /\ ClaimTx(req[r].seed).op = "claim"
      BY <1>0 DEF ClaimTx, Tx
    <3> QED
      BY <3>1
  <2>3. Numbered(r, t)
    BY <2>1, <2>2 DEF Numbered, Signed
  <2> QED
    BY <1>1, <1>4, <2>2, <2>3
<1> QED
  BY <1>2, <1>3, <1>4 DEF Sends

(***************************************************************************)
(* A send: it is the only one of its number, or an earlier write came      *)
(* late; nobody else counts meanwhile, since that takes the lock.          *)
(***************************************************************************)
LEMMA SendsKeep ==
    ASSUME NonceInv, NEW r \in Requests, Sends(r)
    PROVE  NonceParts'
<1>0. /\ nonce \in Nat /\ seed \in Nat /\ sent \subseteq Tx
      /\ \A q \in Requests : req[q].nonce \in Nat
  BY DEF NonceInv, GateInv, TypeInv, TypeOK, Request
<1>1. PICK t \in Tx : SendOutcome(r, t) /\ Numbered(r, t)
  BY SendsNumbered
<1>2. ~Confirming(r)
  BY SendsNumbered
<1>3. /\ Others(r) /\ sent' = sent \cup {t} /\ loose \subseteq loose' /\ loose' \subseteq loose \cup {t}
      /\ pool' \subseteq pool \cup {t}
      /\ UNCHANGED <<nonce, seed, committed, outside>>
      /\ req'[r].nonce = req[r].nonce
      /\ t \in loose' \/ (req'[r].pc = "hash" /\ req'[r].tx = t)
      /\ req'[r].pc \in {"hash", "done"} /\ (req'[r].pc = "hash" => req'[r].tx = t)
      /\ req'[r].how = "none" \/ (req'[r].how = req[r].how /\ req'[r].tx = req[r].tx)
  BY <1>1 DEF SendOutcome, HasSent, Walks, MovesTo, Moves, Kept
<1>4. ChainCounts'
  <2>1. pool' \subseteq sent' /\ committed' \subseteq sent' /\ loose' \subseteq sent'
    BY <1>3 DEF NonceInv, ChainCounts
  <2>2. \A u \in sent' : /\ Signed(u) => u.n <= nonce'
                         /\ u.op = "claim" => u = ClaimTx(u.n) /\ u.n <= seed'
    BY <1>1, <1>3 DEF NonceInv, ChainCounts, Numbered
  <2> QED
    BY <1>3, <2>1, <2>2 DEF NonceInv, ChainCounts
<1>5. \A u : Overtaken(u) => Overtaken(u)'
  BY <1>3, OvertakenStays
<1>6. \A u \in sent \ loose' : Awaited(u) => Awaited(u)'
  <2> SUFFICES ASSUME NEW q \in Requests, Confirming(q)
               PROVE  Confirming(q)' /\ req'[q].tx = req[q].tx
    BY DEF Awaited
  <2> QED
    BY <1>2, <1>3 DEF Others, Confirming
<1>7. SignedSettled'
  <2>1. t \notin loose' => Awaited(t)'
    BY <1>3 DEF Awaited, Confirming
  <2> QED
    BY <1>3, <1>5, <1>6, <2>1 DEF NonceInv, SignedSettled
<1>8. NonceIsOwn'
  <2> SUFFICES ASSUME NEW q \in Requests, Counting(q)'
               PROVE  /\ req'[q].nonce <= nonce'
                      /\ Confirming(q)' => req'[q].nonce <= req'[q].tx.n
                      /\ \A u \in sent' \ loose' : Signed(u) =>
                            \/ u.n < req'[q].nonce \/ Overtaken(u)'
                            \/ Confirming(q)' /\ u = req'[q].tx
    BY DEF NonceIsOwn
  <2>1. CASE q = r
    <3>1. req'[r].pc = "hash" /\ req'[r].tx = t /\ Confirming(r)' /\ Signed(t)
      BY <1>3, <2>1 DEF Counting, Confirming
    <3>2. Counting(r) /\ req[r].nonce <= t.n
      BY <1>1, <3>1 DEF Numbered
    <3>3. \A u \in sent \ loose' : Signed(u) => u.n < req[r].nonce \/ Overtaken(u)
      BY <1>2, <1>3, <3>2 DEF NonceInv, NonceIsOwn
    <3>4. req[r].nonce <= nonce
      BY <3>2 DEF NonceInv, NonceIsOwn
    <3> QED
      BY <1>3, <1>5, <2>1, <3>1, <3>2, <3>3, <3>4
  <2>2. CASE q # r
    <3>1. Counting(q) /\ req'[q] = req[q] /\ (Confirming(q)' <=> Confirming(q))
      BY <1>3, <2>2 DEF Others, Counting, Confirming
    <3>2. ~Signed(t)
      <4>1. Signing(q)
        BY <3>1 DEF Counting, Signing
      <4>2. Counting(r) => Signing(r)
        BY DEF Counting, Signing
      <4> QED
        BY <1>1, <2>2, <4>1, <4>2 DEF NonceInv, LocksHeld, Numbered
    <3> QED
      BY <1>3, <1>5, <3>1, <3>2 DEF NonceInv, NonceIsOwn
  <2> QED
    BY <2>1, <2>2
<1>9. NonceUsedOnce'
  <2>1. ASSUME NEW u \in sent \ loose, Signed(u), Signed(t), u.n = t.n
        PROVE  Overtaken(u)
    <3>1. Counting(r) /\ req[r].nonce <= t.n
      BY <1>1, <2>1 DEF Numbered
    <3>2. u.n < req[r].nonce \/ Overtaken(u)
      BY <1>2, <2>1, <3>1 DEF NonceInv, NonceIsOwn
    <3>3. t.n \in Nat
      BY DEF Tx
    <3> QED
      BY <1>0, <2>1, <3>1, <3>2, <3>3
  <2>2. ASSUME NEW a \in sent', NEW b \in sent', Signed(a), Signed(b), a.n = b.n,
               a # b, a \notin loose', b \notin loose'
        PROVE  \E u \in loose' : CameLate(u)' /\ u.n < a.n
    <3>1. CASE a \in sent /\ b \in sent
      BY <1>3, <2>2, <3>1 DEF NonceInv, NonceUsedOnce, CameLate
    <3>2. CASE a \in sent /\ b = t
      <4>1. Overtaken(a)
        BY <1>3, <2>1, <2>2, <3>2
      <4> QED
        BY <1>5, <4>1 DEF Overtaken
    <3>3. CASE a = t /\ b \in sent
      <4>1. Overtaken(b)
        BY <1>3, <2>1, <2>2, <3>3
      <4> QED
        BY <1>5, <2>2, <4>1 DEF Overtaken
    <3> QED
      BY <1>3, <2>2, <3>1, <3>2, <3>3
  <2> QED
    BY <2>2 DEF NonceUsedOnce
<1>10. ConfirmedMeansCommitted'
  BY <1>3 DEF NonceInv, ConfirmedMeansCommitted, CameLate, Others
<1> QED
  BY <1>4, <1>7, <1>8, <1>9, <1>10 DEF NonceParts

(***************************************************************************)
(* The sequencer executes, or somebody else claims: the counters follow.   *)
(***************************************************************************)
LEMMA ChainKeeps ==
    ASSUME NonceInv, req' = req, UNCHANGED <<sent, loose>>, committed \subseteq committed',
           nonce' \in {nonce, nonce + 1}, outside' \in {outside, outside + 1}, ChainCounts'
    PROVE  NonceParts'
<1>0. nonce \in Nat /\ outside \in Nat /\ sent \subseteq Tx
  BY DEF NonceInv, GateInv, TypeInv, TypeOK
<1>1. \A t : Overtaken(t) => Overtaken(t)'
  BY OvertakenStays
<1>2. \A q \in Requests : (Confirming(q)' <=> Confirming(q)) /\ (Counting(q)' <=> Counting(q))
  BY DEF Confirming, Counting
<1>3. SignedSettled'
  <2>1. \A t : Awaited(t) => Awaited(t)'
    BY <1>2 DEF Awaited
  <2>2. \A t \in sent : t.n < nonce => t.n < nonce'
    BY <1>0 DEF Tx
  <2> QED
    BY <1>1, <2>1, <2>2 DEF NonceInv, SignedSettled
<1>4. NonceIsOwn'
  <2>1. \A q \in Requests : req[q].nonce \in Nat
    BY DEF NonceInv, GateInv, TypeInv, TypeOK, Request
  <2>2. \A q \in Requests : req[q].nonce <= nonce => req[q].nonce <= nonce'
    BY <1>0, <2>1
  <2> QED
    BY <1>1, <1>2, <2>2 DEF NonceInv, NonceIsOwn
<1>5. NonceUsedOnce'
  BY DEF NonceInv, NonceUsedOnce, CameLate
<1>6. ConfirmedMeansCommitted'
  BY <1>0 DEF NonceInv, ConfirmedMeansCommitted, CameLate
<1> QED
  BY <1>3, <1>4, <1>5, <1>6 DEF NonceParts

(***************************************************************************)
(* A transaction is executed: a signed one takes the nonce, a claim the    *)
(* seed.                                                                   *)
(***************************************************************************)
LEMMA ExecuteKeeps ==
    ASSUME NonceInv, NEW t \in pool, Execute(t)
    PROVE  NonceParts'
<1>0. /\ nonce \in Nat /\ seed \in Nat /\ t \in Tx /\ t \in sent
      /\ sent \subseteq Tx /\ committed \subseteq sent /\ pool \subseteq sent /\ loose \subseteq sent
  BY DEF NonceInv, GateInv, TypeInv, TypeOK, ChainCounts
<1>1. req' = req /\ UNCHANGED <<sent, loose, outside>> /\ pool' \subseteq pool
  BY DEF Execute
<1>2. CASE ~Valid(t)
  <2>1. UNCHANGED <<nonce, seed, committed>>
    BY <1>2 DEF Execute
  <2>2. ChainCounts'
    BY <1>1, <2>1 DEF NonceInv, ChainCounts
  <2> QED
    BY <1>1, <2>1, <2>2, ChainKeeps
<1>3. CASE Valid(t) /\ Signed(t)
  <2>1. /\ committed' = committed \cup {t} /\ nonce' = nonce + 1 /\ seed' = seed /\ t.n = nonce
        /\ t.op # "claim"
    BY <1>3 DEF Execute, Valid, Signed
  <2>2. \A u \in committed' : Signed(u) => u.n < nonce'
    BY <1>0, <2>1 DEF NonceInv, ChainCounts, Tx
  <2>3. \A k \in 0..nonce' : k < nonce' => \E u \in committed' : Signed(u) /\ u.n = k
    <3> SUFFICES ASSUME NEW k \in 0..nonce', k < nonce'
                 PROVE  \E u \in committed' : Signed(u) /\ u.n = k
      OBVIOUS
    <3>1. CASE k = nonce
      BY <1>3, <2>1, <3>1
    <3>2. CASE k # nonce
      <4>1. k \in 0..nonce /\ k < nonce
        BY <1>0, <2>1, <3>2
      <4> QED
        BY <2>1, <4>1 DEF NonceInv, ChainCounts
    <3> QED
      BY <3>1, <3>2
  <2>4. \A u \in sent : Signed(u) => u.n <= nonce'
    BY <1>0, <2>1 DEF NonceInv, ChainCounts, Tx
  <2>5. ChainCounts'
    BY <1>0, <1>1, <2>1, <2>2, <2>3, <2>4 DEF NonceInv, ChainCounts
  <2> QED
    BY <1>1, <2>1, <2>5, ChainKeeps
<1>4. CASE Valid(t) /\ ~Signed(t)
  <2>1. t.op = "claim"
    BY <1>0, <1>4 DEF Tx, Signed
  <2>2. /\ committed' = committed \cup {t} /\ nonce' = nonce /\ seed' = seed + 1 /\ t.n = seed
        /\ t = ClaimTx(seed)
    BY <1>0, <1>4, <2>1 DEF Execute, Valid, NonceInv, ChainCounts
  <2>3. \A u \in committed' : u.op = "claim" => u.n < seed'
    BY <1>0, <2>2 DEF NonceInv, ChainCounts, Tx
  <2>4. outside = 0 => \A k \in 0..seed' : k < seed' => ClaimTx(k) \in committed'
    <3> SUFFICES ASSUME outside = 0, NEW k \in 0..seed', k < seed'
                 PROVE  ClaimTx(k) \in committed'
      OBVIOUS
    <3>1. CASE k = seed
      BY <2>2, <3>1
    <3>2. CASE k # seed
      <4>1. k \in 0..seed /\ k < seed
        BY <1>0, <2>2, <3>2
      <4> QED
        BY <2>2, <4>1 DEF NonceInv, ChainCounts
    <3> QED
      BY <3>1, <3>2
  <2>5. \A u \in sent : u.op = "claim" => u = ClaimTx(u.n) /\ u.n <= seed'
    BY <1>0, <2>2 DEF NonceInv, ChainCounts, Tx
  <2>6. ChainCounts'
    BY <1>0, <1>1, <1>4, <2>2, <2>3, <2>4, <2>5 DEF NonceInv, ChainCounts
  <2> QED
    BY <1>1, <2>2, <2>6, ChainKeeps
<1> QED
  BY <1>2, <1>3, <1>4

(***************************************************************************)
(* Somebody else claims: the seed moves on without us.                     *)
(***************************************************************************)
LEMMA OutsideKeeps ==
    ASSUME NonceInv, OutsideClaim
    PROVE  NonceParts'
<1>0. seed \in Nat /\ outside \in Nat /\ sent \subseteq Tx /\ committed \subseteq Tx
  BY DEF NonceInv, GateInv, TypeInv, TypeOK
<1>1. /\ req' = req /\ UNCHANGED <<sent, loose, pool, committed, nonce>>
      /\ seed' = seed + 1 /\ outside' = outside + 1
  BY DEF OutsideClaim
<1>2. outside' # 0
  BY <1>0, <1>1
<1>3. /\ \A u \in committed : u.op = "claim" => u.n < seed'
      /\ \A u \in sent : u.op = "claim" => u = ClaimTx(u.n) /\ u.n <= seed'
  BY <1>0, <1>1 DEF NonceInv, ChainCounts, Tx
<1>4. ChainCounts'
  BY <1>1, <1>2, <1>3 DEF NonceInv, ChainCounts
<1> QED
  BY <1>1, <1>4, ChainKeeps

(***************************************************************************)
(* At the start nothing is sent.                                           *)
(***************************************************************************)
LEMMA InitNonces == Init => NonceInv
<1> SUFFICES ASSUME Init PROVE NonceInv
  OBVIOUS
<1>1. GateInv
  BY InitGate
<1>2. PICK w \in Workloads : req = [r \in Requests |-> NewRequest(w[r])]
  BY DEF Init
<1>3. \A r \in Requests : req[r].pc = "idle" /\ req[r].how = "none"
  BY <1>2 DEF NewRequest
<1>4. LocksHeld /\ SeedsPast /\ NonceIsOwn
  BY <1>3 DEF LocksHeld, SeedsPast, NonceIsOwn, Signing, ClaimHeld, Solving, Counting, Confirming
<1>5. ChainCounts /\ SignedSettled /\ NonceUsedOnce
  BY DEF Init, ChainCounts, SignedSettled, NonceUsedOnce
<1>6. ConfirmedMeansCommitted
  BY <1>3 DEF ConfirmedMeansCommitted
<1> QED
  BY <1>1, <1>4, <1>5, <1>6 DEF NonceInv

(***************************************************************************)
(* Every step keeps the invariant of the nonces.                           *)
(***************************************************************************)
LEMMA NextNonces == NonceInv /\ [Next]_vars => NonceInv'
<1> SUFFICES ASSUME NonceInv, [Next]_vars PROVE NonceInv'
  OBVIOUS
<1>0. TypeInv /\ OneFlight
  BY DEF NonceInv, GateInv
<1>1. GateInv' /\ LocksHeld' /\ SeedsPast'
  BY <1>0, NextGate, NextLocks, NextSeeds DEF NonceInv
<1>2. ASSUME NEW r \in Requests, Quiet(r) \/ Gating(r) \/ Drops(r) PROVE NonceParts'
  <2>1. CASE req[r].pc \in {"t_nonce", "i_nonce"} /\ Quiet(r) /\ Notes(r)
    BY <2>1, NonceReadKeeps
  <2>2. CASE ~(req[r].pc \in {"t_nonce", "i_nonce"} /\ Quiet(r) /\ Notes(r))
    BY <1>0, <1>2, <2>2, GateSteps, IdleSteps, IdlesKeep
  <2> QED
    BY <2>1, <2>2
<1>3. ASSUME NEW r \in Requests, Sends(r) \/ Concludes(r) PROVE NonceParts'
  BY <1>3, SendsKeep, ConcludesKeeps
<1>4. ASSUME req' = req, UNCHANGED <<nonce, seed, pool, committed, sent, loose, outside>>
      PROVE  NonceParts'
  <2>1. ChainCounts'
    BY <1>4 DEF NonceInv, ChainCounts
  <2> QED
    BY <1>4, <2>1, ChainKeeps
<1>5. \/ (\E r \in Requests : Preview(r)) \/ OrphanStops \/ Upgrade \/ Tick \/ UNCHANGED vars
      => req' = req /\ UNCHANGED <<nonce, seed, pool, committed, sent, loose, outside>>
  BY DEF Preview, OrphanStops, Upgrade, Tick, vars, chain
<1>6. NonceParts'
  BY <1>0, <1>2, <1>3, <1>4, <1>5, NextSteps, ExecuteKeeps, OutsideKeeps
<1> QED
  BY <1>1, <1>6 DEF NonceInv, NonceParts

(***************************************************************************)
(* Signed writes are serialized from the nonce read to the commitment      *)
(* (NonceUsedOnce), whatever clients drop and sends are lost.              *)
(***************************************************************************)
THEOREM NoncesAreSerialized == Spec => []NonceUsedOnce
<1>1. NonceInv => NonceUsedOnce
  BY DEF NonceInv
<1> QED
  BY <1>1, InitNonces, NextNonces, PTL DEF Spec

(***************************************************************************)
(* What a tool reports as confirmed is committed                           *)
(* (ConfirmedMeansCommitted): by hash always, by the fallbacks but for the *)
(* two exceptions named there.                                             *)
(***************************************************************************)
THEOREM ConfirmationIsRight == Spec => []ConfirmedMeansCommitted
<1>1. NonceInv => ConfirmedMeansCommitted
  BY DEF NonceInv
<1> QED
  BY <1>1, InitNonces, NextNonces, PTL DEF Spec

-----------------------------------------------------------------------------
(***************************************************************************)
(* The claims: what a step of a call does not do to the faucet.            *)
(***************************************************************************)
SettledInPool == \A t \in pool : t.op = "claim" /\ t.n = seed => t \in loose \/ Awaited(t)
Needed(r) == ~TargetReached(r, balance) \/ req[r].blind \/ LooseClaim
ClaimInv == NonceInv /\ ClaimsSettled

(***************************************************************************)
(* The invariant of the claims, in its two parts.                          *)
(***************************************************************************)
LEMMA ClaimsByParts ==
    ClaimsSettled <=> SettledInPool /\ \A r \in Requests : Solving(r) => Needed(r)
BY DEF ClaimsSettled, SettledInPool, Needed

(***************************************************************************)
(* A step of one call does not make the claims of the others needless.     *)
(***************************************************************************)
LEMMA NeedStays ==
    ASSUME ClaimsSettled, NEW r \in Requests, Others(r), loose \subseteq loose', balance' = balance,
           Solving(r)' => Needed(r)'
    PROVE  \A q \in Requests : Solving(q)' => Needed(q)'
<1>1. ASSUME NEW q \in Requests \ {r}, Solving(q)' PROVE Needed(q)'
  <2>1. req'[q] = req[q]
    BY DEF Others
  <2>2. Solving(q) /\ Needed(q)
    BY <1>1, <2>1, ClaimsByParts DEF Solving
  <2> QED
    BY <2>1, <2>2 DEF Needed, TargetReached, LooseClaim
<1> QED
  BY <1>1

(***************************************************************************)
(* Quiet steps, steps at the gate and drops: a claim in the making was     *)
(* found needed under the lock, and is still needed.                       *)
(***************************************************************************)
LEMMA QuietClaims ==
    ASSUME ClaimInv, NEW r \in Requests, Quiet(r) \/ Gated(r) \/ Drops(r)
    PROVE  /\ Others(r) /\ UNCHANGED <<seed, pool, loose, balance>>
           /\ req'[r].tx = req[r].tx /\ (Confirming(r)' <=> Confirming(r))
           /\ Solving(r)' => Needed(r)'
<1>0. OneFlight /\ (Solving(r) => Needed(r))
  BY ClaimsByParts DEF ClaimInv, NonceInv, GateInv
<1>1. ASSUME Solving(r), balance' = balance, loose' = loose, req'[r].call = req[r].call,
             req'[r].blind = req[r].blind
      PROVE  Needed(r)'
  BY <1>0, <1>1 DEF Needed, TargetReached, LooseClaim
<1>2. CASE Quiet(r)
  <2>1. /\ Others(r) /\ UNCHANGED <<seed, pool, loose, balance>>
        /\ req'[r].tx = req[r].tx /\ req'[r].call = req[r].call
    BY <1>2 DEF Quiet, Rests, Plain, Takes, Stops, Frees, Notes, Walked, Moves, Kept, NonceRead,
       SeedRead, BalanceRead
  <2>2. Confirming(r)' <=> Confirming(r)
    BY <1>2 DEF Quiet, Plain, Takes, Stops, Frees, Notes, From, NonceRead, SeedRead, BalanceRead,
       Confirming
  <2>3. CASE Notes(r) /\ req[r].pc = "c_reread"
    <3>1. ~TargetReached(r, balance) \/ req'[r].blind
      BY <2>3 DEF Notes, BalanceRead
    <3>2. Needed(r)'
      BY <2>1, <3>1 DEF Needed, TargetReached
    <3> QED
      BY <2>1, <2>2, <3>2
  <2>4. CASE ~(Notes(r) /\ req[r].pc = "c_reread")
    <3>1. req'[r].blind = req[r].blind
      BY <1>2, <2>4 DEF Quiet, Plain, Takes, Stops, Frees, Notes, Walked, Moves, Kept, NonceRead,
         SeedRead
    <3>2. Solving(r)' => Solving(r)
      BY <1>2, <2>4 DEF Quiet, Plain, Takes, Stops, Frees, Notes, From, NonceRead, SeedRead, Solving
    <3> QED
      BY <1>1, <2>1, <2>2, <3>1, <3>2
  <2> QED
    BY <2>3, <2>4
<1>3. CASE Gated(r)
  <2>1. /\ Others(r) /\ UNCHANGED <<seed, pool, loose, balance>>
        /\ req'[r].tx = req[r].tx /\ req'[r].call = req[r].call /\ req'[r].blind = req[r].blind
    BY <1>3 DEF Gated, Passes, Queues, Flies, Lands, MovesTo, Moves, Kept
  <2>2. req[r].flight \in Answers => req[r].pc \in Gates \cup {"f_lock"}
    BY <1>0 DEF OneFlight, Answers
  <2>3. Confirming(r)' <=> Confirming(r)
    BY <1>3, <2>2, AfterGatePlaces
       DEF Gated, Passes, Queues, Flies, Lands, MovesTo, Gates, Confirming
  <2>4. Solving(r)' => Solving(r)
    BY <1>3, <2>2, AfterGatePlaces
       DEF Gated, Passes, Queues, Flies, Lands, MovesTo, Gates, Solving
  <2> QED
    BY <1>1, <2>1, <2>3, <2>4
<1>4. CASE Drops(r)
  <2>1. /\ Others(r) /\ UNCHANGED <<seed, pool, loose, balance>>
        /\ req'[r].tx = req[r].tx /\ req'[r].call = req[r].call /\ req'[r].blind = req[r].blind
    BY <1>4 DEF Drops, MovesTo, Moves, Kept
  <2>2. (Confirming(r)' <=> Confirming(r)) /\ (Solving(r)' => Solving(r))
    BY <1>4 DEF Drops, MovesTo, Detached, Confirming, Solving
  <2> QED
    BY <1>1, <2>1, <2>2
<1> QED
  BY <1>2, <1>3, <1>4

(***************************************************************************)
(* At the start no claim is in the making.                                 *)
(***************************************************************************)
LEMMA InitClaims == Init => ClaimInv
<1> SUFFICES ASSUME Init PROVE ClaimInv
  OBVIOUS
<1>1. PICK w \in Workloads : req = [r \in Requests |-> NewRequest(w[r])]
  BY DEF Init
<1>2. \A r \in Requests : ~Solving(r)
  BY <1>1 DEF NewRequest, Solving
<1>3. SettledInPool
  BY DEF Init, SettledInPool
<1> QED
  BY <1>2, <1>3, InitNonces, ClaimsByParts DEF ClaimInv

(***************************************************************************)
(* Every step keeps the invariant of the claims. A claim that is executed  *)
(* while another is in the making is not awaited by anybody, for that      *)
(* takes the lock: it was given up on.                                     *)
(***************************************************************************)
LEMMA NextClaims == ClaimInv /\ [Next]_vars => ClaimInv'
<1> SUFFICES ASSUME ClaimInv, [Next]_vars PROVE ClaimInv'
  OBVIOUS
<1>0. TypeInv /\ NonceInv /\ NonceInv' /\ ClaimsSettled
  BY NextNonces DEF ClaimInv, NonceInv, GateInv
<1>1. SettledInPool /\ \A r \in Requests : Solving(r) => Needed(r)
  BY <1>0, ClaimsByParts
<1>2. ASSUME NEW r \in Requests, Quiet(r) \/ Gated(r) \/ Drops(r) PROVE ClaimsSettled'
  <2>1. /\ Others(r) /\ UNCHANGED <<seed, pool, loose, balance>>
        /\ req'[r].tx = req[r].tx /\ (Confirming(r)' <=> Confirming(r))
        /\ Solving(r)' => Needed(r)'
    BY <1>2, QuietClaims
  <2>2. \A t : Awaited(t) => Awaited(t)'
    <3> SUFFICES ASSUME NEW q \in Requests, Confirming(q)
                 PROVE  Confirming(q)' /\ req'[q].tx = req[q].tx
      BY DEF Awaited
    <3> QED
      BY <2>1 DEF Others, Confirming
  <2>3. SettledInPool'
    BY <1>1, <2>1, <2>2 DEF SettledInPool
  <2>4. \A q \in Requests : Solving(q)' => Needed(q)'
    BY <1>0, <2>1, NeedStays
  <2> QED
    BY <2>3, <2>4, ClaimsByParts DEF ClaimsSettled, SettledInPool, Needed
<1>3. ASSUME NEW r \in Requests, Sends(r) PROVE ClaimsSettled'
  <2>1. PICK t \in Tx : SendOutcome(r, t)
    BY <1>0, <1>3, SendsNumbered
  <2>2. ~Confirming(r)
    BY <1>0, <1>3, SendsNumbered
  <2>3. /\ Others(r) /\ UNCHANGED <<seed, balance>> /\ loose \subseteq loose'
        /\ pool' \subseteq pool \cup {t}
        /\ t \in loose' \/ (req'[r].pc = "hash" /\ req'[r].tx = t)
        /\ req'[r].pc \in {"hash", "done"}
    BY <2>1 DEF SendOutcome, HasSent, Walks, MovesTo, Moves
  <2>4. \A u : Awaited(u) => Awaited(u)'
    <3> SUFFICES ASSUME NEW q \in Requests, Confirming(q)
                 PROVE  Confirming(q)' /\ req'[q].tx = req[q].tx
      BY DEF Awaited
    <3> QED
      BY <2>2, <2>3 DEF Others, Confirming
  <2>5. t \in loose' \/ Awaited(t)'
    BY <2>3 DEF Awaited, Confirming
  <2>6. SettledInPool'
    BY <1>1, <2>3, <2>4, <2>5 DEF SettledInPool
  <2>7. \A q \in Requests : Solving(q)' => Needed(q)'
    BY <1>0, <2>3, NeedStays DEF Solving
  <2> QED
    BY <2>6, <2>7 DEF ClaimsSettled, SettledInPool, Needed
<1>4. ASSUME NEW r \in Requests, Concludes(r) PROVE ClaimsSettled'
  <2>1. /\ Others(r) /\ UNCHANGED <<seed, pool, balance>> /\ loose \subseteq loose'
        /\ ~Solving(r)'
    BY <1>4 DEF Concludes, GoesOn, GivesUp, Learns, Solving
  <2>2. req[r].tx.op = "claim" /\ req[r].tx.n = seed => req[r].tx \in loose'
    <3>1. req[r].tx \in committed => ~(req[r].tx.op = "claim" /\ req[r].tx.n = seed)
      BY <1>0 DEF NonceInv, ChainCounts, GateInv, TypeInv, TypeOK
    <3>2. Signed(req[r].tx) => req[r].tx.op # "claim"
      BY DEF Signed
    <3> QED
      BY <1>4, <3>1, <3>2 DEF Concludes, GivesUp
  <2>3. ASSUME NEW t, Awaited(t), t # req[r].tx PROVE Awaited(t)'
    BY <2>1, <2>3 DEF Awaited, Others, Confirming
  <2>4. SettledInPool'
    BY <1>1, <2>1, <2>2, <2>3 DEF SettledInPool
  <2>5. \A q \in Requests : Solving(q)' => Needed(q)'
    BY <1>0, <2>1, NeedStays
  <2> QED
    BY <2>4, <2>5 DEF ClaimsSettled, SettledInPool, Needed
<1>5. ASSUME NEW t \in pool, Execute(t) PROVE ClaimsSettled'
  <2>0. /\ seed \in Nat /\ balance \in Nat /\ t \in Tx /\ sent \subseteq Tx /\ pool \subseteq sent
        /\ \A q \in Requests : req[q].call.target \in Nat
    BY <1>0 DEF NonceInv, ChainCounts, TypeInv, TypeOK, Request, Call
  <2>1. req' = req /\ loose' = loose /\ pool' = pool \ {t}
    BY <1>5 DEF Execute
  <2>2. \A u : Awaited(u) => Awaited(u)'
    BY <2>1 DEF Awaited, Confirming
  <2>3. CASE Valid(t) /\ t.op = "claim"
    <3>1. seed' = seed + 1 /\ t.n = seed
      BY <1>5, <2>3 DEF Execute, Valid
    <3>2. \A u \in pool : u.op = "claim" => u.n <= seed /\ u.n \in Nat
      BY <1>0, <2>0 DEF NonceInv, ChainCounts, Tx
    <3>3. SettledInPool'
      BY <2>0, <2>1, <3>1, <3>2 DEF SettledInPool
    <3>4. ASSUME NEW q \in Requests, Solving(q)' PROVE Needed(q)'
      <4>1. Solving(q)
        BY <2>1, <3>4 DEF Solving
      <4>2. CASE t \in loose
        BY <2>1, <2>3, <4>2 DEF Needed, LooseClaim
      <4>3. CASE Awaited(t)
        <5>1. PICK p \in Requests : Confirming(p) /\ req[p].tx = t
          BY <4>3 DEF Awaited
        <5>2. ClaimHeld(p) /\ ClaimHeld(q) /\ p # q
          BY <2>3, <4>1, <5>1 DEF ClaimHeld, Confirming, Solving
        <5> QED
          BY <1>0, <5>2 DEF NonceInv, LocksHeld
      <4> QED
        BY <1>1, <2>3, <3>1, <4>2, <4>3 DEF SettledInPool
    <3> QED
      BY <3>3, <3>4 DEF ClaimsSettled, SettledInPool, Needed
  <2>4. CASE ~(Valid(t) /\ t.op = "claim")
    <3>1. seed' = seed
      BY <1>5, <2>4 DEF Execute
    <3>2. balance' <= balance /\ balance' \in Nat
      <4>1. t.op \in {"init", "transfer", "claim"} /\ t.amount \in Nat
        BY <2>0 DEF Tx
      <4>2. CASE Valid(t) /\ t.op = "transfer"
        <5>1. t.amount <= balance
          BY <4>2 DEF Valid
        <5>2. balance' = balance - t.amount
          BY <1>5, <4>2 DEF Execute
        <5> QED
          BY <2>0, <4>1, <5>1, <5>2
      <4>3. CASE ~(Valid(t) /\ t.op = "transfer")
        <5>1. balance' = balance
          BY <1>5, <2>4, <4>1, <4>3 DEF Execute
        <5> QED
          BY <2>0, <5>1
      <4> QED
        BY <4>2, <4>3
    <3>3. SettledInPool'
      BY <1>1, <2>1, <2>2, <3>1 DEF SettledInPool
    <3>4. ASSUME NEW q \in Requests, Solving(q)' PROVE Needed(q)'
      <4>1. Needed(q)
        BY <1>1, <2>1, <3>4 DEF Solving
      <4>2. ~TargetReached(q, balance) => ~TargetReached(q, balance)'
        BY <2>0, <2>1, <3>2 DEF TargetReached
      <4> QED
        BY <2>1, <4>1, <4>2 DEF Needed, LooseClaim
    <3> QED
      BY <3>3, <3>4 DEF ClaimsSettled, SettledInPool, Needed
  <2> QED
    BY <2>3, <2>4
<1>6. ASSUME req' = req, UNCHANGED <<pool, loose, balance>>, seed' \in {seed, seed + 1}
      PROVE  ClaimsSettled'
  <2>1. \A u : Awaited(u) => Awaited(u)'
    BY <1>6 DEF Awaited, Confirming
  <2>2. seed \in Nat /\ \A u \in pool : u.op = "claim" => u.n <= seed /\ u.n \in Nat
    BY <1>0 DEF NonceInv, ChainCounts, TypeInv, TypeOK, Tx
  <2>3. SettledInPool'
    BY <1>1, <1>6, <2>1, <2>2 DEF SettledInPool
  <2>4. \A q \in Requests : Solving(q)' => Needed(q)'
    BY <1>1, <1>6 DEF Solving, Needed, TargetReached, LooseClaim
  <2> QED
    BY <2>3, <2>4 DEF ClaimsSettled, SettledInPool, Needed
<1>7. \/ (\E r \in Requests : Preview(r)) \/ OrphanStops \/ OutsideClaim \/ Upgrade \/ Tick
      \/ UNCHANGED vars
      => req' = req /\ UNCHANGED <<pool, loose, balance>> /\ seed' \in {seed, seed + 1}
  BY DEF Preview, OrphanStops, OutsideClaim, Upgrade, Tick, vars, chain
<1>8. ClaimsSettled'
  BY <1>0, <1>2, <1>3, <1>4, <1>5, <1>6, <1>7, NextSteps, GateSteps
<1> QED
  BY <1>0, <1>8 DEF ClaimInv

(***************************************************************************)
(* No claim is sent for an account that has reached the target             *)
(* (NoNeedlessClaim), however long the call waited for the lock, a permit  *)
(* and its proof of work.                                                  *)
(***************************************************************************)
THEOREM ClaimsAreNeeded == Spec => NoNeedlessClaim
<1> DEFINE Right ==
      \A r \in Requests :
          At(r, "c_submit") /\ req'[r].pc = "hash" =>
              \/ ~TargetReached(r, balance)
              \/ req[r].blind
              \/ \E t \in loose : t.op = "claim"
<1>1. ClaimInv => Right
  BY ClaimsByParts DEF ClaimInv, Needed, LooseClaim, Solving, At
<1>2. ClaimInv /\ [Next]_vars => [Right]_vars
  BY <1>1
<1> QED
  BY <1>2, InitClaims, NextClaims, PTL DEF Spec, NoNeedlessClaim

-----------------------------------------------------------------------------
(***************************************************************************)
(* The tokens: a call keeps to the places of its tool.                     *)
(***************************************************************************)
Keeping(r) ==
    /\ req[r].pc \in TransferPlaces \/ Transferred(r) => req[r].call.tool = "transfer"
    /\ req[r].call.tool = "fingerprint" => req[r].pc \in {"idle", "f_lock", "done"}
    /\ Transferred(r) => req[r].tx.amount = req[r].call.amount
    /\ req[r].pc = "t_token" => ~Transferred(r)
    /\ req[r].pc = "idle" => ~Transferred(r)
TokenInv == GateInv /\ ToolsApart /\ TokensPaid
SpentSet == {r \in Requests : Spent(r)}

(***************************************************************************)
(* The invariant of the tools, call by call.                               *)
(***************************************************************************)
LEMMA ToolsByParts == ToolsApart <=> \A r \in Requests : Keeping(r)
BY DEF ToolsApart, Keeping

(***************************************************************************)
(* What a step of a call may do to its tool and its token.                 *)
(***************************************************************************)
Proper(r) ==
    /\ Others(r) /\ req'[r].call = req[r].call /\ Keeping(r)'
    /\ UNCHANGED previews /\ tokens' \subseteq tokens
    /\ Spent(r)' => Spent(r) \/ Pays(r)

(***************************************************************************)
(* Quiet steps are proper: only the token lets a transfer past.            *)
(***************************************************************************)
LEMMA QuietTools ==
    ASSUME GateInv, NEW r \in Requests, Keeping(r), Quiet(r)
    PROVE  Proper(r)
<1>0. req[r].call.tool \in {"transfer", "claim", "fingerprint"}
  BY DEF GateInv, TypeInv, TypeOK, Request, Call
<1>1. /\ Others(r) /\ req'[r].call = req[r].call /\ req'[r].tx = req[r].tx
      /\ UNCHANGED previews /\ tokens' \subseteq tokens
  BY DEF Quiet, Rests, Plain, Takes, Stops, Frees, Notes, Walked, Moves, Kept, NonceRead, SeedRead,
     BalanceRead
<1>2. Transferred(r)' <=> Transferred(r)
  BY <1>1 DEF Transferred
<1>3. Keeping(r)'
  BY <1>0, <1>1, <1>2
     DEF Keeping, Quiet, Plain, Takes, Stops, Frees, Notes, From, Claiming, NonceRead,
     SeedRead, BalanceRead, TransferPlaces
<1>4. Spent(r)' => Spent(r) \/ Pays(r)
  BY <1>0, <1>1, <1>2
     DEF Spent, Quiet, Plain, Takes, Stops, Frees, Notes, From, Claiming, NonceRead,
     SeedRead, BalanceRead
<1> QED
  BY <1>1, <1>3, <1>4 DEF Proper

(***************************************************************************)
(* So are the steps at the gate and drops.                                 *)
(***************************************************************************)
LEMMA GatedTools ==
    ASSUME GateInv, NEW r \in Requests, Keeping(r), Gated(r) \/ Drops(r)
    PROVE  Proper(r)
<1>0. req[r].call.tool \in {"transfer", "claim", "fingerprint"}
  BY DEF GateInv, TypeInv, TypeOK, Request, Call
<1>1. /\ Others(r) /\ req'[r].call = req[r].call /\ req'[r].tx = req[r].tx
      /\ UNCHANGED previews /\ tokens' \subseteq tokens
  BY DEF Gated, Passes, Queues, Flies, Lands, Drops, MovesTo, Moves, Kept
<1>2. Transferred(r)' <=> Transferred(r)
  BY <1>1 DEF Transferred
<1>3. \/ req'[r].pc \in {req[r].pc, "done"}
      \/ req[r].pc \in Gates /\ req'[r].pc = AfterGate(r)
      \/ req[r].pc = "idle" /\ req'[r].pc = "f_lock" /\ req[r].call.tool = "fingerprint"
  BY DEF Gated, Passes, Queues, Flies, Lands, Drops, MovesTo
<1>4. Keeping(r)'
  BY <1>0, <1>1, <1>2, <1>3, AfterGatePlaces DEF Keeping, TransferPlaces, Gates
<1>5. Spent(r)' => Spent(r)
  BY <1>0, <1>1, <1>2, <1>3 DEF Spent, Gates
<1> QED
  BY <1>1, <1>4, <1>5 DEF Proper

(***************************************************************************)
(* So are sends and the ends of confirmations.                             *)
(***************************************************************************)
LEMMA SendTools ==
    ASSUME GateInv, NEW r \in Requests, Keeping(r), Sends(r) \/ Concludes(r)
    PROVE  Proper(r)
<1>0. req[r].call.tool \in {"transfer", "claim", "fingerprint"}
  BY DEF GateInv, TypeInv, TypeOK, Request, Call
<1>1. CASE Concludes(r)
  <2>1. /\ Others(r) /\ req'[r].call = req[r].call /\ req'[r].tx = req[r].tx
        /\ UNCHANGED <<previews, tokens>>
        /\ req[r].pc \in {"hash", "fallback"} /\ req'[r].pc \in {"i_owner", "done", "c_next"}
    BY <1>1 DEF Concludes, GoesOn, GivesUp, Learns, Confirming
  <2>2. Transferred(r)' <=> Transferred(r)
    BY <2>1 DEF Transferred
  <2>3. Keeping(r)' /\ (Spent(r)' => Spent(r))
    BY <1>0, <2>1, <2>2 DEF Keeping, TransferPlaces, Spent
  <2> QED
    BY <2>1, <2>3 DEF Proper
<1>2. ASSUME NEW t, SendOutcome(r, t), req[r].pc \in {"i_send", "t_send", "c_submit"},
             t.op = "transfer" => req[r].pc = "t_send" /\ t.amount = req[r].call.amount
      PROVE  Proper(r)
  <2>1. /\ Others(r) /\ req'[r].call = req[r].call /\ UNCHANGED <<previews, tokens>>
        /\ \/ req'[r].pc = "hash" /\ req'[r].tx = t
           \/ req'[r].pc = "done" /\ req'[r].tx = req[r].tx
    BY <1>2 DEF SendOutcome, HasSent, Walks, MovesTo, Moves, Kept
  <2>2. req'[r].tx = req[r].tx => (Transferred(r)' <=> Transferred(r))
    BY DEF Transferred
  <2>3. req'[r].tx = t /\ Transferred(r)' => t.op = "transfer"
    BY DEF Transferred
  <2>4. Keeping(r)'
    BY <1>0, <1>2, <2>1, <2>2, <2>3 DEF Keeping, TransferPlaces
  <2>5. Spent(r)' => Spent(r)
    BY <1>2, <2>1 DEF Spent
  <2> QED
    BY <2>1, <2>4, <2>5 DEF Proper
<1>3. CASE Sends(r)
  <2>1. CASE req[r].pc = "i_send" /\ SendOutcome(r, InitTx(r))
    <3>1. InitTx(r).op = "init"
      BY DEF InitTx
    <3> QED
      BY <1>2, <2>1, <3>1
  <2>2. CASE req[r].pc = "t_send" /\ SendOutcome(r, TransferTx(r))
    <3>1. TransferTx(r).amount = req[r].call.amount
      BY DEF TransferTx
    <3> QED
      BY <1>2, <2>2, <3>1
  <2>3. CASE req[r].pc = "c_submit" /\ SendOutcome(r, ClaimTx(req[r].seed))
    <3>1. ClaimTx(req[r].seed).op = "claim"
      BY DEF ClaimTx
    <3> QED
      BY <1>2, <2>3, <3>1
  <2> QED
    BY <1>3, <2>1, <2>2, <2>3 DEF Sends
<1> QED
  BY <1>1, <1>3

(***************************************************************************)
(* Counting calls: of two sets neither grows, or one call joins the first  *)
(* as one leaves the second.                                               *)
(***************************************************************************)
LEMMA CallsFinite ==
    ASSUME NEW S \in SUBSET Requests
    PROVE  IsFiniteSet(S) /\ Cardinality(S) \in Nat
BY McpAssumption, FS_Subset, FS_CardinalityType

(***************************************************************************)
(* A part of a set of calls counts no more than the whole.                 *)
(***************************************************************************)
LEMMA CountSmaller ==
    ASSUME NEW S \in SUBSET Requests, NEW U \in SUBSET S
    PROVE  Cardinality(U) <= Cardinality(S)
BY CallsFinite, FS_Subset

(***************************************************************************)
(* The exchange of a call for another.                                     *)
(***************************************************************************)
LEMMA CountExchange ==
    ASSUME NEW S \in SUBSET Requests, NEW T \in SUBSET Requests, NEW r \in Requests, NEW t \in T,
           NEW U \in SUBSET (S \cup {r}), NEW V \in SUBSET (T \ {t})
    PROVE  Cardinality(U) + Cardinality(V) <= Cardinality(S) + Cardinality(T)
<1>1. IsFiniteSet(S) /\ IsFiniteSet(T)
  BY CallsFinite
<1>2. /\ Cardinality(S) \in Nat /\ Cardinality(T) \in Nat
      /\ Cardinality(U) \in Nat /\ Cardinality(V) \in Nat
      /\ Cardinality(S \cup {r}) \in Nat /\ Cardinality(T \ {t}) \in Nat
  BY CallsFinite
<1>3. Cardinality(S \cup {r}) <= Cardinality(S) + 1
  <2>1. Cardinality(S \cup {r}) = IF r \in S THEN Cardinality(S) ELSE Cardinality(S) + 1
    BY <1>1, FS_AddElement
  <2> QED
    BY <1>2, <2>1
<1>4. Cardinality(T \ {t}) = Cardinality(T) - 1
  BY <1>1, FS_RemoveElement
<1>5. Cardinality(U) <= Cardinality(S \cup {r}) /\ Cardinality(V) <= Cardinality(T \ {t})
  BY CountSmaller
<1> QED
  BY <1>2, <1>3, <1>4, <1>5

(***************************************************************************)
(* A proper step keeps previews ahead of tokens and transfers.             *)
(***************************************************************************)
LEMMA ProperKeeps ==
    ASSUME TokenInv, NEW r \in Requests, Proper(r)
    PROVE  ToolsApart' /\ TokensPaid'
<1>0. tokens \subseteq previews /\ previews \subseteq Requests
  BY DEF TokenInv, GateInv, TypeInv, TypeOK
<1>1. \A q \in Requests : Keeping(q)
  BY ToolsByParts DEF TokenInv
<1>2. ASSUME NEW q \in Requests PROVE Keeping(q)'
  <2>1. CASE q = r
    BY <2>1 DEF Proper
  <2>2. CASE q # r
    <3>1. req'[q] = req[q]
      BY <2>2 DEF Proper, Others
    <3> QED
      BY <1>1, <3>1 DEF Keeping, Transferred
  <2> QED
    BY <2>1, <2>2
<1>3. ToolsApart'
  BY <1>2 DEF Keeping, ToolsApart
<1>4. ASSUME NEW a \in Nat
      PROVE  Cardinality(For(SpentSet, a)') + Cardinality(For(tokens, a)')
                <= Cardinality(For(previews, a)')
  <2> DEFINE S == For(SpentSet, a)   T == For(tokens, a)   P == For(previews, a)
             U == For(SpentSet, a)'  V == For(tokens, a)'
  <2>1. \A q \in Requests : req'[q].call = req[q].call
    BY DEF Proper, Others
  <2>2. P' = P /\ V \subseteq T /\ S \subseteq Requests /\ T \subseteq Requests
    BY <1>0, <2>1 DEF Proper, For, SpentSet
  <2>3. \A q \in Requests \ {r} : Spent(q)' <=> Spent(q)
    BY DEF Proper, Others, Spent, Transferred
  <2>4. Cardinality(S) + Cardinality(T) <= Cardinality(P)
    BY DEF TokenInv, TokensPaid, SpentSet
  <2>5. P \subseteq Requests /\ U \subseteq Requests
    BY <1>0 DEF For, SpentSet
  <2>6. CASE U \subseteq S
    <3>1. Cardinality(U) <= Cardinality(S) /\ Cardinality(V) <= Cardinality(T)
      BY <2>2, <2>6, CountSmaller
    <3>2. /\ Cardinality(S) \in Nat /\ Cardinality(T) \in Nat /\ Cardinality(P) \in Nat
          /\ Cardinality(U) \in Nat /\ Cardinality(V) \in Nat
      BY <2>2, <2>5, CallsFinite
    <3> HIDE DEF S, T, P, U, V
    <3>3. Cardinality(U) + Cardinality(V) <= Cardinality(P)
      BY <2>4, <3>1, <3>2
    <3> QED
      BY <2>2, <3>3 DEF U, V, P
  <2>7. CASE ~(U \subseteq S)
    <3>1. Spent(r)' /\ ~Spent(r) /\ req[r].call.amount = a /\ U \subseteq S \cup {r}
      BY <2>1, <2>3, <2>7 DEF For, SpentSet
    <3>2. PICK t \in tokens : req[t].call.amount = req[r].call.amount /\ t \notin tokens'
      BY <3>1 DEF Proper, Pays
    <3>3. t \in T /\ V \subseteq T \ {t}
      BY <2>2, <3>1, <3>2 DEF For
    <3> HIDE DEF S, T, P, U, V
    <3>4. Cardinality(U) + Cardinality(V) <= Cardinality(S) + Cardinality(T)
      BY <2>2, <3>1, <3>3, CountExchange
    <3>5. /\ Cardinality(S) \in Nat /\ Cardinality(T) \in Nat /\ Cardinality(P) \in Nat
          /\ Cardinality(U) \in Nat /\ Cardinality(V) \in Nat
      BY <2>2, <2>5, CallsFinite
    <3>6. Cardinality(U) + Cardinality(V) <= Cardinality(P)
      BY <2>4, <3>4, <3>5
    <3> QED
      BY <2>2, <3>6 DEF U, V, P
  <2> QED
    BY <2>6, <2>7
<1>5. TokensPaid'
  BY <1>4 DEF TokensPaid, SpentSet
<1> QED
  BY <1>3, <1>5

(***************************************************************************)
(* A preview adds one, and at most one token.                              *)
(***************************************************************************)
LEMMA PreviewKeeps ==
    ASSUME TokenInv, NEW r \in Requests, Preview(r)
    PROVE  TokensPaid'
<1>0. tokens \subseteq previews /\ previews \subseteq Requests
  BY DEF TokenInv, GateInv, TypeInv, TypeOK
<1>1. /\ req' = req /\ r \notin previews /\ previews' = previews \cup {r}
      /\ tokens' \subseteq tokens \cup {r}
  BY DEF Preview
<1>2. ASSUME NEW a \in Nat
      PROVE  Cardinality(For(SpentSet, a)') + Cardinality(For(tokens, a)')
                <= Cardinality(For(previews, a)')
  <2> DEFINE S == For(SpentSet, a)   T == For(tokens, a)   P == For(previews, a)
             V == For(tokens, a)'    Q == For(previews, a)'
  <2>1. For(SpentSet, a)' = S
    BY <1>1 DEF For, SpentSet, Spent, Transferred
  <2>2. /\ S \subseteq Requests /\ T \subseteq Requests /\ P \subseteq Requests
        /\ V \subseteq Requests /\ Q \subseteq Requests /\ r \notin P
    BY <1>0, <1>1 DEF For, SpentSet
  <2>3. Cardinality(S) + Cardinality(T) <= Cardinality(P)
    BY DEF TokenInv, TokensPaid, SpentSet
  <2>4. \/ V \subseteq T /\ Q = P
        \/ V \subseteq T \cup {r} /\ Q = P \cup {r}
    BY <1>1 DEF For
  <2> HIDE DEF S, T, P, V, Q
  <2>5. /\ Cardinality(S) \in Nat /\ Cardinality(T) \in Nat /\ Cardinality(P) \in Nat
        /\ Cardinality(V) \in Nat /\ Cardinality(Q) \in Nat
    BY <2>2, CallsFinite
  <2>6. Cardinality(S) + Cardinality(V) <= Cardinality(Q)
    <3>1. CASE V \subseteq T /\ Q = P
      <4>1. Cardinality(V) <= Cardinality(T)
        BY <2>2, <3>1, CountSmaller
      <4> QED
        BY <2>3, <2>5, <3>1, <4>1
    <3>2. CASE V \subseteq T \cup {r} /\ Q = P \cup {r}
      <4>1. IsFiniteSet(P) /\ IsFiniteSet(T)
        BY <2>2, CallsFinite
      <4>2. Cardinality(Q) = Cardinality(P) + 1
        BY <2>2, <3>2, <4>1, FS_AddElement
      <4>3. Cardinality(T \cup {r}) \in Nat /\ Cardinality(T \cup {r}) <= Cardinality(T) + 1
        <5>1. T \cup {r} \in SUBSET Requests
          BY <2>2
        <5> QED
          BY <2>5, <4>1, <5>1, FS_AddElement, CallsFinite
      <4>4. Cardinality(V) <= Cardinality(T \cup {r})
        BY <2>2, <3>2, CountSmaller
      <4> QED
        BY <2>3, <2>5, <4>2, <4>3, <4>4
    <3> QED
      BY <2>4, <3>1, <3>2
  <2> QED
    BY <2>1, <2>6 DEF V, Q
<1> QED
  BY <1>2 DEF TokensPaid, SpentSet

(***************************************************************************)
(* At the start there are no tokens and no transfers.                      *)
(***************************************************************************)
LEMMA InitTokens == Init => TokenInv
<1> SUFFICES ASSUME Init PROVE TokenInv
  OBVIOUS
<1>1. PICK w \in Workloads : req = [r \in Requests |-> NewRequest(w[r])]
  BY DEF Init
<1>2. \A r \in Requests : req[r].pc = "idle" /\ ~Transferred(r)
  BY <1>1 DEF NewRequest, Transferred
<1>3. ToolsApart
  BY <1>2 DEF ToolsApart, TransferPlaces
<1>4. ASSUME NEW a \in Nat
      PROVE  Cardinality(For(SpentSet, a)) + Cardinality(For(tokens, a))
                <= Cardinality(For(previews, a))
  <2>1. For(SpentSet, a) = {} /\ For(tokens, a) = {} /\ For(previews, a) = {}
    BY <1>2 DEF Init, For, SpentSet, Spent
  <2> QED
    BY <2>1, FS_EmptySet
<1>5. TokensPaid
  BY <1>4 DEF TokensPaid, SpentSet
<1> QED
  BY <1>3, <1>5, InitGate DEF TokenInv

(***************************************************************************)
(* Every step keeps the invariant of the tokens.                           *)
(***************************************************************************)
LEMMA NextTokens == TokenInv /\ [Next]_vars => TokenInv'
<1> SUFFICES ASSUME TokenInv, [Next]_vars PROVE TokenInv'
  OBVIOUS
<1>0. TypeInv /\ GateInv /\ GateInv' /\ \A r \in Requests : Keeping(r)
  BY NextGate, ToolsByParts DEF TokenInv, GateInv
<1>1. ASSUME NEW r \in Requests, Quiet(r) \/ Gating(r) \/ Sends(r) \/ Concludes(r) \/ Drops(r)
      PROVE  ToolsApart' /\ TokensPaid'
  BY <1>0, <1>1, GateSteps, QuietTools, GatedTools, SendTools, ProperKeeps
<1>2. ASSUME req' = req PROVE ToolsApart'
  BY <1>2 DEF TokenInv, ToolsApart, Transferred
<1>3. ASSUME NEW r \in Requests, Preview(r) PROVE ToolsApart' /\ TokensPaid'
  BY <1>2, <1>3, PreviewKeeps DEF Preview
<1>4. ASSUME req' = req, UNCHANGED <<previews, tokens>> PROVE ToolsApart' /\ TokensPaid'
  <2>1. TokensPaid'
    BY <1>4 DEF TokenInv, TokensPaid, For, Spent, Transferred
  <2> QED
    BY <1>2, <1>4, <2>1
<1>5. \/ (\E t \in pool : Execute(t)) \/ OrphanStops \/ OutsideClaim \/ Upgrade \/ Tick
      \/ UNCHANGED vars
      => req' = req /\ UNCHANGED <<previews, tokens>>
  BY DEF Execute, OrphanStops, OutsideClaim, Upgrade, Tick, vars
<1>6. ToolsApart' /\ TokensPaid'
  BY <1>0, <1>1, <1>3, <1>4, <1>5, NextSteps
<1> QED
  BY <1>0, <1>6 DEF TokenInv

(***************************************************************************)
(* A transfer is sent only if it was previewed, each preview good for one  *)
(* (TransfersPreviewed), whatever expires and whoever presents the tokens. *)
(***************************************************************************)
THEOREM PreviewsPay == Spec => []TransfersPreviewed
<1>1. TokenInv => TransfersPreviewed
  <2> SUFFICES ASSUME TokenInv, NEW t \in sent
               PROVE  Cardinality({r \in Requests : req[r].tx # NoTx /\ req[r].tx.op = "transfer"
                                                    /\ req[r].tx.amount = t.amount})
                         <= Cardinality({r \in previews : req[r].call.amount = t.amount})
    BY DEF TransfersPreviewed
  <2> DEFINE a == t.amount
             D == {r \in Requests : req[r].tx # NoTx /\ req[r].tx.op = "transfer"
                                    /\ req[r].tx.amount = a}
             S == For(SpentSet, a)   T == For(tokens, a)   P == For(previews, a)
  <2>1. a \in Nat /\ tokens \subseteq Requests /\ previews \subseteq Requests
    BY DEF TokenInv, GateInv, TypeInv, TypeOK, Tx
  <2>2. D \subseteq S
    BY DEF TokenInv, ToolsApart, Transferred, For, SpentSet, Spent
  <2>3. S \subseteq Requests /\ T \subseteq Requests /\ P \subseteq Requests /\ D \subseteq Requests
    BY <2>1 DEF For, SpentSet
  <2>4. Cardinality(S) + Cardinality(T) <= Cardinality(P)
    BY <2>1 DEF TokenInv, TokensPaid, SpentSet
  <2>5. P = {r \in previews : req[r].call.amount = a}
    BY DEF For
  <2> HIDE DEF S, T, P, D
  <2>6. /\ Cardinality(S) \in Nat /\ Cardinality(T) \in Nat /\ Cardinality(P) \in Nat
        /\ Cardinality(D) \in Nat /\ Cardinality(D) <= Cardinality(S)
    BY <2>2, <2>3, CallsFinite, CountSmaller
  <2>7. Cardinality(D) <= Cardinality(P)
    BY <2>4, <2>6
  <2> QED
    BY <2>5, <2>7 DEF D
<1> QED
  BY <1>1, InitTokens, NextTokens, PTL DEF Spec
=============================================================================

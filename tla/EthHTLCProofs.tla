--------------------------- MODULE EthHTLCProofs ---------------------------
(***************************************************************************)
(* Proofs about EthHTLC, for every set of accounts, requests and secrets   *)
(* and every nesting of calls.                                             *)
(***************************************************************************)
EXTENDS EthHTLC, SequenceTheorems, TLAPS

(***************************************************************************)
(* g is what some calls may have made of f.                                *)
(***************************************************************************)
Advanced(f, g) == \A id \in SwapIds : MayBecome(f[id], g[id])

(***************************************************************************)
(* The saved states on the call stack and the current one form a history:  *)
(* each was reached from the earlier ones by calls.  Undoing a nested call *)
(* goes back to a state that already extends the outermost one.            *)
(***************************************************************************)
FramesAdvance ==
    /\ \A i, j \in 1..Len(frames) : i <= j => Advanced(frames[i].htlcs, frames[j].htlcs)
    /\ \A i \in 1..Len(frames) : Advanced(frames[i].htlcs, htlcs)

(***************************************************************************)
(* No state, saved or current, has an HTLC refunded before its timelock.   *)
(***************************************************************************)
NoEarlyRefund ==
    /\ \A id \in SwapIds : htlcs[id] = "REFUNDED" => now >= id.timelock
    /\ \A i \in 1..Len(frames), id \in SwapIds :
           frames[i].htlcs[id] = "REFUNDED" => now >= id.timelock

Inv == TypeOK /\ FramesAdvance /\ NoEarlyRefund

-----------------------------------------------------------------------------
(***************************************************************************)
(* A swap request's fields have the types of the contract's parameters.    *)
(***************************************************************************)
LEMMA SwapIdFields ==
    \A id \in SwapIds : /\ id.sender \in Accounts
                        /\ id.amount \in Nat
                        /\ id.timelock \in Nat
  BY EthAssumption

(***************************************************************************)
(* Advanced is reflexive and transitive.                                   *)
(***************************************************************************)
LEMMA AdvancedPreorder ==
    ASSUME NEW f \in [SwapIds -> SwapState], NEW g \in [SwapIds -> SwapState],
           NEW h \in [SwapIds -> SwapState]
    PROVE  /\ Advanced(f, f)
           /\ Advanced(f, g) /\ Advanced(g, h) => Advanced(f, h)
  BY DEF Advanced, MayBecome, SwapState

(***************************************************************************)
(* lock, claim and refund change one entry of htlcs, and only forward.     *)
(***************************************************************************)
LEMMA OneEntryAdvances ==
    ASSUME NEW id \in SwapIds, NEW s \in SwapState, TypeOK, MayBecome(htlcs[id], s),
           htlcs' = [htlcs EXCEPT ![id] = s]
    PROVE  htlcs' \in [SwapIds -> SwapState] /\ Advanced(htlcs, htlcs')
  BY DEF TypeOK, Advanced, MayBecome

(***************************************************************************)
(* Each saved state has an htlcs of the right type.                        *)
(***************************************************************************)
LEMMA SavedTypes ==
    ASSUME TypeOK
    PROVE  Len(frames) \in Nat /\ \A i \in 1..Len(frames) :
                                     frames[i].htlcs \in [SwapIds -> SwapState]
<1>1. frames \in Seq(Frame)
  BY DEF TypeOK
<1>2. \A i \in 1..Len(frames) : frames[i] \in Frame
  BY <1>1
<1>3. \A f \in Frame : f.htlcs \in [SwapIds -> SwapState]
  BY DEF Frame
<1> QED
  BY <1>1, <1>2, <1>3

(***************************************************************************)
(* Sending money keeps the stack well formed and, when the payee is a      *)
(* contract, pushes the state before the call.                             *)
(***************************************************************************)
LEMMA CallFacts ==
    ASSUME TypeOK, NEW payee, NEW amount \in Nat, Call(payee, amount)
    PROVE  /\ held' \in Nat /\ balances' \in [Accounts -> Nat]
           /\ frames' \in Seq(Frame)
           /\ Len(frames') \in {Len(frames), Len(frames) + 1}
           /\ \A i \in 1..Len(frames) : frames'[i] = frames[i]
           /\ Len(frames') # Len(frames) => /\ frames'[Len(frames')].htlcs = htlcs
                                            /\ frames'[Len(frames')].events = events
<1> DEFINE top == [htlcs |-> htlcs, events |-> events, balances |-> balances, held |-> held]
<1>1. top \in Frame
  BY DEF TypeOK, Frame
<1>2. held' \in Nat /\ balances' \in [Accounts -> Nat]
  <2>1. CASE payee \in Accounts
    BY <2>1 DEF TypeOK, Call
  <2>2. CASE payee \notin Accounts
    <3>1. \A f \in [Accounts -> Nat] : \A v : [f EXCEPT ![payee] = v] = f
      BY <2>2
    <3>2. balances \in [Accounts -> Nat] /\ held' \in Nat
      BY DEF TypeOK, Call
    <3> QED
      BY <3>1, <3>2 DEF Call
  <2> QED
    BY <2>1, <2>2
<1>3. CASE payee \in Contracts
  <2>1. frames' = Append(frames, top) /\ frames \in Seq(Frame)
    BY <1>3 DEF Call, TypeOK
  <2> HIDE DEF top
  <2>2. /\ frames' \in Seq(Frame) /\ Len(frames') = Len(frames) + 1
        /\ \A i \in 1..Len(frames) : frames'[i] = frames[i]
        /\ frames'[Len(frames) + 1] = top
    BY <1>1, <2>1
  <2>3. top.htlcs = htlcs /\ top.events = events
    BY DEF top
  <2> QED
    BY <1>2, <2>2, <2>3
<1>4. CASE payee \notin Contracts
  <2>1. frames' = frames /\ frames \in Seq(Frame)
    BY <1>4 DEF Call, TypeOK
  <2> QED
    BY <1>2, <2>1
<1> QED
  BY <1>3, <1>4

(***************************************************************************)
(* A call that moves htlcs forward and leaves the stack, or pushes the     *)
(* state before the call on it, preserves the invariant on the stack.      *)
(***************************************************************************)
LEMMA PushAdvances ==
    ASSUME Inv, htlcs' \in [SwapIds -> SwapState], Advanced(htlcs, htlcs'), now' = now,
           \A id \in SwapIds : htlcs'[id] = "REFUNDED" => now >= id.timelock,
           frames' \in Seq(Frame),
           Len(frames') \in {Len(frames), Len(frames) + 1},
           \A i \in 1..Len(frames) : frames'[i] = frames[i],
           Len(frames') # Len(frames) => frames'[Len(frames')].htlcs = htlcs
    PROVE  FramesAdvance' /\ NoEarlyRefund'
<1> DEFINE n == Len(frames)
<1>1. /\ frames \in Seq(Frame) /\ n \in Nat /\ htlcs \in [SwapIds -> SwapState]
      /\ \A i \in 1..n : frames[i].htlcs \in [SwapIds -> SwapState]
  BY SavedTypes DEF Inv, TypeOK
<1>2. \A i \in 1..Len(frames') : \/ i \in 1..n /\ frames'[i] = frames[i]
                                 \/ i = n + 1 /\ frames'[i].htlcs = htlcs
  BY <1>1
<1>3. \A i \in 1..n : Advanced(frames[i].htlcs, htlcs) /\ Advanced(frames[i].htlcs, htlcs')
  BY <1>1, AdvancedPreorder DEF Inv, FramesAdvance
<1>4. Advanced(htlcs, htlcs)
  BY <1>1, AdvancedPreorder
<1>5. FramesAdvance'
  <2>1. ASSUME NEW i \in 1..Len(frames'), NEW j \in 1..Len(frames'), i <= j
        PROVE  Advanced(frames'[i].htlcs, frames'[j].htlcs)
    <3>1. CASE j \in 1..n
      BY <1>1, <1>2, <2>1, <3>1 DEF Inv, FramesAdvance
    <3>2. CASE j = n + 1 /\ frames'[j].htlcs = htlcs
      BY <1>1, <1>2, <1>3, <1>4, <2>1, <3>2
    <3> QED
      BY <1>2, <3>1, <3>2
  <2>2. ASSUME NEW i \in 1..Len(frames')
        PROVE  Advanced(frames'[i].htlcs, htlcs')
    BY <1>2, <1>3
  <2> QED
    BY <2>1, <2>2 DEF FramesAdvance, Advanced
<1>6. NoEarlyRefund'
  BY <1>2 DEF Inv, NoEarlyRefund
<1> QED
  BY <1>5, <1>6

(***************************************************************************)
(* Returning from a nested call drops the last saved state.                *)
(***************************************************************************)
LEMMA PopFacts ==
    ASSUME TypeOK, frames # <<>>, frames' = SubSeq(frames, 1, Len(frames) - 1)
    PROVE  /\ frames' \in Seq(Frame)
           /\ Len(frames) \in Nat \ {0} /\ Len(frames') = Len(frames) - 1
           /\ \A i \in 1..Len(frames') : frames'[i] = frames[i]
           /\ frames[Len(frames)] \in Frame
<1>1. frames \in Seq(Frame) /\ Len(frames) \in Nat \ {0}
  BY DEF TypeOK
<1>2. /\ SubSeq(frames, 1, Len(frames) - 1) \in Seq(Frame)
      /\ Len(SubSeq(frames, 1, Len(frames) - 1)) = Len(frames) - 1
      /\ \A i \in 1..(Len(frames) - 1) : SubSeq(frames, 1, Len(frames) - 1)[i] = frames[i]
  <2> DEFINE n == Len(frames) - 1
  <2>1. 1 \in Int /\ n \in Nat /\ n \in Int /\ \A i \in 1..n : frames[i] \in Frame
    BY <1>1
  <2> HIDE DEF n
  <2>2. /\ SubSeq(frames, 1, n) \in Seq(Frame)
        /\ Len(SubSeq(frames, 1, n)) = IF 1 <= n THEN n - 1 + 1 ELSE 0
        /\ \A i \in 1..(n - 1 + 1) : SubSeq(frames, 1, n)[i] = frames[1 + i - 1]
    BY <2>1, SubSeqProperties
  <2>3. n - 1 + 1 = n /\ (IF 1 <= n THEN n - 1 + 1 ELSE 0) = n
    BY <2>1
  <2>4. \A i \in 1..n : 1 + i - 1 = i
    BY <2>1
  <2>5. /\ Len(SubSeq(frames, 1, n)) = n
        /\ \A i \in 1..n : SubSeq(frames, 1, n)[i] = frames[i]
    BY <2>2, <2>3, <2>4
  <2> QED
    BY <2>2, <2>5 DEF n
<1> QED
  BY <1>1, <1>2

(***************************************************************************)
(* Every step of the contract, of a payee or of the clock preserves the    *)
(* invariant.                                                              *)
(***************************************************************************)
LEMMA InvStep == Inv /\ [Next]_vars => Inv'
<1> SUFFICES ASSUME Inv, [Next]_vars PROVE Inv'
  OBVIOUS
<1>0. /\ TypeOK
      /\ \A i \in 1..Len(frames) : frames[i].htlcs \in [SwapIds -> SwapState]
  BY SavedTypes DEF Inv
<1>1. ASSUME NEW id \in SwapIds, lock(id) PROVE Inv'
  <2>1. htlcs' \in [SwapIds -> SwapState] /\ Advanced(htlcs, htlcs')
    BY <1>0, <1>1, OneEntryAdvances DEF lock, MayBecome, SwapState
  <2>2. \A k \in SwapIds : htlcs'[k] = "REFUNDED" => now >= k.timelock
    BY <1>0, <1>1 DEF lock, Inv, NoEarlyRefund, TypeOK
  <2>3. frames' = frames /\ now' = now
    BY <1>1 DEF lock
  <2>4. FramesAdvance' /\ NoEarlyRefund'
    BY <1>0, <2>1, <2>2, <2>3, PushAdvances DEF TypeOK
  <2>5. TypeOK'
    <3>1. [kind |-> "Locked", swapId |-> id] \in Event
      BY DEF Event
    <3>2. events' \in Seq(Event)
      BY <1>0, <1>1, <3>1 DEF lock, Emit, TypeOK
    <3>3. held' \in Nat /\ balances' \in [Accounts -> Nat]
      BY <1>0, <1>1, SwapIdFields DEF lock, TypeOK
    <3> QED
      BY <1>0, <2>1, <2>3, <3>2, <3>3 DEF TypeOK
  <2> QED
    BY <2>4, <2>5 DEF Inv
<1>2. ASSUME NEW id \in SwapIds, NEW p \in Preimages, claim(id, p) PROVE Inv'
  <2>1. htlcs' \in [SwapIds -> SwapState] /\ Advanced(htlcs, htlcs')
    BY <1>0, <1>2, OneEntryAdvances DEF claim, MayBecome, SwapState
  <2>2. \A k \in SwapIds : htlcs'[k] = "REFUNDED" => now >= k.timelock
    BY <1>0, <1>2 DEF claim, Inv, NoEarlyRefund, TypeOK
  <2>3. Call(id.recipient, id.amount) /\ now' = now
    BY <1>2 DEF claim
  <2>4. /\ held' \in Nat /\ balances' \in [Accounts -> Nat]
        /\ frames' \in Seq(Frame)
        /\ Len(frames') \in {Len(frames), Len(frames) + 1}
        /\ \A i \in 1..Len(frames) : frames'[i] = frames[i]
        /\ Len(frames') # Len(frames) => frames'[Len(frames')].htlcs = htlcs
    BY <1>0, <2>3, SwapIdFields, CallFacts
  <2>5. FramesAdvance' /\ NoEarlyRefund'
    BY <2>1, <2>2, <2>3, <2>4, PushAdvances
  <2>6. TypeOK'
    <3>1. [kind |-> "Claimed", swapId |-> id] \in Event
      BY DEF Event
    <3>2. events' \in Seq(Event)
      BY <1>0, <1>2, <3>1 DEF claim, Emit, TypeOK
    <3> QED
      BY <1>0, <2>1, <2>3, <2>4, <3>2 DEF TypeOK
  <2> QED
    BY <2>5, <2>6 DEF Inv
<1>3. ASSUME NEW id \in SwapIds, refund(id) PROVE Inv'
  <2>1. htlcs' \in [SwapIds -> SwapState] /\ Advanced(htlcs, htlcs')
    BY <1>0, <1>3, OneEntryAdvances DEF refund, MayBecome, SwapState
  <2>2. \A k \in SwapIds : htlcs'[k] = "REFUNDED" => now >= k.timelock
    BY <1>0, <1>3 DEF refund, Inv, NoEarlyRefund, TypeOK
  <2>3. Call(id.sender, id.amount) /\ now' = now
    BY <1>3 DEF refund
  <2>4. /\ held' \in Nat /\ balances' \in [Accounts -> Nat]
        /\ frames' \in Seq(Frame)
        /\ Len(frames') \in {Len(frames), Len(frames) + 1}
        /\ \A i \in 1..Len(frames) : frames'[i] = frames[i]
        /\ Len(frames') # Len(frames) => frames'[Len(frames')].htlcs = htlcs
    BY <1>0, <2>3, SwapIdFields, CallFacts
  <2>5. FramesAdvance' /\ NoEarlyRefund'
    BY <2>1, <2>2, <2>3, <2>4, PushAdvances
  <2>6. TypeOK'
    <3>1. [kind |-> "Refunded", swapId |-> id] \in Event
      BY DEF Event
    <3>2. events' \in Seq(Event)
      BY <1>0, <1>3, <3>1 DEF refund, Emit, TypeOK
    <3> QED
      BY <1>0, <2>1, <2>3, <2>4, <3>2 DEF TypeOK
  <2> QED
    BY <2>5, <2>6 DEF Inv
<1>4. CASE CallReturns
  <2>1. /\ frames' \in Seq(Frame) /\ Len(frames) \in Nat \ {0}
        /\ Len(frames') = Len(frames) - 1
        /\ \A i \in 1..Len(frames') : frames'[i] = frames[i]
    BY <1>0, <1>4, PopFacts DEF CallReturns
  <2>2. UNCHANGED <<now, htlcs, events, balances, held>>
    BY <1>4 DEF CallReturns
  <2> QED
    BY <2>1, <2>2 DEF Inv, TypeOK, FramesAdvance, NoEarlyRefund, Advanced
<1>5. CASE CallFails
  <2> DEFINE n == Len(frames)
  <2>1. /\ frames' \in Seq(Frame) /\ n \in Nat \ {0} /\ Len(frames') = n - 1
        /\ \A i \in 1..Len(frames') : frames'[i] = frames[i]
        /\ frames[n] \in Frame
    BY <1>0, <1>5, PopFacts DEF CallFails
  <2>2. /\ htlcs' = frames[n].htlcs /\ events' = frames[n].events
        /\ balances' = frames[n].balances /\ held' = frames[n].held /\ now' = now
    BY <1>5 DEF CallFails
  <2>3. TypeOK'
    BY <2>1, <2>2 DEF Inv, TypeOK, Frame
  <2>4. FramesAdvance'
    <3>1. ASSUME NEW i \in 1..Len(frames'), NEW j \in 1..Len(frames'), i <= j
          PROVE  Advanced(frames'[i].htlcs, frames'[j].htlcs)
      BY <2>1, <3>1 DEF Inv, FramesAdvance
    <3>2. ASSUME NEW i \in 1..Len(frames') PROVE Advanced(frames'[i].htlcs, htlcs')
      BY <2>1, <2>2 DEF Inv, FramesAdvance
    <3> QED
      BY <3>1, <3>2 DEF FramesAdvance, Advanced
  <2>5. NoEarlyRefund'
    BY <2>1, <2>2 DEF Inv, NoEarlyRefund
  <2> QED
    BY <2>3, <2>4, <2>5 DEF Inv
<1>6. CASE Tick
  <2>1. /\ now \in Nat /\ now' = now + 1
        /\ UNCHANGED <<htlcs, events, balances, held, frames>>
    BY <1>6 DEF Tick, Inv, TypeOK
  <2>2. NoEarlyRefund'
    BY <2>1, SwapIdFields DEF Inv, NoEarlyRefund
  <2> QED
    BY <2>1, <2>2 DEF Inv, TypeOK, FramesAdvance, Advanced
<1>7. CASE UNCHANGED vars
  BY <1>7 DEF vars, Inv, TypeOK, FramesAdvance, NoEarlyRefund, Advanced
<1> QED
  BY <1>1, <1>2, <1>3, <1>4, <1>5, <1>6, <1>7 DEF Next

(***************************************************************************)
(* Outside a transfer, a call that ends at once moves htlcs forward.       *)
(***************************************************************************)
LEMMA ForwardOutside ==
    ASSUME Inv, Next, frames = <<>>
    PROVE  Advanced(htlcs, htlcs')
<1>0. TypeOK /\ htlcs \in [SwapIds -> SwapState]
  BY DEF Inv, TypeOK
<1>1. ASSUME NEW id \in SwapIds, lock(id) PROVE Advanced(htlcs, htlcs')
  BY <1>0, <1>1, OneEntryAdvances DEF lock, MayBecome, SwapState
<1>2. ASSUME NEW id \in SwapIds, NEW p \in Preimages, claim(id, p)
      PROVE  Advanced(htlcs, htlcs')
  BY <1>0, <1>2, OneEntryAdvances DEF claim, MayBecome, SwapState
<1>3. ASSUME NEW id \in SwapIds, refund(id) PROVE Advanced(htlcs, htlcs')
  BY <1>0, <1>3, OneEntryAdvances DEF refund, MayBecome, SwapState
<1>4. CASE Tick
  <2>1. htlcs' = htlcs
    BY <1>4 DEF Tick
  <2> QED
    BY <1>0, <2>1, AdvancedPreorder
<1>5. CASE CallReturns \/ CallFails
  BY <1>5 DEF CallReturns, CallFails
<1> QED
  BY <1>1, <1>2, <1>3, <1>4, <1>5 DEF Next

(***************************************************************************)
(* The outermost saved state is set when the first transfer starts and     *)
(* stays until the last one ends.                                          *)
(***************************************************************************)
LEMMA FirstFrame ==
    ASSUME Inv, Next, frames' # <<>>
    PROVE  /\ frames = <<>> => frames'[1].htlcs = htlcs
           /\ frames # <<>> => frames'[1] = frames[1]
<1>0. TypeOK /\ frames \in Seq(Frame) /\ Len(frames) \in Nat
  BY DEF Inv, TypeOK
<1> DEFINE Goal == /\ frames = <<>> => frames'[1].htlcs = htlcs
                   /\ frames # <<>> => frames'[1] = frames[1]
<1>1. ASSUME NEW payee, NEW amount \in Nat, Call(payee, amount) PROVE Goal
  <2>1. /\ frames' \in Seq(Frame)
        /\ Len(frames') \in {Len(frames), Len(frames) + 1}
        /\ \A i \in 1..Len(frames) : frames'[i] = frames[i]
        /\ Len(frames') # Len(frames) => frames'[Len(frames')].htlcs = htlcs
    BY <1>0, <1>1, CallFacts
  <2>2. frames = <<>> => Len(frames) = 0 /\ Len(frames') = 1
    BY <1>0, <2>1
  <2>3. frames # <<>> => 1 \in 1..Len(frames)
    BY <1>0
  <2> QED
    BY <2>1, <2>2, <2>3
<1>2. CASE frames' = frames
  BY <1>2
<1>3. CASE CallReturns \/ CallFails
  <2>1. frames # <<>> /\ frames' = SubSeq(frames, 1, Len(frames) - 1)
    BY <1>3 DEF CallReturns, CallFails
  <2>2. /\ frames' \in Seq(Frame)
        /\ \A i \in 1..Len(frames') : frames'[i] = frames[i]
    BY <1>0, <2>1, PopFacts
  <2>3. 1 \in 1..Len(frames')
    BY <2>2
  <2> QED
    BY <2>1, <2>2, <2>3
<1> QED
  <2>1. ASSUME NEW id \in SwapIds, NEW p \in Preimages, claim(id, p) PROVE Goal
    BY <2>1, <1>1, SwapIdFields DEF claim
  <2>2. ASSUME NEW id \in SwapIds, refund(id) PROVE Goal
    BY <2>2, <1>1, SwapIdFields DEF refund
  <2>3. ASSUME NEW id \in SwapIds, lock(id) PROVE Goal
    BY <2>3, <1>2 DEF lock
  <2>4. CASE Tick
    BY <2>4, <1>2 DEF Tick
  <2> QED
    BY <2>1, <2>2, <2>3, <2>4, <1>3 DEF Next

(***************************************************************************)
(* When the outermost transfer ends, the state it leaves extends the one   *)
(* saved when it began.                                                    *)
(***************************************************************************)
LEMMA LastReturn ==
    ASSUME Inv, Next, frames # <<>>, frames' = <<>>
    PROVE  Advanced(frames[1].htlcs, htlcs')
<1>0. TypeOK /\ frames \in Seq(Frame) /\ Len(frames) \in Nat
  BY DEF Inv, TypeOK
<1>1. ASSUME NEW payee, NEW amount \in Nat, Call(payee, amount) PROVE FALSE
  BY <1>0, <1>1, CallFacts
<1>2. CASE CallReturns \/ CallFails
  <2>1. frames' = SubSeq(frames, 1, Len(frames) - 1)
    BY <1>2 DEF CallReturns, CallFails
  <2>2. Len(frames) \in Nat \ {0} /\ Len(frames') = Len(frames) - 1
    BY <1>0, <2>1, PopFacts
  <2>3. Len(frames) = 1
    BY <2>2
  <2>4. Advanced(frames[1].htlcs, htlcs) /\ Advanced(frames[1].htlcs, frames[1].htlcs)
    BY <2>3 DEF Inv, FramesAdvance
  <2>5. htlcs' = htlcs \/ htlcs' = frames[1].htlcs
    BY <1>2, <2>3 DEF CallReturns, CallFails
  <2> QED
    BY <2>4, <2>5
<1> QED
  <2>1. ASSUME NEW id \in SwapIds, NEW p \in Preimages, claim(id, p) PROVE FALSE
    BY <2>1, <1>1, SwapIdFields DEF claim
  <2>2. ASSUME NEW id \in SwapIds, refund(id) PROVE FALSE
    BY <2>2, <1>1, SwapIdFields DEF refund
  <2>3. ASSUME NEW id \in SwapIds PROVE ~lock(id)
    BY DEF lock
  <2>4. ~Tick
    BY DEF Tick
  <2> QED
    BY <2>1, <2>2, <2>3, <2>4, <1>2 DEF Next

(***************************************************************************)
(* The invariant holds initially: nothing is locked and no call runs.      *)
(***************************************************************************)
LEMMA InvInit == Init => Inv
<1> SUFFICES ASSUME Init PROVE Inv
  OBVIOUS
<1>1. TypeOK
  BY EthAssumption DEF Init, TypeOK, SwapState
<1>2. FramesAdvance
  BY DEF Init, FramesAdvance
<1>3. NoEarlyRefund
  BY DEF Init, NoEarlyRefund
<1> QED
  BY <1>1, <1>2, <1>3 DEF Inv

(***************************************************************************)
(* The types of the contract's state, at every nesting of calls.           *)
(***************************************************************************)
THEOREM TypeCorrect == Spec => []TypeOK
<1>1. Inv => TypeOK
  BY DEF Inv
<1> QED
  BY InvInit, InvStep, <1>1, PTL DEF Spec

(***************************************************************************)
(* claim and refund settle an HTLC for good, whatever payees do while they *)
(* are paid.                                                               *)
(***************************************************************************)
THEOREM SettlementIsFinal == Spec => SettledForGood
<1> DEFINE A == \A id \in SwapIds :
                   /\ MayBecome(Committed[id], Committed'[id])
                   /\ Committed'[id] = "REFUNDED" => now' >= id.timelock
<1>1. Inv /\ Inv' /\ [Next]_vars => [A]_vars
  <2> SUFFICES ASSUME Inv, Inv', Next PROVE A
    BY DEF vars, MayBecome, Committed, NoEarlyRefund, Inv
  <2>0. /\ TypeOK /\ frames \in Seq(Frame) /\ Len(frames) \in Nat
        /\ frames' \in Seq(Frame) /\ Len(frames') \in Nat
        /\ htlcs \in [SwapIds -> SwapState]
        /\ \A i \in 1..Len(frames) : frames[i].htlcs \in [SwapIds -> SwapState]
    <3>1. TypeOK /\ TypeOK'
      BY DEF Inv
    <3>2. /\ frames \in Seq(Frame) /\ frames' \in Seq(Frame)
          /\ htlcs \in [SwapIds -> SwapState]
      BY <3>1 DEF TypeOK
    <3> QED
      BY <3>1, <3>2, SavedTypes
  <2>1. Advanced(Committed, Committed')
    <3>1. CASE frames = <<>> /\ frames' = <<>>
      <4>1. Advanced(htlcs, htlcs')
        BY <2>0, <3>1, ForwardOutside
      <4> QED
        BY <3>1, <4>1 DEF Committed, Advanced
    <3>2. CASE frames = <<>> /\ frames' # <<>>
      <4>1. frames'[1].htlcs = htlcs
        BY <2>0, <3>2, FirstFrame
      <4>2. Committed = htlcs /\ Committed' = htlcs
        BY <3>2, <4>1 DEF Committed
      <4> QED
        BY <2>0, <4>2, AdvancedPreorder
    <3>3. CASE frames # <<>> /\ frames' # <<>>
      <4>1. frames'[1] = frames[1]
        BY <2>0, <3>3, FirstFrame
      <4>2. Committed = frames[1].htlcs /\ Committed' = frames[1].htlcs
        BY <3>3, <4>1 DEF Committed
      <4>3. Committed \in [SwapIds -> SwapState]
        BY <2>0, <3>3, <4>2
      <4> QED
        BY <4>2, <4>3, AdvancedPreorder
    <3>4. CASE frames # <<>> /\ frames' = <<>>
      <4>1. Advanced(frames[1].htlcs, htlcs')
        BY <2>0, <3>4, LastReturn
      <4> QED
        BY <3>4, <4>1 DEF Committed, Advanced
    <3> QED
      BY <3>1, <3>2, <3>3, <3>4
  <2>2. \A id \in SwapIds : Committed'[id] = "REFUNDED" => now' >= id.timelock
    BY <2>0 DEF Inv, NoEarlyRefund, Committed
  <2> QED
    BY <2>1, <2>2 DEF Advanced
<1> QED
  BY InvInit, InvStep, <1>1, PTL DEF Spec, SettledForGood

-----------------------------------------------------------------------------
(***************************************************************************)
(* The log.  Its events of one HTLC tell the state st has of it.           *)
(***************************************************************************)
Has(log, id, kind) == \E i \in 1..Len(log) : log[i].swapId = id /\ log[i].kind = kind
Tells(log, st) ==
    \A id \in SwapIds :
        /\ Has(log, id, "Locked") <=> st[id] # "EMPTY"
        /\ Has(log, id, "Claimed") <=> st[id] = "CLAIMED"
        /\ Has(log, id, "Refunded") <=> st[id] = "REFUNDED"
        /\ \A i, j \in 1..Len(log) :
              log[i].swapId = id /\ log[j].swapId = id /\ i < j =>
                  log[i].kind = "Locked" /\ log[j].kind # "Locked"

(***************************************************************************)
(* The log tells the state in every saved frame too: a payee that reverts  *)
(* takes the log back together with the state.                             *)
(***************************************************************************)
LogInv ==
    /\ Tells(events, htlcs)
    /\ \A i \in 1..Len(frames) : Tells(frames[i].events, frames[i].htlcs)

(***************************************************************************)
(* One more event, with the change of state it reports.                    *)
(***************************************************************************)
LEMMA AppendTells ==
    ASSUME NEW log \in Seq(Event), NEW st \in [SwapIds -> SwapState], Tells(log, st),
           NEW id \in SwapIds, NEW kind, NEW s,
           \/ kind = "Locked" /\ st[id] = "EMPTY" /\ s = "OPEN"
           \/ kind = "Claimed" /\ st[id] = "OPEN" /\ s = "CLAIMED"
           \/ kind = "Refunded" /\ st[id] = "OPEN" /\ s = "REFUNDED"
    PROVE  Tells(Append(log, [kind |-> kind, swapId |-> id]), [st EXCEPT ![id] = s])
<1> DEFINE e == [kind |-> kind, swapId |-> id]
           log2 == Append(log, e)
           st2 == [st EXCEPT ![id] = s]
           n == Len(log)
<1>1. e \in Event /\ e.kind = kind /\ e.swapId = id
  BY DEF Event
<1>2. /\ n \in Nat /\ Len(log2) = n + 1 /\ log2[n + 1] = e
      /\ \A i \in 1..n : log2[i] = log[i]
  <2> HIDE DEF e
  <2> QED
    BY <1>1
<1>3. \A i \in 1..n : log[i].kind \in {"Locked", "Claimed", "Refunded"}
  <2>1. \A i \in 1..n : log[i] \in Event
    OBVIOUS
  <2> QED
    BY <2>1 DEF Event
<1>4. st2[id] = s /\ \A k \in SwapIds : k # id => st2[k] = st[k]
  OBVIOUS
<1> HIDE DEF e, log2, st2, n
<1>5. ASSUME NEW k \in SwapIds, NEW c
      PROVE  Has(log2, k, c) <=> Has(log, k, c) \/ (k = id /\ c = kind)
  <2>1. Has(log, k, c) => Has(log2, k, c)
    BY <1>2 DEF Has, n
  <2>2. k = id /\ c = kind => Has(log2, k, c)
    <3>1. n + 1 \in 1..Len(log2)
      BY <1>2
    <3> QED
      BY <1>1, <1>2, <3>1 DEF Has
  <2>3. Has(log2, k, c) => Has(log, k, c) \/ (k = id /\ c = kind)
    <3> SUFFICES ASSUME NEW i \in 1..Len(log2), log2[i].swapId = k, log2[i].kind = c
                 PROVE  Has(log, k, c) \/ (k = id /\ c = kind)
      BY DEF Has
    <3>1. i \in 1..n \/ i = n + 1
      BY <1>2
    <3> QED
      BY <1>1, <1>2, <3>1 DEF Has, n
  <2> QED
    BY <2>1, <2>2, <2>3
<1>6. ASSUME NEW k \in SwapIds, NEW i \in 1..Len(log2), NEW j \in 1..Len(log2),
             log2[i].swapId = k, log2[j].swapId = k, i < j
      PROVE  log2[i].kind = "Locked" /\ log2[j].kind # "Locked"
  <2>1. i \in 1..n
    BY <1>2, <1>6
  <2>2. CASE j \in 1..n
    BY <1>2, <1>6, <2>1, <2>2 DEF Tells, n
  <2>3. CASE j = n + 1
    <3>1. k = id /\ log2[i] = log[i] /\ log[i].swapId = id
      BY <1>1, <1>2, <1>6, <2>1, <2>3
    <3>2. Has(log, id, log[i].kind)
      BY <2>1, <3>1 DEF Has, n
    <3>3. log[i].kind = "Locked" /\ st[id] # "EMPTY"
      BY <1>3, <2>1, <3>2 DEF Tells
    <3> QED
      BY <1>1, <1>2, <2>3, <3>1, <3>3
  <2> QED
    BY <1>2, <2>2, <2>3
<1>7. ASSUME NEW k \in SwapIds
      PROVE  /\ Has(log2, k, "Locked") <=> st2[k] # "EMPTY"
             /\ Has(log2, k, "Claimed") <=> st2[k] = "CLAIMED"
             /\ Has(log2, k, "Refunded") <=> st2[k] = "REFUNDED"
  <2>1. CASE k = id
    BY <1>4, <1>5, <2>1 DEF Tells
  <2>2. CASE k # id
    BY <1>4, <1>5, <2>2 DEF Tells
  <2> QED
    BY <2>1, <2>2
<1>8. Tells(log2, st2)
  BY <1>6, <1>7 DEF Tells
<1> QED
  BY <1>8 DEF log2, e, st2

(***************************************************************************)
(* A call that pays: the stack stays, or gains the state before the call.  *)
(***************************************************************************)
LEMMA PaidTells ==
    ASSUME TypeOK, LogInv, Tells(events', htlcs'), NEW payee, NEW amount \in Nat,
           Call(payee, amount)
    PROVE  LogInv'
<1>1. /\ frames \in Seq(Frame) /\ frames' \in Seq(Frame)
      /\ Len(frames') \in {Len(frames), Len(frames) + 1}
      /\ \A i \in 1..Len(frames) : frames'[i] = frames[i]
      /\ Len(frames') # Len(frames) => /\ frames'[Len(frames')].htlcs = htlcs
                                       /\ frames'[Len(frames')].events = events
  BY CallFacts DEF TypeOK
<1>2. ASSUME NEW i \in 1..Len(frames')
      PROVE  Tells(frames'[i].events, frames'[i].htlcs)
  <2>1. i \in 1..Len(frames) \/ (i = Len(frames') /\ Len(frames') # Len(frames))
    BY <1>1
  <2> QED
    BY <1>1, <2>1 DEF LogInv
<1> QED
  BY <1>2 DEF LogInv

(***************************************************************************)
(* Every step keeps the log and the state of the contract in agreement.    *)
(***************************************************************************)
LEMMA LogStep ==
    ASSUME TypeOK, LogInv, [Next]_vars
    PROVE  LogInv'
<1>0. events \in Seq(Event) /\ htlcs \in [SwapIds -> SwapState] /\ Tells(events, htlcs)
  BY DEF TypeOK, LogInv
<1>1. ASSUME NEW id \in SwapIds, lock(id) PROVE LogInv'
  <2>1. Tells(events', htlcs') /\ frames' = frames
    BY <1>0, <1>1, AppendTells DEF lock, Emit
  <2> QED
    BY <2>1 DEF LogInv
<1>2. ASSUME NEW id \in SwapIds, NEW p \in Preimages, claim(id, p) PROVE LogInv'
  <2>1. Tells(events', htlcs') /\ Call(id.recipient, id.amount)
    BY <1>0, <1>2, AppendTells DEF claim, Emit
  <2> QED
    BY <2>1, SwapIdFields, PaidTells
<1>3. ASSUME NEW id \in SwapIds, refund(id) PROVE LogInv'
  <2>1. Tells(events', htlcs') /\ Call(id.sender, id.amount)
    BY <1>0, <1>3, AppendTells DEF refund, Emit
  <2> QED
    BY <2>1, SwapIdFields, PaidTells
<1>4. CASE CallReturns \/ CallFails
  <2>1. /\ frames # <<>> /\ frames' = SubSeq(frames, 1, Len(frames) - 1)
        /\ \/ events' = events /\ htlcs' = htlcs
           \/ /\ events' = frames[Len(frames)].events
              /\ htlcs' = frames[Len(frames)].htlcs
    BY <1>4 DEF CallReturns, CallFails
  <2>2. /\ Len(frames) \in Nat \ {0} /\ Len(frames') = Len(frames) - 1
        /\ \A i \in 1..Len(frames') : frames'[i] = frames[i]
    BY <2>1, PopFacts
  <2>3. Tells(events', htlcs')
    BY <2>1, <2>2 DEF LogInv
  <2>4. \A i \in 1..Len(frames') : Tells(frames'[i].events, frames'[i].htlcs)
    BY <2>2 DEF LogInv
  <2> QED
    BY <2>3, <2>4 DEF LogInv
<1>5. CASE Tick \/ UNCHANGED vars
  BY <1>5 DEF Tick, vars, LogInv
<1> QED
  BY <1>1, <1>2, <1>3, <1>4, <1>5 DEF Next

(***************************************************************************)
(* A log that tells the state, as the watcher and the chain report read it.*)
(***************************************************************************)
LEMMA LogRead == LogInv => EventsTellState
<1> SUFFICES ASSUME LogInv, NEW id \in SwapIds
             PROVE  LET Kinds == [i \in {j \in 1..Len(events) : events[j].swapId = id} |->
                                    events[i].kind]
                    IN  /\ "Locked" \in {Kinds[i] : i \in DOMAIN Kinds} <=> htlcs[id] # "EMPTY"
                        /\ "Claimed" \in {Kinds[i] : i \in DOMAIN Kinds} <=> htlcs[id] = "CLAIMED"
                        /\ "Refunded" \in {Kinds[i] : i \in DOMAIN Kinds}
                              <=> htlcs[id] = "REFUNDED"
                        /\ \A i, j \in DOMAIN Kinds :
                              i < j => Kinds[i] = "Locked" /\ Kinds[j] # "Locked"
  BY DEF EventsTellState
<1> DEFINE Mine == {j \in 1..Len(events) : events[j].swapId = id}
           Kinds == [i \in Mine |-> events[i].kind]
<1>1. DOMAIN Kinds = Mine /\ \A i \in Mine : Kinds[i] = events[i].kind
  OBVIOUS
<1>2. \A c : c \in {Kinds[i] : i \in DOMAIN Kinds} <=> Has(events, id, c)
  BY <1>1 DEF Has
<1>3. \A i, j \in DOMAIN Kinds : i < j => Kinds[i] = "Locked" /\ Kinds[j] # "Locked"
  BY <1>1 DEF LogInv, Tells
<1> QED
  BY <1>2, <1>3 DEF LogInv, Tells

(***************************************************************************)
(* The log alone tells every HTLC's state, for any nesting of calls that   *)
(* return or are undone: Locked first, then at most one settlement.        *)
(***************************************************************************)
THEOREM LogTellsState == Spec => []EventsTellState
<1>1. Init => LogInv
  <2> SUFFICES ASSUME Init PROVE LogInv
    OBVIOUS
  <2>1. events = <<>> /\ frames = <<>> /\ Len(events) = 0 /\ Len(frames) = 0
    BY DEF Init
  <2> QED
    BY <2>1 DEF Init, LogInv, Tells, Has
<1>2. TypeOK /\ LogInv /\ [Next]_vars => LogInv'
  BY LogStep
<1> QED
  BY <1>1, <1>2, LogRead, TypeCorrect, PTL DEF Spec
=============================================================================

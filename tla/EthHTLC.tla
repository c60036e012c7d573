------------------------------ MODULE EthHTLC ------------------------------
(***************************************************************************)
(* The Ethereum half of the swap: contracts/src/EthHTLC.sol.               *)
(*                                                                         *)
(* A call of lock, claim or refund is one step.  A call that reverts has   *)
(* no effect and is no step, except where the revert comes from the payee: *)
(* claim and refund send ETH with .call{value: ...}(""), which runs the    *)
(* payee's code when the payee is a contract, and that code may call this  *)
(* contract again before it returns or reverts.  "frames" is the stack of  *)
(* such unfinished transfers, each with the state to restore if the payee  *)
(* reverts.                                                                *)
(*                                                                         *)
(* swapId is the keccak256 hash of six fixed-width fields, so it is        *)
(* modelled by the record of these fields.  The fields of the HTLC struct  *)
(* other than "state" are the same six, so htlcs maps a swapId to a state. *)
(***************************************************************************)
EXTENDS Naturals, Sequences

CONSTANTS
    Accounts,          \* addresses that may call the contract
    Contracts,         \* the addresses that have code
    ZeroAddress,       \* address(0)
    ZeroBytes32,       \* bytes32(0)
    Hashlocks,         \* non-zero hashlocks
    Preimages,
    Sha256,            \* [Preimages -> Hashlocks], collision free
    LezAccounts,       \* non-zero LEZ account ids
    SwapIds,           \* the lock requests callers may make
    minTimelockDelta,  \* the constructor's argument
    InitialBalance,    \* wei each account starts with
    MaxDepth,          \* the EVM's call depth limit
    MaxTime            \* bound on the clock

ASSUME EthAssumption ==
    /\ Contracts \subseteq Accounts
    /\ ZeroAddress \notin Accounts
    /\ ZeroBytes32 \notin Hashlocks \cup LezAccounts
    /\ Sha256 \in [Preimages -> Hashlocks]
    /\ \A p, q \in Preimages : Sha256[p] = Sha256[q] => p = q
    /\ minTimelockDelta \in Nat /\ InitialBalance \in Nat
    /\ MaxDepth \in Nat /\ MaxTime \in Nat
    /\ SwapIds \subseteq [sender : Accounts, recipient : Accounts \cup {ZeroAddress},
                          amount : Nat, hashlock : Hashlocks \cup {ZeroBytes32},
                          timelock : Nat,
                          takerLezAccount : LezAccounts \cup {ZeroBytes32}]

VARIABLES
    now,       \* block.timestamp
    htlcs,     \* mapping(bytes32 => HTLC), its state field
    events,    \* the contract's event log
    balances,  \* wei held by each account
    held,      \* wei held by the contract
    frames     \* transfers whose payee is still running, outermost first

vars == <<now, htlcs, events, balances, held, frames>>

SwapState == {"EMPTY", "OPEN", "CLAIMED", "REFUNDED"}
Event == [kind : {"Locked", "Claimed", "Refunded"}, swapId : SwapIds]
Frame == [htlcs : [SwapIds -> SwapState], events : Seq(Event),
          balances : [Accounts -> Nat], held : Nat]

(***************************************************************************)
(* msg.sender: any account starts a transaction; while a payee runs, only  *)
(* contracts are on the call path.                                         *)
(***************************************************************************)
MayCall(account) == frames = <<>> \/ account \in Contracts

Emit(kind, id) == events' = Append(events, [kind |-> kind, swapId |-> id])

(***************************************************************************)
(* payee.call{value: amount}(""): the money moves first; a payee with code *)
(* then runs until CallReturns or CallFails.                               *)
(***************************************************************************)
Call(payee, amount) ==
    /\ held >= amount
    /\ Len(frames) < MaxDepth
    /\ held' = held - amount
    /\ balances' = [balances EXCEPT ![payee] = @ + amount]
    /\ frames' = IF payee \in Contracts
                 THEN Append(frames, [htlcs |-> htlcs, events |-> events,
                                      balances |-> balances, held |-> held])
                 ELSE frames

(*************************************************************************)
(* A mistake: a lock of a swapId that exists.                            *)
(*************************************************************************)
lock_again(id) ==
    /\ MayCall(id.sender)
    /\ id.amount # 0
    /\ id.timelock > now + minTimelockDelta
    /\ balances[id.sender] >= id.amount
    /\ htlcs' = [htlcs EXCEPT ![id] = "OPEN"]
    /\ balances' = [balances EXCEPT ![id.sender] = @ - id.amount]
    /\ held' = held + id.amount
    /\ Emit("Locked", id)
    /\ UNCHANGED <<now, frames>>

lock(id) ==
    /\ MayCall(id.sender)
    /\ id.amount # 0
    /\ id.timelock > now + minTimelockDelta
    /\ id.recipient # ZeroAddress
    /\ id.hashlock # ZeroBytes32
    /\ id.takerLezAccount # ZeroBytes32
    /\ htlcs[id] = "EMPTY"
    /\ balances[id.sender] >= id.amount
    /\ htlcs' = [htlcs EXCEPT ![id] = "OPEN"]
    /\ balances' = [balances EXCEPT ![id.sender] = @ - id.amount]
    /\ held' = held + id.amount
    /\ Emit("Locked", id)
    /\ UNCHANGED <<now, frames>>

(*************************************************************************)
(* A mistake: the state is not checked, so a payee can claim again while*)
(* it is paid.                                                          *)
(*************************************************************************)
claim_reentrant(id, preimage) ==
    /\ MayCall(id.recipient)
    /\ htlcs[id] # "EMPTY"
    /\ Sha256[preimage] = id.hashlock
    /\ htlcs' = [htlcs EXCEPT ![id] = "CLAIMED"]
    /\ Emit("Claimed", id)
    /\ Call(id.recipient, id.amount)
    /\ UNCHANGED now

claim(id, preimage) ==
    /\ MayCall(id.recipient)
    /\ htlcs[id] = "OPEN"
    /\ Sha256[preimage] = id.hashlock
    /\ htlcs' = [htlcs EXCEPT ![id] = "CLAIMED"]
    /\ Emit("Claimed", id)
    /\ Call(id.recipient, id.amount)
    /\ UNCHANGED now

(*************************************************************************)
(* A mistake: the timelock is off by one.                               *)
(*************************************************************************)
refund_early(id) ==
    /\ MayCall(id.sender)
    /\ htlcs[id] = "OPEN"
    /\ now + 1 >= id.timelock
    /\ htlcs' = [htlcs EXCEPT ![id] = "REFUNDED"]
    /\ Emit("Refunded", id)
    /\ Call(id.sender, id.amount)
    /\ UNCHANGED now

refund(id) ==
    /\ MayCall(id.sender)
    /\ htlcs[id] = "OPEN"
    /\ now >= id.timelock
    /\ htlcs' = [htlcs EXCEPT ![id] = "REFUNDED"]
    /\ Emit("Refunded", id)
    /\ Call(id.sender, id.amount)
    /\ UNCHANGED now

(***************************************************************************)
(* The running payee returns, and the claim or refund that paid it is done.*)
(***************************************************************************)
CallReturns ==
    /\ frames # <<>>
    /\ frames' = SubSeq(frames, 1, Len(frames) - 1)
    /\ UNCHANGED <<now, htlcs, events, balances, held>>

(***************************************************************************)
(* The running payee reverts: the claim or refund that paid it reverts     *)
(* with TransferFailed, and all it did is undone.                          *)
(***************************************************************************)
CallFails ==
    /\ frames # <<>>
    /\ LET top == frames[Len(frames)] IN
           /\ htlcs' = top.htlcs
           /\ events' = top.events
           /\ balances' = top.balances
           /\ held' = top.held
    /\ frames' = SubSeq(frames, 1, Len(frames) - 1)
    /\ UNCHANGED now

(***************************************************************************)
(* The next block: its timestamp is later, and no transaction is running.  *)
(***************************************************************************)
Tick ==
    /\ frames = <<>>
    /\ now < MaxTime
    /\ now' = now + 1
    /\ UNCHANGED <<htlcs, events, balances, held, frames>>

Init ==
    /\ now = 0
    /\ htlcs = [id \in SwapIds |-> "EMPTY"]
    /\ events = <<>>
    /\ balances = [a \in Accounts |-> InitialBalance]
    /\ held = 0
    /\ frames = <<>>

Next ==
    \/ \E id \in SwapIds : lock(id) \/ refund(id)
    \/ \E id \in SwapIds, p \in Preimages : claim(id, p)
    \/ CallReturns
    \/ CallFails
    \/ Tick

Spec == Init /\ [][Next]_vars

-----------------------------------------------------------------------------
(***************************************************************************)
(* Every variable has its type; the event log and the call stack are       *)
(* sequences of events and of saved states.                                *)
(***************************************************************************)
TypeOK ==
    /\ now \in Nat
    /\ htlcs \in [SwapIds -> SwapState]
    /\ events \in Seq(Event)
    /\ balances \in [Accounts -> Nat]
    /\ held \in Nat
    /\ frames \in Seq(Frame)

(***************************************************************************)
(* The state other transactions and the clients see: the one before the    *)
(* running transaction, if there is one.                                   *)
(***************************************************************************)
Committed == IF frames = <<>> THEN htlcs ELSE frames[1].htlcs

(***************************************************************************)
(* What calls, one or several, may make of an HTLC in state s.             *)
(***************************************************************************)
MayBecome(s, t) ==
    \/ t = s
    \/ s = "EMPTY"
    \/ s = "OPEN" /\ t \in {"CLAIMED", "REFUNDED"}

(***************************************************************************)
(* claim and refund settle an HTLC for good: whatever payees do while they *)
(* are paid, calling back in or reverting, no committed HTLC leaves        *)
(* CLAIMED or REFUNDED, none is reopened, and none is REFUNDED before its  *)
(* timelock.  The maker's and the taker's recovery code relies on it when  *)
(* it drops a swap whose HTLC it read as terminal.                         *)
(***************************************************************************)
SettledForGood ==
    [][\A id \in SwapIds :
          /\ MayBecome(Committed[id], Committed'[id])
          /\ Committed'[id] = "REFUNDED" => now' >= id.timelock]_vars

(***************************************************************************)
(* The log tells the state: an HTLC's events are its Locked, followed by   *)
(* at most one of Claimed and Refunded, in agreement with htlcs, also      *)
(* after nested calls were undone.  The event watcher and the chain report *)
(* rebuild swaps from the log alone.                                       *)
(***************************************************************************)
EventsTellState ==
    \A id \in SwapIds :
        LET Kinds == [i \in {j \in 1..Len(events) : events[j].swapId = id} |-> events[i].kind]
        IN  /\ "Locked" \in {Kinds[i] : i \in DOMAIN Kinds} <=> htlcs[id] # "EMPTY"
            /\ "Claimed" \in {Kinds[i] : i \in DOMAIN Kinds} <=> htlcs[id] = "CLAIMED"
            /\ "Refunded" \in {Kinds[i] : i \in DOMAIN Kinds} <=> htlcs[id] = "REFUNDED"
            /\ \A i, j \in DOMAIN Kinds : i < j => Kinds[i] = "Locked" /\ Kinds[j] # "Locked"
=============================================================================

----------------------------- MODULE StateStore -----------------------------
(***************************************************************************)
(* The maker's journal of in-flight swaps: StateStore of src/cli/bot.rs,   *)
(* which the swap flow drives as a SwapJournal.                            *)
(*                                                                         *)
(* "mem" is the copy behind the mutex, "disk" what a restart will load.    *)
(* persist writes a temporary file, renames it over the journal and syncs  *)
(* the directory: when it fails, the rename may or may not have happened.  *)
(* Of its callers only record reports the failure; the others log it and   *)
(* go on with the new copy in memory.                                      *)
(***************************************************************************)
CONSTANTS
    Hashlocks,
    SwapIds,
    NoEntry      \* no in-flight entry for a hashlock

VARIABLES mem, disk

InFlightSwap == [swap_id : SwapIds, stage : {"PreLock", "Funded"}]
BotState == [in_flight : [Hashlocks -> InFlightSwap \cup {NoEntry}],
             quarantined : SUBSET Hashlocks]
EmptyState == [in_flight |-> [h \in Hashlocks |-> NoEntry], quarantined |-> {}]

contains(h) == mem.in_flight[h] # NoEntry
has_in_flight == \E h \in Hashlocks : contains(h)

persist(state, ok) == disk' \in IF ok THEN {state} ELSE {disk, state}

(***************************************************************************)
(* Best effort: the new state is in memory whether or not it is on disk.   *)
(* mark_funded and remove write only if they changed something.            *)
(***************************************************************************)
persist_logged(state, ok) ==
    /\ mem' = state
    /\ IF state = mem THEN UNCHANGED disk ELSE persist(state, ok)

(***************************************************************************)
(* A failed write takes the entry back out of memory.                      *)
(***************************************************************************)
record(h, id, ok) ==
    LET new == [mem EXCEPT !.in_flight[h] = [swap_id |-> id, stage |-> "PreLock"]]
    IN  IF contains(h)
        THEN ok /\ UNCHANGED <<mem, disk>>
        ELSE /\ mem' = IF ok THEN new ELSE mem
             /\ persist(new, ok)

mark_funded(h, ok) ==
    persist_logged(IF contains(h) THEN [mem EXCEPT !.in_flight[h].stage = "Funded"] ELSE mem, ok)

remove(h, ok) == persist_logged([mem EXCEPT !.in_flight[h] = NoEntry], ok)

quarantine(h, ok) ==
    LET new == [mem EXCEPT !.in_flight[h] = NoEntry, !.quarantined = @ \cup {h}]
    IN  mem' = new /\ persist(new, ok)

load == mem' = disk /\ UNCHANGED disk
=============================================================================

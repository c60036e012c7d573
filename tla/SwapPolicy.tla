----------------------------- MODULE SwapPolicy -----------------------------
(***************************************************************************)
(* The pure decisions of the swap code: which ETH lock the maker answers,  *)
(* what it makes of what it reads from the LEZ sequencer, and which escrow *)
(* the taker claims.  From src/swap/maker.rs, src/swap/taker.rs,           *)
(* src/lez/client.rs and src/cli/bot.rs.                                   *)
(*                                                                         *)
(* A read escrow state is "Locked", "Claimed" or "Refunded", and "None"    *)
(* when the sequencer reports no (or unusable) data.                       *)
(***************************************************************************)
EXTENDS Naturals

CONSTANT U64Max   \* the largest u64

ASSUME PolicyAssumption == U64Max \in Nat

(***************************************************************************)
(* u64::saturating_add, and U256::saturating_to::<u64>.                    *)
(***************************************************************************)
saturating_to(x) == IF x > U64Max THEN U64Max ELSE x
saturating_add(x, y) == saturating_to(x + y)

(***************************************************************************)
(* The LEZ expiry the maker locks with, computed when a lock matches.      *)
(***************************************************************************)
fresh_lez_expiry_secs(now_secs, lez_timelock_secs) ==
    saturating_add(now_secs, lez_timelock_secs)

(*************************************************************************)
(* A mistake: the margin is forgotten.                                  *)
(*************************************************************************)
eth_timelock_covers_no_margin(eth_expiry_secs, lez_expiry_secs, margin_secs) ==
    eth_expiry_secs >= lez_expiry_secs

eth_timelock_covers_lez(eth_expiry_secs, lez_expiry_secs, margin_secs) ==
    eth_expiry_secs >= saturating_add(lez_expiry_secs, margin_secs)

taker_lez_account_is_usable(taker_lez_account, maker_lez_account, zero) ==
    taker_lez_account \notin {zero, maker_lez_account}

(***************************************************************************)
(* candidate: the matched Locked event; policy: the maker's account, the   *)
(* takers it serves (all, or the one configured), the fresh expiry and the *)
(* margin; skip: the hashlock was rejected before or is in the journal.    *)
(***************************************************************************)
classify_candidate(candidate, policy, skip) ==
    IF skip
    THEN "Skip"
    ELSE IF ~taker_lez_account_is_usable(candidate.taker_lez_account,
                                         policy.maker_lez_account, policy.zero)
         THEN "UnusableTakerLezAccount"
         ELSE IF candidate.taker_lez_account \notin policy.served
              THEN "NotDesignatedTaker"
              ELSE IF ~eth_timelock_covers_lez(saturating_to(candidate.eth_timelock),
                                               policy.lez_expiry_secs, policy.margin)
                   THEN "TimelockTooTight"
                   ELSE "Accept"

-----------------------------------------------------------------------------
(***************************************************************************)
(* LezClient::lock refuses a hashlock whose escrow exists in any state,    *)
(* and funds only an escrow that is exactly the one it asked for.          *)
(***************************************************************************)
existing_escrow_blocks_fresh_lock(existing) == existing # "None"

(*************************************************************************)
(* Mistakes: whose escrow it is, or whom it pays, is not compared.       *)
(*************************************************************************)
escrow_confirms_any_escrow(escrow, maker_id, taker_id, amount, timelock_ms) ==
    /\ escrow.state = "Locked"
    /\ escrow.taker_id = taker_id
    /\ escrow.timelock = timelock_ms

escrow_confirms_any_taker(escrow, maker_id, taker_id, amount, timelock_ms) ==
    /\ escrow.state = "Locked"
    /\ escrow.maker_id = maker_id
    /\ escrow.amount = amount

escrow_confirms_our_lock(escrow, maker_id, taker_id, amount, timelock_ms) ==
    /\ escrow.state = "Locked"
    /\ escrow.maker_id = maker_id
    /\ escrow.taker_id = taker_id
    /\ escrow.amount = amount
    /\ escrow.timelock = timelock_ms

(***************************************************************************)
(* A locked escrow without its money can be neither claimed nor refunded.  *)
(***************************************************************************)
is_partial_lock_wedge(state, now_ms, timelock_ms, funded) ==
    state = "Locked" /\ now_ms >= timelock_ms /\ ~funded

(*************************************************************************)
(* A mistake: a wedge is always kept for another try.                   *)
(*************************************************************************)
retain_every_wedge(pre_state, balance, post_state, now_ms, timelock_ms) ==
    IF "Claimed" \in {pre_state, post_state} THEN "RecoverClaimed" ELSE "Retain"

(***************************************************************************)
(* balance: "enough", "low", or "unknown" when every read failed.          *)
(***************************************************************************)
classify_wedge_reread(pre_state, balance, post_state, now_ms, timelock_ms) ==
    IF "Claimed" \in {pre_state, post_state}
    THEN "RecoverClaimed"
    ELSE IF post_state = "Refunded"
         THEN "Dropped"
         ELSE IF /\ pre_state = "Locked" /\ post_state = "Locked" /\ balance # "unknown"
                 /\ is_partial_lock_wedge("Locked", now_ms, timelock_ms, balance = "enough")
              THEN "Quarantine"
              ELSE "Retain"

(*************************************************************************)
(* A mistake: an outage counts as absence.                              *)
(*************************************************************************)
retire_on_outage(stage, any_read_errored) ==
    IF stage = "PreLock" THEN "RetirePreLock" ELSE "RetainFunded"

classify_absent_escrow(stage, any_read_errored) ==
    IF any_read_errored
    THEN "RetainInconclusive"
    ELSE IF stage = "PreLock" THEN "RetirePreLock" ELSE "RetainFunded"

(*************************************************************************)
(* A mistake: the entry is dropped whether or not the claim worked.     *)
(*************************************************************************)
drop_after_eth_claim(outcome) == FALSE

(***************************************************************************)
(* Whether the journal entry stays after an attempt to claim the ETH.      *)
(***************************************************************************)
retain_after_eth_claim(outcome) == outcome = "Failed"

-----------------------------------------------------------------------------
(*************************************************************************)
(* Mistakes: the claimant, the claim margin, or the order of the two    *)
(* timelocks is not checked.                                             *)
(*************************************************************************)
verify_any_claimant(escrow, our_account, eth_timelock_secs, now_secs, margin) ==
    LET lez_expiry_secs == escrow.timelock \div 1000
    IN  /\ lez_expiry_secs >= saturating_add(now_secs, margin)
        /\ lez_expiry_secs < eth_timelock_secs

verify_no_margin(escrow, our_account, eth_timelock_secs, now_secs, margin) ==
    LET lez_expiry_secs == escrow.timelock \div 1000
    IN  /\ escrow.taker_id = our_account
        /\ lez_expiry_secs >= now_secs
        /\ lez_expiry_secs < eth_timelock_secs

verify_any_order(escrow, our_account, eth_timelock_secs, now_secs, margin) ==
    LET lez_expiry_secs == escrow.timelock \div 1000
    IN  /\ escrow.taker_id = our_account
        /\ lez_expiry_secs >= saturating_add(now_secs, margin)

(***************************************************************************)
(* The taker's check of an escrow before it shows the secret.  That the    *)
(* escrow is for the taker's hashlock holds by the way it is looked up.    *)
(***************************************************************************)
verify_escrow_binding(escrow, our_account, eth_timelock_secs, now_secs, margin) ==
    LET lez_expiry_secs == escrow.timelock \div 1000
    IN  /\ escrow.taker_id = our_account
        /\ lez_expiry_secs >= saturating_add(now_secs, margin)
        /\ lez_expiry_secs < eth_timelock_secs
=============================================================================

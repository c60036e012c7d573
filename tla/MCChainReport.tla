--------------------------- MODULE MCChainReport ---------------------------
(***************************************************************************)
(* Small instances of ChainReport: five blocks, a pinned contract from     *)
(* block 1 on, a full backend, a pruned one and one that lags behind.      *)
(***************************************************************************)
EXTENDS ChainReport

MCBlockTime(b) == 2 * b + 1
MCBackends == {0..4, 2..4, 0..3}

Event(swap, kind, block) == [swap |-> swap, kind |-> kind, block |-> block]

(***************************************************************************)
(* One swap of every life within the blocks, one that stays open.          *)
(***************************************************************************)
Lives == UNION {{{Event("s1", "Locked", l)}} \cup
                {{Event("s1", "Locked", l), Event("s1", kind, e)} :
                    kind \in {"Claimed", "Refunded"}, e \in l..4} : l \in 1..4}
MCWorlds ==
    {[events |-> life \cup {Event("s2", "Locked", 2)}, busy |-> busy,
      maker |-> [s \in {"s1", "s2"} |-> s], taker |-> [s \in {"s1", "s2"} |-> "bob"]] :
        life \in Lives, busy \in {1..4, {3}}}

Default == [scheme |-> "wss", pinned |-> TRUE, chunk |-> 3, allow |-> FALSE,
            from_block |-> NoArg, to_block |-> NoArg, since |-> NoArg, until |-> NoArg]
MCCommands ==
    {Default,
     [Default EXCEPT !.allow = TRUE],
     [Default EXCEPT !.since = 5, !.to_block = 3],
     [Default EXCEPT !.until = 7],
     [Default EXCEPT !.since = 10, !.until = 12],
     [Default EXCEPT !.pinned = FALSE],
     [Default EXCEPT !.scheme = "ipc"],
     [Default EXCEPT !.pinned = FALSE, !.from_block = 5],
     [Default EXCEPT !.pinned = FALSE, !.from_block = 0, !.until = 0]}
=============================================================================

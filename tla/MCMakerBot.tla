----------------------------- MODULE MCMakerBot -----------------------------
(***************************************************************************)
(* Small instances of MakerBot: one maker, and takers who lock ETH on the  *)
(* same hashlock for different LEZ accounts, with enough time or too       *)
(* little.                                                                 *)
(***************************************************************************)
EXTENDS MakerBot, TLC

CONSTANTS maker, bob, maker_lez, bob_lez, eve_lez, h1, h2, p1, p2

MCSha256 == p1 :> h1
MCSha256Two == (p1 :> h1) @@ (p2 :> h2)

Request(t, l) == [sender |-> bob, recipient |-> maker, amount |-> 1, hashlock |-> h1,
                  timelock |-> t, takerLezAccount |-> l]

(***************************************************************************)
(* A lock the maker can answer at time 0 or 1.                             *)
(***************************************************************************)
OneTaker == {Request(4, bob_lez)}

(***************************************************************************)
(* With a margin of 2: the locks of two takers on one hashlock, and one on *)
(* another.  The maker can answer each at time 0; from then on their       *)
(* margin is one short.                                                    *)
(***************************************************************************)
Takers == {Request(4, bob_lez), Request(4, eve_lez), [Request(4, bob_lez) EXCEPT !.hashlock = h2]}

(***************************************************************************)
(* Somebody else locks an escrow of 0 LEZ on the hashlock, for the same    *)
(* taker and until the time the maker itself would choose at time 0.  It   *)
(* may be there before the maker's, and holds all it asks for.             *)
(***************************************************************************)
ForeignLock == {[amount |-> 0, hashlock |-> h1, timelock |-> 2000,
                 op |-> "Lock", signer |-> eve_lez, taker_id |-> bob_lez]}
=============================================================================

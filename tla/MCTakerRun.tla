----------------------------- MODULE MCTakerRun -----------------------------
(***************************************************************************)
(* Small instances of TakerRun.  The maker may lock one of four escrows:   *)
(* as agreed, for another claimant, not expiring before the ETH lock, or   *)
(* for a larger amount than it was asked for; and it pays in once or       *)
(* twice.                                                                  *)
(***************************************************************************)
EXTENDS TakerRun, TLC

CONSTANTS bob, maker, maker_lez, bob_lez, eve_lez, h1, p1

MCSha256 == p1 :> h1

MCSwap == [sender |-> bob, recipient |-> maker, amount |-> 1, hashlock |-> h1,
           timelock |-> 5, takerLezAccount |-> bob_lez]
MCSwapIds == {MCSwap}

Lock(taker_id, amount, timelock) ==
    [op |-> "Lock", signer |-> maker_lez, hashlock |-> h1, taker_id |-> taker_id,
     amount |-> amount, timelock |-> timelock]

AnyTerms ==
    { Lock(bob_lez, 1, 4000),
      Lock(eve_lez, 1, 4000),
      Lock(bob_lez, 1, 5000),
      Lock(bob_lez, 2, 4000),
      [op |-> "Refund", signer |-> maker_lez, hashlock |-> h1],
      [op |-> "Transfer", signer |-> maker_lez, hashlock |-> h1, amount |-> 1] }
=============================================================================

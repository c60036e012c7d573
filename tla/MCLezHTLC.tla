----------------------------- MODULE MCLezHTLC -----------------------------
(***************************************************************************)
(* A small instance of LezHTLC: an honest lock, a competing lock of the    *)
(* same hashlock by the other party, a self-swap the program refuses,      *)
(* claims with the right and the wrong secret and by the wrong account,    *)
(* refunds by both, and funding from both sides, so that accounts may hold *)
(* more than their escrow asks for.                                        *)
(***************************************************************************)
EXTENDS LezHTLC, FiniteSets, FiniteSetsExt, TLC

CONSTANTS alice_lez, bob_lez, h1, h2, p1, p2

MCSha256 == (p1 :> h1) @@ (p2 :> h2)

Lock(s, h, t, amt, ms) == [op |-> "Lock", signer |-> s, hashlock |-> h, taker_id |-> t,
                           amount |-> amt, timelock |-> ms]
Claim(s, h, p) == [op |-> "Claim", signer |-> s, hashlock |-> h, preimage |-> p]
Refund(s, h) == [op |-> "Refund", signer |-> s, hashlock |-> h]
Transfer(s, h, amt) == [op |-> "Transfer", signer |-> s, hashlock |-> h, amount |-> amt]

MCTxs ==
    { Lock(alice_lez, h1, bob_lez, 2, 1000),
      Lock(bob_lez, h1, alice_lez, 1, 2000),
      Lock(alice_lez, h2, alice_lez, 1, 1000),
      Claim(bob_lez, h1, p1), Claim(bob_lez, h1, p2), Claim(alice_lez, h1, p1),
      Refund(alice_lez, h1), Refund(bob_lez, h1),
      Transfer(alice_lez, h1, 2), Transfer(bob_lez, h1, 1) }

Lambda(f, S) == MapThenSumSet(LAMBDA x : f[x], S)

(***************************************************************************)
(* Lambda only moves: what the wallets and the escrow accounts hold is     *)
(* what the wallets started with.                                          *)
(***************************************************************************)
LambdaConserved ==
    Lambda(wallets, LezAccounts) + Lambda(pdas, LezHashlocks) = LezBalance * Cardinality(LezAccounts)

(***************************************************************************)
(* At most three transactions are in flight.                               *)
(***************************************************************************)
FewInFlight == Lambda(pending, Txs) <= 3
=============================================================================

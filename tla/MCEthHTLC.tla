----------------------------- MODULE MCEthHTLC -----------------------------
(***************************************************************************)
(* A small instance of EthHTLC: one externally owned account, two          *)
(* contracts, locks from and to contracts, one invalid request of each     *)
(* kind the contract refuses, and calls nested up to MaxDepth.             *)
(***************************************************************************)
EXTENDS EthHTLC, FiniteSets, FiniteSetsExt, TLC

CONSTANTS alice, carol, dave, h1, h2, p1, p2, bob_lez

MCSha256 == (p1 :> h1) @@ (p2 :> h2)

Request(s, r, amt, h, t, l) ==
    [sender |-> s, recipient |-> r, amount |-> amt, hashlock |-> h, timelock |-> t,
     takerLezAccount |-> l]

MCSwapIds ==
    { Request(alice, carol, 1, h1, 2, bob_lez),     \* paid to a contract when claimed
      Request(carol, dave, 2, h1, 2, bob_lez),      \* same secret, contract on both sides
      Request(dave, alice, 1, h2, 3, bob_lez),
      Request(alice, carol, 0, h1, 3, bob_lez),
      Request(alice, ZeroAddress, 1, h1, 3, bob_lez),
      Request(alice, carol, 1, ZeroBytes32, 3, bob_lez),
      Request(alice, carol, 1, h1, 3, ZeroBytes32),
      Request(alice, carol, 1, h1, 1, bob_lez) }    \* within minTimelockDelta from the start

Amount(id) == id.amount
Total(S) == MapThenSumSet(Amount, S)

(***************************************************************************)
(* Every wei is explained: the contract holds exactly what is OPEN, and    *)
(* each account has what it started with, less what it locked and did not  *)
(* get back, plus what it claimed.  So claim and refund never pay the same *)
(* HTLC twice, even when the payee re-enters the contract, and an OPEN     *)
(* HTLC can always be paid out.                                            *)
(***************************************************************************)
BalancesExplained ==
    LET In(S) == {id \in SwapIds : htlcs[id] \in S}
    IN  /\ held = Total(In({"OPEN"}))
        /\ \A a \in Accounts :
              balances[a] + Total({id \in In({"OPEN", "CLAIMED"}) : id.sender = a})
                = InitialBalance + Total({id \in In({"CLAIMED"}) : id.recipient = a})
=============================================================================

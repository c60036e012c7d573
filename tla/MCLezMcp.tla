------------------------------ MODULE MCLezMcp ------------------------------
(***************************************************************************)
(* Small instances of LezMcp: two calls at a time, of any two tools, on an *)
(* account that may still have to be initialized.                          *)
(***************************************************************************)
EXTENDS LezMcp, TLC

CONSTANTS r1, r2

Ask(tool, amount, target) ==
    [tool |-> tool, amount |-> amount, known |-> TRUE, target |-> target]

Transfer1 == Ask("transfer", 1, 0)
Transfer2 == Ask("transfer", 2, 0)
ClaimTo3 == Ask("claim", 0, 3)
Fingerprint == Ask("fingerprint", 0, 0)
Stranger == [Ask("transfer", 1, 0) EXCEPT !.known = FALSE]

(***************************************************************************)
(* Either call may be the first: the workloads are symmetric in the calls. *)
(***************************************************************************)
Pairs == {<<Transfer1, Transfer1>>, <<Transfer1, Transfer2>>, <<Transfer1, ClaimTo3>>,
          <<Stranger, Fingerprint>>, <<Transfer1, Fingerprint>>, <<ClaimTo3, ClaimTo3>>,
          <<Ask("claim", 0, 0), Fingerprint>>}
MCWorkloads == UNION {{r1 :> p[1] @@ r2 :> p[2], r1 :> p[2] @@ r2 :> p[1]} : p \in Pairs}
Symmetry == Permutations(Requests)

(***************************************************************************)
(* Two transfers, one after the other, and no one else at the faucet.      *)
(***************************************************************************)
TwoTransfers == {r1 :> Transfer1 @@ r2 :> Transfer2}
=============================================================================

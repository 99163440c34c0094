---------------------------- MODULE MCDecisions ----------------------------
(* Small instances of Decisions: one product, and prices with the floor     *)
(* anywhere among them.                                                     *)
EXTENDS Decisions, TLC

CONSTANT p1

TwoPrices == 1..2
OnePrice == {1}
OneProduct == [r \in Rec |-> p1]
(* Bound: a failed statement of an execution comes alone. *)
FewFaults == dbFailures = 0 \/ failures + crashes = 0
Symmetry == Permutations(Request)
=============================================================================

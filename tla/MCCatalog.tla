------------------------------- MODULE MCCatalog -------------------------------
(* Prices and costs that meet, levels at both sides of the threshold for    *)
(* LOW, and patches that name one side of a rule, both, or neither.         *)
EXTENDS Catalog, TLC

MCInput == {[price |-> 2, cost |-> 1, level |-> 21]}

MCPatch ==
  LET Silent == [price |-> None, cost |-> None, level |-> None]
  IN {Silent, [Silent EXCEPT !.price = 2], [Silent EXCEPT !.cost = 2], [Silent EXCEPT !.level = 20],
      [Silent EXCEPT !.level = 400], [Silent EXCEPT !.price = 3, !.cost = 2]}

Symmetry == Permutations(Actor) \cup Permutations(Product)
=============================================================================

-------------------------------- MODULE MCPages --------------------------------
EXTENDS Pages

(* Both organizations begin with the higher level of both settings.        *)
MCGiven == [o \in Org |-> [f \in {"confidenceThreshold", "maxPriceDeltaPct"} |-> 1]]

(* No filter, and one that leaves an entry in the middle out.              *)
MCFilter == {1..4, {1, 2, 4}}
=============================================================================

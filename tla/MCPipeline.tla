----------------------------- MODULE MCPipeline -----------------------------
(* A small instance of Pipeline.  Of 800 cents at a cost of 700 the limits  *)
(* leave 795..880, a loose rule changes nothing and a tight one blocks all. *)
EXTENDS Pipeline

MCProducts == {[price |-> 800, cost |-> 700, margin |-> 12], [price |-> 600, cost |-> 300, margin |-> 20]}
MCRules    == {[margin |-> 5, delta |-> 50], [margin |-> 30, delta |-> 5]}
MCSettings == {[threshold |-> 75, delta |-> 10], [threshold |-> 80, delta |-> 20]}

MCMarketOutputs ==
  {[confidence |-> 100, age |-> 1, trend |-> "rising"],
   [confidence |-> 100, age |-> 9, trend |-> "stable"],
   [confidence |-> 49,  age |-> 1, trend |-> "rising"]}
MCInventoryOutputs ==
  {[confidence |-> 100, constrained |-> FALSE], [confidence |-> 40, constrained |-> TRUE]}
MCDemandOutputs ==
  {[confidence |-> 100, trend |-> "steady"], [confidence |-> 100, trend |-> "decelerating"]}
MCStrategyOutputs ==
  {[confidence |-> 100, price |-> 820], [confidence |-> 40, price |-> 1000], [confidence |-> 100, price |-> 500]}
MCComplianceOutputs ==
  {[block |-> FALSE, price |-> 820], [block |-> FALSE, price |-> 750], [block |-> TRUE, price |-> 820]}
=============================================================================

---------------------------- MODULE BusinessRules ----------------------------
(***************************************************************************)
(* services/businessRules.ts, effectiveLimits of categoryRule.service.ts   *)
(* and agents/confidence.ts: the pure functions between an agent's price   *)
(* and the storefront.                                                     *)
(*                                                                         *)
(* Prices are integers (cents); a fraction n of the code is n * Whole here *)
(* and a confidence is in hundredths.  The code computes in doubles; here  *)
(* the arithmetic is exact, with the code's rounding to a cent.            *)
(***************************************************************************)
EXTENDS Integers, FiniteSets

CONSTANTS
  Whole,   \* the fraction 1
  None     \* null: no category rule, no agent output

ASSUME WholeAssumption == Whole \in Nat \ {0}

(* A RuleContext, the product, a row of category_rules and the settings.   *)
Limits  == [current : Nat, cost : Nat, margin : 0..(Whole - 1), delta : 0..Whole]
Product == [price : Nat, cost : Nat, margin : 0..(Whole - 1)]
Rule    == [margin : 0..(Whole - 1), delta : 0..Whole]
Setting == [threshold : 50..100, delta : 0..Whole]

MinimumPrice == 99

Larger(a, b)   == IF a >= b THEN a ELSE b
Smaller(a, b)  == IF a <= b THEN a ELSE b
Distance(a, b) == IF a >= b THEN a - b ELSE b - a

(* Math.round of n / d. *)
Rounded(n, d) == (2 * n + d) \div (2 * d)

-----------------------------------------------------------------------------
(* The blocking rules of checkBusinessRules; MAX_DELTA only adjusts, and   *)
(* nothing in the backend acts on an adjustment.                           *)
BelowCost(x, lim)   == x <= lim.cost
BelowMargin(x, lim) == (x - lim.cost) * Whole < lim.margin * x
Blocked(x, lim)     == BelowCost(x, lim) \/ BelowMargin(x, lim) \/ x < MinimumPrice

FloorPrice(lim) == Rounded(lim.cost * Whole, Whole - lim.margin)

(* A plausible bug: the lower bounds are forgotten. *)
ClampFromAbove(x, lim) == Rounded(Smaller(x * Whole, lim.current * (Whole + lim.delta)), Whole)

(* clampToPermittedRange, times Whole up to the final rounding. *)
Clamp(x, lim) ==
  LET lower == Larger(FloorPrice(lim), MinimumPrice) * Whole IN
  Rounded(Smaller(Larger(x * Whole, Larger(lower, lim.current * (Whole - lim.delta))),
                  lim.current * (Whole + lim.delta)),
          Whole)

(* What the code did before: a category rule replaced the limits. *)
EffectiveReplaces(rule, own) ==
  IF rule = None THEN own ELSE [own EXCEPT !.margin = rule.margin, !.delta = rule.delta]

(* A category rule tightens and never loosens. *)
EffectiveLimits(rule, own) ==
  IF rule = None THEN own
  ELSE [own EXCEPT !.margin = Larger(rule.margin, @), !.delta = Smaller(rule.delta, @)]

-----------------------------------------------------------------------------
(* The parts of the agents' outputs the code itself reads. *)
MarketOutput     == [confidence : 0..100, age : Nat, trend : {"rising", "falling", "stable"}]
InventoryOutput  == [confidence : 0..100, constrained : BOOLEAN]
DemandOutput     == [confidence : 0..100, trend : {"accelerating", "steady", "decelerating"}]
StrategyOutput   == [confidence : 0..100, price : Int]
ComplianceOutput == [block : BOOLEAN, price : Int]

(* A forecast on a shaky market read cannot report high confidence. *)
CapForWeakUpstream(confidence, upstream) ==
  IF upstream >= 50 THEN confidence ELSE Smaller(confidence, 60)

SignalsDisagree(market, demand) ==
  <<market.trend, demand.trend>> \in {<<"falling", "accelerating">>, <<"rising", "decelerating">>}

(* The weights of the agents that produced output, and their weighted sum. *)
WeightSum(out) ==
  45 + (IF out.market = None THEN 0 ELSE 30) + (IF out.demand = None THEN 0 ELSE 25)

Accumulated(out) ==
    25 * out.inventory.confidence + 20 * out.strategy.confidence
  + (IF out.market = None THEN 0 ELSE 30 * out.market.confidence)
  + (IF out.demand = None THEN 0 ELSE 25 * out.demand.confidence)

(* The named deductions, 20 for each agent in failedAgents, capped. *)
TotalPenalty(out, failed, x, current) ==
  Smaller(45,
      (IF out.market # None /\ out.market.age > 7 THEN 15 ELSE 0)
    + (IF out.market # None /\ out.demand # None /\ SignalsDisagree(out.market, out.demand) THEN 10 ELSE 0)
    + 20 * Cardinality(failed)
    + (IF Distance(x, current) * 100 > 15 * current THEN 10 ELSE 0)
    + (IF out.inventory.constrained THEN 5 ELSE 0))

(* A plausible bug: the difference is not clamped at zero. *)
ScoreNotFloored(out, failed, x, current) ==
  LET sum == WeightSum(out) IN
  Smaller(100, Rounded(Accumulated(out) - TotalPenalty(out, failed, x, current) * sum, sum))

(* computeConfidence: a missing agent's weight is redistributed. *)
Score(out, failed, x, current) ==
  LET sum == WeightSum(out) IN
  Larger(0, Smaller(100, Rounded(Accumulated(out) - TotalPenalty(out, failed, x, current) * sum, sum)))
=============================================================================

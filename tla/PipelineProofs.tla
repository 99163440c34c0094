---------------------------- MODULE PipelineProofs ----------------------------
(***************************************************************************)
(* Proofs about BusinessRules and Pipeline, for every catalog, every       *)
(* category rule, every setting and everything the agents may answer.      *)
(***************************************************************************)
EXTENDS Pipeline, FiniteSetTheorems, TLAPS

(* Rounding an integer quotient gives an integer. *)
LEMMA RoundedInt ==
  ASSUME NEW n \in Int, NEW d \in Nat \ {0}
  PROVE  Rounded(n, d) \in Int
  BY DEF Rounded

LEMMA ClampInt ==
  ASSUME NEW x \in Int, NEW lim \in Limits
  PROVE  Clamp(x, lim) \in Int
  <1> DEFINE lower == Larger(FloorPrice(lim), MinimumPrice) * Whole
  <1> DEFINE inner == Smaller(Larger(x * Whole, Larger(lower, lim.current * (Whole - lim.delta))),
                              lim.current * (Whole + lim.delta))
  <1>1. Whole \in Nat \ {0} /\ Whole - lim.margin \in Nat \ {0}
    BY WholeAssumption DEF Limits
  <1>2. lim.cost * Whole \in Int
    BY <1>1 DEF Limits
  <1>3. FloorPrice(lim) \in Int
    BY <1>1, <1>2, RoundedInt DEF FloorPrice
  <1>4. lower \in Int
    BY <1>1, <1>3 DEF Larger, MinimumPrice
  <1>5. x * Whole \in Int /\ lim.current * (Whole - lim.delta) \in Int /\ lim.current * (Whole + lim.delta) \in Int
    BY <1>1 DEF Limits
  <1>6. inner \in Int
    BY <1>4, <1>5 DEF Larger, Smaller
  <1>7. Rounded(inner, Whole) \in Int
    BY <1>1, <1>6, RoundedInt
  <1>8. QED
    BY <1>7 DEF Clamp

(* A category rule never lowers the floor and never widens the band. *)
LEMMA EffectiveTightens ==
  ASSUME NEW r \in Rule \cup {None}, NEW own \in Limits
  PROVE  /\ EffectiveLimits(r, own) \in Limits
         /\ EffectiveLimits(r, own).cost = own.cost
         /\ EffectiveLimits(r, own).margin >= own.margin
         /\ EffectiveLimits(r, own).delta <= own.delta
  <1>1. CASE r = None
    BY <1>1, WholeAssumption DEF EffectiveLimits, Limits
  <1>2. CASE r \in Rule /\ r # None
    <2> DEFINE m == Larger(r.margin, own.margin)
               d == Smaller(r.delta, own.delta)
    <2>1. m \in 0..(Whole - 1) /\ m >= own.margin /\ d \in 0..Whole /\ d <= own.delta
      BY <1>2, WholeAssumption DEF Limits, Rule, Larger, Smaller
    <2>2. EffectiveLimits(r, own) = [own EXCEPT !.margin = m, !.delta = d]
      BY <1>2 DEF EffectiveLimits
    <2> HIDE DEF m, d
    <2>3. QED
      BY <2>1, <2>2 DEF Limits
  <1>3. QED
    BY <1>1, <1>2

(* What the effective limits let pass, the product's own limits do too. *)
LEMMA OwnLimitsAllow ==
  ASSUME NEW r \in Rule \cup {None}, NEW own \in Limits, NEW x \in Int,
         ~Blocked(x, EffectiveLimits(r, own))
  PROVE  ~Blocked(x, own)
  <1> DEFINE eff == EffectiveLimits(r, own)
  <1>1. /\ eff.cost = own.cost /\ own.cost \in Nat
        /\ eff.margin \in Nat /\ own.margin \in Nat /\ eff.margin >= own.margin
    BY EffectiveTightens, WholeAssumption DEF Limits
  <1>2. x > own.cost /\ x >= MinimumPrice
    BY <1>1 DEF Blocked, BelowCost, MinimumPrice
  <1>3. (x - own.cost) * Whole >= eff.margin * x
    BY <1>1, WholeAssumption DEF Blocked, BelowMargin
  <1>4. eff.margin * x >= own.margin * x
    <2>1. ASSUME NEW m \in Nat, NEW n \in Nat, NEW y \in Nat, m >= n
          PROVE  m * y >= n * y
      BY <2>1
    <2>2. QED
      BY <1>1, <1>2, <2>1
  <1>5. (x - own.cost) * Whole >= own.margin * x
    BY <1>1, <1>3, <1>4, WholeAssumption
  <1>6. QED
    BY <1>1, <1>2, <1>5, WholeAssumption DEF Blocked, BelowCost, BelowMargin, MinimumPrice

(* Blocking is upward closed: if a price passes, every higher one does. It *)
(* is why Execution may put floor[p] for the whole gate.                   *)
LEMMA HigherPricesPass ==
  ASSUME NEW lim \in Limits, NEW x \in Int, NEW y \in Int, x <= y, ~Blocked(x, lim)
  PROVE  ~Blocked(y, lim)
  <1> DEFINE rest == Whole - lim.margin
  <1>1. Whole \in Nat /\ rest \in Nat /\ lim.margin \in Nat /\ lim.cost \in Nat
    BY WholeAssumption DEF Limits
  <1>2. x > lim.cost /\ x >= MinimumPrice /\ (x - lim.cost) * Whole >= lim.margin * x
    BY <1>1 DEF Blocked, BelowCost, BelowMargin, MinimumPrice
  <1>3. (y - x) * rest >= 0
    BY <1>1
  <1>4. (y - lim.cost) * Whole - lim.margin * y
          = ((x - lim.cost) * Whole - lim.margin * x) + (y - x) * rest
    BY <1>1
  <1>5. (y - lim.cost) * Whole >= lim.margin * y
    BY <1>1, <1>2, <1>3, <1>4
  <1>6. QED
    BY <1>1, <1>2, <1>5 DEF Blocked, BelowCost, BelowMargin, MinimumPrice

-----------------------------------------------------------------------------
(* The order of the waves: an agent that was started has the outputs it is *)
(* given, and one that answered has an output.  Without this TypeOK is not *)
(* inductive: the score would be computed from a missing output.           *)
WavesInOrder ==
  /\ \A a \in Agent : task[a] \in {"answered", "recorded"} => out[a] # None
  /\ stage \in {"idle", "loaded"} => \A a \in Agent : task[a] = "waiting"
  /\ stage \in {"waveOne", "waveTwo", "waveThree"} => task["compliance"] = "waiting"
  /\ task["demand"] \notin {"waiting", "skipped"} => task["market"] = "recorded"
  /\ task["strategy"] # "waiting" => task["inventory"] = "recorded"
  /\ task["compliance"] # "waiting" => task["strategy"] = "recorded"

Typed == TypeOK /\ WavesInOrder

LEMMA InitTyped == Init => Typed
  <1> SUFFICES ASSUME Init PROVE Typed
    OBVIOUS
  <1>1. product \in Product /\ settings \in Setting /\ rule \in Rule \cup {None}
    BY EditAssumption DEF Init
  <1>2. limits \in Limits /\ shown \in Int /\ threshold \in 50..100
    BY <1>1, WholeAssumption DEF Init, OwnLimits, Limits, Product, Setting
  <1>3. /\ task \in [Agent -> Task] /\ stage \in Stage /\ failed \subseteq Agent /\ score \in 0..100
        /\ row \in [status : {"none", "PENDING", "AUTO_EXECUTED", "FAILED"}, price : Int, score : 0..100]
        /\ edits \in 0..MaxEdits /\ productEdited \in BOOLEAN /\ failures \in 0..MaxFailures
    <2>1. row \in [status : {"none", "PENDING", "AUTO_EXECUTED", "FAILED"}, price : Int, score : 0..100]
      BY DEF Init
    <2>2. edits \in 0..MaxEdits /\ failures \in 0..MaxFailures /\ score \in 0..100
      BY BoundAssumption DEF Init
    <2>3. QED
      BY <2>1, <2>2 DEF Init, Stage, Over, Task
  <1>4. out \in [market : MarketOutput \cup {None}, inventory : InventoryOutput \cup {None},
                demand : DemandOutput \cup {None}, strategy : StrategyOutput \cup {None},
                compliance : ComplianceOutput \cup {None}]
    BY DEF Init
  <1>5. WavesInOrder
    BY DEF Init, WavesInOrder, Agent
  <1>6. QED
    BY <1>1, <1>2, <1>3, <1>4, <1>5 DEF Typed, TypeOK

LEMMA AnswerTyped ==
  ASSUME Typed, NEW a \in Agent, Answer(a)
  PROVE  Typed'
  <1>1. PICK o \in Outputs(a) : out' = [out EXCEPT ![a] = o]
    BY DEF Answer
  <1>2. task' \in [Agent -> Task]
    BY DEF Typed, TypeOK, Answer, Become, Task, Awaited
  <1>3. o # None /\ out' \in [market : MarketOutput \cup {None}, inventory : InventoryOutput \cup {None},
              demand : DemandOutput \cup {None}, strategy : StrategyOutput \cup {None},
              compliance : ComplianceOutput \cup {None}]
    <2> USE <1>1, OutputAssumption, NoneAssumption DEF Typed, TypeOK, Outputs
    <2>1. CASE a = "market"      BY <2>1
    <2>2. CASE a = "inventory"   BY <2>2
    <2>3. CASE a = "demand"      BY <2>3
    <2>4. CASE a = "strategy"    BY <2>4
    <2>5. CASE a = "compliance"  BY <2>5
    <2>6. QED
      BY <2>1, <2>2, <2>3, <2>4, <2>5 DEF Agent
  <1>4. TypeOK'
    BY <1>2, <1>3 DEF Typed, TypeOK, Answer, admin, history
  <1>5. \A b \in Agent : out'[b] = IF b = a THEN o ELSE out[b]
    BY <1>1 DEF Typed, TypeOK, Agent
  <1>6. WavesInOrder'
    BY <1>3, <1>5 DEF Typed, TypeOK, WavesInOrder, Answer, Become, Agent
  <1>7. QED
    BY <1>4, <1>6 DEF Typed

LEMMA AgentTyped ==
  ASSUME Typed, NEW a \in Agent, AgentStep(a) \/ RecordFails(a)
  PROVE  Typed'
  <1>1. CASE Answer(a)
    BY <1>1, AnswerTyped
  <1>2. CASE Err(a) \/ RecordOutput(a)
    <2> USE <1>2 DEF Err, RecordOutput, Become
    <2>1. TypeOK'
      BY DEF Typed, TypeOK, Task, Awaited, Settled, admin, history
    <2>2. WavesInOrder'
      BY DEF Typed, TypeOK, WavesInOrder, Agent
    <2>3. QED
      BY <2>1, <2>2 DEF Typed
  <1>3. CASE RecordError(a)
    <2>1. TypeOK'
      BY <1>3 DEF Typed, TypeOK, RecordError, Become, Task, Settled, Agent, admin, history
    <2>2. \A b \in Agent : out'[b] = IF b = a THEN None ELSE out[b]
      BY <1>3 DEF Typed, TypeOK, RecordError, Agent
    <2>3. WavesInOrder'
      BY <1>3, <2>2 DEF Typed, TypeOK, WavesInOrder, RecordError, Become, Agent
    <2>4. QED
      BY <2>1, <2>3 DEF Typed
  <1>4. CASE RecordFails(a)
    <2>1. failures' \in 0..MaxFailures
      BY <1>4, BoundAssumption DEF Typed, TypeOK, RecordFails
    <2>2. QED
      BY <1>4, <2>1 DEF Typed, TypeOK, WavesInOrder, RecordFails, Become, Task, Awaited, Agent, admin
  <1>5. QED
    BY <1>1, <1>2, <1>3, <1>4 DEF AgentStep

-----------------------------------------------------------------------------
(* orchestrate, one action at a time. *)

LEMMA StartTyped ==
  ASSUME Typed, Load \/ Start
  PROVE  Typed'
  <1>1. CASE Load
    <2>1. limits' \in Limits /\ threshold' \in 50..100
      BY <1>1, WholeAssumption DEF Typed, TypeOK, Load, OwnLimits, Limits, Product, Setting
    <2>2. QED
      BY <1>1, <2>1 DEF Typed, TypeOK, WavesInOrder, Load, Stage, Over, admin, history
  <1>2. CASE Start
    <2>1. limits' \in Limits
      BY <1>2, EffectiveTightens DEF Typed, TypeOK, Start
    <2>2. row' \in [status : {"none", "PENDING", "AUTO_EXECUTED", "FAILED"}, price : Int, score : 0..100]
      BY <1>2 DEF Typed, TypeOK, Start, Limits
    <2>3. task' \in [Agent -> Task] /\ stage' \in Stage
      BY <1>2 DEF Typed, TypeOK, Start, Task, Awaited, Stage
    <2>4. TypeOK'
      BY <1>2, <2>1, <2>2, <2>3 DEF Typed, TypeOK, Start, admin, history
    <2>5. WavesInOrder'
      BY <1>2 DEF Typed, TypeOK, WavesInOrder, Start, Agent
    <2>6. QED
      BY <2>4, <2>5 DEF Typed
  <1>3. QED
    BY <1>1, <1>2

LEMMA WaveOneTyped ==
  ASSUME Typed, WaveOneJoins
  PROVE  Typed'
  <1>1. TypeOK'
    BY DEF Typed, TypeOK, WaveOneJoins, Become, Task, Awaited, Stage, Agent, admin, history
  <1>2. WavesInOrder'
    BY DEF Typed, TypeOK, WavesInOrder, WaveOneJoins, Become, Agent, Settled
  <1>3. QED
    BY <1>1, <1>2 DEF Typed

LEMMA WaveTwoTyped ==
  ASSUME Typed, WaveTwoEnds
  PROVE  Typed'
  <1>1. task' \in [Agent -> Task] /\ stage' \in Stage
    BY DEF Typed, TypeOK, WaveTwoEnds, Become, Task, Awaited, Stage, Agent
  <1>2. /\ out' \in [market : MarketOutput \cup {None}, inventory : InventoryOutput \cup {None},
              demand : DemandOutput \cup {None}, strategy : StrategyOutput \cup {None},
              compliance : ComplianceOutput \cup {None}]
        /\ \A a \in Agent : out[a] # None => out'[a] # None
    <2>1. CASE task["demand"] = "recorded"
      <3> DEFINE c == CapForWeakUpstream(out.demand.confidence, out.market.confidence)
      <3>1. out.demand \in DemandOutput /\ out.market \in MarketOutput
        BY <2>1 DEF Typed, TypeOK, WavesInOrder, Agent
      <3>2. c \in 0..100
        BY <3>1 DEF CapForWeakUpstream, Smaller, DemandOutput, MarketOutput
      <3>3. out' = [out EXCEPT !.demand = [out.demand EXCEPT !.confidence = c]]
        BY <2>1 DEF WaveTwoEnds
      <3> HIDE DEF c
      <3>4. [out.demand EXCEPT !.confidence = c] \in DemandOutput
        BY <3>1, <3>2 DEF DemandOutput
      <3>5. QED
        BY <3>3, <3>4, NoneAssumption DEF Typed, TypeOK, Agent
    <2>2. CASE task["demand"] # "recorded"
      BY <2>2 DEF Typed, TypeOK, WaveTwoEnds
    <2>3. QED
      BY <2>1, <2>2
  <1>3. TypeOK'
    BY <1>1, <1>2 DEF Typed, TypeOK, WaveTwoEnds, admin, history
  <1>4. WavesInOrder'
    <2>1. CASE task' = task
      BY <1>2, <2>1 DEF Typed, WavesInOrder, WaveTwoEnds
    <2>2. CASE task["inventory"] = "recorded" /\ task' = [task EXCEPT !["strategy"] = "thinking"]
      <3>1. /\ \A a \in Agent : task'[a] = IF a = "strategy" THEN "thinking" ELSE task[a]
            /\ stage' \notin {"idle", "loaded"}
        BY <2>2 DEF Typed, TypeOK, WaveTwoEnds, Agent
      <3>2. task["compliance"] = "waiting"
        BY DEF Typed, WavesInOrder, WaveTwoEnds
      <3>3. QED
        BY <1>2, <2>2, <3>1, <3>2 DEF Typed, WavesInOrder, Agent
    <2>3. QED
      BY <2>1, <2>2 DEF WaveTwoEnds, Become
  <1>5. QED
    BY <1>3, <1>4 DEF Typed

LEMMA FailedFinite ==
  ASSUME NEW f \in SUBSET Agent
  PROVE  IsFiniteSet(f)
  <1>1. IsFiniteSet({"market"}) /\ IsFiniteSet({"inventory"}) /\ IsFiniteSet({"demand"})
        /\ IsFiniteSet({"strategy"}) /\ IsFiniteSet({"compliance"})
    BY FS_Singleton
  <1>2. IsFiniteSet({"market"} \cup {"inventory"} \cup {"demand"} \cup {"strategy"} \cup {"compliance"})
    BY <1>1, FS_Union
  <1>3. Agent = {"market"} \cup {"inventory"} \cup {"demand"} \cup {"strategy"} \cup {"compliance"}
    BY DEF Agent
  <1>4. QED
    BY <1>2, <1>3, FS_Subset

LEMMA PenaltyInt ==
  ASSUME NEW o, NEW f \in SUBSET Agent, NEW x \in Int, NEW current \in Nat
  PROVE  TotalPenalty(o, f, x, current) \in Int
  <1>1. Cardinality(f) \in Nat
    BY FailedFinite, FS_CardinalityType
  <1>2. QED
    BY <1>1 DEF TotalPenalty, Smaller, Distance

(* The score is clamped to 0..100, so its type needs only that the         *)
(* arithmetic stays among the integers: no output it reads is missing.     *)
LEMMA ScoreTyped ==
  ASSUME NEW o, o.inventory \in InventoryOutput, o.strategy \in StrategyOutput,
         o.market \in MarketOutput \cup {None}, o.demand \in DemandOutput \cup {None},
         NEW f \in SUBSET Agent, NEW x \in Int, NEW current \in Nat
  PROVE  Score(o, f, x, current) \in 0..100
  <1> DEFINE sum == WeightSum(o)
             raw == Accumulated(o) - TotalPenalty(o, f, x, current) * sum
  <1>1. sum \in Nat \ {0}
    BY DEF WeightSum
  <1>2. Accumulated(o) \in Int
    <2>1. o.inventory.confidence \in Int /\ o.strategy.confidence \in Int
      BY DEF InventoryOutput, StrategyOutput
    <2>2. o.market # None => o.market.confidence \in Int
      BY DEF MarketOutput
    <2>3. o.demand # None => o.demand.confidence \in Int
      BY DEF DemandOutput
    <2>4. QED
      BY <2>1, <2>2, <2>3 DEF Accumulated
  <1>4. TotalPenalty(o, f, x, current) \in Int
    BY PenaltyInt
  <1>5. raw \in Int
    BY <1>1, <1>2, <1>4
  <1>6. Rounded(raw, sum) \in Int
    BY <1>1, <1>5, RoundedInt
  <1> HIDE DEF sum, raw
  <1>7. Larger(0, Smaller(100, Rounded(raw, sum))) \in 0..100
    BY <1>6 DEF Larger, Smaller
  <1>8. QED
    BY <1>7 DEF Score, sum, raw

LEMMA StrategyTyped ==
  ASSUME Typed, StrategyEnds
  PROVE  Typed'
  <1> DEFINE x == Clamp(out.strategy.price, limits)
             believed == IF x = out.strategy.price THEN out.strategy.confidence
                         ELSE Smaller(out.strategy.confidence, 60)
             given == [confidence |-> believed, price |-> x]
  <1>1. out.strategy \in StrategyOutput /\ out.inventory \in InventoryOutput
    BY DEF Typed, TypeOK, WavesInOrder, StrategyEnds, Agent
  <1>2. x \in Int
    BY <1>1, ClampInt DEF Typed, TypeOK, StrategyOutput
  <1>3. believed \in 0..100
    BY <1>1 DEF StrategyOutput, Smaller
  <1>4. out' = [out EXCEPT !.strategy = given]
    BY DEF StrategyEnds
  <1> HIDE DEF x, believed
  <1>5. given \in StrategyOutput /\ given # None
    BY <1>2, <1>3, NoneAssumption DEF StrategyOutput
  <1>6. /\ out' \in [market : MarketOutput \cup {None}, inventory : InventoryOutput \cup {None},
              demand : DemandOutput \cup {None}, strategy : StrategyOutput \cup {None},
              compliance : ComplianceOutput \cup {None}]
        /\ out'.strategy = given /\ out'.inventory = out.inventory
        /\ \A a \in Agent : out[a] # None => out'[a] # None
    <2> HIDE DEF given
    <2>1. QED
      BY <1>4, <1>5 DEF Typed, TypeOK, Agent
  <1>7. score' \in 0..100
    <2>1. limits.current \in Nat /\ out'.strategy.price \in Int /\ failed \in SUBSET Agent
      BY <1>2, <1>6 DEF Typed, TypeOK, Limits
    <2>2. Score(out', failed, out'.strategy.price, limits.current) \in 0..100
      BY <1>1, <1>5, <1>6, <2>1, ScoreTyped
    <2>3. QED
      BY <2>2 DEF StrategyEnds
  <1>8. TypeOK'
    BY <1>6, <1>7 DEF Typed, TypeOK, StrategyEnds, Become, Task, Awaited, Stage, Agent, admin, history
  <1>9. WavesInOrder'
    BY <1>6 DEF Typed, TypeOK, WavesInOrder, StrategyEnds, Become, Agent
  <1>10. QED
    BY <1>8, <1>9 DEF Typed

LEMMA FinalizeTyped ==
  ASSUME Typed, FinalizeBlocked \/ Finalize
  PROVE  Typed'
  <1>1. out.strategy \in StrategyOutput
    BY DEF Typed, TypeOK, WavesInOrder, FinalizeBlocked, Finalize, ComplianceEnds, Settled, Agent
  <1>2. out.compliance \in ComplianceOutput \cup {None}
    BY DEF Typed, TypeOK
  <1>3. row' \in [status : {"none", "PENDING", "AUTO_EXECUTED", "FAILED"}, price : Int, score : 0..100]
    BY <1>1, <1>2 DEF Typed, TypeOK, FinalizeBlocked, Finalize, StrategyOutput, ComplianceOutput
  <1>4. QED
    BY <1>3 DEF Typed, TypeOK, WavesInOrder, FinalizeBlocked, Finalize, Stage, Over, admin, history

LEMMA EndTyped ==
  ASSUME Typed, \/ StrategyLost \/ MarkFailed \/ Gate \/ PushThrows \/ Demote \/ RunBreaks
  PROVE  Typed'
  <1>1. stage' \in Stage /\ stage' \notin {"idle", "loaded", "waveOne", "waveTwo", "waveThree"}
    BY DEF StrategyLost, MarkFailed, Gate, PushThrows, Demote, RunBreaks, Stage, Over
  <1>2. row' \in [status : {"none", "PENDING", "AUTO_EXECUTED", "FAILED"}, price : Int, score : 0..100]
    BY DEF Typed, TypeOK, StrategyLost, MarkFailed, Gate, PushThrows, Demote, RunBreaks
  <1>3. UNCHANGED <<admin, shown, limits, threshold, task, out, failed, score, history>>
    BY DEF StrategyLost, MarkFailed, Gate, PushThrows, Demote, RunBreaks
  <1>4. QED
    BY <1>1, <1>2, <1>3 DEF Typed, TypeOK, WavesInOrder, admin, history

(* What the gate established still holds when the push happens: the price  *)
(* is an amount of money, and unless the product was edited meanwhile its  *)
(* own limits allow it.                                                    *)
GateHolds ==
  stage = "pushing" =>
    /\ row.price \in Nat
    /\ ~productEdited => ~Blocked(row.price, OwnLimits(product, settings))

LEMMA PushTyped ==
  ASSUME Typed, GateHolds, PushSucceeds
  PROVE  Typed'
  <1>1. product' \in Product /\ shown' \in Int
    BY WholeAssumption DEF Typed, TypeOK, GateHolds, PushSucceeds, Product
  <1>2. QED
    BY <1>1 DEF Typed, TypeOK, WavesInOrder, PushSucceeds, Stage, Over, history

LEMMA StatementFailsTyped ==
  ASSUME Typed, StatementFails
  PROVE  Typed'
  <1>1. failures' \in 0..MaxFailures
    BY BoundAssumption DEF Typed, TypeOK, StatementFails
  <1>2. stage' \in {"thrown", "demoting"} /\ shown' \in Int
    BY DEF Typed, TypeOK, StatementFails
  <1>3. UNCHANGED <<admin, limits, threshold, task, out, failed, score, row, edits, productEdited>>
    BY DEF StatementFails
  <1>4. QED
    BY <1>1, <1>2, <1>3 DEF Typed, TypeOK, WavesInOrder, Stage, Over, admin

Admins ==
  \/ \E p \in Products : UpdateProduct(p)
  \/ \E s \in Settings : UpdateSettings(s)
  \/ \E r \in Rules : UpsertRule(r)
  \/ DeleteRule

LEMMA AdminsTyped ==
  ASSUME Typed, Admins
  PROVE  Typed'
  <1>1. edits' \in 0..MaxEdits
    BY BoundAssumption DEF Typed, TypeOK, Admins, UpdateProduct, UpdateSettings, UpsertRule, DeleteRule, Edit
  <1>2. product' \in Product /\ settings' \in Setting /\ rule' \in Rule \cup {None} /\ productEdited' \in BOOLEAN
    BY EditAssumption
    DEF Typed, TypeOK, Admins, UpdateProduct, UpdateSettings, UpsertRule, DeleteRule
  <1>3. UNCHANGED <<shown, stage, limits, threshold, task, out, failed, score, row, failures>>
    BY DEF Admins, UpdateProduct, UpdateSettings, UpsertRule, DeleteRule, Edit
  <1>4. QED
    BY <1>1, <1>2, <1>3 DEF Typed, TypeOK, WavesInOrder

LEMMA GateTyped ==
  ASSUME Typed, Gate
  PROVE  GateHolds'
  <1> DEFINE own == OwnLimits(product, settings)
  <1>1. own \in Limits
    BY WholeAssumption DEF Typed, TypeOK, OwnLimits, Limits, Product, Setting
  <1>2. row.price \in Int /\ rule \in Rule \cup {None}
    BY DEF Typed, TypeOK
  <1>3. CASE ~Blocked(row.price, EffectiveLimits(rule, own))
    <2>1. ~Blocked(row.price, own)
      BY <1>1, <1>2, <1>3, OwnLimitsAllow
    <2>2. row.price \in Nat
      BY <1>2, <2>1 DEF Blocked, MinimumPrice
    <2>3. UNCHANGED <<row, product, settings, productEdited>>
      BY DEF Gate, admin, history
    <2>4. QED
      BY <2>1, <2>2, <2>3 DEF GateHolds, OwnLimits
  <1>4. CASE Blocked(row.price, EffectiveLimits(rule, own))
    BY <1>4 DEF Gate, GateHolds
  <1>5. QED
    BY <1>3, <1>4

LEMMA GateInductive ==
  ASSUME Typed, GateHolds, [Next]_vars
  PROVE  GateHolds'
  <1>1. CASE Gate
    BY <1>1, GateTyped
  <1>2. CASE UNCHANGED <<stage, row, product, settings, productEdited>>
    BY <1>2 DEF GateHolds, OwnLimits
  <1>3. CASE stage' # "pushing"
    BY <1>3 DEF GateHolds
  <1>4. CASE Admins
    <2>1. UNCHANGED <<stage, row>>
      BY <1>4 DEF Admins, UpdateProduct, UpdateSettings, UpsertRule, DeleteRule, Edit
    <2>2. productEdited' \/ (product' = product /\ productEdited' = productEdited)
      BY <1>4 DEF Admins, UpdateProduct, UpdateSettings, UpsertRule, DeleteRule
    <2>3. QED
      BY <2>1, <2>2 DEF GateHolds, OwnLimits, Blocked, BelowCost, BelowMargin
  <1>5. ASSUME NEW a \in Agent, AgentStep(a) \/ RecordFails(a)
        PROVE  UNCHANGED <<stage, row, product, settings, productEdited>>
    BY <1>5 DEF AgentStep, Answer, Err, RecordOutput, RecordError, RecordFails, admin, history
  <1>6. ASSUME RunStep \/ StatementFails, ~Gate
        PROVE  stage' # "pushing"
    BY <1>6 DEF RunStep, Load, Start, WaveOneJoins, WaveTwoEnds, StrategyLost, StrategyEnds, MarkFailed,
       FinalizeBlocked, Finalize, PushSucceeds, PushThrows, Demote, RunBreaks, StatementFails
  <1>7. CASE UNCHANGED vars
    BY <1>2, <1>7 DEF vars, admin, history
  <1>8. QED
    BY <1>1, <1>2, <1>3, <1>4, <1>5, <1>6, <1>7 DEF Next, Admins

LEMMA NextTyped ==
  Typed /\ GateHolds /\ [Next]_vars => Typed' /\ GateHolds'
  <1> SUFFICES ASSUME Typed, GateHolds, [Next]_vars
               PROVE  Typed'
    BY GateInductive
  <1>1. CASE RunStep
    BY <1>1, StartTyped, WaveOneTyped, WaveTwoTyped, StrategyTyped, FinalizeTyped, EndTyped, PushTyped
    DEF RunStep
  <1>2. CASE UNCHANGED vars
    BY <1>2 DEF vars, admin, history, Typed, TypeOK, WavesInOrder
  <1>3. QED
    BY <1>1, <1>2, AgentTyped, StatementFailsTyped, AdminsTyped DEF Next, Admins

(* Every variable keeps its type, and no agent's output is used before it  *)
(* is there.                                                               *)
THEOREM PipelineTypeCorrect == Spec => []TypeOK
  <1>1. Init => Typed /\ GateHolds
    BY InitTyped DEF Init, GateHolds
  <1>2. Typed /\ GateHolds => TypeOK
    BY DEF Typed
  <1>3. QED
    BY <1>1, <1>2, NextTyped, PTL DEF Spec

(* The storefront never goes below the product's own margin floor, its     *)
(* cost or the platform minimum, whatever the agents answer and however    *)
(* settings and category rules are edited under the run.                   *)
THEOREM OwnFloorAlwaysHolds == Spec => OwnFloorHolds
  <1>1. Init => Typed /\ GateHolds
    BY InitTyped DEF Init, GateHolds
  <1>2. Typed /\ GateHolds /\ [Next]_vars =>
          [shown' # shown /\ ~productEdited => ~Blocked(shown', OwnLimits(product, settings))]_vars
    <2> SUFFICES ASSUME GateHolds, [Next]_vars, shown' # shown, ~productEdited
                 PROVE  ~Blocked(shown', OwnLimits(product, settings))
      OBVIOUS
    <2>1. stage = "pushing" /\ shown' = row.price
      <3>1. ASSUME RunStep PROVE PushSucceeds
        BY <3>1 DEF RunStep, Load, Start, WaveOneJoins, WaveTwoEnds, StrategyLost, StrategyEnds, MarkFailed,
           FinalizeBlocked, Finalize, Gate, PushThrows, Demote, RunBreaks
      <3>2. ASSUME NEW a \in Agent PROVE ~AgentStep(a) /\ ~RecordFails(a)
        BY DEF AgentStep, Answer, Err, RecordOutput, RecordError, RecordFails
      <3>3. ~Admins /\ ~UNCHANGED vars
        BY DEF Admins, UpdateProduct, UpdateSettings, UpsertRule, DeleteRule, Edit, vars
      <3>4. PushSucceeds \/ StatementFails
        BY <3>1, <3>2, <3>3 DEF Next, Admins
      <3>5. QED
        BY <3>4 DEF PushSucceeds, StatementFails
    <2>2. QED
      BY <2>1 DEF GateHolds
  <1>3. QED
    BY <1>1, <1>2, NextTyped, PTL DEF Spec, OwnFloorHolds

-----------------------------------------------------------------------------
(* How the agents' tasks and the run's stage go together.  An agent the    *)
(* run has passed is at rest, and that is kept even after a failed row has *)
(* made the run throw.                                                     *)
AtRest(a) == task[a] \notin Awaited \cup {"broken"}

Progress ==
  /\ stage = "waveOne" => task["demand"] = "waiting"
  /\ stage \in {"waveOne", "waveTwo"} => task["strategy"] = "waiting"
  /\ stage \in {"waveTwo", "waveThree", "waveFour"} => AtRest("market") /\ AtRest("inventory")
  /\ stage \in {"waveThree", "waveFour"} => AtRest("demand")
  /\ stage = "waveFour" => task["compliance"] # "waiting"
  /\ stage \in {"failing", "gate", "pushing", "demoting", "over"} => \A a \in Agent : AtRest(a)
  /\ stage = "failing" => task["compliance"] = "waiting"
  /\ task["compliance"] # "waiting" =>
       AtRest("market") /\ AtRest("inventory") /\ AtRest("demand") /\ AtRest("strategy")
  /\ task["compliance"] \in Awaited => stage = "waveFour"

LEMMA AgentProgress ==
  ASSUME Typed, Progress, NEW a \in Agent, AgentStep(a) \/ RecordFails(a)
  PROVE  Progress'
  <1>1. stage' = stage /\ task[a] \in Awaited
    BY DEF AgentStep, Answer, Err, RecordOutput, RecordError, RecordFails, Awaited
  <1>2. PICK s \in Task : task' = [task EXCEPT ![a] = s] /\ s # "waiting" /\ s # "thinking"
    BY DEF AgentStep, Answer, Err, RecordOutput, RecordError, RecordFails, Become, Task, Awaited, Settled
  <1>3. \A b \in Agent : task'[b] = IF b = a THEN s ELSE task[b]
    BY <1>2 DEF Typed, TypeOK
  <1>4. QED
    BY <1>1, <1>2, <1>3 DEF Typed, WavesInOrder, Progress, AtRest, Awaited, Agent

LEMMA RunProgress ==
  ASSUME Typed, Progress, RunStep \/ StatementFails
  PROVE  Progress'
  <1> USE DEF Progress, AtRest, Awaited, Settled, Agent
  <1>1. CASE Load
    BY <1>1 DEF Load, Typed, WavesInOrder
  <1>2. CASE Start
    BY <1>2 DEF Start, Typed, TypeOK, WavesInOrder
  <1>3. CASE WaveOneJoins
    BY <1>3 DEF WaveOneJoins, Become, Typed, TypeOK, WavesInOrder
  <1>4. CASE WaveTwoEnds
    <2>1. CASE stage' = "failing" /\ task' = task
      BY <1>4, <2>1 DEF WaveTwoEnds, Typed, WavesInOrder
    <2>2. CASE stage' = "waveThree" /\ task' = [task EXCEPT !["strategy"] = "thinking"]
      BY <1>4, <2>2 DEF WaveTwoEnds, Typed, TypeOK, WavesInOrder
    <2>3. QED
      BY <1>4, <2>1, <2>2 DEF WaveTwoEnds, Become
  <1>5. CASE StrategyLost
    BY <1>5 DEF StrategyLost, Typed, WavesInOrder
  <1>6. CASE StrategyEnds
    BY <1>6 DEF StrategyEnds, Become, Typed, TypeOK, WavesInOrder
  <1>7. CASE MarkFailed
    BY <1>7 DEF MarkFailed
  <1>8. CASE FinalizeBlocked \/ Finalize
    BY <1>8 DEF FinalizeBlocked, Finalize, ComplianceEnds
  <1>9. CASE Gate \/ PushSucceeds \/ PushThrows \/ Demote
    BY <1>9 DEF Gate, PushSucceeds, PushThrows, Demote
  <1>10. CASE RunBreaks
    BY <1>10 DEF RunBreaks
  <1>11. CASE StatementFails
    BY <1>11 DEF StatementFails, ComplianceEnds, Typed, WavesInOrder
  <1>12. QED
    BY <1>1, <1>2, <1>3, <1>4, <1>5, <1>6, <1>7, <1>8, <1>9, <1>10, <1>11 DEF RunStep

LEMMA NextProgress ==
  Typed /\ Progress /\ [Next]_vars => Progress'
  <1> SUFFICES ASSUME Typed, Progress, [Next]_vars
               PROVE  Progress'
    OBVIOUS
  <1>1. ASSUME Admins \/ UNCHANGED vars
        PROVE  UNCHANGED <<stage, task>>
    BY <1>1 DEF Admins, UpdateProduct, UpdateSettings, UpsertRule, DeleteRule, Edit, vars
  <1>2. CASE UNCHANGED <<stage, task>>
    BY <1>2 DEF Progress, AtRest
  <1>3. QED
    BY <1>1, <1>2, AgentProgress, RunProgress DEF Next, Admins

(* Every agent a run started has settled when the run is over: no answer   *)
(* arrives behind it.                                                      *)
THEOREM NoAgentLeftBehind == Spec => []SettledWhenOver
  <1>1. Init => Typed /\ GateHolds /\ Progress
    <2>1. Init => Progress
      BY DEF Init, Progress, AtRest, Awaited, Agent
    <2>2. QED
      BY <2>1, InitTyped DEF Init, GateHolds
  <1>2. Progress => SettledWhenOver
    BY DEF Progress, AtRest, SettledWhenOver
  <1>3. QED
    BY <1>1, <1>2, NextTyped, NextProgress, PTL DEF Spec

-----------------------------------------------------------------------------
(* What the row of the recommendation says at each stage. *)
RowFollows ==
  /\ stage \in {"idle", "loaded"} => row.status = "none"
  /\ stage \in {"waveOne", "waveTwo", "waveThree", "waveFour", "failing"} => row.status = "PENDING"
  /\ stage \in {"gate", "pushing", "demoting"} => row.status = "AUTO_EXECUTED"
  /\ stage = "waveTwo" => task["inventory"] \in Settled
  /\ stage = "waveThree" => task["inventory"] = "recorded"
  /\ stage = "failing" => \E a \in {"inventory", "strategy"} : task[a] = "lost"
  /\ row.status = "FAILED" => stage = "over" /\ \E a \in {"inventory", "strategy"} : task[a] = "lost"
  /\ stage = "over" /\ row.status # "FAILED" => task["compliance"] # "waiting"
  /\ stage \in {"gate", "pushing", "demoting"} => task["compliance"] # "waiting"
  /\ task["compliance"] # "waiting" => row.status # "none"
  /\ row.status = "AUTO_EXECUTED" =>
       /\ stage \in {"gate", "pushing", "demoting"} \cup Over
       /\ task["compliance"] # "waiting" /\ score >= threshold
       /\ ~MustReview(out, limits)

LEMMA AgentRowFollows ==
  ASSUME Typed, Progress, RowFollows, NEW a \in Agent, AgentStep(a) \/ RecordFails(a)
  PROVE  RowFollows'
  <1>1. UNCHANGED <<stage, row, limits, threshold, score>> /\ task[a] \in Awaited
    BY DEF AgentStep, Answer, Err, RecordOutput, RecordError, RecordFails, Awaited
  <1>2. PICK s \in Task : task' = [task EXCEPT ![a] = s] /\ s # "waiting"
    BY DEF AgentStep, Answer, Err, RecordOutput, RecordError, RecordFails, Become, Task, Awaited, Settled
  <1>3. \A b \in Agent : task'[b] = IF b = a THEN s ELSE task[b]
    BY <1>2 DEF Typed, TypeOK
  <1>4. row.status = "AUTO_EXECUTED" => FALSE
    BY <1>1 DEF Progress, RowFollows, Over, AtRest, Awaited, Agent
  <1>5. \A b \in Agent : /\ task[b] \in Settled => task'[b] = task[b]
                         /\ task[b] # "waiting" <=> task'[b] # "waiting"
    BY <1>1, <1>2, <1>3 DEF Awaited, Settled
  <1>6. {"inventory", "strategy", "compliance"} \subseteq Agent
    BY DEF Agent
  <1>7. QED
    BY <1>1, <1>4, <1>5, <1>6 DEF RowFollows, Settled

LEMMA RunRowFollows ==
  ASSUME Typed, Progress, RowFollows, RunStep \/ StatementFails
  PROVE  RowFollows'
  <1> USE DEF RowFollows, Over
  <1>1. CASE Load
    BY <1>1 DEF Load
  <1>2. CASE Start
    BY <1>2 DEF Start
  <1>3. CASE WaveOneJoins
    BY <1>3 DEF WaveOneJoins, Become, Typed, TypeOK, Agent, Settled
  <1>4. CASE WaveTwoEnds
    <2>1. CASE stage' = "failing" /\ task' = task /\ task["inventory"] = "lost"
      BY <1>4, <2>1 DEF WaveTwoEnds
    <2>2. CASE stage' = "waveThree" /\ task' = [task EXCEPT !["strategy"] = "thinking"]
               /\ task["inventory"] = "recorded"
      BY <1>4, <2>2 DEF WaveTwoEnds, Typed, TypeOK, Agent
    <2>3. task["inventory"] \in {"recorded", "lost"}
      BY <1>4 DEF WaveTwoEnds, Settled
    <2>4. QED
      BY <1>4, <2>1, <2>2, <2>3 DEF WaveTwoEnds, Become
  <1>5. CASE StrategyLost
    BY <1>5 DEF StrategyLost
  <1>6. CASE StrategyEnds
    BY <1>6 DEF StrategyEnds
  <1>7. CASE MarkFailed
    BY <1>7 DEF MarkFailed, Typed, TypeOK
  <1>8. CASE FinalizeBlocked \/ Finalize
    <2>1. task["compliance"] # "waiting"
      BY <1>8 DEF FinalizeBlocked, Finalize, ComplianceEnds, Settled
    <2>2. CASE FinalizeBlocked
      BY <2>1, <2>2 DEF FinalizeBlocked
    <2>3. CASE Finalize
      BY <2>1, <2>3 DEF Finalize
    <2>4. QED
      BY <1>8, <2>2, <2>3
  <1>9. CASE Gate \/ PushThrows
    BY <1>9 DEF Gate, PushThrows
  <1>10. CASE PushSucceeds
    BY <1>10 DEF PushSucceeds
  <1>11. CASE Demote
    BY <1>11 DEF Demote, Typed, TypeOK
  <1>12. CASE RunBreaks
    BY <1>12 DEF RunBreaks
  <1>13. CASE StatementFails
    BY <1>13 DEF StatementFails, ComplianceEnds, Settled
  <1>14. QED
    BY <1>1, <1>2, <1>3, <1>4, <1>5, <1>6, <1>7, <1>8, <1>9, <1>10, <1>11, <1>12, <1>13 DEF RunStep

LEMMA NextRowFollows ==
  Typed /\ Progress /\ RowFollows /\ [Next]_vars => RowFollows'
  <1> SUFFICES ASSUME Typed, Progress, RowFollows, [Next]_vars
               PROVE  RowFollows'
    OBVIOUS
  <1>1. ASSUME Admins \/ UNCHANGED vars
        PROVE  UNCHANGED <<stage, row, task, out, limits, threshold, score>>
    BY <1>1 DEF Admins, UpdateProduct, UpdateSettings, UpsertRule, DeleteRule, Edit, vars
  <1>2. CASE UNCHANGED <<stage, row, task, out, limits, threshold, score>>
    BY <1>2 DEF RowFollows
  <1>3. QED
    BY <1>1, <1>2, AgentRowFollows, RunRowFollows DEF Next, Admins

IInv == Typed /\ GateHolds /\ Progress /\ RowFollows

LEMMA Inductive == Spec => []IInv
  <1>1. Init => IInv
    <2>1. Init => Progress
      BY DEF Init, Progress, AtRest, Awaited, Agent
    <2>2. Init => RowFollows
      BY DEF Init, RowFollows, Agent
    <2>3. QED
      BY <2>1, <2>2, InitTyped DEF IInv, Init, GateHolds
  <1>2. IInv /\ [Next]_vars => IInv'
    BY NextTyped, NextProgress, NextRowFollows DEF IInv
  <1>3. QED
    BY <1>1, <1>2, PTL DEF Spec

(* A run fails exactly when it lost its cost constraints or its price. *)
THEOREM OnlyCriticalLossFails == Spec => []CriticalLossFails
  <1>1. IInv => CriticalLossFails
    <2> SUFFICES ASSUME IInv, stage = "over", row.status # "FAILED"
                 PROVE  \A a \in {"inventory", "strategy"} : task[a] # "lost"
      BY DEF IInv, RowFollows, CriticalLossFails
    <2>1. task["compliance"] # "waiting"
      BY DEF IInv, RowFollows
    <2>2. QED
      BY <2>1 DEF IInv, Typed, WavesInOrder
  <1>2. QED
    BY <1>1, Inductive, PTL

(* What the rule engine or the compliance agent blocked stays in the queue. *)
THEOREM BlockedStaysInQueue == Spec => []BlockedIsReviewed
  <1>1. IInv => BlockedIsReviewed
    <2> SUFFICES ASSUME IInv, task["compliance"] \in Settled, MustReview(out, limits)
                 PROVE  row.status = "PENDING" /\ stage \in {"waveFour"} \cup Over
      BY DEF BlockedIsReviewed, MustReview
    <2>1. row.status # "AUTO_EXECUTED"
      BY DEF IInv, RowFollows
    <2>2. row.status # "FAILED"
      BY DEF IInv, RowFollows, Typed, WavesInOrder, Settled
    <2>3. QED
      BY <2>1, <2>2
      DEF IInv, RowFollows, Typed, TypeOK, WavesInOrder, Progress, Stage, Over, Settled, Agent
  <1>2. QED
    BY <1>1, Inductive, PTL

-----------------------------------------------------------------------------
(* The arithmetic of the score. *)

(* A quotient of at most k rounds to at most k. *)
LEMMA RoundedAtMost ==
  ASSUME NEW n \in Int, NEW d \in Nat \ {0}, NEW k \in Int, n <= k * d
  PROVE  Rounded(n, d) <= k
  <1> DEFINE q == Rounded(n, d)
  <1>1. q \in Int /\ 2 * d * q <= 2 * n + d
    <2>1. 2 * n + d \in Int /\ 2 * d \in Nat \ {0}
      OBVIOUS
    <2>2. ASSUME NEW a \in Int, NEW b \in Nat \ {0}
          PROVE  a \div b \in Int /\ b * (a \div b) <= a
      BY <2>2
    <2>3. QED
      BY <2>1, <2>2 DEF Rounded
  <1> HIDE DEF q
  <1>2. SUFFICES ASSUME q >= k + 1 PROVE FALSE
    BY <1>1 DEF q
  <1>3. d * q >= d * (k + 1)
    <2>1. d * (q - (k + 1)) >= 0
      BY <1>1, <1>2
    <2>2. QED
      BY <1>1, <2>1
  <1>4. d * (k + 1) = k * d + d
    OBVIOUS
  <1>5. QED
    BY <1>1, <1>3, <1>4

LEMMA FixedPart ==
  ASSUME NEW o, o.inventory \in InventoryOutput, o.strategy \in StrategyOutput
  PROVE  /\ 25 * o.inventory.confidence + 20 * o.strategy.confidence \in Int
         /\ 25 * o.inventory.confidence + 20 * o.strategy.confidence <= 4500
  <1>1. PICK i \in 0..100 : o.inventory.confidence = i
    BY DEF InventoryOutput
  <1>2. PICK j \in 0..100 : o.strategy.confidence = j
    BY DEF StrategyOutput
  <1>3. 25 * i + 20 * j \in Int /\ 25 * i + 20 * j <= 4500
    OBVIOUS
  <1>4. QED
    BY <1>1, <1>2, <1>3

(* No score is above what the deductions leave of 100. *)
LEMMA ScoreAtMost ==
  ASSUME NEW o, o.inventory \in InventoryOutput, o.strategy \in StrategyOutput,
         o.market \in MarketOutput \cup {None}, o.demand \in DemandOutput \cup {None},
         NEW f \in SUBSET Agent, NEW x \in Int, NEW current \in Nat,
         NEW p \in 0..45, TotalPenalty(o, f, x, current) >= p
  PROVE  Score(o, f, x, current) <= 100 - p
  <1> DEFINE sum == WeightSum(o)
             acc == Accumulated(o)
             pen == TotalPenalty(o, f, x, current)
  <1>1. sum \in Nat \ {0}
    BY DEF WeightSum
  <1>2. acc \in Int /\ acc <= 100 * sum
    <2> DEFINE m  == IF o.market = None THEN 0 ELSE 30 * o.market.confidence
               mw == IF o.market = None THEN 0 ELSE 30
               e  == IF o.demand = None THEN 0 ELSE 25 * o.demand.confidence
               ew == IF o.demand = None THEN 0 ELSE 25
               fixed == 25 * o.inventory.confidence + 20 * o.strategy.confidence
    <2>1. m \in Int /\ mw \in Int /\ m <= 100 * mw
      <3>1. o.market # None => o.market.confidence \in 0..100
        BY DEF MarketOutput
      <3>2. QED
        BY <3>1
    <2>2. e \in Int /\ ew \in Int /\ e <= 100 * ew
      <3>1. o.demand # None => o.demand.confidence \in 0..100
        BY DEF DemandOutput
      <3>2. QED
        BY <3>1
    <2>3. fixed \in Int /\ fixed <= 4500
      BY FixedPart
    <2>4. acc = fixed + m + e /\ sum = 45 + mw + ew
      BY DEF Accumulated, WeightSum
    <2> HIDE DEF m, mw, e, ew, fixed, acc, sum
    <2>5. QED
      BY <2>1, <2>2, <2>3, <2>4
  <1>3. pen \in Int
    BY PenaltyInt
  <1> HIDE DEF sum, acc, pen
  <1>4. (pen - p) * sum >= 0
    BY <1>1, <1>3 DEF pen
  <1>5. acc - pen * sum \in Int /\ acc - pen * sum <= (100 - p) * sum
    BY <1>1, <1>2, <1>3, <1>4
  <1>6. Rounded(acc - pen * sum, sum) \in Int /\ Rounded(acc - pen * sum, sum) <= 100 - p
    <2>1. 100 - p \in Int
      OBVIOUS
    <2>2. QED
      BY <1>1, <1>5, <2>1, RoundedInt, RoundedAtMost
  <1>7. Larger(0, Smaller(100, Rounded(acc - pen * sum, sum))) <= 100 - p
    BY <1>6 DEF Larger, Smaller
  <1>8. QED
    BY <1>7 DEF Score, sum, acc, pen

(* A market read below 50 leaves at most 75, the forecast being capped.    *)
LEMMA ScoreOnUnsureMarket ==
  ASSUME NEW o, o.inventory \in InventoryOutput, o.strategy \in StrategyOutput,
         o.market \in MarketOutput, o.market # None, o.market.confidence < 50,
         o.demand \in DemandOutput \cup {None}, o.demand # None => o.demand.confidence <= 60,
         NEW f \in SUBSET Agent, NEW x \in Int, NEW current \in Nat,
         o.demand = None => TotalPenalty(o, f, x, current) >= 20,
         TotalPenalty(o, f, x, current) >= 0
  PROVE  Score(o, f, x, current) <= 75
  <1> DEFINE sum == WeightSum(o)
             acc == Accumulated(o)
             pen == TotalPenalty(o, f, x, current)
             fixed == 25 * o.inventory.confidence + 20 * o.strategy.confidence
  <1>1. fixed \in Int /\ fixed <= 4500
    BY FixedPart
  <1>2. 30 * o.market.confidence \in Int /\ 30 * o.market.confidence <= 1470
    BY DEF MarketOutput
  <1>3. pen \in Int
    BY PenaltyInt
  <1>4. sum \in Nat \ {0} /\ acc - pen * sum \in Int /\ acc - pen * sum <= 75 * sum
    <2>1. CASE o.demand = None
      <3>1. sum = 75 /\ acc = fixed + 30 * o.market.confidence
        BY <1>1, <1>2, <2>1 DEF WeightSum, Accumulated
      <3> HIDE DEF sum, acc, pen, fixed
      <3>2. pen >= 20
        BY <2>1 DEF pen
      <3>3. QED
        BY <1>1, <1>2, <1>3, <3>1, <3>2
    <2>2. CASE o.demand # None
      <3>1. sum = 100 /\ acc = fixed + 30 * o.market.confidence + 25 * o.demand.confidence
        BY <2>2 DEF WeightSum, Accumulated
      <3>2. 25 * o.demand.confidence \in Int /\ 25 * o.demand.confidence <= 1500
        BY <2>2 DEF DemandOutput
      <3> HIDE DEF sum, acc, pen, fixed
      <3>3. pen >= 0
        BY DEF pen
      <3>4. QED
        BY <1>1, <1>2, <1>3, <3>1, <3>2, <3>3
    <2>3. QED
      BY <2>1, <2>2
  <1> HIDE DEF sum, acc, pen
  <1>5. Rounded(acc - pen * sum, sum) \in Int /\ Rounded(acc - pen * sum, sum) <= 75
    <2>1. ASSUME NEW n \in Int, NEW d \in Nat \ {0}, n <= 75 * d
          PROVE  Rounded(n, d) \in Int /\ Rounded(n, d) <= 75
      BY <2>1, RoundedInt, RoundedAtMost
    <2>2. QED
      BY <1>4, <2>1
  <1>6. Larger(0, Smaller(100, Rounded(acc - pen * sum, sum))) <= 75
    BY <1>5 DEF Larger, Smaller
  <1>7. QED
    BY <1>6 DEF Score, sum, acc, pen

(* Each of the first failures costs 20, the cap notwithstanding. *)
LEMMA PenaltyAtLeast ==
  ASSUME NEW o, NEW f \in SUBSET Agent, NEW x \in Int, NEW current \in Nat,
         NEW n \in 0..2, Cardinality(f) >= n
  PROVE  TotalPenalty(o, f, x, current) >= 20 * n
  <1>1. Cardinality(f) \in Nat
    BY FailedFinite, FS_CardinalityType
  <1>2. QED
    BY <1>1 DEF TotalPenalty, Smaller, Distance

LEMMA FailuresCounted ==
  ASSUME NEW f \in SUBSET Agent
  PROVE  /\ "demand" \in f => Cardinality(f) >= 1
         /\ "demand" \in f /\ "market" \in f => Cardinality(f) >= 2
  <1>1. IsFiniteSet(f)
    BY FailedFinite
  <1>2. ASSUME "demand" \in f PROVE Cardinality(f) >= 1
    <2>1. {"demand"} \subseteq f
      BY <1>2
    <2>2. Cardinality({"demand"}) = 1
      BY FS_Singleton
    <2>3. Cardinality({"demand"}) <= Cardinality(f)
      BY <1>1, <2>1, FS_Subset
    <2>4. QED
      BY <1>1, <2>2, <2>3, FS_CardinalityType
  <1>3. ASSUME "demand" \in f, "market" \in f PROVE Cardinality(f) >= 2
    <2>1. {"demand"} \cup {"market"} \subseteq f
      BY <1>3
    <2>2. Cardinality({"demand"} \cup {"market"}) = 2
      <3>1. IsFiniteSet({"demand"}) /\ Cardinality({"demand"}) = 1 /\ "market" \notin {"demand"}
        BY FS_Singleton
      <3>2. Cardinality({"demand"} \cup {"market"}) = Cardinality({"demand"}) + 1
        BY <3>1, FS_AddElement
      <3>3. QED
        BY <3>1, <3>2
    <2>3. Cardinality({"demand"} \cup {"market"}) <= Cardinality(f)
      BY <1>1, <2>1, FS_Subset
    <2>4. QED
      BY <1>1, <2>2, <2>3, FS_CardinalityType
  <1>4. QED
    BY <1>2, <1>3

(* The forecast inputs a run went without. *)
Missing == {a \in {"market", "demand"} : task[a] # "recorded"}

(* failedAgents and the outputs follow the tasks, the cap follows a weak   *)
(* market read, and so the score follows what the run went without.        *)
Failures ==
  /\ \A a \in Agent : task[a] = "lost" => a \in failed
  /\ task["demand"] = "skipped" => "demand" \in failed
  /\ \A a \in Agent : task[a] \in {"waiting", "thinking", "skipped", "lost"} => out[a] = None
  /\ stage \in {"waveTwo", "waveThree", "waveFour"} => task["market"] \in Settled /\ task["demand"] # "waiting"
  /\ task["market"] # "skipped"

Capped ==
  stage = "waveThree" /\ task["demand"] = "recorded" =>
    (out.market.confidence < 50 => out.demand.confidence <= 60)

ScoreBound ==
  task["compliance"] # "waiting" =>
    /\ score + 20 * Cardinality(Missing) <= 100
    /\ out.market # None /\ out.market.confidence < 50 => score <= 75

Scored == Failures /\ Capped /\ ScoreBound

LEMMA AgentFailures ==
  ASSUME Typed, Progress, Scored, NEW a \in Agent, AgentStep(a) \/ RecordFails(a)
  PROVE  Scored'
  <1>1. UNCHANGED <<stage, score>> /\ task[a] \in Awaited
    BY DEF AgentStep, Answer, Err, RecordOutput, RecordError, RecordFails, Awaited
  <1>2. PICK s \in {"answered", "recorded", "erred", "lost", "broken"} : task' = [task EXCEPT ![a] = s]
    BY DEF AgentStep, Answer, Err, RecordOutput, RecordError, RecordFails, Become
  <1>3. \A b \in Agent : task'[b] = IF b = a THEN s ELSE task[b]
    BY <1>2 DEF Typed, TypeOK
  <1>4. \A b \in Agent : b # a => out'[b] = out[b]
    <2>1. CASE out' = out
      BY <2>1
    <2>2. CASE RecordError(a)
      BY <2>2 DEF RecordError, Typed, TypeOK, Agent
    <2>3. CASE Answer(a)
      BY <2>3 DEF Answer, Typed, TypeOK, Agent
    <2>4. QED
      BY <2>1, <2>2, <2>3 DEF AgentStep, Err, RecordOutput, RecordFails
  <1>5. failed \subseteq failed' /\ (s = "lost" => a \in failed' /\ out'[a] = None)
    <2>1. CASE RecordError(a)
      BY <2>1 DEF RecordError, Typed, TypeOK, Agent
    <2>2. CASE ~RecordError(a)
      <3>1. s # "lost"
        BY <1>2, <2>2 DEF AgentStep, Answer, Err, RecordOutput, RecordFails, Become, Typed, TypeOK
      <3>2. QED
        BY <2>2, <3>1 DEF AgentStep, Answer, Err, RecordOutput, RecordFails
    <2>3. QED
      BY <2>1, <2>2
  <1>6. Failures'
    BY <1>1, <1>3, <1>4, <1>5 DEF Scored, Failures, Progress, AtRest, Awaited, Settled, Agent
  <1>7. stage \in {"waveThree"} \/ task["compliance"] # "waiting" \/ task'["compliance"] # "waiting"
          => a \notin {"market", "demand"}
    BY <1>1, <1>3 DEF Progress, AtRest, Typed, WavesInOrder, Awaited, Agent
  <1>8. task'["compliance"] # "waiting" => task["compliance"] # "waiting"
    BY <1>1, <1>3 DEF Awaited, Agent
  <1>9. a \notin {"market", "demand"} =>
          /\ out'.market = out.market /\ out'.demand = out.demand
          /\ task'["market"] = task["market"] /\ task'["demand"] = task["demand"]
    <2>1. out'["market"] = out'.market /\ out'["demand"] = out'.demand
          /\ out["market"] = out.market /\ out["demand"] = out.demand
      OBVIOUS
    <2>2. QED
      BY <1>3, <1>4, <2>1 DEF Agent
  <1>10. Capped' /\ ScoreBound'
    BY <1>1, <1>7, <1>8, <1>9 DEF Scored, Capped, ScoreBound, Missing
  <1>11. QED
    BY <1>6, <1>10 DEF Scored

(* The score a run gets reflects what it went without. *)
LEMMA StrategyScored ==
  ASSUME Typed, Progress, Scored, StrategyEnds
  PROVE  Scored'
  <1> DEFINE o == out'
             x == o.strategy.price
  <1>1. /\ o.market = out.market /\ o.demand = out.demand /\ o.inventory = out.inventory
        /\ \A a \in Agent : a # "strategy" => o[a] = out[a]
        /\ stage' = "waveFour" /\ failed' = failed
        /\ task["strategy"] = "recorded" /\ stage = "waveThree"
        /\ task' = [task EXCEPT !["compliance"] = "thinking"]
    BY DEF StrategyEnds, Become, Typed, TypeOK, Agent
  <1>2. Typed'
    BY StrategyTyped
  <1>3. /\ o.inventory \in InventoryOutput /\ o.strategy \in StrategyOutput
        /\ o.market \in MarketOutput \cup {None} /\ o.demand \in DemandOutput \cup {None}
    <2>1. task'["inventory"] = "recorded" /\ task'["strategy"] = "recorded"
      BY <1>1 DEF Typed, TypeOK, WavesInOrder, Agent
    <2>2. o["inventory"] # None /\ o["strategy"] # None
      BY <1>2, <2>1 DEF Typed, WavesInOrder, Agent
    <2>3. QED
      BY <1>2, <2>2 DEF Typed, TypeOK
  <1>4. failed \in SUBSET Agent /\ x \in Int /\ limits.current \in Nat
    BY <1>3 DEF Typed, TypeOK, Limits, StrategyOutput
  <1>5. score' = Score(o, failed, x, limits.current)
    BY DEF StrategyEnds
  <1>6. Failures'
    <2>1. \A a \in Agent : task'[a] = IF a = "compliance" THEN "thinking" ELSE task[a]
      BY <1>1 DEF Typed, TypeOK
    <2>2. task["compliance"] = "waiting"
      BY <1>1 DEF Typed, WavesInOrder
    <2>3. QED
      BY <1>1, <2>1, <2>2 DEF Scored, Failures, Agent
  <1>7. Capped'
    BY <1>1 DEF Capped
  <1>8. Missing' = Missing
    BY <1>1 DEF Missing, Typed, TypeOK, Agent
  <1>9. score' + 20 * Cardinality(Missing) <= 100
    <2>1. ASSUME NEW n \in 0..2, Cardinality(failed) >= n
          PROVE  score' <= 100 - 20 * n
      <3>1. 20 * n \in 0..45 /\ TotalPenalty(o, failed, x, limits.current) >= 20 * n
        BY <1>4, <2>1, PenaltyAtLeast
      <3>2. QED
        BY <1>3, <1>4, <1>5, <3>1, ScoreAtMost
    <2>2. score' \in 0..100
      BY <1>2 DEF Typed, TypeOK
    <2>3. CASE task["market"] = "recorded" /\ task["demand"] = "recorded"
      <3>1. Missing = {}
        BY <2>3 DEF Missing
      <3>2. QED
        BY <2>2, <3>1, FS_EmptySet
    <2>4. CASE task["market"] = "recorded" /\ task["demand"] # "recorded"
      <3>1. Missing = {"demand"}
        BY <2>4 DEF Missing
      <3>2. Cardinality(Missing) = 1
        BY <3>1, FS_Singleton
      <3>3. "demand" \in failed
        BY <1>1, <2>4 DEF Scored, Failures, Progress, AtRest, Typed, TypeOK, Task, Awaited, Settled, Agent
      <3>4. Cardinality(failed) >= 1
        BY <1>4, <3>3, FailuresCounted
      <3>5. 1 \in 0..2 /\ score' <= 100 - 20 * 1
        BY <2>1, <3>4
      <3>6. score' <= 80 /\ 20 * Cardinality(Missing) = 20
        BY <2>2, <3>2, <3>5
      <3>7. QED
        BY <2>2, <3>6
    <2>5. CASE task["market"] # "recorded"
      <3>1. task["market"] = "lost" /\ task["demand"] = "skipped"
        BY <1>1, <2>5
        DEF Scored, Failures, Progress, AtRest, Typed, TypeOK, WavesInOrder, Task, Awaited, Settled, Agent
      <3>2. Missing = {"demand"} \cup {"market"}
        BY <3>1 DEF Missing
      <3>3. Cardinality(Missing) = 2
        <4>1. IsFiniteSet({"demand"}) /\ Cardinality({"demand"}) = 1 /\ "market" \notin {"demand"}
          BY FS_Singleton
        <4>2. Cardinality({"demand"} \cup {"market"}) = Cardinality({"demand"}) + 1
          BY <4>1, FS_AddElement
        <4>3. QED
          BY <3>2, <4>1, <4>2
      <3>4. "demand" \in failed /\ "market" \in failed
        BY <3>1 DEF Scored, Failures, Agent
      <3>5. Cardinality(failed) >= 2
        BY <1>4, <3>4, FailuresCounted
      <3>6. 2 \in 0..2 /\ score' <= 100 - 20 * 2
        BY <2>1, <3>5
      <3>7. score' <= 60 /\ 20 * Cardinality(Missing) = 40
        BY <2>2, <3>3, <3>6
      <3>8. QED
        BY <2>2, <3>7
    <2>6. QED
      BY <2>3, <2>4, <2>5
  <1>10. ASSUME out.market # None, out.market.confidence < 50
         PROVE  score' <= 75
    <2>1. out.demand # None => out.demand.confidence <= 60
      <3>1. out["demand"] # None => task["demand"] = "recorded"
        BY <1>1 DEF Scored, Failures, Progress, AtRest, Typed, TypeOK, Task, Awaited, Settled, Agent
      <3>2. QED
        BY <1>1, <1>10, <3>1 DEF Scored, Capped
    <2>2. TotalPenalty(o, failed, x, limits.current) >= 0
      <3>1. 0 \in 0..2 /\ Cardinality(failed) >= 0
        BY <1>4, FailedFinite, FS_CardinalityType
      <3>2. TotalPenalty(o, failed, x, limits.current) >= 20 * 0
        BY <1>4, <3>1, PenaltyAtLeast
      <3>3. QED
        BY <3>2
    <2>3. out.demand = None => TotalPenalty(o, failed, x, limits.current) >= 20
      <3> SUFFICES ASSUME out.demand = None
                   PROVE  TotalPenalty(o, failed, x, limits.current) >= 20
        OBVIOUS
      <3>1. task["demand"] # "recorded"
        BY DEF Typed, WavesInOrder, Agent
      <3>2. "demand" \in failed
        BY <1>1, <3>1 DEF Scored, Failures, Progress, AtRest, Typed, TypeOK, Task, Awaited, Settled, Agent
      <3>3. 1 \in 0..2 /\ Cardinality(failed) >= 1
        BY <1>4, <3>2, FailuresCounted
      <3>4. TotalPenalty(o, failed, x, limits.current) >= 20 * 1
        BY <1>4, <3>3, PenaltyAtLeast
      <3>5. QED
        BY <3>4
    <2>4. o.market \in MarketOutput
      BY <1>1, <1>3, <1>10
    <2>5. QED
      BY <1>1, <1>3, <1>4, <1>5, <1>10, <2>1, <2>2, <2>3, <2>4, ScoreOnUnsureMarket
  <1>11. ScoreBound'
    BY <1>1, <1>8, <1>9, <1>10 DEF ScoreBound
  <1>12. QED
    BY <1>6, <1>7, <1>11 DEF Scored

LEMMA RunFailures ==
  ASSUME Typed, Progress, Scored, RunStep \/ StatementFails
  PROVE  Scored'
  <1> USE DEF Scored, Failures, Capped, ScoreBound, Missing
  <1>1. CASE StrategyEnds
    BY <1>1, StrategyScored
  <1>2. CASE Start
    <2>1. \A a \in Agent : task'[a] \in {"waiting", "thinking"} /\ out'[a] = None
      BY <1>2 DEF Start, Typed, TypeOK, WavesInOrder
    <2>2. stage' = "waveOne" /\ task'["compliance"] = "waiting"
      BY <1>2 DEF Start, Typed, TypeOK, WavesInOrder, Agent
    <2>3. QED
      BY <2>1, <2>2 DEF Agent
  <1>3. CASE WaveOneJoins
    <2>1. \A a \in Agent : task'[a] = IF a # "demand" THEN task[a]
                                     ELSE IF task["market"] = "recorded" THEN "thinking" ELSE "skipped"
      BY <1>3 DEF WaveOneJoins, Become, Typed, TypeOK
    <2>2. stage' = "waveTwo" /\ task["demand"] = "waiting" /\ task["compliance"] = "waiting"
          /\ task["market"] \in Settled /\ out' = out
          /\ failed' = IF task["market"] = "recorded" THEN failed ELSE failed \cup {"demand"}
      BY <1>3 DEF WaveOneJoins, Progress, Typed, WavesInOrder
    <2>3. QED
      BY <2>1, <2>2 DEF Agent
  <1>4. CASE WaveTwoEnds
    <2>1. \A a \in Agent : (a # "strategy" => task'[a] = task[a])
                           /\ (task'[a] = task[a] \/ task'[a] = "thinking")
      BY <1>4 DEF WaveTwoEnds, Become, Typed, TypeOK
    <2>2. stage' \in {"waveThree", "failing"} /\ failed' = failed /\ score' = score
          /\ task["compliance"] = "waiting" /\ task["strategy"] = "waiting" /\ task["demand"] # "waiting"
          /\ task["market"] \in Settled
      BY <1>4 DEF WaveTwoEnds, Typed, WavesInOrder, Progress
    <2>3. \A a \in Agent : a # "demand" => out'[a] = out[a]
      BY <1>4 DEF WaveTwoEnds, Typed, TypeOK, Agent
    <2>4. task["demand"] # "recorded" => out'["demand"] = out["demand"]
      BY <1>4 DEF WaveTwoEnds
    <2>5. task["demand"] = "recorded" =>
            out'.demand.confidence = CapForWeakUpstream(out.demand.confidence, out.market.confidence)
            /\ out'.market = out.market
      BY <1>4 DEF WaveTwoEnds, Typed, TypeOK, WavesInOrder, DemandOutput, Agent
    <2>6. Failures'
      BY <2>1, <2>2, <2>3, <2>4 DEF Agent
    <2>7. Capped'
      <3>1. task["demand"] = "recorded" => out.demand.confidence \in Int /\ out.market.confidence \in Int
        BY DEF Typed, TypeOK, WavesInOrder, DemandOutput, MarketOutput, Agent
      <3>2. QED
        BY <2>1, <2>5, <3>1 DEF CapForWeakUpstream, Smaller, Agent
    <2>8. ScoreBound'
      BY <2>1, <2>2 DEF Agent
    <2>9. QED
      BY <2>6, <2>7, <2>8
  <1>5. ASSUME RunStep \/ StatementFails, ~StrategyEnds, ~Start, ~WaveOneJoins, ~WaveTwoEnds
        PROVE  /\ UNCHANGED <<task, out, failed, score>>
               /\ stage' \notin {"waveTwo", "waveThree", "waveFour"}
    BY <1>5 DEF RunStep, Load, StrategyLost, MarkFailed, FinalizeBlocked, Finalize, Gate, PushSucceeds,
       PushThrows, Demote, RunBreaks, StatementFails
  <1>6. CASE UNCHANGED <<task, out, failed, score>> /\ stage' \notin {"waveTwo", "waveThree", "waveFour"}
    BY <1>6
  <1>7. QED
    BY <1>1, <1>2, <1>3, <1>4, <1>5, <1>6

LEMMA NextScored ==
  Typed /\ Progress /\ Scored /\ [Next]_vars => Scored'
  <1> SUFFICES ASSUME Typed, Progress, Scored, [Next]_vars
               PROVE  Scored'
    OBVIOUS
  <1>1. ASSUME Admins \/ UNCHANGED vars
        PROVE  UNCHANGED <<stage, task, out, failed, score>>
    BY <1>1 DEF Admins, UpdateProduct, UpdateSettings, UpsertRule, DeleteRule, Edit, vars
  <1>2. CASE UNCHANGED <<stage, task, out, failed, score>>
    BY <1>2 DEF Scored, Failures, Capped, ScoreBound, Missing
  <1>3. QED
    BY <1>1, <1>2, AgentFailures, RunFailures DEF Next, Admins

LEMMA ScoredAlways == Spec => [](IInv /\ Scored)
  <1>1. Init => Scored
    BY DEF Init, Scored, Failures, Capped, ScoreBound, Agent
  <1>2. IInv /\ Scored /\ [Next]_vars => Scored'
    BY NextScored DEF IInv
  <1>3. QED
    BY <1>1, <1>2, Inductive, PTL DEF Spec

(* A run that went without one of its forecast inputs executes itself only *)
(* under a threshold that far below 100.                                   *)
THEOREM IncompleteNeedsReview == Spec => []IncompleteIsReviewed
  <1>1. IInv /\ Scored => IncompleteIsReviewed
    <2> SUFFICES ASSUME IInv, Scored, row.status = "AUTO_EXECUTED"
                 PROVE  threshold + 20 * Cardinality(Missing) <= 100
      BY DEF IncompleteIsReviewed, Missing
    <2>1. score >= threshold /\ score + 20 * Cardinality(Missing) <= 100
      BY DEF IInv, RowFollows, Scored, ScoreBound
    <2>2. score \in 0..100 /\ threshold \in 50..100 /\ Cardinality(Missing) \in Nat
      <3>1. IsFiniteSet(Missing)
        BY FailedFinite DEF Missing, Agent
      <3>2. QED
        BY <3>1, FS_CardinalityType DEF IInv, Typed, TypeOK
    <2>3. QED
      BY <2>1, <2>2
  <1>2. QED
    BY <1>1, ScoredAlways, PTL

(* No run on a market read below 50 executes itself above a threshold of   *)
(* 75: the cap on the forecast cannot be made up for by the other agents.  *)
THEOREM UnsureMarketNeedsReview == Spec => []UnsureMarketIsReviewed
  <1>1. IInv /\ Scored => UnsureMarketIsReviewed
    <2> SUFFICES ASSUME IInv, Scored, row.status = "AUTO_EXECUTED", threshold > 75, out.market # None,
                        ~(out.market.confidence >= 50)
                 PROVE  FALSE
      BY DEF UnsureMarketIsReviewed
    <2>1. out.market.confidence \in 0..100 /\ score \in 0..100 /\ threshold \in 50..100
      BY DEF IInv, Typed, TypeOK, MarketOutput
    <2>2. score >= threshold /\ score <= 75
      BY <2>1 DEF IInv, RowFollows, Scored, ScoreBound
    <2>3. QED
      BY <2>1, <2>2
  <1>2. QED
    BY <1>1, ScoredAlways, PTL

-----------------------------------------------------------------------------
(* A rounded quotient is within half a unit of what it rounds. *)
LEMMA RoundedNear ==
  ASSUME NEW n \in Int, NEW d \in Nat \ {0}
  PROVE  /\ Rounded(n, d) \in Int
         /\ 2 * d * Rounded(n, d) <= 2 * n + d
         /\ 2 * d * Rounded(n, d) > 2 * n - d
  <1>1. 2 * n + d \in Int /\ 2 * d \in Nat \ {0}
    OBVIOUS
  <1>2. ASSUME NEW a \in Int, NEW b \in Nat \ {0}
        PROVE  a \div b \in Int /\ b * (a \div b) <= a /\ a < b * (a \div b) + b
    BY <1>2
  <1>3. PICK q \in Int : q = (2 * n + d) \div (2 * d) /\ 2 * d * q <= 2 * n + d /\ 2 * n + d < 2 * d * q + 2 * d
    BY <1>1, <1>2
  <1>4. Rounded(n, d) = q
    BY <1>3 DEF Rounded
  <1>5. 2 * d * q \in Int /\ 2 * d * q > 2 * n - d
    BY <1>3
  <1>6. QED
    BY <1>3, <1>4, <1>5

Near(x, lim) == Distance(x, lim.current) * Whole <= lim.delta * lim.current + Whole

(* The clamp keeps every price within the permitted movement, to the cent: *)
(* where the floor lies above the band, the band wins.                     *)
LEMMA ClampNear ==
  ASSUME NEW x \in Int, NEW lim \in Limits
  PROVE  Near(Clamp(x, lim), lim)
  <1> DEFINE lower == Larger(FloorPrice(lim), MinimumPrice) * Whole
             low   == lim.current * (Whole - lim.delta)
             high  == lim.current * (Whole + lim.delta)
             n     == Smaller(Larger(x * Whole, Larger(lower, low)), high)
  <1>1. /\ Whole \in Nat \ {0} /\ lim.current \in Nat /\ lim.delta \in Nat
        /\ lim.cost \in Nat /\ Whole - lim.margin \in Nat \ {0}
    BY WholeAssumption DEF Limits
  <1>2. lower \in Int
    <2>1. lim.cost * Whole \in Int
      BY <1>1
    <2>2. FloorPrice(lim) \in Int
      BY <1>1, <2>1, RoundedInt DEF FloorPrice
    <2>3. QED
      BY <1>1, <2>2 DEF Larger, MinimumPrice
  <1>3. low \in Int /\ high \in Int /\ x * Whole \in Int
    BY <1>1
  <1>4. low <= high
    <2>1. lim.current * lim.delta >= 0
      BY <1>1
    <2>2. low = lim.current * Whole - lim.current * lim.delta
          /\ high = lim.current * Whole + lim.current * lim.delta
      BY <1>1
    <2>3. QED
      BY <1>1, <2>1, <2>2
  <1> HIDE DEF lower, low, high
  <1>5. n \in Int /\ low <= n /\ n <= high
    BY <1>2, <1>3, <1>4 DEF Larger, Smaller
  <1>6. Clamp(x, lim) = Rounded(n, Whole)
    BY DEF Clamp, lower, low, high
  <1> HIDE DEF n
  <1>7. PICK q \in Int : /\ q = Clamp(x, lim)
                         /\ 2 * Whole * q <= 2 * n + Whole
                         /\ 2 * Whole * q > 2 * n - Whole
    BY <1>1, <1>5, <1>6, RoundedNear
  <1>8. PICK w \in Int : w = Whole * q
    BY <1>1
  <1>9. PICK m \in Nat : m = lim.delta * lim.current
    BY <1>1
  <1>10. PICK c \in Int : c = lim.current * Whole
    BY <1>1
  <1>11. low = c - m /\ high = c + m
    BY <1>1, <1>9, <1>10 DEF low, high
  <1>12. 2 * w <= 2 * n + Whole /\ 2 * w > 2 * n - Whole
    BY <1>1, <1>5, <1>7, <1>8
  <1>13. w - c <= m + Whole /\ c - w <= m + Whole
    BY <1>1, <1>3, <1>5, <1>11, <1>12
  <1>14. (q - lim.current) * Whole = w - c /\ (lim.current - q) * Whole = c - w
    BY <1>1, <1>8, <1>10
  <1>15. QED
    BY <1>7, <1>9, <1>13, <1>14 DEF Near, Distance

(* The price the compliance agent was shown, and the one that is pushed    *)
(* where it gave none.                                                     *)
Unadvised ==
  /\ task["compliance"] # "waiting" => Near(out.strategy.price, limits)
  /\ row.status = "AUTO_EXECUTED" /\ out.compliance = None => row.price = out.strategy.price

LEMMA NextUnadvised ==
  IInv /\ Scored /\ Unadvised /\ [Next]_vars => Unadvised'
  <1> SUFFICES ASSUME IInv, Scored, Unadvised, [Next]_vars
               PROVE  Unadvised'
    OBVIOUS
  <1>1. CASE UNCHANGED <<task, out, limits, row>>
    BY <1>1 DEF Unadvised
  <1>2. CASE StrategyEnds
    <2>1. out'.strategy.price = Clamp(out.strategy.price, limits) /\ out.strategy.price \in Int
      BY <1>2 DEF StrategyEnds, IInv, Typed, TypeOK, WavesInOrder, StrategyOutput, Agent
    <2>2. Near(out'.strategy.price, limits)
      BY <2>1, ClampNear DEF IInv, Typed, TypeOK
    <2>3. limits' = limits /\ row' = row /\ row.status # "AUTO_EXECUTED"
      BY <1>2 DEF StrategyEnds, IInv, RowFollows, Over
    <2>4. QED
      BY <2>2, <2>3 DEF Unadvised, Near
  <1>3. ASSUME RunStep, ~StrategyEnds, task'["compliance"] # "waiting"
        PROVE  /\ UNCHANGED <<out, limits>> /\ task["compliance"] # "waiting"
               /\ row' = row \/ FinalizeBlocked \/ Finalize \/ MarkFailed \/ Demote
    BY <1>3 DEF RunStep, Load, Start, WaveOneJoins, WaveTwoEnds, StrategyLost, MarkFailed, FinalizeBlocked,
       Finalize, Gate, PushSucceeds, PushThrows, Demote, RunBreaks, Become, IInv, Typed, TypeOK, WavesInOrder, Agent
  <1>4. ASSUME RunStep, row'.status = "AUTO_EXECUTED"
        PROVE  task'["compliance"] # "waiting"
    BY <1>4, NextRowFollows DEF IInv, RowFollows, Next
  <1>5. CASE RunStep /\ ~StrategyEnds
    <2>1. CASE task'["compliance"] = "waiting"
      BY <1>4, <1>5, <2>1 DEF Unadvised
    <2>2. CASE task'["compliance"] # "waiting"
      BY <1>3, <1>5, <2>2 DEF Unadvised, FinalizeBlocked, Finalize, MarkFailed, Demote, IInv, Typed, TypeOK
    <2>3. QED
      BY <2>1, <2>2
  <1>6. ASSUME NEW a \in Agent, AgentStep(a) \/ RecordFails(a)
        PROVE  Unadvised'
    <2>1. UNCHANGED <<limits, row, stage>> /\ task[a] \in Awaited
      BY <1>6 DEF AgentStep, Answer, Err, RecordOutput, RecordError, RecordFails, Awaited
    <2>2. row.status # "AUTO_EXECUTED"
      BY <2>1 DEF IInv, Progress, RowFollows, Over, AtRest, Awaited, Agent
    <2>3. task'["compliance"] # "waiting" => task["compliance"] # "waiting"
      BY <1>6, <2>1 DEF AgentStep, Answer, Err, RecordOutput, RecordError, RecordFails, Become, Awaited,
         IInv, Typed, TypeOK, Agent
    <2>4. task["compliance"] # "waiting" => out'.strategy = out.strategy
      <3>1. task["compliance"] # "waiting" => a # "strategy"
        BY <2>1 DEF IInv, Progress, AtRest, Awaited
      <3>2. a # "strategy" => out'.strategy = out.strategy
        BY <1>6 DEF AgentStep, Answer, Err, RecordOutput, RecordError, RecordFails, IInv, Typed, TypeOK, Agent
      <3>3. QED
        BY <3>1, <3>2
    <2>5. QED
      BY <2>1, <2>2, <2>3, <2>4 DEF Unadvised
  <1>7. ASSUME StatementFails \/ Admins \/ UNCHANGED vars
        PROVE  UNCHANGED <<task, out, limits, row>>
    BY <1>7 DEF StatementFails, Admins, UpdateProduct, UpdateSettings, UpsertRule, DeleteRule, Edit, vars
  <1>8. QED
    BY <1>1, <1>2, <1>5, <1>6, <1>7 DEF Next, Admins

(* Without advice from the compliance agent no run moves a price further   *)
(* than the limits it read allow.                                          *)
THEOREM UnadvisedMovesBounded == Spec => []UnadvisedMoveIsBounded
  <1>1. Init => Unadvised
    BY DEF Init, Unadvised, Agent
  <1>2. IInv /\ Scored /\ Unadvised => UnadvisedMoveIsBounded
    BY DEF IInv, Scored, Failures, Unadvised, UnadvisedMoveIsBounded, Near, Agent
  <1>3. QED
    BY <1>1, <1>2, ScoredAlways, NextUnadvised, PTL DEF Spec

-----------------------------------------------------------------------------
(* A category rule leaves the current price of the limits alone. *)
LEMMA EffectiveKeepsPrice ==
  ASSUME NEW r \in Rule \cup {None}, NEW own \in Limits
  PROVE  EffectiveLimits(r, own).current = own.current
  BY DEF EffectiveLimits, Limits

(* While no statement has failed and nobody else has set the price, the    *)
(* storefront shows the price the run read, up to the push of its own.     *)
Executed == stage = "over" /\ row.status = "AUTO_EXECUTED"

ShowsWhatItRead ==
  failures = 0 /\ ~productEdited =>
    IF Executed THEN shown = row.price
    ELSE IF stage = "idle" THEN shown = product.price
    ELSE shown = limits.current

LEMMA NextShows ==
  IInv /\ ShowsWhatItRead /\ [Next]_vars => ShowsWhatItRead'
  <1> SUFFICES ASSUME IInv, ShowsWhatItRead, [Next]_vars
               PROVE  ShowsWhatItRead'
    OBVIOUS
  <1> USE DEF ShowsWhatItRead, Executed
  <1>1. CASE UNCHANGED <<product, shown, stage, limits, row, history>>
    BY <1>1 DEF history
  <1>2. CASE failures' = failures + 1
    BY <1>2 DEF IInv, Typed, TypeOK
  <1>3. CASE productEdited' = TRUE
    BY <1>3
  <1>4. ASSUME \E a \in Agent : AgentStep(a) \/ RecordFails(a)
        PROVE  UNCHANGED <<product, shown, stage, limits, row, history>> \/ failures' = failures + 1
    BY <1>4 DEF AgentStep, Answer, Err, RecordOutput, RecordError, RecordFails, admin
  <1>5. ASSUME StatementFails \/ Admins \/ UNCHANGED vars
        PROVE  \/ UNCHANGED <<product, shown, stage, limits, row, history>>
               \/ failures' = failures + 1
               \/ productEdited' = TRUE
               \/ UNCHANGED <<product, shown, stage, limits, row, failures, productEdited>>
    BY <1>5 DEF StatementFails, Admins, UpdateProduct, UpdateSettings, UpsertRule, DeleteRule, Edit, vars, admin, history
  <1>6. CASE UNCHANGED <<product, shown, stage, limits, row, failures, productEdited>>
    BY <1>6
  <1>7. CASE RunStep
    <2>1. UNCHANGED <<failures, productEdited>>
      BY <1>7 DEF RunStep, Load, Start, WaveOneJoins, WaveTwoEnds, StrategyLost, StrategyEnds, MarkFailed,
         FinalizeBlocked, Finalize, Gate, PushSucceeds, PushThrows, Demote, RunBreaks, history
    <2>2. CASE Load
      BY <2>1, <2>2 DEF Load, OwnLimits
    <2>3. CASE Start
      <3>1. limits'.current = limits.current
        BY <2>3, EffectiveKeepsPrice DEF Start, IInv, Typed, TypeOK
      <3>2. QED
        BY <2>1, <2>3, <3>1 DEF Start
    <2>4. CASE PushSucceeds
      BY <2>1, <2>4 DEF PushSucceeds, IInv, RowFollows
    <2>5. CASE FinalizeBlocked \/ Finalize
      BY <2>1, <2>5 DEF FinalizeBlocked, Finalize, ComplianceEnds
    <2>6. CASE MarkFailed \/ Demote
      <3>1. row'.status \in {"FAILED", "PENDING"} /\ stage \in {"failing", "demoting"}
            /\ UNCHANGED <<shown, limits>> /\ stage' = "over"
        BY <2>6 DEF MarkFailed, Demote, IInv, Typed, TypeOK
      <3>2. QED
        BY <2>1, <3>1
    <2>7. CASE WaveOneJoins \/ WaveTwoEnds \/ StrategyLost \/ StrategyEnds \/ Gate \/ PushThrows \/ RunBreaks
      <3>1. UNCHANGED <<shown, limits>> /\ stage \notin Over \cup {"idle"} /\ stage' \notin {"idle", "over"}
        BY <2>7 DEF WaveOneJoins, WaveTwoEnds, StrategyLost, StrategyEnds, Gate, PushThrows, RunBreaks, Over
      <3>2. QED
        BY <2>1, <3>1 DEF Over
    <2>8. QED
      BY <1>7, <2>2, <2>3, <2>4, <2>5, <2>6, <2>7 DEF RunStep
  <1>8. QED
    BY <1>1, <1>2, <1>3, <1>4, <1>5, <1>6, <1>7 DEF Next, Admins

(* The status of a finished run tells what the storefront shows: the       *)
(* recommended price or the one the run read (orchestrate's catch around   *)
(* executeRecommendation).                                                 *)
THEOREM StatusTellsTheStorefront == Spec => []StatusMatchesStorefront
  <1>1. Init => ShowsWhatItRead
    BY DEF Init, ShowsWhatItRead, Executed
  <1>2. ShowsWhatItRead => StatusMatchesStorefront
    BY DEF ShowsWhatItRead, Executed, StatusMatchesStorefront
  <1>3. QED
    BY <1>1, <1>2, Inductive, NextShows, PTL DEF Spec

-----------------------------------------------------------------------------
(* The named parts together. *)

(* A blocked price, a lost agent and an unsure market read each keep a run *)
(* from executing its price (orchestrate, computeConfidence).              *)
THEOREM DoubtfulRunsAreReviewed == Spec => []DoubtIsReviewed
  <1>1. BlockedIsReviewed /\ IncompleteIsReviewed /\ UnsureMarketIsReviewed => DoubtIsReviewed
    BY DEF DoubtIsReviewed
  <1>. QED
    BY <1>1, BlockedStaysInQueue, IncompleteNeedsReview, UnsureMarketNeedsReview, PTL

(* A run is over only after its agents, and failed exactly when it lost    *)
(* its cost constraints or its price (orchestrate's waves).                *)
THEOREM RunsEndInOrder == Spec => []RunEndsInOrder
  <1>1. CriticalLossFails /\ SettledWhenOver => RunEndsInOrder
    BY DEF RunEndsInOrder
  <1>. QED
    BY <1>1, OnlyCriticalLossFails, NoAgentLeftBehind, PTL
=============================================================================

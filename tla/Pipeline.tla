------------------------------- MODULE Pipeline -------------------------------
(***************************************************************************)
(* agents/orchestrator.ts: one run of the agent pipeline on one product,   *)
(* from its first read to the end of its auto-execution, while admins edit *)
(* the product, the settings and the category rule.                        *)
(*                                                                         *)
(* The agents are external: a call of one ends in an output or an error.   *)
(* Module Decisions has what analysts do to the recommendation meanwhile,  *)
(* and Execution the inside of executeRecommendation; here a push either   *)
(* reaches the storefront or throws.                                       *)
(***************************************************************************)
EXTENDS BusinessRules

CONSTANTS
  Products, Rules, Settings,   \* what admins may set
  MarketOutputs, InventoryOutputs, DemandOutputs, StrategyOutputs, ComplianceOutputs,
  MaxEdits,                    \* bound: edits by admins
  MaxFailures                  \* bound: database statements that fail

ASSUME NoneAssumption ==
  None \notin Rule \cup MarketOutput \cup InventoryOutput \cup DemandOutput
               \cup StrategyOutput \cup ComplianceOutput

(* The schemas: a price exceeds its cost, and agents answer in range. *)
ASSUME EditAssumption ==
  /\ Products \subseteq Product /\ \A p \in Products : p.price > p.cost
  /\ Rules \subseteq Rule
  /\ Settings \subseteq Setting

ASSUME OutputAssumption ==
  /\ MarketOutputs \subseteq MarketOutput
  /\ InventoryOutputs \subseteq InventoryOutput
  /\ DemandOutputs \subseteq DemandOutput
  /\ StrategyOutputs \subseteq StrategyOutput
  /\ ComplianceOutputs \subseteq ComplianceOutput

ASSUME BoundAssumption == MaxEdits \in Nat /\ MaxFailures \in Nat

VARIABLES
  product, rule, settings,   \* the admins' tables
  shown,                     \* the price the storefront shows
  stage,                     \* where orchestrate is
  limits, threshold,         \* what the run read at its start
  task,                      \* how far runAndPersist is with each agent
  out,                       \* the outputs, as the run has adjusted them
  failed,                    \* failedAgents
  score,                     \* confidence.final
  row,                       \* the recommendation
  edits, productEdited, failures   \* history

admin   == <<product, rule, settings>>
history == <<edits, productEdited, failures>>
vars == <<admin, shown, stage, limits, threshold, task, out, failed, score, row, history>>

Agent   == {"market", "inventory", "demand", "strategy", "compliance"}
Awaited == {"thinking", "answered", "erred"}
Settled == {"recorded", "lost"}
Task    == Awaited \cup Settled \cup {"waiting", "skipped", "broken"}

Over  == {"over", "thrown"}
Stage == {"idle", "loaded", "waveOne", "waveTwo", "waveThree", "waveFour", "failing",
          "gate", "pushing", "demoting"} \cup Over

Outputs(a) ==
  CASE a = "market"     -> MarketOutputs
    [] a = "inventory"  -> InventoryOutputs
    [] a = "demand"     -> DemandOutputs
    [] a = "strategy"   -> StrategyOutputs
    [] a = "compliance" -> ComplianceOutputs

TypeOK ==
  /\ product \in Product
  /\ rule \in Rule \cup {None}
  /\ settings \in Setting
  /\ shown \in Int
  /\ stage \in Stage
  /\ limits \in Limits
  /\ threshold \in 50..100
  /\ task \in [Agent -> Task]
  /\ out \in [market : MarketOutput \cup {None}, inventory : InventoryOutput \cup {None},
              demand : DemandOutput \cup {None}, strategy : StrategyOutput \cup {None},
              compliance : ComplianceOutput \cup {None}]
  /\ failed \subseteq Agent
  /\ score \in 0..100
  /\ row \in [status : {"none", "PENDING", "AUTO_EXECUTED", "FAILED"}, price : Int, score : 0..100]
  /\ edits \in 0..MaxEdits /\ productEdited \in BOOLEAN /\ failures \in 0..MaxFailures

OwnLimits(p, s) == [current |-> p.price, cost |-> p.cost, margin |-> p.margin, delta |-> s.delta]

Init ==
  /\ product \in Products /\ rule \in Rules \cup {None} /\ settings \in Settings
  /\ shown = product.price
  /\ stage = "idle"
  /\ limits = OwnLimits(product, settings) /\ threshold = settings.threshold
  /\ task = [a \in Agent |-> "waiting"]
  /\ out = [market |-> None, inventory |-> None, demand |-> None, strategy |-> None,
            compliance |-> None]
  /\ failed = {} /\ score = 0
  /\ row = [status |-> "none", price |-> 0, score |-> 0]
  /\ edits = 0 /\ productEdited = FALSE /\ failures = 0

-----------------------------------------------------------------------------
(* runAndPersist: an agent runs, and either way its AgentRun is stored.    *)

Become(a, state) == task' = [task EXCEPT ![a] = state]

Answer(a) ==
  /\ task[a] = "thinking"
  /\ Become(a, "answered")
  /\ \E o \in Outputs(a) : out' = [out EXCEPT ![a] = o]
  /\ UNCHANGED <<admin, shown, stage, limits, threshold, failed, score, row, history>>

(* A timeout, a refused schema repair, too many tool rounds. *)
Err(a) ==
  /\ task[a] = "thinking"
  /\ Become(a, "erred")
  /\ UNCHANGED <<admin, shown, stage, limits, threshold, out, failed, score, row, history>>

RecordOutput(a) ==
  /\ task[a] = "answered"
  /\ Become(a, "recorded")
  /\ UNCHANGED <<admin, shown, stage, limits, threshold, out, failed, score, row, history>>

(* The catch block: the error's row, then failed.push. *)
RecordError(a) ==
  /\ task[a] = "erred"
  /\ Become(a, "lost")
  /\ failed' = failed \cup {a}
  /\ out' = [out EXCEPT ![a] = None]
  /\ UNCHANGED <<admin, shown, stage, limits, threshold, score, row, history>>

(* The output's row is written inside the try, so its failure is the       *)
(* agent's; the error's row is not, so its failure rejects the promise.    *)
RecordFails(a) ==
  /\ failures < MaxFailures /\ failures' = failures + 1
  /\ \/ task[a] = "answered" /\ Become(a, "erred")
     \/ task[a] = "erred" /\ Become(a, "broken")
  /\ UNCHANGED <<admin, shown, stage, limits, threshold, out, failed, score, row, edits, productEdited>>

-----------------------------------------------------------------------------
(* Plausible bugs: each of these replaces the definition it is named after. *)

WaveOneJoinsSilently ==
  /\ stage = "waveOne" /\ task["market"] \in Settled /\ task["inventory"] \in Settled
  /\ stage' = "waveTwo"
  /\ Become("demand", IF task["market"] = "recorded" THEN "thinking" ELSE "skipped")
  /\ UNCHANGED <<admin, shown, limits, threshold, out, failed, score, row, history>>

WaveOneJoinsOnMarket ==
  /\ stage = "waveOne" /\ task["market"] \in Settled
  /\ stage' = "waveTwo"
  /\ Become("demand", IF task["market"] = "recorded" THEN "thinking" ELSE "skipped")
  /\ failed' = IF task["market"] = "recorded" THEN failed ELSE failed \cup {"demand"}
  /\ UNCHANGED <<admin, shown, limits, threshold, out, score, row, history>>

WaveOneJoinsOnSuccess ==
  /\ stage = "waveOne" /\ task["market"] = "recorded" /\ task["inventory"] \in Settled
  /\ stage' = "waveTwo"
  /\ Become("demand", "thinking")
  /\ UNCHANGED <<admin, shown, limits, threshold, out, failed, score, row, history>>

DemoteForgotten ==
  /\ stage = "demoting"
  /\ stage' = "over"
  /\ UNCHANGED <<admin, shown, limits, threshold, task, out, failed, score, row, history>>

-----------------------------------------------------------------------------
(* orchestrate. *)

Load ==
  /\ stage = "idle"
  /\ stage' = "loaded"
  /\ limits' = OwnLimits(product, settings) /\ threshold' = settings.threshold
  /\ UNCHANGED <<admin, shown, task, out, failed, score, row, history>>

(* The category rule, the skeleton row, and both agents of wave one start. *)
Start ==
  /\ stage = "loaded"
  /\ stage' = "waveOne"
  /\ limits' = EffectiveLimits(rule, limits)
  /\ row' = [status |-> "PENDING", price |-> limits.current, score |-> 0]
  /\ task' = [task EXCEPT !["market"] = "thinking", !["inventory"] = "thinking"]
  /\ UNCHANGED <<admin, shown, threshold, out, failed, score, history>>

(* Promise.all.  Without a market read there is no forecast, and the       *)
(* skipped agent counts as failed.                                         *)
WaveOneJoins ==
  /\ stage = "waveOne" /\ task["market"] \in Settled /\ task["inventory"] \in Settled
  /\ stage' = "waveTwo"
  /\ Become("demand", IF task["market"] = "recorded" THEN "thinking" ELSE "skipped")
  /\ failed' = IF task["market"] = "recorded" THEN failed ELSE failed \cup {"demand"}
  /\ UNCHANGED <<admin, shown, limits, threshold, out, score, row, history>>

WaveTwoEnds ==
  /\ stage = "waveTwo" /\ task["demand"] \in Settled \cup {"skipped"}
  /\ out' = IF task["demand"] = "recorded"
            THEN [out EXCEPT !.demand.confidence = CapForWeakUpstream(@, out.market.confidence)]
            ELSE out
  /\ \/ /\ task["inventory"] # "recorded"
        /\ stage' = "failing"
        /\ UNCHANGED task
     \/ /\ task["inventory"] = "recorded"
        /\ stage' = "waveThree"
        /\ Become("strategy", "thinking")
  /\ UNCHANGED <<admin, shown, limits, threshold, failed, score, row, history>>

StrategyLost ==
  /\ stage = "waveThree" /\ task["strategy"] = "lost"
  /\ stage' = "failing"
  /\ UNCHANGED <<admin, shown, limits, threshold, task, out, failed, score, row, history>>

(* The price is clamped, a strategy that had to be is trusted less, and    *)
(* the score is computed before the compliance agent runs.                 *)
StrategyEnds ==
  /\ stage = "waveThree" /\ task["strategy"] = "recorded"
  /\ LET x == Clamp(out.strategy.price, limits)
         believed == IF x = out.strategy.price THEN out.strategy.confidence
                     ELSE Smaller(out.strategy.confidence, 60)
     IN out' = [out EXCEPT !.strategy = [confidence |-> believed, price |-> x]]
  /\ score' = Score(out', failed, out'.strategy.price, limits.current)
  /\ stage' = "waveFour"
  /\ Become("compliance", "thinking")
  /\ UNCHANGED <<admin, shown, limits, threshold, failed, row, history>>

MarkFailed ==
  /\ stage = "failing"
  /\ stage' = "over"
  /\ row' = [row EXCEPT !.status = "FAILED"]
  /\ UNCHANGED <<admin, shown, limits, threshold, task, out, failed, score, history>>

(* blocked: the rule engine or the compliance agent. *)
MustReview(o, lim) ==
  \/ Blocked(o.strategy.price, lim)
  \/ o.compliance # None /\ o.compliance.block

ComplianceEnds == stage = "waveFour" /\ task["compliance"] \in Settled

FinalizeBlocked ==
  /\ ComplianceEnds /\ MustReview(out, limits)
  /\ stage' = "over"
  /\ row' = [status |-> "PENDING", price |-> out.strategy.price, score |-> score]
  /\ UNCHANGED <<admin, shown, limits, threshold, task, out, failed, score, history>>

(* The compliance agent's price replaces the clamped one. *)
Finalize ==
  /\ ComplianceEnds /\ ~MustReview(out, limits)
  /\ row' = [status |-> IF score >= threshold THEN "AUTO_EXECUTED" ELSE "PENDING",
             price  |-> IF out.compliance = None THEN out.strategy.price ELSE out.compliance.price,
             score  |-> score]
  /\ stage' = IF score >= threshold THEN "gate" ELSE "over"
  /\ UNCHANGED <<admin, shown, limits, threshold, task, out, failed, score, history>>

(* executeRecommendation reads product, settings and rule again. *)
Gate ==
  /\ stage = "gate"
  /\ stage' = IF Blocked(row.price, EffectiveLimits(rule, OwnLimits(product, settings)))
              THEN "demoting" ELSE "pushing"
  /\ UNCHANGED <<admin, shown, limits, threshold, task, out, failed, score, row, history>>

PushSucceeds ==
  /\ stage = "pushing"
  /\ stage' = "over"
  /\ shown' = row.price
  /\ product' = [product EXCEPT !.price = row.price]
  /\ UNCHANGED <<rule, settings, limits, threshold, task, out, failed, score, row, history>>

PushThrows ==
  /\ stage = "pushing"
  /\ stage' = "demoting"
  /\ UNCHANGED <<admin, shown, limits, threshold, task, out, failed, score, row, history>>

(* The catch block around executeRecommendation. *)
Demote ==
  /\ stage = "demoting"
  /\ stage' = "over"
  /\ row' = [row EXCEPT !.status = "PENDING"]
  /\ UNCHANGED <<admin, shown, limits, threshold, task, out, failed, score, history>>

(* runAndPersist rejects: the generator throws, whatever the other agent   *)
(* of the wave is doing.                                                   *)
RunBreaks ==
  /\ stage \in {"waveOne", "waveTwo", "waveThree", "waveFour"}
  /\ \E a \in Agent : task[a] = "broken"
  /\ stage' = "thrown"
  /\ UNCHANGED <<admin, shown, limits, threshold, task, out, failed, score, row, history>>

(* A statement of orchestrate itself fails; one inside the push may fail   *)
(* after the storefront has taken the price.                               *)
StatementFails ==
  /\ failures < MaxFailures /\ failures' = failures + 1
  /\ \/ /\ \/ stage \in {"idle", "loaded", "failing", "demoting"}
           \/ ComplianceEnds
        /\ stage' = "thrown"
        /\ UNCHANGED shown
     \/ /\ stage = "gate"
        /\ stage' = "demoting"
        /\ UNCHANGED shown
     \/ /\ stage = "pushing"
        /\ stage' = "demoting"
        /\ shown' = row.price
  /\ UNCHANGED <<admin, limits, threshold, task, out, failed, score, row, edits, productEdited>>

-----------------------------------------------------------------------------
(* Admins. *)

Edit ==
  /\ edits < MaxEdits /\ edits' = edits + 1
  /\ UNCHANGED <<shown, stage, limits, threshold, task, out, failed, score, row, failures>>

UpdateProduct(p) ==
  /\ Edit
  /\ product' = p /\ productEdited' = TRUE
  /\ UNCHANGED <<rule, settings>>

UpdateSettings(s) == Edit /\ settings' = s /\ UNCHANGED <<product, rule, productEdited>>

UpsertRule(r) == Edit /\ rule' = r /\ UNCHANGED <<product, settings, productEdited>>

DeleteRule ==
  /\ rule # None
  /\ Edit /\ rule' = None
  /\ UNCHANGED <<product, settings, productEdited>>

AgentStep(a) == Answer(a) \/ Err(a) \/ RecordOutput(a) \/ RecordError(a)

RunStep ==
  \/ Load \/ Start
  \/ WaveOneJoins \/ WaveTwoEnds \/ StrategyLost \/ StrategyEnds \/ MarkFailed
  \/ FinalizeBlocked \/ Finalize
  \/ Gate \/ PushSucceeds \/ PushThrows \/ Demote
  \/ RunBreaks

Next ==
  \/ \E a \in Agent : AgentStep(a) \/ RecordFails(a)
  \/ RunStep
  \/ StatementFails
  \/ \E p \in Products : UpdateProduct(p)
  \/ \E s \in Settings : UpdateSettings(s)
  \/ \E r \in Rules : UpsertRule(r)
  \/ DeleteRule

(* A model call is raced against a timeout, a statement settles, and the   *)
(* generator is driven to its end whether or not the client listens.       *)
Fairness == WF_vars(RunStep) /\ \A a \in Agent : WF_vars(AgentStep(a))

Spec == Init /\ [][Next]_vars /\ Fairness

-----------------------------------------------------------------------------
(* Properties. *)

(* No run takes the storefront below the product's own margin floor, its   *)
(* cost or the platform minimum, whatever settings and category rule are   *)
(* edited under it: the effective limits only ever tighten.                *)
OwnFloorHolds ==
  [][shown' # shown /\ ~productEdited => ~Blocked(shown', OwnLimits(product, settings))]_vars

(* The rule engine's or the compliance agent's block is final: nothing of  *)
(* that run reaches the storefront, whatever the score.                    *)
BlockedIsReviewed ==
  task["compliance"] \in Settled
    /\ (Blocked(out.strategy.price, limits) \/ (out.compliance # None /\ out.compliance.block))
    => row.status = "PENDING" /\ stage \in {"waveFour"} \cup Over

(* Every agent lost before the score takes 20 hundredths off, the skipped  *)
(* forecast too, and redistributing its weight cannot bring them back.     *)
IncompleteIsReviewed ==
  row.status = "AUTO_EXECUTED" =>
    threshold + 20 * Cardinality({a \in {"market", "demand"} : task[a] # "recorded"}) <= 100

(* With a threshold above 75 no run on a market read of confidence below   *)
(* 50 executes itself, however sure the other agents are; at 75 one may,   *)
(* because 74.7 hundredths round up to it.                                 *)
UnsureMarketIsReviewed ==
  row.status = "AUTO_EXECUTED" /\ threshold > 75 /\ out.market # None => out.market.confidence >= 50

(* A run fails exactly when it lost its cost constraints or its price; the *)
(* other three agents may all be lost and it still recommends.             *)
CriticalLossFails ==
  stage = "over" =>
    (row.status = "FAILED" <=> \E a \in {"inventory", "strategy"} : task[a] = "lost")

(* When a run is over no agent of it is still at work behind it. *)
SettledWhenOver ==
  stage = "over" => \A a \in Agent : task[a] \notin Awaited

(* What casts doubt on a price keeps it from executing itself: a block, an *)
(* agent lost on the way to the score, a market read nobody was sure of.   *)
DoubtIsReviewed == BlockedIsReviewed /\ IncompleteIsReviewed /\ UnsureMarketIsReviewed

(* However its agents end, a run ends after them and fails only for want   *)
(* of the two it cannot do without.                                        *)
RunEndsInOrder == CriticalLossFails /\ SettledWhenOver

(* A finished run's status says what became of the storefront: AUTO_EXECUTED *)
(* that it shows the recommended price, anything else that the run left it   *)
(* as it was, a push that failed included.                                   *)
StatusMatchesStorefront ==
  stage = "over" /\ failures = 0 /\ ~productEdited =>
    shown = IF row.status = "AUTO_EXECUTED" THEN row.price ELSE limits.current

(* Without advice from the compliance agent the price of a run is within   *)
(* the permitted movement, to the cent the clamp rounds to.                *)
UnadvisedMoveIsBounded ==
  row.status = "AUTO_EXECUTED" /\ task["compliance"] = "lost" =>
    Distance(row.price, limits.current) * Whole <= limits.delta * limits.current + Whole

(* "It is also clamped to that range in code afterwards": the price of a   *)
(* recommendation the run puts out is within the permitted movement.       *)
RecommendedInRange ==
  stage \in {"gate", "pushing"} =>
    Distance(row.price, limits.current) * Whole <= limits.delta * limits.current + Whole

(* A run that started is answered. *)
RunIsAnswered == stage = "loaded" ~> stage \in Over
=============================================================================

------------------------------ MODULE Execution ------------------------------
(***************************************************************************)
(* services/execution.service.ts: executeRecommendation pushes one price   *)
(* to the storefront.  Every await in it is a point where another handler  *)
(* runs, so each action below is the code between two awaits.              *)
(*                                                                         *)
(* A caller is one invocation: a decision handler, an undo or the tail of  *)
(* an agent pipeline.  The storefront is external; the code in src/ has a  *)
(* mock of it that accepts or rejects a push.                              *)
(*                                                                         *)
(* The deterministic gate (checkBusinessRules, module BusinessRules) is    *)
(* abstracted to floor[p]: the lowest price no blocking rule refuses.      *)
(***************************************************************************)
EXTENDS Integers, FiniteSets

CONSTANTS
  Caller,         \* invocations of executeRecommendation
  Product,
  Price,          \* prices, in cents
  None,           \* no price, no product
  MaxEdits,       \* bound: edits of a price or of the limits
  MaxDbFailures,  \* bound: database statements that fail
  MaxCrashes      \* bound: process exits

ASSUME PriceAssumption == Price \subseteq Int /\ None \notin Price
ASSUME ProductAssumption == None \notin Product
ASSUME BoundAssumption ==
  /\ MaxEdits \in Nat
  /\ MaxDbFailures \in Nat
  /\ MaxCrashes \in Nat

VARIABLES
  price,       \* products.currentPrice
  floor,       \* lowest price the blocking rules permit now
  storefront,  \* the price the storefront shows
  accepted,    \* the callers whose push the storefront accepted
  phase,       \* how far a caller is
  product,     \* the product it prices
  amount,      \* the price it was given
  previous,    \* previousPrice, read with the product
  row,         \* its row in the executions table
  edits, dbFailures, crashes,
  overlapped   \* history: the products with two calls at a time

data == <<price, floor, storefront, accepted, row>>
locals == <<product, amount, previous>>
history == <<edits, dbFailures, crashes, overlapped>>
vars == <<data, phase, locals, history>>

InFlight == {"called", "checked", "written", "accepted", "rejected", "reverted"}
Ended    == {"refused", "succeeded", "failed"}
Phase    == InFlight \cup Ended \cup {"idle", "dead"}

TypeOK ==
  /\ price \in [Product -> Price]
  /\ floor \in [Product -> Price]
  /\ storefront \in [Product -> Price]
  /\ accepted \subseteq Caller
  /\ phase \in [Caller -> Phase]
  /\ product \in [Caller -> Product \cup {None}]
  /\ amount \in [Caller -> Price \cup {None}]
  /\ previous \in [Caller -> Price \cup {None}]
  /\ row \in [Caller -> {"none", "succeeded", "failed"}]
  /\ edits \in 0..MaxEdits
  /\ dbFailures \in 0..MaxDbFailures
  /\ crashes \in 0..MaxCrashes
  /\ overlapped \subseteq Product

(* No call on p is between its start and its end. *)
Quiet(p) == \A c \in Caller : product[c] = p => phase[c] \notin InFlight

Init ==
  /\ price \in [Product -> Price]
  /\ floor \in [Product -> Price]
  /\ storefront = price
  /\ accepted = {}
  /\ phase = [c \in Caller |-> "idle"]
  /\ product = [c \in Caller |-> None]
  /\ amount = [c \in Caller |-> None]
  /\ previous = [c \in Caller |-> None]
  /\ row = [c \in Caller |-> "none"]
  /\ edits = 0 /\ dbFailures = 0 /\ crashes = 0 /\ overlapped = {}

-----------------------------------------------------------------------------
(* Plausible bugs: each of these replaces the action it is named after.    *)

ReadContextNoGate(c) ==
  /\ phase[c] = "called"
  /\ phase' = [phase EXCEPT ![c] = "checked"]
  /\ previous' = [previous EXCEPT ![c] = price[product[c]]]
  /\ UNCHANGED <<data, product, amount, history>>

ReadContextNoCapture(c) ==
  /\ phase[c] = "called"
  /\ phase' = [phase EXCEPT ![c] = IF amount[c] >= floor[product[c]] THEN "checked" ELSE "refused"]
  /\ UNCHANGED <<data, locals, history>>

PushRejectedUncaught(c) ==
  /\ phase[c] = "written"
  /\ phase' = [phase EXCEPT ![c] = "failed"]
  /\ UNCHANGED <<data, locals, history>>

PushRejectedIgnored(c) ==
  /\ phase[c] = "written"
  /\ phase' = [phase EXCEPT ![c] = "accepted"]
  /\ UNCHANGED <<data, locals, history>>

-----------------------------------------------------------------------------
(* executeRecommendation(p, x) is entered; nothing keeps two calls on one  *)
(* product apart.                                                          *)
Call(c, p, x) ==
  /\ phase[c] = "idle"
  /\ phase' = [phase EXCEPT ![c] = "called"]
  /\ product' = [product EXCEPT ![c] = p]
  /\ amount' = [amount EXCEPT ![c] = x]
  /\ overlapped' = IF Quiet(p) THEN overlapped ELSE overlapped \cup {p}
  /\ UNCHANGED <<data, previous, edits, dbFailures, crashes>>

(* The product, its limits and the gate: a refusal throws before any write. *)
ReadContext(c) ==
  /\ phase[c] = "called"
  /\ phase' = [phase EXCEPT ![c] = IF amount[c] >= floor[product[c]] THEN "checked" ELSE "refused"]
  /\ previous' = [previous EXCEPT ![c] = price[product[c]]]
  /\ UNCHANGED <<data, product, amount, history>>

(* updatePrice: an unconditional write. *)
WriteLocal(c) ==
  /\ phase[c] = "checked"
  /\ phase' = [phase EXCEPT ![c] = "written"]
  /\ price' = [price EXCEPT ![product[c]] = amount[c]]
  /\ UNCHANGED <<floor, storefront, accepted, row, locals, history>>

PushAccepted(c) ==
  /\ phase[c] = "written"
  /\ phase' = [phase EXCEPT ![c] = "accepted"]
  /\ storefront' = [storefront EXCEPT ![product[c]] = amount[c]]
  /\ accepted' = accepted \cup {c}
  /\ UNCHANGED <<price, floor, row, locals, history>>

PushRejected(c) ==
  /\ phase[c] = "written"
  /\ phase' = [phase EXCEPT ![c] = "rejected"]
  /\ UNCHANGED <<data, locals, history>>

RecordSuccess(c) ==
  /\ phase[c] = "accepted"
  /\ phase' = [phase EXCEPT ![c] = "succeeded"]
  /\ row' = [row EXCEPT ![c] = "succeeded"]
  /\ UNCHANGED <<price, floor, storefront, accepted, locals, history>>

(* The catch block puts back the price read at the start, whatever the     *)
(* column holds by now.                                                    *)
Rollback(c) ==
  /\ phase[c] = "rejected"
  /\ phase' = [phase EXCEPT ![c] = "reverted"]
  /\ price' = [price EXCEPT ![product[c]] = previous[c]]
  /\ UNCHANGED <<floor, storefront, accepted, row, locals, history>>

RecordFailure(c) ==
  /\ phase[c] = "reverted"
  /\ phase' = [phase EXCEPT ![c] = "failed"]
  /\ row' = [row EXCEPT ![c] = "failed"]
  /\ UNCHANGED <<price, floor, storefront, accepted, locals, history>>

(* A statement throws.  Before the try block it leaves the function; the   *)
(* row written after the push is inside the try, so its failure enters the *)
(* catch; a failure in the catch leaves the function from there.           *)
StatementFails(c) ==
  /\ dbFailures < MaxDbFailures
  /\ dbFailures' = dbFailures + 1
  /\ \/ /\ phase[c] \in {"called", "checked"}
        /\ phase' = [phase EXCEPT ![c] = "refused"]
     \/ /\ phase[c] = "accepted"
        /\ phase' = [phase EXCEPT ![c] = "rejected"]
     \/ /\ phase[c] \in {"rejected", "reverted"}
        /\ phase' = [phase EXCEPT ![c] = "failed"]
  /\ UNCHANGED <<data, locals, edits, crashes, overlapped>>

Step(c) ==
  \/ ReadContext(c)
  \/ WriteLocal(c)
  \/ PushAccepted(c)
  \/ PushRejected(c)
  \/ RecordSuccess(c)
  \/ Rollback(c)
  \/ RecordFailure(c)

-----------------------------------------------------------------------------
(* The environment of a call. *)

(* updateProduct sets a price and never pushes it. *)
EditPrice(p, x) ==
  /\ edits < MaxEdits
  /\ edits' = edits + 1
  /\ price' = [price EXCEPT ![p] = x]
  /\ UNCHANGED <<floor, storefront, accepted, row, phase, locals, dbFailures, crashes, overlapped>>

(* Settings, a category rule, the product's cost or its own floor change. *)
EditLimits(p, f) ==
  /\ edits < MaxEdits
  /\ edits' = edits + 1
  /\ floor' = [floor EXCEPT ![p] = f]
  /\ UNCHANGED <<price, storefront, accepted, row, phase, locals, dbFailures, crashes, overlapped>>

(* The process exits: every invocation in it is gone, the tables stay. *)
Crash ==
  /\ crashes < MaxCrashes
  /\ crashes' = crashes + 1
  /\ phase' = [c \in Caller |-> IF phase[c] \in InFlight THEN "dead" ELSE phase[c]]
  /\ UNCHANGED <<data, locals, edits, dbFailures, overlapped>>

Next ==
  \/ \E c \in Caller :
       \/ \E p \in Product, x \in Price : Call(c, p, x)
       \/ Step(c)
       \/ StatementFails(c)
  \/ \E p \in Product, x \in Price : EditPrice(p, x) \/ EditLimits(p, x)
  \/ Crash

Safe == Init /\ [][Next]_vars

(* Every await in executeRecommendation settles: the driver answers or     *)
(* throws, and so does the storefront's client.                            *)
Fairness == \A c \in Caller : WF_vars(Step(c))

Spec == Safe /\ Fairness

-----------------------------------------------------------------------------
(* Properties. *)

(* A price below the floor never reaches the storefront: not by a stale    *)
(* read, another caller's write, a rollback, a failed statement or a       *)
(* crash, as long as nobody moves the limits meanwhile.                    *)
PushesRespectFloor ==
  [][\A p \in Product :
       edits = 0 /\ storefront'[p] # storefront[p] => storefront'[p] >= floor[p]]_vars

(* What the executions table says of a finished call is what the           *)
(* storefront did, whichever calls it overlapped with.                     *)
RowsTellTheTruth ==
  dbFailures = 0 =>
    \A c \in Caller : phase[c] \in Ended => (row[c] = "succeeded" <=> c \in accepted)

(* Where the calls on a product never overlap, no statement fails, nobody  *)
(* exits and no edit goes unpushed, the database and the storefront agree  *)
(* whenever no call is running: the catch block really undoes the local    *)
(* write.                                                                  *)
StorefrontAgreement ==
  edits = 0 /\ dbFailures = 0 /\ crashes = 0 =>
    \A p \in Product \ overlapped : Quiet(p) => price[p] = storefront[p]

(* "The price change could not be completed; it has been rolled back", and *)
(* the executions row says rolledBack: the storefront never took a price   *)
(* whose row says so.                                                      *)
RolledBackMeansNotShown ==
  \A c \in Caller : row[c] = "failed" => c \notin accepted

(* "So the database never claims a price the storefront does not actually  *)
(* have": the service's own words, without the conditions above.           *)
DatabaseMatchesStorefront == \A p \in Product : Quiet(p) => price[p] = storefront[p]

=============================================================================

------------------------------- MODULE Catalog -------------------------------
(***************************************************************************)
(* The catalog of one organization: createProduct, updateProduct and       *)
(* deleteProduct (product.service.ts) and simulate (marketEvent.service.ts) *)
(* by several members at once, with the executions of approved prices      *)
(* (execution.service.ts, module Execution) among them.  Every statement   *)
(* is a step of its own.                                                   *)
(*                                                                         *)
(* A row is what the cross-field rules see: price, cost, stock and the     *)
(* status derived from it.  Names, categories and margin floors are edited *)
(* by a patch that changes none of these.                                  *)
(***************************************************************************)
EXTENDS Integers, FiniteSets

CONSTANTS
  Actor,           \* a member or a run, with one request at a time
  Product,         \* ids (uuids: none is used twice)
  Sku,
  Price, Cost, Level,
  Input,           \* what the create form may say: [price, cost, level]
  Patch,           \* what an edit may say: the same, None where it is silent
  Low, Overstocked,   \* INVENTORY_THRESHOLDS
  None,
  MaxFailures      \* bound: statements that fail

ASSUME NumberAssumption ==
  /\ Price \subseteq Int /\ Cost \subseteq Int /\ Level \subseteq Int
  /\ Low \in Int /\ Overstocked \in Int /\ MaxFailures \in Nat

(* ProductInputSchema and ProductPatchSchema. *)
ASSUME SchemaAssumption ==
  /\ Input \subseteq [price : Price, cost : Cost, level : Level]
  /\ \A input \in Input : input.price > input.cost
  /\ Patch \subseteq [price : Price \cup {None}, cost : Cost \cup {None}, level : Level \cup {None}]

VARIABLES
  rows,       \* the products table
  born,       \* ids handed out
  observed,   \* the products with rows of competitors or demand
  requests,   \* each member's request
  trail,      \* the audit rows on creations and deletions, with their actors
  crossed,    \* history: products something was written over that the writer had not read
  failures    \* history

vars == <<rows, born, observed, requests, trail, crossed, failures>>

Status == {"LOW", "NORMAL", "OVERSTOCKED"}

Row   == [sku : Sku, price : Price, cost : Cost, level : Level, status : Status]

Audit == {"PRODUCT_CREATED", "PRODUCT_DELETED"} \X Product \X Actor

(* A patch names each column it sets, the derived status always.           *)
Change == [price : Price \cup {None}, cost : Cost \cup {None}, level : Level \cup {None},
           status : Status]

Creating  == [op : {"create"}, at : {"lookup", "insert"}, sku : Sku, input : Input]
Updating  == [op : {"update"}, at : {"find"}, product : Product, patch : Patch]
Writing   == [op : {"update"}, at : {"write"}, product : Product, change : Change,
              stale : BOOLEAN]
Acting    ==
       [op : {"update"}, at : {"reread"}, product : Product]
  \cup [op : {"delete"}, at : {"find", "remove"}, product : Product]
  \cup [op : {"simulate"}, at : {"find", "insert"}, product : Product]
(* An execution before and after the reads of its gate.                    *)
Executing == [op : {"execute"}, at : {"read"}, product : Product, price : Price]
Pricing   == [op : {"execute"}, at : {"write", "push", "rollback"}, product : Product,
              price : Price, previous : Price, stale : BOOLEAN]
Auditing  == [op : {"create", "update", "delete", "simulate"}, at : {"audit"}, product : Product]

ASSUME NoneAssumption == None \notin Price \cup Cost \cup Level \cup Row \cup Auditing

Request == {None} \cup Creating \cup Updating \cup Writing \cup Acting
             \cup Executing \cup Pricing \cup Auditing

TypeOK ==
  /\ rows \in [Product -> Row \cup {None}]
  /\ born \subseteq Product
  /\ observed \subseteq Product
  /\ requests \in [Actor -> Request]
  /\ trail \subseteq Audit
  /\ crossed \subseteq born
  /\ failures \in 0..MaxFailures
  /\ \A p \in observed : rows[p] # None
  /\ \A p \in Product : p \notin born => rows[p] = None

Init ==
  /\ rows = [p \in Product |-> None]
  /\ born = {}
  /\ observed = {}
  /\ requests = [a \in Actor |-> None]
  /\ trail = {} /\ crossed = {} /\ failures = 0

-----------------------------------------------------------------------------
(* deriveInventoryStatus. *)
Derived(level) ==
  IF level <= Low THEN "LOW" ELSE IF level >= Overstocked THEN "OVERSTOCKED" ELSE "NORMAL"

Merged(said, before) == IF said = None THEN before ELSE said

Goes(a, request) == requests' = [requests EXCEPT ![a] = request]

(* A member's request is over: answered, or refused with an error. *)
Answer(a) == Goes(a, None)

At(a, op, at) == requests[a] # None /\ requests[a].op = op /\ requests[a].at = at

(* The request will write what it made of a row it has read.               *)
Holds(a) == At(a, "update", "write") \/ \E at \in {"write", "push", "rollback"} : At(a, "execute", at)

(* The requests, where p is written: one that has read p and not written   *)
(* for the last time holds what no longer is.                              *)
Outdated(p) ==
  [a \in Actor |->
     IF Holds(a) /\ requests[a].product = p
     THEN [requests[a] EXCEPT !.stale = TRUE] ELSE requests[a]]

Record(a, action, p) == trail' = trail \cup {<<action, p, a>>}

-----------------------------------------------------------------------------
(* createProduct *)

(* Bound: there is an id left for every creation under way. *)
IdsLeft ==
  Cardinality({a \in Actor : At(a, "create", "lookup") \/ At(a, "create", "insert")})
    < Cardinality(Product \ born)

Create(a, sku, input) ==
  /\ requests[a] = None /\ IdsLeft
  /\ Goes(a, [op |-> "create", at |-> "lookup", sku |-> sku, input |-> input])
  /\ UNCHANGED <<rows, born, observed, trail, crossed, failures>>

Taken(sku) == \E p \in Product : rows[p] # None /\ rows[p].sku = sku

FindBySku(a) ==
  /\ At(a, "create", "lookup")
  /\ IF Taken(requests[a].sku) THEN Answer(a)
     ELSE Goes(a, [requests[a] EXCEPT !.at = "insert"])
  /\ UNCHANGED <<rows, born, observed, trail, crossed, failures>>

(* The unique index decides between two requests that both found none. *)
Insert(a) ==
  LET sku == requests[a].sku  input == requests[a].input
  IN /\ At(a, "create", "insert")
     /\ \/ /\ Taken(sku)
           /\ Answer(a)
           /\ UNCHANGED <<rows, born>>
        \/ /\ ~Taken(sku)
           /\ \E p \in Product \ born :
                /\ rows' = [rows EXCEPT ![p] =
                     [sku |-> sku, price |-> input.price, cost |-> input.cost,
                      level |-> input.level, status |-> Derived(input.level)]]
                /\ born' = born \cup {p}
                /\ Goes(a, [op |-> "create", at |-> "audit", product |-> p])
     /\ UNCHANGED <<observed, trail, crossed, failures>>

AuditCreated(a) ==
  /\ At(a, "create", "audit")
  /\ Record(a, "PRODUCT_CREATED", requests[a].product)
  /\ Answer(a)
  /\ UNCHANGED <<rows, born, observed, crossed, failures>>

-----------------------------------------------------------------------------
(* updateProduct *)

Update(a, p, patch) ==
  /\ requests[a] = None
  /\ Goes(a, [op |-> "update", at |-> "find", product |-> p, patch |-> patch])
  /\ UNCHANGED <<rows, born, observed, trail, crossed, failures>>

Changed(patch, status) ==
  [price |-> patch.price, cost |-> patch.cost, level |-> patch.level, status |-> status]

(* A plausible bug: the status of a silent patch comes from a default.     *)
FindToUpdateWithDefault(a) ==
  LET p == requests[a].product  patch == requests[a].patch  before == rows[p]
  IN /\ At(a, "update", "find")
     /\ IF before = None \/ Merged(patch.price, before.price) <= Merged(patch.cost, before.cost)
        THEN Answer(a)
        ELSE Goes(a, [op |-> "update", at |-> "write", product |-> p, stale |-> FALSE,
                      change |-> Changed(patch, Derived(Merged(patch.level, Low)))])
     /\ UNCHANGED <<rows, born, observed, trail, crossed, failures>>

(* findById, the cross-field rule on the merged values, and the status of  *)
(* the merged level.                                                       *)
FindToUpdate(a) ==
  LET p == requests[a].product  patch == requests[a].patch  before == rows[p]
  IN /\ At(a, "update", "find")
     /\ IF before = None \/ Merged(patch.price, before.price) <= Merged(patch.cost, before.cost)
        THEN Answer(a)
        ELSE Goes(a, [op |-> "update", at |-> "write", product |-> p, stale |-> FALSE,
                      change |-> Changed(patch, Derived(Merged(patch.level, before.level)))])
     /\ UNCHANGED <<rows, born, observed, trail, crossed, failures>>

(* updateMany: the columns supplied, where the row still is. *)
Write(a) ==
  LET p == requests[a].product  change == requests[a].change  row == rows[p]
  IN /\ At(a, "update", "write")
     /\ IF row = None
        THEN /\ Answer(a)
             /\ UNCHANGED <<rows, crossed>>
        ELSE /\ rows' = [rows EXCEPT ![p] =
                  [sku |-> row.sku, price |-> Merged(change.price, row.price),
                   cost |-> Merged(change.cost, row.cost),
                   level |-> Merged(change.level, row.level), status |-> change.status]]
             /\ crossed' = IF requests[a].stale THEN crossed \cup {p} ELSE crossed
             /\ requests' = [Outdated(p) EXCEPT ![a] =
                  [op |-> "update", at |-> "reread", product |-> p]]
     /\ UNCHANGED <<born, observed, trail, failures>>

(* The row an edit returns; one deleted meanwhile is answered Not found.   *)
Reread(a) ==
  /\ At(a, "update", "reread")
  /\ IF rows[requests[a].product] = None THEN Answer(a)
     ELSE Goes(a, [op |-> "update", at |-> "audit", product |-> requests[a].product])
  /\ UNCHANGED <<rows, born, observed, trail, crossed, failures>>

-----------------------------------------------------------------------------
(* deleteProduct *)

Delete(a, p) ==
  /\ requests[a] = None
  /\ Goes(a, [op |-> "delete", at |-> "find", product |-> p])
  /\ UNCHANGED <<rows, born, observed, trail, crossed, failures>>

FindToDelete(a) ==
  /\ At(a, "delete", "find")
  /\ IF rows[requests[a].product] = None THEN Answer(a)
     ELSE Goes(a, [requests[a] EXCEPT !.at = "remove"])
  /\ UNCHANGED <<rows, born, observed, trail, crossed, failures>>

Removed(a) == Goes(a, [op |-> "delete", at |-> "audit", product |-> requests[a].product])

(* A plausible bug: how many rows the deletion took is not looked at.      *)
RemoveUnchecked(a) ==
  LET p == requests[a].product
  IN /\ At(a, "delete", "remove")
     /\ rows' = [rows EXCEPT ![p] = None]
     /\ observed' = observed \ {p}
     /\ Removed(a)
     /\ UNCHANGED <<born, trail, crossed, failures>>

(* A plausible bug: the relation does not cascade.                         *)
RemoveWithoutCascade(a) ==
  LET p == requests[a].product
  IN /\ At(a, "delete", "remove")
     /\ IF rows[p] = None THEN Answer(a) ELSE Removed(a)
     /\ rows' = [rows EXCEPT ![p] = None]
     /\ UNCHANGED <<born, observed, trail, crossed, failures>>

(* deleteMany, whose cascade takes the market rows along; of two deletions *)
(* one finds nothing to delete.                                            *)
Remove(a) ==
  LET p == requests[a].product
  IN /\ At(a, "delete", "remove")
     /\ IF rows[p] = None THEN Answer(a) ELSE Removed(a)
     /\ rows' = [rows EXCEPT ![p] = None]
     /\ observed' = observed \ {p}
     /\ UNCHANGED <<born, trail, crossed, failures>>

AuditDeleted(a) ==
  /\ At(a, "delete", "audit")
  /\ Record(a, "PRODUCT_DELETED", requests[a].product)
  /\ Answer(a)
  /\ UNCHANGED <<rows, born, observed, crossed, failures>>

-----------------------------------------------------------------------------
(* simulate *)

Simulate(a, p) ==
  /\ requests[a] = None
  /\ Goes(a, [op |-> "simulate", at |-> "find", product |-> p])
  /\ UNCHANGED <<rows, born, observed, trail, crossed, failures>>

FindToSimulate(a) ==
  /\ At(a, "simulate", "find")
  /\ IF rows[requests[a].product] = None THEN Answer(a)
     ELSE Goes(a, [requests[a] EXCEPT !.at = "insert"])
  /\ UNCHANGED <<rows, born, observed, trail, crossed, failures>>

(* addCompetitorPrices or addDemandSignal; the reference to the product is *)
(* checked, and the request fails when the product is gone.                *)
Observe(a) ==
  LET p == requests[a].product
  IN /\ At(a, "simulate", "insert")
     /\ IF rows[p] = None
        THEN Answer(a) /\ UNCHANGED observed
        ELSE /\ observed' = observed \cup {p}
             /\ Goes(a, [op |-> "simulate", at |-> "audit", product |-> p])
     /\ UNCHANGED <<rows, born, trail, crossed, failures>>

(* The rows on edits and events, which the trail here leaves out. *)
AuditOther(a) ==
  /\ At(a, "update", "audit") \/ At(a, "simulate", "audit")
  /\ Answer(a)
  /\ UNCHANGED <<rows, born, observed, trail, crossed, failures>>

-----------------------------------------------------------------------------
(* executeRecommendation *)

Execute(a, p, price) ==
  /\ requests[a] = None
  /\ Goes(a, [op |-> "execute", at |-> "read", product |-> p, price |-> price])
  /\ UNCHANGED <<rows, born, observed, trail, crossed, failures>>

(* The product and the gate, of whose rules the one about a row is kept: a *)
(* price at or below the cost is refused.                                  *)
ReadContext(a) ==
  LET p == requests[a].product  price == requests[a].price  row == rows[p]
  IN /\ At(a, "execute", "read")
     /\ IF row = None \/ price <= row.cost THEN Answer(a)
        ELSE Goes(a, [op |-> "execute", at |-> "write", product |-> p, price |-> price,
                      previous |-> row.price, stale |-> FALSE])
     /\ UNCHANGED <<rows, born, observed, trail, crossed, failures>>

(* updatePrice: an updateMany with no other condition than the id.         *)
SetPrice(a, price, next) ==
  LET p == requests[a].product
  IN /\ IF rows[p] = None
        THEN Goes(a, next) /\ UNCHANGED <<rows, crossed>>
        ELSE /\ rows' = [rows EXCEPT ![p].price = price]
             /\ crossed' = IF requests[a].stale THEN crossed \cup {p} ELSE crossed
             /\ requests' = [Outdated(p) EXCEPT ![a] = next]
     /\ UNCHANGED <<born, observed, trail, failures>>

(* The local write is made before the push, and after the gate's reads.    *)
WritePrice(a) ==
  /\ At(a, "execute", "write")
  /\ SetPrice(a, requests[a].price, [requests[a] EXCEPT !.at = "push", !.stale = FALSE])

(* The storefront takes the price and a row says so, or either fails: the  *)
(* row refers to a recommendation that is deleted with its product.        *)
PushPrice(a) ==
  /\ At(a, "execute", "push")
  /\ \/ rows[requests[a].product] # None /\ Answer(a)
     \/ Goes(a, [requests[a] EXCEPT !.at = "rollback"])
  /\ UNCHANGED <<rows, born, observed, trail, crossed, failures>>

(* The catch block: the price of before, whatever has been written since.  *)
RollBack(a) ==
  /\ At(a, "execute", "rollback")
  /\ SetPrice(a, requests[a].previous, None)

(* A statement fails: the request is answered with an error, but for the   *)
(* audit row, whose failure is logged and swallowed, and the row about a   *)
(* push, whose failure PushPrice covers.                                   *)
StatementFails(a) ==
  /\ requests[a] # None /\ ~At(a, "execute", "push")
  /\ failures < MaxFailures /\ failures' = failures + 1
  /\ Answer(a)
  /\ UNCHANGED <<rows, born, observed, trail, crossed>>

Ask(a) ==
  \/ \E sku \in Sku, input \in Input : Create(a, sku, input)
  \/ \E p \in born :
       \/ \E patch \in Patch : Update(a, p, patch)
       \/ Delete(a, p)
       \/ Simulate(a, p)
       \/ \E price \in Price : Execute(a, p, price)

Step(a) ==
  \/ FindBySku(a) \/ Insert(a) \/ AuditCreated(a)
  \/ FindToUpdate(a) \/ Write(a) \/ Reread(a)
  \/ FindToDelete(a) \/ Remove(a) \/ AuditDeleted(a)
  \/ FindToSimulate(a) \/ Observe(a) \/ AuditOther(a)
  \/ ReadContext(a) \/ WritePrice(a) \/ PushPrice(a) \/ RollBack(a)

Next == \E a \in Actor : Ask(a) \/ Step(a) \/ StatementFails(a)

Spec == Init /\ [][Next]_vars

-----------------------------------------------------------------------------
(* Properties. *)

(* A row keeps its rules, though a patch may name one side of them only    *)
(* and an execution writes a price twice (price above cost, level and      *)
(* status not in contradiction), as long as no edit, execution or rollback *)
(* wrote over a change it had not read: the gate reads the cost awaits     *)
(* before its write, and the write itself checks nothing.                  *)
RowsHoldTogether ==
  \A p \in Product :
    rows[p] # None /\ p \notin crossed =>
      /\ rows[p].price > rows[p].cost
      /\ rows[p].status = Derived(rows[p].level)

Quiet(p) ==
  \A a \in Actor : requests[a] # None /\ requests[a].at = "audit" => requests[a].product # p

Told(action, p) == {a \in Actor : <<action, p, a>> \in trail}

(* The audit trail names one member for each creation and each deletion,   *)
(* whoever else asked for it at the same time, and no other; and one for   *)
(* all of them, unless a write of it failed.                               *)
TrailTellsTheCatalog ==
  \A p \in Product :
    /\ Cardinality(Told("PRODUCT_CREATED", p)) <= 1
    /\ Cardinality(Told("PRODUCT_DELETED", p)) <= 1
    /\ Told("PRODUCT_DELETED", p) # {} => p \in born /\ rows[p] = None
    /\ failures = 0 /\ Quiet(p) /\ p \in born =>
         /\ Told("PRODUCT_CREATED", p) # {}
         /\ rows[p] = None => Told("PRODUCT_DELETED", p) # {}

(* product.service.ts: the status is "derived, never entered by hand, so   *)
(* level and status cannot contradict each other".                         *)
StatusNeverContradicts ==
  \A p \in Product : rows[p] # None => rows[p].status = Derived(rows[p].level)
=============================================================================

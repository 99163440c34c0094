----------------------------- MODULE CatalogProofs -----------------------------
(***************************************************************************)
(* A row of the catalog keeps its rules, for any number of members,        *)
(* products and patches, any prices and costs and any thresholds.          *)
(***************************************************************************)
EXTENDS Catalog, FiniteSetTheorems, TLAPS

(* What a request at a given statement carries. *)
LEMMA RequestShapes ==
  ASSUME TypeOK, NEW a \in Actor
  PROVE  /\ At(a, "create", "lookup") \/ At(a, "create", "insert") => requests[a] \in Creating
         /\ At(a, "update", "find")  => requests[a] \in Updating
         /\ At(a, "update", "write") => requests[a] \in Writing
         /\ At(a, "update", "reread") => requests[a] \in Acting
         /\ At(a, "delete", "find") \/ At(a, "delete", "remove") => requests[a] \in Acting
         /\ At(a, "simulate", "find") \/ At(a, "simulate", "insert") => requests[a] \in Acting
         /\ At(a, "create", "audit") \/ At(a, "delete", "audit") => requests[a] \in Auditing
         /\ At(a, "execute", "read") => requests[a] \in Executing
         /\ \A at \in {"write", "push", "rollback"} : At(a, "execute", at) => requests[a] \in Pricing
  <1> DEFINE r == requests[a]
  <1>1. r \in Request
    BY DEF TypeOK
  <1>2. CASE r = None
    BY <1>2 DEF At
  <1>3. CASE r \in Creating
    BY <1>3 DEF At, Creating
  <1>4. CASE r \in Updating
    BY <1>4 DEF At, Updating
  <1>5. CASE r \in Writing
    BY <1>5 DEF At, Writing
  <1>6. CASE r \in Acting
    BY <1>6 DEF At, Acting
  <1>7. CASE r \in Auditing
    BY <1>7 DEF At, Auditing
  <1>8. CASE r \in Executing
    BY <1>8 DEF At, Executing
  <1>9. CASE r \in Pricing
    BY <1>9 DEF At, Pricing
  <1>10. QED
    BY <1>1, <1>2, <1>3, <1>4, <1>5, <1>6, <1>7, <1>8, <1>9 DEF Request

LEMMA HoldersTyped ==
  ASSUME TypeOK, NEW a \in Actor, Holds(a)
  PROVE  /\ requests[a] \in Writing \cup Pricing
         /\ requests[a].product \in Product
         /\ [requests[a] EXCEPT !.stale = TRUE] \in Writing \cup Pricing
         /\ [requests[a] EXCEPT !.stale = TRUE].stale = TRUE
         /\ [requests[a] EXCEPT !.stale = TRUE].product = requests[a].product
         /\ [requests[a] EXCEPT !.stale = TRUE].op = requests[a].op
  <1>1. requests[a] \in Writing \/ requests[a] \in Pricing
    BY RequestShapes DEF Holds
  <1>2. QED
    BY <1>1 DEF Writing, Pricing

LEMMA DerivedStatus ==
  ASSUME NEW level
  PROVE  Derived(level) \in Status
  BY DEF Derived, Status

(* Marking a request as outdated keeps its type. *)
LEMMA OutdatedTyped ==
  ASSUME TypeOK, NEW p \in Product
  PROVE  Outdated(p) \in [Actor -> Request]
  <1> SUFFICES ASSUME NEW a \in Actor, Holds(a)
               PROVE  [requests[a] EXCEPT !.stale = TRUE] \in Request
    BY DEF Outdated, TypeOK
  <1> QED
    BY HoldersTyped DEF Request

LEMMA GoesTyped ==
  ASSUME TypeOK, NEW a \in Actor, NEW r \in Request, Goes(a, r)
  PROVE  requests' \in [Actor -> Request]
  BY DEF Goes, TypeOK

LEMMA AnswerTyped ==
  ASSUME TypeOK, NEW a \in Actor, Answer(a)
  PROVE  requests' \in [Actor -> Request]
  <1>1. None \in Request
    BY DEF Request
  <1>2. QED
    BY <1>1, GoesTyped DEF Answer

(* A step that only moves a request on. *)
LEMMA MovesTyped ==
  ASSUME TypeOK, requests' \in [Actor -> Request],
         UNCHANGED <<rows, born, observed, trail, crossed, failures>>
  PROVE  TypeOK'
  BY DEF TypeOK

LEMMA AskTyped ==
  ASSUME TypeOK, NEW a \in Actor, Ask(a)
  PROVE  TypeOK'
  <1>1. ASSUME NEW sku \in Sku, NEW input \in Input, Create(a, sku, input)
        PROVE  TypeOK'
    <2>1. [op |-> "create", at |-> "lookup", sku |-> sku, input |-> input] \in Request
      BY DEF Request, Creating
    <2>2. QED
      BY <1>1, <2>1, GoesTyped, MovesTyped DEF Create
  <1>2. ASSUME NEW p \in born, NEW patch \in Patch, Update(a, p, patch)
        PROVE  TypeOK'
    <2>1. [op |-> "update", at |-> "find", product |-> p, patch |-> patch] \in Request
      BY DEF Request, Updating, TypeOK
    <2>2. QED
      BY <1>2, <2>1, GoesTyped, MovesTyped DEF Update
  <1>3. ASSUME NEW p \in born, Delete(a, p)
        PROVE  TypeOK'
    <2>1. [op |-> "delete", at |-> "find", product |-> p] \in Request
      BY DEF Request, Acting, TypeOK
    <2>2. QED
      BY <1>3, <2>1, GoesTyped, MovesTyped DEF Delete
  <1>4. ASSUME NEW p \in born, Simulate(a, p)
        PROVE  TypeOK'
    <2>1. [op |-> "simulate", at |-> "find", product |-> p] \in Request
      BY DEF Request, Acting, TypeOK
    <2>2. QED
      BY <1>4, <2>1, GoesTyped, MovesTyped DEF Simulate
  <1>5. ASSUME NEW p \in born, NEW price \in Price, Execute(a, p, price)
        PROVE  TypeOK'
    <2>1. [op |-> "execute", at |-> "read", product |-> p, price |-> price] \in Request
      BY DEF Request, Executing, TypeOK
    <2>2. QED
      BY <1>5, <2>1, GoesTyped, MovesTyped DEF Execute
  <1>6. QED
    BY <1>1, <1>2, <1>3, <1>4, <1>5 DEF Ask

LEMMA CreateTyped ==
  ASSUME TypeOK, NEW a \in Actor, FindBySku(a) \/ Insert(a) \/ AuditCreated(a)
  PROVE  TypeOK'
  <1>1. CASE FindBySku(a)
    <2>1. requests[a] \in Creating
      BY <1>1, RequestShapes DEF FindBySku
    <2>2. [requests[a] EXCEPT !.at = "insert"] \in Request
      BY <2>1 DEF Creating, Request
    <2>3. QED
      BY <1>1, <2>2, GoesTyped, AnswerTyped, MovesTyped DEF FindBySku
  <1>2. CASE Insert(a)
    <2>1. requests[a] \in Creating
      BY <1>2, RequestShapes DEF Insert
    <2>2. CASE Answer(a) /\ UNCHANGED <<rows, born>>
      BY <1>2, <2>2, AnswerTyped, MovesTyped DEF Insert
    <2>3. ASSUME NEW p \in Product \ born,
                 rows' = [rows EXCEPT ![p] =
                   [sku |-> requests[a].sku, price |-> requests[a].input.price,
                    cost |-> requests[a].input.cost, level |-> requests[a].input.level,
                    status |-> Derived(requests[a].input.level)]],
                 born' = born \cup {p},
                 Goes(a, [op |-> "create", at |-> "audit", product |-> p])
          PROVE  TypeOK'
      <3>1. [op |-> "create", at |-> "audit", product |-> p] \in Request
        BY DEF Request, Auditing
      <3>2. requests' \in [Actor -> Request]
        BY <2>3, <3>1, GoesTyped
      <3>3. [sku |-> requests[a].sku, price |-> requests[a].input.price,
             cost |-> requests[a].input.cost, level |-> requests[a].input.level,
             status |-> Derived(requests[a].input.level)] \in Row
        BY <2>1, DerivedStatus, SchemaAssumption DEF Creating, Row
      <3>4. rows' \in [Product -> Row \cup {None}]
        BY <2>3, <3>3 DEF TypeOK
      <3>5. p \notin observed /\ \A q \in Product \ {p} : rows'[q] = rows[q]
        BY <2>3 DEF TypeOK
      <3>6. QED
        BY <1>2, <2>3, <3>2, <3>4, <3>5 DEF Insert, TypeOK
    <2>4. QED
      BY <1>2, <2>2, <2>3 DEF Insert
  <1>3. CASE AuditCreated(a)
    <2>1. requests[a].product \in Product
      BY <1>3, RequestShapes DEF AuditCreated, Auditing
    <2>2. QED
      BY <1>3, <2>1, AnswerTyped DEF AuditCreated, Record, Audit, TypeOK
  <1>4. QED
    BY <1>1, <1>2, <1>3

(* What an edit makes of a row. *)
Edited(row, change) ==
  [sku |-> row.sku, price |-> Merged(change.price, row.price), cost |-> Merged(change.cost, row.cost),
   level |-> Merged(change.level, row.level), status |-> change.status]

LEMMA EditedTyped ==
  ASSUME NEW row \in Row, NEW change \in Change
  PROVE  Edited(row, change) \in Row
  BY DEF Edited, Merged, Row, Change

LEMMA ChangedTyped ==
  ASSUME NEW patch \in Patch, NEW level
  PROVE  Changed(patch, Derived(level)) \in Change
  BY SchemaAssumption, DerivedStatus DEF Changed, Change

LEMMA UpdateTyped ==
  ASSUME TypeOK, NEW a \in Actor, FindToUpdate(a) \/ Write(a) \/ Reread(a)
  PROVE  TypeOK'
  <1>1. CASE FindToUpdate(a)
    <2> DEFINE patch == requests[a].patch
               p == requests[a].product
               change == Changed(patch, Derived(Merged(patch.level, rows[p].level)))
    <2>1. patch \in Patch /\ p \in Product
      BY <1>1, RequestShapes DEF FindToUpdate, Updating
    <2>2. change \in Change
      BY <2>1, ChangedTyped
    <2>3. [op |-> "update", at |-> "write", product |-> p, stale |-> FALSE, change |-> change] \in Request
      BY <2>1, <2>2 DEF Request, Writing
    <2>4. QED
      BY <1>1, <2>3, GoesTyped, AnswerTyped, MovesTyped DEF FindToUpdate
  <1>2. CASE Write(a)
    <2> DEFINE p == requests[a].product
               change == requests[a].change
    <2>1. p \in Product /\ change \in Change
      BY <1>2, RequestShapes DEF Write, Writing
    <2>2. CASE rows[p] = None
      BY <1>2, <2>2, AnswerTyped, MovesTyped DEF Write
    <2>3. CASE rows[p] # None
      <3>1. rows[p] \in Row /\ p \in born
        BY <2>1, <2>3 DEF TypeOK
      <3>2. rows' = [rows EXCEPT ![p] = Edited(rows[p], change)]
        BY <1>2, <2>3 DEF Write, Edited
      <3>3. /\ rows' \in [Product -> Row \cup {None}]
            /\ \A q \in Product : rows'[q] = None => rows[q] = None
        <4>1. Edited(rows[p], change) \in Row
          BY <2>1, <3>1, EditedTyped
        <4>2. QED
          BY <2>1, <3>2, <4>1, NoneAssumption DEF TypeOK
      <3>4. [op |-> "update", at |-> "reread", product |-> p] \in Request
        BY <2>1 DEF Request, Acting
      <3>5. requests' \in [Actor -> Request]
        BY <1>2, <2>1, <2>3, <3>4, OutdatedTyped DEF Write
      <3>6. \A q \in Product : q \notin born => rows'[q] = None
        BY <2>1, <3>1, <3>2 DEF TypeOK
      <3>7. QED
        BY <1>2, <2>3, <3>1, <3>3, <3>5, <3>6 DEF Write, TypeOK
    <2>4. QED
      BY <2>2, <2>3
  <1>3. CASE Reread(a)
    <2>1. requests[a] \in Acting
      BY <1>3, RequestShapes DEF Reread
    <2>2. [op |-> "update", at |-> "audit", product |-> requests[a].product] \in Request
      BY <2>1 DEF Acting, Request, Auditing
    <2>3. QED
      BY <1>3, <2>2, GoesTyped, AnswerTyped, MovesTyped DEF Reread
  <1>4. QED
    BY <1>1, <1>2, <1>3

LEMMA DeleteTyped ==
  ASSUME TypeOK, NEW a \in Actor, FindToDelete(a) \/ Remove(a) \/ AuditDeleted(a)
  PROVE  TypeOK'
  <1>1. CASE FindToDelete(a)
    <2>1. requests[a] \in Acting
      BY <1>1, RequestShapes DEF FindToDelete
    <2>2. [requests[a] EXCEPT !.at = "remove"] \in Request
      BY <1>1, <2>1 DEF FindToDelete, At, Acting, Request
    <2>3. QED
      BY <1>1, <2>2, GoesTyped, AnswerTyped, MovesTyped DEF FindToDelete
  <1>2. CASE Remove(a)
    <2>1. requests[a].product \in Product
      <3>1. requests[a] \in Acting
        BY <1>2, RequestShapes DEF Remove
      <3>2. QED
        BY <3>1 DEF Acting
    <2>2. [op |-> "delete", at |-> "audit", product |-> requests[a].product] \in Request
      BY <2>1 DEF Request, Auditing
    <2>3. requests' \in [Actor -> Request]
      BY <1>2, <2>2, GoesTyped, AnswerTyped DEF Remove, Removed
    <2>4. QED
      BY <1>2, <2>1, <2>3 DEF Remove, TypeOK
  <1>3. CASE AuditDeleted(a)
    <2>1. requests[a].product \in Product
      BY <1>3, RequestShapes DEF AuditDeleted, Auditing
    <2>2. QED
      BY <1>3, <2>1, AnswerTyped DEF AuditDeleted, Record, Audit, TypeOK
  <1>4. QED
    BY <1>1, <1>2, <1>3

LEMMA SimulateTyped ==
  ASSUME TypeOK, NEW a \in Actor, FindToSimulate(a) \/ Observe(a) \/ AuditOther(a)
  PROVE  TypeOK'
  <1>1. CASE FindToSimulate(a)
    <2>1. requests[a] \in Acting
      BY <1>1, RequestShapes DEF FindToSimulate
    <2>2. [requests[a] EXCEPT !.at = "insert"] \in Request
      BY <1>1, <2>1 DEF FindToSimulate, At, Acting, Request
    <2>3. QED
      BY <1>1, <2>2, GoesTyped, AnswerTyped, MovesTyped DEF FindToSimulate
  <1>2. CASE Observe(a)
    <2>1. requests[a].product \in Product
      <3>1. requests[a] \in Acting
        BY <1>2, RequestShapes DEF Observe
      <3>2. QED
        BY <3>1 DEF Acting
    <2>2. [op |-> "simulate", at |-> "audit", product |-> requests[a].product] \in Request
      BY <2>1 DEF Request, Auditing
    <2>3. requests' \in [Actor -> Request]
      BY <1>2, <2>2, GoesTyped, AnswerTyped DEF Observe
    <2>4. QED
      BY <1>2, <2>1, <2>3 DEF Observe, TypeOK
  <1>3. CASE AuditOther(a)
    BY <1>3, AnswerTyped, MovesTyped DEF AuditOther
  <1>4. QED
    BY <1>1, <1>2, <1>3

LEMMA PricedTyped ==
  ASSUME NEW row \in Row, NEW price \in Price
  PROVE  /\ [row EXCEPT !.price = price] \in Row /\ [row EXCEPT !.price = price] # None
         /\ [row EXCEPT !.price = price].price = price
         /\ [row EXCEPT !.price = price].cost = row.cost
         /\ [row EXCEPT !.price = price].level = row.level
         /\ [row EXCEPT !.price = price].status = row.status
  <1>1. [row EXCEPT !.price = price] \in Row
    BY DEF Row
  <1>2. QED
    BY <1>1, NoneAssumption DEF Row

LEMMA SetPriceTyped ==
  ASSUME TypeOK, NEW a \in Actor, requests[a].product \in Product,
         NEW price \in Price, NEW next \in Request, SetPrice(a, price, next)
  PROVE  TypeOK'
  <1> DEFINE p == requests[a].product
  <1>1. CASE rows[p] = None
    BY <1>1, GoesTyped, MovesTyped DEF SetPrice
  <1>2. CASE rows[p] # None
    <2>1. rows[p] \in Row /\ p \in born
      BY <1>2 DEF TypeOK
    <2>2. [rows[p] EXCEPT !.price = price] \in Row /\ [rows[p] EXCEPT !.price = price] # None
      BY <2>1, PricedTyped
    <2>3. requests' \in [Actor -> Request]
      BY <1>2, OutdatedTyped DEF SetPrice
    <2>4. QED
      BY <1>2, <2>1, <2>2, <2>3 DEF SetPrice, TypeOK
  <1>3. QED
    BY <1>1, <1>2

LEMMA ExecuteTyped ==
  ASSUME TypeOK, NEW a \in Actor, ReadContext(a) \/ WritePrice(a) \/ PushPrice(a) \/ RollBack(a)
  PROVE  TypeOK'
  <1>1. CASE ReadContext(a)
    <2> DEFINE p == requests[a].product
               price == requests[a].price
               next == [op |-> "execute", at |-> "write", product |-> p, price |-> price,
                        previous |-> rows[p].price, stale |-> FALSE]
    <2>1. p \in Product /\ price \in Price
      BY <1>1, RequestShapes DEF ReadContext, Executing
    <2>2. ASSUME rows[p] # None PROVE next \in Request
      <3>1. rows[p].price \in Price
        BY <2>1, <2>2 DEF TypeOK, Row
      <3>2. QED
        BY <2>1, <3>1 DEF Request, Pricing
    <2>3. QED
      BY <1>1, <2>2, GoesTyped, AnswerTyped, MovesTyped DEF ReadContext
  <1>2. CASE WritePrice(a)
    <2>1. requests[a] \in Pricing
      BY <1>2, RequestShapes DEF WritePrice
    <2>2. [requests[a] EXCEPT !.at = "push", !.stale = FALSE] \in Request
      BY <2>1 DEF Pricing, Request
    <2>3. QED
      BY <1>2, <2>1, <2>2, SetPriceTyped DEF WritePrice, Pricing
  <1>3. CASE PushPrice(a)
    <2>1. requests[a] \in Pricing
      BY <1>3, RequestShapes DEF PushPrice
    <2>2. [requests[a] EXCEPT !.at = "rollback"] \in Request
      BY <2>1 DEF Pricing, Request
    <2>3. QED
      BY <1>3, <2>2, GoesTyped, AnswerTyped, MovesTyped DEF PushPrice
  <1>4. CASE RollBack(a)
    <2>1. requests[a] \in Pricing
      BY <1>4, RequestShapes DEF RollBack
    <2>2. None \in Request
      BY DEF Request
    <2>3. QED
      BY <1>4, <2>1, <2>2, SetPriceTyped DEF RollBack, Pricing
  <1>5. QED
    BY <1>1, <1>2, <1>3, <1>4

LEMMA TypeStep ==
  ASSUME TypeOK, [Next]_vars
  PROVE  TypeOK'
  <1>1. ASSUME NEW a \in Actor, Ask(a)
        PROVE  TypeOK'
    BY <1>1, AskTyped
  <1>2. ASSUME NEW a \in Actor, Step(a)
        PROVE  TypeOK'
    BY <1>2, CreateTyped, UpdateTyped, DeleteTyped, SimulateTyped, ExecuteTyped DEF Step
  <1>3. ASSUME NEW a \in Actor, StatementFails(a)
        PROVE  TypeOK'
    <2>1. requests' \in [Actor -> Request] /\ failures' \in 0..MaxFailures
      BY <1>3, AnswerTyped, NumberAssumption DEF StatementFails, TypeOK
    <2>2. QED
      BY <1>3, <2>1 DEF StatementFails, TypeOK
  <1>4. CASE UNCHANGED vars
    BY <1>4 DEF vars, TypeOK
  <1>5. QED
    BY <1>1, <1>2, <1>3, <1>4 DEF Next

LEMMA TypeInit ==
  ASSUME Init
  PROVE  TypeOK
  BY NumberAssumption DEF Init, TypeOK, Request

(* Rows and requests are of their types whatever the members do.  (TypeOK: *)
(* product.service.ts, with rows born once and observed while they exist)  *)
THEOREM CatalogTypeCorrect == Spec => []TypeOK
  BY TypeInit, TypeStep, PTL DEF Spec

-----------------------------------------------------------------------------
(* A row that keeps the rules; and a request that is up to date would      *)
(* leave one: an edit on the merged row, an execution by its price and, if *)
(* the row it read kept them, by the price it goes back to.                *)
Keeps(row) == row.price > row.cost /\ row.status = Derived(row.level)

Ready(r, row, off) ==
  IF r.op = "update" THEN Keeps(Edited(row, r.change))
  ELSE (r.at = "write" => r.price > row.cost) /\ (off \/ r.previous > row.cost)

Fresh(a) == Holds(a) /\ ~requests[a].stale

Rules ==
  /\ \A p \in Product : rows[p] # None /\ p \notin crossed => Keeps(rows[p])
  /\ \A a \in Actor : Holds(a) => requests[a].product \in born
  /\ \A a \in Actor :
       Fresh(a) /\ rows[requests[a].product] # None =>
         Ready(requests[a], rows[requests[a].product], requests[a].product \in crossed)

(* A step by which a goes on, not to a write, and no row changes. *)
LEMMA MovesKeep ==
  ASSUME TypeOK, Rules, NEW a \in Actor, NEW r, Goes(a, r),
         r = None \/ r.at \notin {"write", "push", "rollback"},
         UNCHANGED <<rows, born, crossed>>
  PROVE  Rules'
  <1>1. \A b \in Actor : Holds(b)' => Holds(b) /\ requests'[b] = requests[b]
    BY DEF Goes, Holds, At, TypeOK
  <1>2. \A b \in Actor : Fresh(b)' => Fresh(b) /\ requests'[b] = requests[b]
    BY <1>1 DEF Fresh
  <1>3. QED
    BY <1>1, <1>2 DEF Rules

LEMMA AnswersKeep ==
  ASSUME TypeOK, Rules, NEW a \in Actor, Answer(a), UNCHANGED <<rows, born, crossed>>
  PROVE  Rules'
  BY MovesKeep DEF Answer

LEMMA AsksKeep ==
  ASSUME TypeOK, Rules, NEW a \in Actor, Ask(a)
  PROVE  Rules'
  <1>1. ASSUME NEW sku \in Sku, NEW input \in Input, Create(a, sku, input)
        PROVE  Rules'
    BY <1>1, MovesKeep DEF Create
  <1>2. ASSUME NEW p \in born, NEW patch \in Patch, Update(a, p, patch)
        PROVE  Rules'
    BY <1>2, MovesKeep DEF Update
  <1>3. ASSUME NEW p \in born, Delete(a, p)
        PROVE  Rules'
    BY <1>3, MovesKeep DEF Delete
  <1>4. ASSUME NEW p \in born, Simulate(a, p)
        PROVE  Rules'
    BY <1>4, MovesKeep DEF Simulate
  <1>5. ASSUME NEW p \in born, NEW price \in Price, Execute(a, p, price)
        PROVE  Rules'
    BY <1>5, MovesKeep DEF Execute
  <1>6. QED
    BY <1>1, <1>2, <1>3, <1>4, <1>5 DEF Ask

(* No row changes, and the one request that does is ready to write.        *)
LEMMA ReadyKeeps ==
  ASSUME TypeOK, Rules, NEW a \in Actor, UNCHANGED <<rows, born, crossed>>,
         NEW p \in born, NEW r, Goes(a, r), r.product = p,
         rows[p] # None /\ ~r.stale => Ready(r, rows[p], p \in crossed)
  PROVE  Rules'
  <1>1. requests'[a] = r /\ \A b \in Actor \ {a} : requests'[b] = requests[b]
    BY DEF Goes, TypeOK
  <1>2. \A b \in Actor \ {a} : (Holds(b)' <=> Holds(b)) /\ (Fresh(b)' <=> Fresh(b))
    BY <1>1 DEF Holds, Fresh, At
  <1>3. \A b \in Actor : Holds(b)' => requests'[b].product \in born'
    BY <1>1, <1>2 DEF Rules
  <1>4. Fresh(a)' => ~r.stale
    BY <1>1 DEF Fresh
  <1>5. \A b \in Actor : Fresh(b)' /\ rows'[requests'[b].product] # None =>
          Ready(requests'[b], rows'[requests'[b].product], requests'[b].product \in crossed')
    BY <1>1, <1>2, <1>4 DEF Rules
  <1>6. QED
    BY <1>3, <1>5 DEF Rules

LEMMA InsertKeeps ==
  ASSUME TypeOK, Rules, NEW a \in Actor, Insert(a)
  PROVE  Rules'
  <1>1. requests[a] \in Creating
    BY RequestShapes DEF Insert
  <1>2. CASE Answer(a) /\ UNCHANGED <<rows, born>>
    BY <1>2, AnswersKeep DEF Insert
  <1> DEFINE input == requests[a].input
             row == [sku |-> requests[a].sku, price |-> input.price, cost |-> input.cost,
                     level |-> input.level, status |-> Derived(input.level)]
  <1>3. ASSUME NEW p \in Product \ born,
               rows' = [rows EXCEPT ![p] = row],
               born' = born \cup {p},
               Goes(a, [op |-> "create", at |-> "audit", product |-> p])
        PROVE  Rules'
    <2>1. Keeps(row)
      BY <1>1, SchemaAssumption DEF Keeps, Creating
    <2>2. \A b \in Actor : Holds(b)' =>
            Holds(b) /\ requests'[b] = requests[b] /\ requests[b].product # p
      BY <1>3 DEF Goes, Holds, At, TypeOK, Rules
    <2> HIDE DEF row
    <2>3. \A q \in Product : rows'[q] = IF q = p THEN row ELSE rows[q]
      BY <1>3 DEF TypeOK
    <2>4. born \subseteq Product /\ crossed' = crossed
      BY DEF TypeOK, Insert
    <2>5. \A q \in Product : rows'[q] # None /\ q \notin crossed' => Keeps(rows'[q])
      BY <2>1, <2>3, <2>4 DEF Rules
    <2>6. \A b \in Actor : Holds(b)' => requests'[b].product \in born'
      BY <1>3, <2>2 DEF Rules
    <2>7. ASSUME NEW b \in Actor, Fresh(b)', rows'[requests'[b].product] # None
          PROVE  Ready(requests'[b], rows'[requests'[b].product], requests'[b].product \in crossed')
      <3>1. Fresh(b) /\ requests'[b] = requests[b] /\ requests[b].product # p
        BY <2>2, <2>7 DEF Fresh
      <3>2. requests[b].product \in Product
        BY <3>1, <2>4 DEF Fresh, Rules
      <3>3. QED
        BY <2>3, <2>4, <2>7, <3>1, <3>2 DEF Rules
    <2>8. QED
      BY <2>5, <2>6, <2>7 DEF Rules
  <1>4. QED
    BY <1>2, <1>3 DEF Insert

(* An edit is held to the rules on the row it read, merged with it. *)
LEMMA FindKeeps ==
  ASSUME TypeOK, Rules, NEW a \in Actor, FindToUpdate(a)
  PROVE  Rules'
  <1> DEFINE patch == requests[a].patch
             p == requests[a].product
             before == rows[p]
             change == Changed(patch, Derived(Merged(patch.level, before.level)))
             r == [op |-> "update", at |-> "write", product |-> p, stale |-> FALSE, change |-> change]
  <1>1. CASE Answer(a)
    BY <1>1, AnswersKeep DEF FindToUpdate
  <1>2. CASE /\ before # None
             /\ ~(Merged(patch.price, before.price) <= Merged(patch.cost, before.cost))
             /\ Goes(a, r)
    <2>1. patch \in Patch /\ p \in Product
      BY RequestShapes DEF FindToUpdate, Updating
    <2>2. before \in Row /\ p \in born
      BY <1>2, <2>1 DEF TypeOK
    <2>3. Merged(patch.price, before.price) \in Int /\ Merged(patch.cost, before.cost) \in Int
      BY <2>1, <2>2, NumberAssumption, SchemaAssumption DEF Merged, Row
    <2>4. Merged(patch.price, before.price) > Merged(patch.cost, before.cost)
      BY <1>2, <2>3
    <2>5. Keeps(Edited(before, change))
      BY <2>4 DEF Keeps, Edited, Changed
    <2>6. r.product = p /\ Ready(r, before, p \in crossed)
      BY <2>5 DEF Ready
    <2>7. UNCHANGED <<rows, born, crossed>>
      BY DEF FindToUpdate
    <2>8. QED
      BY <1>2, <2>2, <2>6, <2>7, ReadyKeeps
  <1>3. QED
    BY <1>1, <1>2 DEF FindToUpdate

(* The gate's verdict on the row it read, and the price to go back to.     *)
LEMMA GateKeeps ==
  ASSUME TypeOK, Rules, NEW a \in Actor, ReadContext(a)
  PROVE  Rules'
  <1> DEFINE p == requests[a].product
             price == requests[a].price
             r == [op |-> "execute", at |-> "write", product |-> p, price |-> price,
                   previous |-> rows[p].price, stale |-> FALSE]
  <1>1. CASE Answer(a)
    BY <1>1, AnswersKeep DEF ReadContext
  <1>2. CASE rows[p] # None /\ ~(price <= rows[p].cost) /\ Goes(a, r)
    <2>1. p \in Product /\ price \in Int
      BY RequestShapes, NumberAssumption DEF ReadContext, Executing
    <2>2. rows[p] \in Row /\ p \in born
      BY <1>2, <2>1 DEF TypeOK
    <2>3. price > rows[p].cost
      <3>1. rows[p].cost \in Int
        BY <2>2, NumberAssumption DEF Row
      <3>2. QED
        BY <1>2, <2>1, <3>1
    <2>4. p \in crossed \/ rows[p].price > rows[p].cost
      BY <1>2, <2>1 DEF Rules, Keeps
    <2>5. r.product = p /\ Ready(r, rows[p], p \in crossed)
      BY <2>3, <2>4 DEF Ready
    <2>6. UNCHANGED <<rows, born, crossed>>
      BY DEF ReadContext
    <2>7. QED
      BY <1>2, <2>2, <2>5, <2>6, ReadyKeeps
  <1>3. QED
    BY <1>1, <1>2 DEF ReadContext

LEMMA PushKeeps ==
  ASSUME TypeOK, Rules, NEW a \in Actor, PushPrice(a)
  PROVE  Rules'
  <1> DEFINE p == requests[a].product
             r == [requests[a] EXCEPT !.at = "rollback"]
  <1>1. requests[a] \in Pricing /\ UNCHANGED <<rows, born, crossed>> /\ Holds(a)
    BY RequestShapes DEF PushPrice, Holds
  <1>2. CASE Answer(a)
    BY <1>1, <1>2, AnswersKeep
  <1>3. CASE Goes(a, r)
    <2>1. /\ r.product = p /\ r.at = "rollback" /\ r.op = "execute" /\ requests[a].op = "execute"
          /\ r.stale = requests[a].stale /\ r.previous = requests[a].previous
      BY <1>1 DEF Pricing
    <2>2. p \in born
      BY <1>1 DEF Rules
    <2>3. rows[p] # None /\ ~r.stale => Ready(r, rows[p], p \in crossed)
      BY <1>1, <2>1 DEF Rules, Fresh, Ready
    <2> HIDE DEF r
    <2>4. QED
      BY <1>1, <1>3, <2>1, <2>2, <2>3, ReadyKeeps
  <1>4. QED
    BY <1>2, <1>3 DEF PushPrice

(* After a write to p, only requests about other products are up to date.  *)
LEMMA OutdatedFresh ==
  ASSUME TypeOK, NEW p \in Product, NEW b \in Actor,
         requests'[b] = Outdated(p)[b], Holds(b)'
  PROVE  /\ Holds(b)
         /\ requests'[b].product = requests[b].product
         /\ Fresh(b)' => Fresh(b) /\ requests'[b] = requests[b] /\ requests[b].product # p
  <1>1. CASE Holds(b) /\ requests[b].product = p
    <2>1. requests'[b] = [requests[b] EXCEPT !.stale = TRUE]
      BY <1>1 DEF Outdated
    <2>2. requests'[b].stale = TRUE /\ requests'[b].product = requests[b].product
      BY <1>1, <2>1, HoldersTyped
    <2>3. QED
      BY <1>1, <2>2 DEF Fresh
  <1>2. CASE ~(Holds(b) /\ requests[b].product = p)
    <2>1. requests'[b] = requests[b]
      BY <1>2 DEF Outdated
    <2>2. QED
      BY <1>2, <2>1 DEF Fresh, Holds, At
  <1>3. QED
    BY <1>1, <1>2

(* A row is written: if it keeps the rules then, or its product is marked, *)
(* and the other requests about it are outdated, the rules hold on.        *)
LEMMA WrittenKeep ==
  ASSUME TypeOK, Rules, NEW p \in Product, NEW row,
         rows' = [rows EXCEPT ![p] = row],
         born' = born, p \in born,
         crossed' = crossed \/ crossed' = crossed \cup {p},
         p \in crossed' \/ Keeps(row),
         \A b \in Actor : Holds(b)' =>
           \/ requests'[b] = Outdated(p)[b]
           \/ requests'[b].product = p /\ Ready(requests'[b], row, p \in crossed')
  PROVE  Rules'
  <1>1. \A q \in Product \ {p} : rows'[q] = rows[q]
    BY DEF TypeOK
  <1>2. rows'[p] = row
    BY DEF TypeOK
  <1>3. \A q \in Product : rows'[q] # None /\ q \notin crossed' => Keeps(rows'[q])
    BY <1>1, <1>2 DEF Rules
  <1>4. \A b \in Actor : Holds(b)' => requests'[b].product \in born'
    BY OutdatedFresh DEF Rules
  <1>5. ASSUME NEW b \in Actor, Fresh(b)', rows'[requests'[b].product] # None
        PROVE  Ready(requests'[b], rows'[requests'[b].product], requests'[b].product \in crossed')
    <2>1. Holds(b)'
      BY <1>5 DEF Fresh
    <2>2. CASE requests'[b] = Outdated(p)[b]
      <3>1. Fresh(b) /\ requests'[b] = requests[b] /\ requests[b].product # p
        BY <1>5, <2>1, <2>2, OutdatedFresh
      <3>2. requests[b].product \in Product
        BY <3>1 DEF Fresh, Rules, TypeOK
      <3>3. /\ rows'[requests[b].product] = rows[requests[b].product]
            /\ requests[b].product \in crossed' <=> requests[b].product \in crossed
        BY <1>1, <3>1, <3>2
      <3>4. QED
        BY <1>5, <3>1, <3>3 DEF Rules
    <2>3. CASE requests'[b].product = p /\ Ready(requests'[b], row, p \in crossed')
      BY <1>2, <2>3
    <2>4. QED
      BY <2>1, <2>2, <2>3
  <1>6. QED
    BY <1>3, <1>4, <1>5 DEF Rules

LEMMA WriteKeeps ==
  ASSUME TypeOK, Rules, NEW a \in Actor, Write(a)
  PROVE  Rules'
  <1> DEFINE p == requests[a].product
             change == requests[a].change
  <1>1. CASE rows[p] = None
    BY <1>1, AnswersKeep DEF Write
  <1>2. CASE rows[p] # None
    <2>1. requests[a] \in Writing /\ At(a, "update", "write") /\ Holds(a)
      BY RequestShapes DEF Write, Holds
    <2>2. p \in Product /\ requests[a].stale \in BOOLEAN /\ requests[a].op = "update" /\ p \in born
      BY <2>1 DEF Writing, Rules
    <2>3. rows' = [rows EXCEPT ![p] = Edited(rows[p], change)] /\ born' = born
      BY <1>2 DEF Write, Edited
    <2>4. crossed' = IF requests[a].stale THEN crossed \cup {p} ELSE crossed
      BY <1>2 DEF Write
    <2>5. p \in crossed' \/ Keeps(Edited(rows[p], change))
      BY <1>2, <2>1, <2>2, <2>4 DEF Rules, Fresh, Ready
    <2>6. requests' = [Outdated(p) EXCEPT ![a] = [op |-> "update", at |-> "reread", product |-> p]]
      BY <1>2 DEF Write
    <2>7. \A b \in Actor : Holds(b)' => requests'[b] = Outdated(p)[b]
      BY <2>6 DEF Holds, At, Outdated
    <2>8. QED
      BY <2>2, <2>3, <2>4, <2>5, <2>7, WrittenKeep
  <1>3. QED
    BY <1>1, <1>2

(* The local write leaves the price its gate found above the cost, and the *)
(* rollback one that was above it.                                         *)
LEMMA SetPriceKeeps ==
  ASSUME TypeOK, Rules, NEW a \in Actor, Holds(a), requests[a].op = "execute",
         NEW price \in Price, NEW next, SetPrice(a, price, next),
         rows[requests[a].product] # None /\ Fresh(a) =>
           requests[a].product \in crossed \/ price > rows[requests[a].product].cost,
         next = None \/ next = [requests[a] EXCEPT !.at = "push", !.stale = FALSE]
  PROVE  Rules'
  <1> DEFINE p == requests[a].product
             row == [rows[p] EXCEPT !.price = price]
  <1>1. requests[a] \in Pricing /\ p \in born /\ p \in Product
    BY HoldersTyped DEF Writing, Rules
  <1>2. next # None =>
          /\ next.product = p /\ next.at = "push" /\ next.op = "execute"
          /\ next.previous = requests[a].previous
    BY <1>1 DEF Pricing
  <1>3. CASE rows[p] = None
    <2>1. Goes(a, next) /\ UNCHANGED <<rows, born, crossed>>
      BY <1>3 DEF SetPrice
    <2>2. QED
      BY <1>1, <1>2, <1>3, <2>1, MovesKeep, ReadyKeeps
  <1>4. CASE rows[p] # None
    <2>1. row.cost = rows[p].cost /\ row.price = price /\ row.level = rows[p].level /\ row.status = rows[p].status
      BY <1>1, <1>4, PricedTyped DEF TypeOK
    <2>2. /\ rows' = [rows EXCEPT ![p] = row] /\ born' = born
          /\ crossed' = IF requests[a].stale THEN crossed \cup {p} ELSE crossed
          /\ requests' = [Outdated(p) EXCEPT ![a] = next]
      BY <1>4 DEF SetPrice
    <2>3. p \in crossed' \/ Fresh(a)
      BY <2>2 DEF Fresh
    <2>4. p \in crossed' \/ Keeps(row)
      <3>1. CASE p \in crossed'
        BY <3>1
      <3>2. CASE p \notin crossed' /\ Fresh(a)
        <4>1. p \notin crossed
          BY <2>2, <3>2
        <4>2. price > rows[p].cost /\ Keeps(rows[p])
          BY <1>1, <1>4, <3>2, <4>1 DEF Rules
        <4>3. QED
          BY <2>1, <4>2 DEF Keeps
      <3>3. QED
        BY <2>3, <3>1, <3>2
    <2>5. p \in crossed' \/ requests[a].previous > rows[p].cost
      BY <1>4, <2>2, <2>3 DEF Rules, Ready
    <2>6. next # None => Ready(next, row, p \in crossed')
      BY <1>2, <2>1, <2>5 DEF Ready
    <2>7. requests'[a] = next /\ \A b \in Actor \ {a} : requests'[b] = Outdated(p)[b]
      BY <2>2 DEF Outdated
    <2>8. ASSUME NEW b \in Actor, Holds(b)'
          PROVE  \/ requests'[b] = Outdated(p)[b]
                 \/ requests'[b].product = p /\ Ready(requests'[b], row, p \in crossed')
      <3>1. requests'[b] # None
        BY <2>8 DEF Holds, At
      <3>2. QED
        BY <1>2, <2>6, <2>7, <3>1
    <2> HIDE DEF row
    <2>9. QED
      BY <1>1, <2>2, <2>4, <2>8, WrittenKeep
  <1>5. QED
    BY <1>3, <1>4

LEMMA ExecuteKeeps ==
  ASSUME TypeOK, Rules, NEW a \in Actor, WritePrice(a) \/ RollBack(a)
  PROVE  Rules'
  <1> DEFINE p == requests[a].product
  <1>1. Holds(a) /\ requests[a] \in Pricing
    BY RequestShapes DEF WritePrice, RollBack, Holds
  <1>2. requests[a].op = "execute" /\ requests[a].price \in Price /\ requests[a].previous \in Price
    BY <1>1 DEF Pricing
  <1>3. rows[p] # None /\ Fresh(a) =>
          /\ At(a, "execute", "write") => requests[a].price > rows[p].cost
          /\ p \in crossed \/ requests[a].previous > rows[p].cost
    BY <1>2 DEF Rules, Ready, At
  <1>4. QED
    BY <1>1, <1>2, <1>3, SetPriceKeeps DEF WritePrice, RollBack

LEMMA RemoveKeeps ==
  ASSUME TypeOK, Rules, NEW a \in Actor, Remove(a)
  PROVE  Rules'
  <1>1. PICK r : Goes(a, r) /\ (r = None \/ r.at = "audit")
    BY DEF Remove, Removed, Answer
  <1>2. \A b \in Actor : Holds(b)' => Holds(b) /\ requests'[b] = requests[b]
    BY <1>1 DEF Goes, Holds, At, TypeOK
  <1>3. \A q \in Product : rows'[q] # None => rows'[q] = rows[q]
    BY DEF Remove, TypeOK
  <1>4. UNCHANGED <<born, crossed>> /\ born \subseteq Product
    BY DEF Remove, TypeOK
  <1>5. \A b \in Actor : Fresh(b)' => Fresh(b) /\ requests'[b] = requests[b] /\ requests[b].product \in Product
    BY <1>2, <1>4 DEF Fresh, Rules
  <1>6. QED
    BY <1>2, <1>3, <1>4, <1>5 DEF Rules

LEMMA RulesStep ==
  ASSUME TypeOK, Rules, [Next]_vars
  PROVE  Rules'
  <1>1. ASSUME NEW a \in Actor, Ask(a)
        PROVE  Rules'
    BY <1>1, AsksKeep
  <1>2. ASSUME NEW a \in Actor, Step(a)
        PROVE  Rules'
    <2>1. CASE FindBySku(a)
      <3>1. requests[a] \in Creating
        BY <2>1, RequestShapes DEF FindBySku
      <3>2. [requests[a] EXCEPT !.at = "insert"].at = "insert"
        BY <3>1 DEF Creating
      <3>3. QED
        BY <2>1, <3>2, MovesKeep, AnswersKeep DEF FindBySku
    <2>2. CASE AuditCreated(a) \/ AuditDeleted(a) \/ AuditOther(a)
      BY <2>2, AnswersKeep DEF AuditCreated, AuditDeleted, AuditOther
    <2>3. CASE Reread(a)
      BY <2>3, MovesKeep, AnswersKeep DEF Reread
    <2>4. CASE FindToDelete(a)
      <3>1. requests[a] \in Acting
        BY <2>4, RequestShapes DEF FindToDelete
      <3>2. [requests[a] EXCEPT !.at = "remove"].at = "remove"
        BY <3>1 DEF Acting
      <3>3. QED
        BY <2>4, <3>2, MovesKeep, AnswersKeep DEF FindToDelete
    <2>5. CASE FindToSimulate(a)
      <3>1. requests[a] \in Acting
        BY <2>5, RequestShapes DEF FindToSimulate
      <3>2. [requests[a] EXCEPT !.at = "insert"].at = "insert"
        BY <3>1 DEF Acting
      <3>3. QED
        BY <2>5, <3>2, MovesKeep, AnswersKeep DEF FindToSimulate
    <2>6. CASE Observe(a)
      BY <2>6, MovesKeep, AnswersKeep DEF Observe
    <2>7. QED
      BY <1>2, <2>1, <2>2, <2>3, <2>4, <2>5, <2>6, InsertKeeps, FindKeeps, WriteKeeps, RemoveKeeps,
         GateKeeps, PushKeeps, ExecuteKeeps DEF Step
  <1>3. ASSUME NEW a \in Actor, StatementFails(a)
        PROVE  Rules'
    BY <1>3, AnswersKeep DEF StatementFails
  <1>4. CASE UNCHANGED vars
    BY <1>4 DEF vars, Rules, Fresh, Holds, At
  <1>5. QED
    BY <1>1, <1>2, <1>3, <1>4 DEF Next

LEMMA RulesInit ==
  ASSUME Init
  PROVE  Rules
  BY DEF Init, Rules, Fresh, Holds, At

(* Price stays above cost, and level and status agree, in every row over   *)
(* which no edit, execution or rollback wrote what it had not read: a      *)
(* patch that names one side of a rule is held to it on the merged row,    *)
(* and an execution and its rollback to the cost the gate read.            *)
(* (RowsHoldTogether: updateProduct, the schema of creations and           *)
(* executeRecommendation)                                                  *)
THEOREM RowsKeepTheRules == Spec => []RowsHoldTogether
  <1>1. Init => TypeOK /\ Rules
    BY TypeInit, RulesInit
  <1>2. TypeOK /\ Rules /\ [Next]_vars => TypeOK' /\ Rules'
    BY TypeStep, RulesStep
  <1>3. Rules => RowsHoldTogether
    BY DEF Rules, Keeps, RowsHoldTogether
  <1>4. QED
    BY <1>1, <1>2, <1>3, PTL DEF Spec

-----------------------------------------------------------------------------
(* Who has told, or is about to tell, of a creation or a deletion of p.    *)
Telling(a, op, p) == At(a, op, "audit") /\ requests[a].product = p

Teller(a, action, op, p) == <<action, p, a>> \in trail \/ Telling(a, op, p)

Creator(a, p) == Teller(a, "PRODUCT_CREATED", "create", p)
Deleter(a, p) == Teller(a, "PRODUCT_DELETED", "delete", p)

(* One member tells of each creation and of each deletion, and of no       *)
(* other; all are told of or about to be, as long as no statement failed.  *)
Accounts ==
  \A p \in Product :
    /\ \A a, b \in Actor : Creator(a, p) /\ Creator(b, p) => a = b
    /\ \A a, b \in Actor : Deleter(a, p) /\ Deleter(b, p) => a = b
    /\ \A a \in Actor : Creator(a, p) => p \in born
    /\ \A a \in Actor : Deleter(a, p) => p \in born /\ rows[p] = None
    /\ failures = 0 /\ p \in born =>
         /\ \E a \in Actor : Creator(a, p)
         /\ rows[p] = None => \E a \in Actor : Deleter(a, p)

(* A step that tells nothing, and neither makes nor removes a product. *)
LEMMA AccountsStay ==
  ASSUME Accounts, UNCHANGED <<born, trail, failures>>,
         \A p \in Product : (rows'[p] = None) <=> (rows[p] = None),
         \A b \in Actor, op \in {"create", "delete"}, p \in Product :
           Telling(b, op, p)' <=> Telling(b, op, p)
  PROVE  Accounts'
  <1>1. \A b \in Actor, p \in Product : /\ Creator(b, p)' <=> Creator(b, p)
                                        /\ Deleter(b, p)' <=> Deleter(b, p)
    BY DEF Creator, Deleter, Teller
  <1>2. QED
    BY <1>1 DEF Accounts

(* In particular one that only moves a request on. *)
LEMMA AccountsMove ==
  ASSUME TypeOK, Accounts, NEW a \in Actor, NEW r, Goes(a, r),
         ~At(a, "create", "audit"), ~At(a, "delete", "audit"),
         r = None \/ r.at # "audit" \/ r.op \notin {"create", "delete"},
         UNCHANGED <<rows, born, trail, failures>>
  PROVE  Accounts'
  <1>1. requests'[a] = r /\ \A b \in Actor \ {a} : requests'[b] = requests[b]
    BY DEF Goes, TypeOK
  <1>2. \A b \in Actor, op \in {"create", "delete"}, p \in Product :
          Telling(b, op, p)' <=> Telling(b, op, p)
    BY <1>1 DEF Telling, At
  <1>3. QED
    BY <1>2, AccountsStay

LEMMA AccountsAsk ==
  ASSUME TypeOK, Accounts, NEW a \in Actor, Ask(a)
  PROVE  Accounts'
  <1>1. requests[a] = None /\ UNCHANGED <<rows, born, trail, failures>>
    BY DEF Ask, Create, Update, Delete, Simulate, Execute
  <1>2. PICK r : Goes(a, r) /\ r.at # "audit"
    <2>1. ASSUME NEW sku, NEW input, Create(a, sku, input)
          PROVE  \E r : Goes(a, r) /\ r.at # "audit"
      BY <2>1 DEF Create
    <2>2. ASSUME NEW p, NEW patch, Update(a, p, patch)
          PROVE  \E r : Goes(a, r) /\ r.at # "audit"
      BY <2>2 DEF Update
    <2>3. ASSUME NEW p, Delete(a, p) \/ Simulate(a, p)
          PROVE  \E r : Goes(a, r) /\ r.at # "audit"
      BY <2>3 DEF Delete, Simulate
    <2>4. ASSUME NEW p, NEW price, Execute(a, p, price)
          PROVE  \E r : Goes(a, r) /\ r.at # "audit"
      BY <2>4 DEF Execute
    <2>5. QED
      BY <2>1, <2>2, <2>3, <2>4 DEF Ask
  <1>3. QED
    BY <1>1, <1>2, AccountsMove DEF At

LEMMA AuditingIs ==
  ASSUME NEW op \in {"create", "delete"}, NEW p \in Product
  PROVE  [op |-> op, at |-> "audit", product |-> p] # None
  <1>1. [op |-> op, at |-> "audit", product |-> p] \in Auditing
    BY DEF Auditing
  <1>2. QED
    BY <1>1, NoneAssumption

(* Creating: an id is handed out once. *)
LEMMA AccountsInsert ==
  ASSUME TypeOK, Accounts, NEW a \in Actor, Insert(a)
  PROVE  Accounts'
  <1>1. CASE Answer(a) /\ UNCHANGED <<rows, born>>
    BY <1>1, AccountsMove DEF Insert, Answer, At
  <1> DEFINE row == [sku |-> requests[a].sku, price |-> requests[a].input.price,
                     cost |-> requests[a].input.cost, level |-> requests[a].input.level,
                     status |-> Derived(requests[a].input.level)]
             r(p) == [op |-> "create", at |-> "audit", product |-> p]
  <1>2. ASSUME NEW p \in Product \ born, rows' = [rows EXCEPT ![p] = row],
               born' = born \cup {p}, Goes(a, r(p))
        PROVE  Accounts'
    <2>1. row \in Row /\ row # None
      <3>1. requests[a] \in Creating
        BY RequestShapes DEF Insert
      <3>2. row \in Row
        BY <3>1, DerivedStatus, SchemaAssumption DEF Creating, Row
      <3>3. QED
        BY <3>2, NoneAssumption
    <2> HIDE DEF row
    <2>2. /\ rows'[p] # None /\ \A q \in Product \ {p} : rows'[q] = rows[q]
          /\ UNCHANGED <<trail, failures>>
      BY <1>2, <2>1 DEF Insert, TypeOK
    <2>3. requests'[a] = r(p) /\ \A b \in Actor \ {a} : requests'[b] = requests[b]
      BY <1>2 DEF Goes, TypeOK
    <2>4. r(p) # None /\ r(p).op = "create" /\ r(p).at = "audit" /\ r(p).product = p
      BY AuditingIs
    <2>5. Telling(a, "create", p)' /\ \A q \in Product \ {p} : ~Telling(a, "create", q)'
      BY <2>3, <2>4 DEF Telling, At
    <2>6. \A q \in Product : ~Telling(a, "create", q) /\ ~Telling(a, "delete", q)
                              /\ ~Telling(a, "delete", q)'
      BY <2>3, <2>4 DEF Telling, At, Insert
    <2>7. \A b \in Actor \ {a}, op \in {"create", "delete"}, q \in Product :
            Telling(b, op, q)' <=> Telling(b, op, q)
      BY <2>3 DEF Telling, At
    <2>8. \A b \in Actor, q \in Product : Deleter(b, q)' <=> Deleter(b, q)
      BY <2>2, <2>6, <2>7 DEF Deleter, Teller
    <2>9. \A b \in Actor, q \in Product : Creator(b, q)' <=> Creator(b, q) \/ (b = a /\ q = p)
      BY <2>2, <2>5, <2>6, <2>7 DEF Creator, Teller
    <2>10. \A b \in Actor : ~Creator(b, p) /\ ~Deleter(b, p)
      BY <1>2 DEF Accounts
    <2>11. QED
      BY <1>2, <2>2, <2>8, <2>9, <2>10 DEF Accounts
  <1>3. QED
    BY <1>1, <1>2 DEF Insert

(* Deleting: of two deletions one finds no row. *)
LEMMA AccountsRemove ==
  ASSUME TypeOK, Accounts, NEW a \in Actor, Remove(a)
  PROVE  Accounts'
  <1>1. PICK p \in Product : p = requests[a].product
    BY RequestShapes DEF Remove, Acting
  <1>2. /\ rows'[p] = None /\ \A q \in Product \ {p} : rows'[q] = rows[q]
        /\ UNCHANGED <<born, trail, failures>>
    BY <1>1 DEF Remove, TypeOK
  <1>3. CASE rows[p] = None
    <2>1. rows' = rows
      BY <1>1, <1>3 DEF Remove, TypeOK
    <2>2. QED
      BY <1>1, <1>2, <1>3, <2>1, AccountsMove DEF Remove, Answer, At
  <1>4. CASE rows[p] # None
    <2> DEFINE r == [op |-> "delete", at |-> "audit", product |-> p]
    <2>1. requests'[a] = r /\ \A b \in Actor \ {a} : requests'[b] = requests[b]
      BY <1>1, <1>4 DEF Remove, Removed, Goes, TypeOK
    <2>2. r # None /\ r.op = "delete" /\ r.at = "audit" /\ r.product = p
      BY AuditingIs
    <2>3. Telling(a, "delete", p)' /\ \A q \in Product \ {p} : ~Telling(a, "delete", q)'
      BY <2>1, <2>2 DEF Telling, At
    <2>4. \A q \in Product : ~Telling(a, "create", q) /\ ~Telling(a, "delete", q)
                              /\ ~Telling(a, "create", q)'
      BY <2>1, <2>2 DEF Telling, At, Remove
    <2>5. \A b \in Actor \ {a}, op \in {"create", "delete"}, q \in Product :
            Telling(b, op, q)' <=> Telling(b, op, q)
      BY <2>1 DEF Telling, At
    <2>6. \A b \in Actor, q \in Product : Creator(b, q)' <=> Creator(b, q)
      BY <1>2, <2>4, <2>5 DEF Creator, Teller
    <2>7. \A b \in Actor, q \in Product : Deleter(b, q)' <=> Deleter(b, q) \/ (b = a /\ q = p)
      BY <1>2, <2>3, <2>4, <2>5 DEF Deleter, Teller
    <2>8. p \in born /\ \A b \in Actor : ~Deleter(b, p)
      BY <1>4 DEF Accounts, TypeOK
    <2>9. QED
      BY <1>2, <2>6, <2>7, <2>8 DEF Accounts
  <1>5. QED
    BY <1>3, <1>4

(* Telling: the row in the trail is the teller's, who is done. *)
LEMMA AccountsRecord ==
  ASSUME TypeOK, Accounts, NEW a \in Actor, AuditCreated(a) \/ AuditDeleted(a)
  PROVE  Accounts'
  <1>1. requests'[a] = None /\ (\A b \in Actor \ {a} : requests'[b] = requests[b])
        /\ UNCHANGED <<rows, born, failures>>
    BY DEF AuditCreated, AuditDeleted, Answer, Goes, TypeOK
  <1>2. \A b \in Actor, p \in Product : /\ Creator(b, p)' <=> Creator(b, p)
                                        /\ Deleter(b, p)' <=> Deleter(b, p)
    <2> SUFFICES ASSUME NEW b \in Actor, NEW p \in Product
                 PROVE  /\ Creator(b, p)' <=> Creator(b, p)
                        /\ Deleter(b, p)' <=> Deleter(b, p)
      OBVIOUS
    <2>1. CASE AuditCreated(a)
      BY <2>1, <1>1 DEF AuditCreated, Record, Creator, Deleter, Teller, Telling, At
    <2>2. CASE AuditDeleted(a)
      BY <2>2, <1>1 DEF AuditDeleted, Record, Creator, Deleter, Teller, Telling, At
    <2>3. QED
      BY <2>1, <2>2
  <1>3. QED
    BY <1>1, <1>2 DEF Accounts

(* An edit or a price keeps the row a row. *)
LEMMA AccountsWritten ==
  ASSUME TypeOK, Accounts, NEW a \in Actor, NEW p \in Product, NEW row \in Row, rows[p] # None,
         rows' = [rows EXCEPT ![p] = row], UNCHANGED <<born, trail, failures>>,
         Holds(a), NEW next,
         next = None \/ next.op \in {"update", "execute"},
         requests' = [Outdated(p) EXCEPT ![a] = next]
  PROVE  Accounts'
  <1>1. rows'[p] # None /\ \A q \in Product \ {p} : rows'[q] = rows[q]
    BY NoneAssumption DEF TypeOK
  <1>2. ASSUME NEW b \in Actor, Holds(b)
        PROVE  requests[b].op \in {"update", "execute"}
    BY <1>2 DEF Holds, At
  <1>3. ASSUME NEW b \in Actor
        PROVE  \/ requests'[b] = requests[b]
               \/ /\ requests[b] = None \/ requests[b].op \in {"update", "execute"}
                  /\ requests'[b] = None \/ requests'[b].op \in {"update", "execute"}
    <2>1. CASE b = a
      <3>1. requests'[b] = next
        BY <2>1 DEF Outdated
      <3>2. requests[a].op \in {"update", "execute"}
        BY <1>2 DEF At
      <3>3. QED
        BY <2>1, <3>1, <3>2
    <2>2. CASE b # a /\ Holds(b) /\ requests[b].product = p
      <3>1. requests'[b] = [requests[b] EXCEPT !.stale = TRUE]
        BY <2>2 DEF Outdated
      <3>2. QED
        BY <1>2, <2>2, <3>1, HoldersTyped
    <2>3. CASE b # a /\ ~(Holds(b) /\ requests[b].product = p)
      BY <2>3 DEF Outdated
    <2>4. QED
      BY <2>1, <2>2, <2>3
  <1>4. \A b \in Actor, op \in {"create", "delete"}, q \in Product :
          Telling(b, op, q)' <=> Telling(b, op, q)
    BY <1>3 DEF Telling, At
  <1>5. QED
    BY <1>1, <1>4, AccountsStay

LEMMA AccountsSetPrice ==
  ASSUME TypeOK, Accounts, NEW a \in Actor, WritePrice(a) \/ RollBack(a)
  PROVE  Accounts'
  <1> DEFINE p == requests[a].product
  <1>1. Holds(a) /\ requests[a] \in Pricing
    BY RequestShapes DEF WritePrice, RollBack, Holds
  <1>2. p \in Product
    BY <1>1 DEF Pricing
  <1>3. PICK price \in Price, next \in {None, [requests[a] EXCEPT !.at = "push", !.stale = FALSE]} :
          SetPrice(a, price, next) /\ (next = None \/ (next.op = "execute" /\ next.at = "push"))
    <2>1. CASE WritePrice(a)
      <3>1. [requests[a] EXCEPT !.at = "push", !.stale = FALSE].op = "execute"
            /\ [requests[a] EXCEPT !.at = "push", !.stale = FALSE].at = "push"
        BY <1>1 DEF Pricing
      <3>2. requests[a].price \in Price
        BY <1>1 DEF Pricing
      <3>3. QED
        BY <2>1, <3>1, <3>2 DEF WritePrice
    <2>2. CASE RollBack(a)
      <3>1. requests[a].previous \in Price
        BY <1>1 DEF Pricing
      <3>2. QED
        BY <2>2, <3>1 DEF RollBack
    <2>3. QED
      BY <2>1, <2>2
  <1>4. CASE rows[p] = None
    <2>1. Goes(a, next) /\ UNCHANGED <<rows, born, trail, failures>>
      BY <1>3, <1>4 DEF SetPrice
    <2>2. ~At(a, "create", "audit") /\ ~At(a, "delete", "audit")
      BY <1>1 DEF At, Pricing
    <2>3. QED
      BY <1>3, <2>1, <2>2, AccountsMove
  <1>5. CASE rows[p] # None
    <2>1. rows[p] \in Row
      BY <1>2, <1>5 DEF TypeOK
    <2>2. [rows[p] EXCEPT !.price = price] \in Row
      BY <2>1, PricedTyped
    <2>3. /\ rows' = [rows EXCEPT ![p] = [rows[p] EXCEPT !.price = price]]
          /\ UNCHANGED <<born, trail, failures>>
          /\ requests' = [Outdated(p) EXCEPT ![a] = next]
      BY <1>3, <1>5 DEF SetPrice
    <2>4. QED
      BY <1>1, <1>2, <1>3, <1>5, <2>2, <2>3, AccountsWritten
  <1>6. QED
    BY <1>4, <1>5

LEMMA AccountsWrite ==
  ASSUME TypeOK, Accounts, NEW a \in Actor, Write(a)
  PROVE  Accounts'
  <1> DEFINE p == requests[a].product
             row == Edited(rows[p], requests[a].change)
             next == [op |-> "update", at |-> "reread", product |-> p]
  <1>1. p \in Product /\ requests[a].change \in Change /\ Holds(a)
    BY RequestShapes DEF Write, Writing, Holds
  <1>2. CASE rows[p] = None
    BY <1>2, AccountsMove DEF Write, Answer, At
  <1>3. CASE rows[p] # None
    <2>1. row \in Row
      BY <1>1, <1>3, EditedTyped DEF TypeOK
    <2>2. /\ rows' = [rows EXCEPT ![p] = row] /\ UNCHANGED <<born, trail, failures>>
          /\ requests' = [Outdated(p) EXCEPT ![a] = next]
      BY <1>3 DEF Write, Edited
    <2>3. next.op = "update"
      OBVIOUS
    <2> HIDE DEF row, next
    <2>4. QED
      BY <1>1, <1>3, <2>1, <2>2, <2>3, AccountsWritten
  <1>4. QED
    BY <1>2, <1>3

LEMMA AccountsStep ==
  ASSUME TypeOK, Accounts, [Next]_vars
  PROVE  Accounts'
  <1>1. ASSUME NEW a \in Actor, Step(a)
        PROVE  Accounts'
    <2>1. CASE FindBySku(a)
      <3>1. requests[a] \in Creating
        BY <2>1, RequestShapes DEF FindBySku
      <3>2. [requests[a] EXCEPT !.at = "insert"].at = "insert"
        BY <3>1 DEF Creating
      <3>3. QED
        BY <2>1, <3>2, AccountsMove DEF FindBySku, Answer, At
    <2>2. CASE FindToUpdate(a)
      BY <2>2, AccountsMove DEF FindToUpdate, Answer, At
    <2>3. CASE Write(a)
      BY <2>3, AccountsWrite
    <2>4. CASE Reread(a)
      BY <2>4, AccountsMove DEF Reread, Answer, At
    <2>5. CASE FindToDelete(a)
      <3>1. requests[a] \in Acting
        BY <2>5, RequestShapes DEF FindToDelete
      <3>2. [requests[a] EXCEPT !.at = "remove"].at = "remove"
        BY <3>1 DEF Acting
      <3>3. QED
        BY <2>5, <3>2, AccountsMove DEF FindToDelete, Answer, At
    <2>6. CASE FindToSimulate(a)
      <3>1. requests[a] \in Acting
        BY <2>6, RequestShapes DEF FindToSimulate
      <3>2. [requests[a] EXCEPT !.at = "insert"].at = "insert"
        BY <3>1 DEF Acting
      <3>3. QED
        BY <2>6, <3>2, AccountsMove DEF FindToSimulate, Answer, At
    <2>7. CASE Observe(a)
      BY <2>7, AccountsMove DEF Observe, Answer, At
    <2>8. CASE AuditOther(a)
      BY <2>8, AccountsMove DEF AuditOther, Answer, At
    <2>9. CASE ReadContext(a)
      BY <2>9, AccountsMove DEF ReadContext, Answer, At
    <2>10. CASE PushPrice(a)
      <3>1. requests[a] \in Pricing
        BY <2>10, RequestShapes DEF PushPrice
      <3>2. [requests[a] EXCEPT !.at = "rollback"].at = "rollback"
        BY <3>1 DEF Pricing
      <3>3. QED
        BY <2>10, <3>2, AccountsMove DEF PushPrice, Answer, At
    <2>11. QED
      BY <1>1, <2>1, <2>2, <2>3, <2>4, <2>5, <2>6, <2>7, <2>8, <2>9, <2>10, AccountsSetPrice,
         AccountsInsert, AccountsRemove, AccountsRecord DEF Step
  <1>2. ASSUME NEW a \in Actor, StatementFails(a)
        PROVE  Accounts'
    <2>1. /\ requests'[a] = None /\ \A b \in Actor \ {a} : requests'[b] = requests[b]
          /\ UNCHANGED <<rows, born, trail>> /\ failures' # 0
      BY <1>2, NumberAssumption DEF StatementFails, Answer, Goes, TypeOK
    <2>2. \A b \in Actor, p \in Product : /\ Creator(b, p)' => Creator(b, p)
                                          /\ Deleter(b, p)' => Deleter(b, p)
      BY <2>1 DEF Creator, Deleter, Teller, Telling, At
    <2>3. QED
      BY <2>1, <2>2 DEF Accounts
  <1>3. CASE UNCHANGED vars
    <2>1. \A b \in Actor, op \in {"create", "delete"}, p \in Product :
            Telling(b, op, p)' <=> Telling(b, op, p)
      BY <1>3 DEF vars, Telling, At
    <2>2. QED
      BY <1>3, <2>1, AccountsStay DEF vars
  <1>4. QED
    BY <1>1, <1>2, <1>3, AccountsAsk DEF Next

LEMMA AccountsInit ==
  ASSUME Init
  PROVE  Accounts
  BY DEF Init, Accounts, Creator, Deleter, Teller, Telling, At

LEMMA AtMostOne ==
  ASSUME NEW S, \A x, y \in S : x = y
  PROVE  Cardinality(S) <= 1
  <1>1. CASE S = {}
    BY <1>1, FS_EmptySet
  <1>2. ASSUME NEW x \in S
        PROVE  Cardinality(S) <= 1
    <2>1. S = {x}
      OBVIOUS
    <2>2. QED
      BY <2>1, FS_Singleton
  <1>3. QED
    BY <1>1, <1>2

(* An id is handed out once and a row is removed once, so the trail names  *)
(* one member for each, whoever raced for it, and names one for all that   *)
(* is settled unless a statement failed.  (TrailTellsTheCatalog:           *)
(* createProduct, deleteProduct and their audit rows)                      *)
THEOREM TrailNamesWhoDidIt == Spec => []TrailTellsTheCatalog
  <1>1. Init => TypeOK /\ Accounts
    BY TypeInit, AccountsInit
  <1>2. TypeOK /\ Accounts /\ [Next]_vars => TypeOK' /\ Accounts'
    BY TypeStep, AccountsStep
  <1>3. ASSUME Accounts, NEW p \in Product
        PROVE  /\ Cardinality(Told("PRODUCT_CREATED", p)) <= 1
               /\ Cardinality(Told("PRODUCT_DELETED", p)) <= 1
               /\ Told("PRODUCT_DELETED", p) # {} => p \in born /\ rows[p] = None
               /\ failures = 0 /\ Quiet(p) /\ p \in born =>
                    /\ Told("PRODUCT_CREATED", p) # {}
                    /\ rows[p] = None => Told("PRODUCT_DELETED", p) # {}
    <2>1. Cardinality(Told("PRODUCT_CREATED", p)) <= 1
      <3>1. \A a, b \in Told("PRODUCT_CREATED", p) : a = b
        BY <1>3 DEF Accounts, Creator, Teller, Told
      <3>2. QED
        BY <3>1, AtMostOne
    <2>2. Cardinality(Told("PRODUCT_DELETED", p)) <= 1
      <3>1. \A a, b \in Told("PRODUCT_DELETED", p) : a = b
        BY <1>3 DEF Accounts, Deleter, Teller, Told
      <3>2. QED
        BY <3>1, AtMostOne
    <2>3. Told("PRODUCT_DELETED", p) # {} => p \in born /\ rows[p] = None
      BY <1>3 DEF Accounts, Deleter, Teller, Told
    <2>4. Quiet(p) => \A a \in Actor : ~Telling(a, "create", p) /\ ~Telling(a, "delete", p)
      BY DEF Quiet, Telling, At
    <2>5. failures = 0 /\ Quiet(p) /\ p \in born =>
            /\ Told("PRODUCT_CREATED", p) # {}
            /\ rows[p] = None => Told("PRODUCT_DELETED", p) # {}
      BY <1>3, <2>4 DEF Accounts, Creator, Deleter, Teller, Told
    <2>6. QED
      BY <2>1, <2>2, <2>3, <2>5
  <1>4. Accounts => TrailTellsTheCatalog
    BY <1>3 DEF TrailTellsTheCatalog
  <1>5. QED
    BY <1>1, <1>2, <1>4, PTL DEF Spec
=============================================================================

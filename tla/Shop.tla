---------------------------------- MODULE Shop ----------------------------------
(***************************************************************************)
(* CatalogPage: the paged table of products, the form that creates and     *)
(* edits one, and the dialog that deletes one, with the hooks of           *)
(* features/products/api.ts and the query behind the table.                *)
(*                                                                         *)
(* The server keeps the products in the order of their last update, which  *)
(* is the table's default.  A search is one narrower set of products; the  *)
(* other columns to sort by and the views over a loaded page are left out. *)
(* Each page of each search is a query of its own, with its cached answer. *)
(* Module Catalog has the handlers of the writes.                          *)
(***************************************************************************)
EXTENDS Integers, Sequences, FiniteSets, SequencesExt

CONSTANTS
  Product,
  Narrow,     \* the products that the search finds
  PageSize,
  MaxActs     \* bound: what this admin and the others do

Field == {"currentPrice", "cost"}
NoOne == 0
Version == 0..2          \* as created, as this admin types, as another does

VARIABLES
  shelf, value,   \* server: the products, most recently updated first; their fields
  filters,        \* the page and whether there is a search
  cache,          \* the answers kept, one for the filters they were fetched for
  stale,          \* the filters whose answer is known to be out of date (isInvalidated)
  failed,         \* the filters whose last fetch failed, and show an error
  table,          \* the last answer shown
  request,        \* the fetch under way, for the filters on the screen
  form,           \* ProductFormDialog; typed: what was entered since it was filled in
  deleting,       \* DeleteProductDialog
  saving, removing,   \* the write of each dialog under way
  acts,
  changed         \* history: the filters whose answer others' writes have overtaken

shopVars ==
  <<shelf, value, filters, cache, stale, failed, table, request, form, deleting, saving, removing, acts, changed>>

Values == [Field -> Version]
Filters == [page : 1..(Cardinality(Product) + 1), search : BOOLEAN]
At == {"sent", "handled", "answered"}
Table == [of : Filters, rows : SUBSET (Product \X Values), totalPages : Nat]
Awaiting == SUBSET {"save", "delete"}

TypeOK ==
  /\ shelf \in Seq(Product) /\ IsInjective(shelf)
  /\ value \in [Product -> Values]
  /\ filters \in Filters
  /\ cache \subseteq Table /\ \A t, u \in cache : t.of = u.of => t = u
  /\ stale \subseteq Filters /\ failed \subseteq Filters /\ changed \subseteq Filters
  /\ table \in Table
  /\ request \in [at : {"none"}] \cup [at : {"sent"}, awaited : Awaiting]
                  \cup [at : {"read"}, awaited : Awaiting, answer : Table, fresh : BOOLEAN]
  /\ form \in [open : BOOLEAN, for : Product \cup {NoOne}, base : Values, draft : Values,
               typed : SUBSET Field]
  /\ deleting \in Product \cup {NoOne}
  /\ saving \in [at : {"none"}] \cup
                [at : At, ok : BOOLEAN, for : Product \cup {NoOne}, values : Values, patch : SUBSET Field, typed : SUBSET Field]
  /\ removing \in [at : {"none"}] \cup [at : At, ok : BOOLEAN, for : Product]
  /\ acts \in 0..MaxActs

-----------------------------------------------------------------------------
(* findMany: one page of what matches, and how many pages there are.       *)
FindMany(products, values, f) ==
  LET found == {i \in DOMAIN products : f.search => products[i] \in Narrow}
      rank(i) == Cardinality({j \in found : j <= i})
      page == {i \in found : rank(i) \in (f.page - 1) * PageSize + 1 .. f.page * PageSize}
  IN [of |-> f, rows |-> {<<products[i], values[products[i]]>> : i \in page},
      totalPages |-> (Cardinality(found) + PageSize - 1) \div PageSize]

Answer(f) == FindMany(shelf, value, f)

NoRequest == [at |-> "none"]
Sent(awaited) == [at |-> "sent", awaited |-> awaited]

Default == [page |-> 1, search |-> FALSE]
Plain == [f \in Field |-> 0]

Init ==
  /\ shelf = SetToSeq(Product)
  /\ value = [p \in Product |-> Plain]
  /\ filters = Default /\ table = Answer(Default) /\ cache = {table}
  /\ stale = {} /\ failed = {} /\ changed = {}
  /\ request = NoRequest
  /\ form = [open |-> FALSE, for |-> NoOne, base |-> Plain, draft |-> Plain, typed |-> {}]
  /\ deleting = NoOne
  /\ saving = NoRequest /\ removing = NoRequest
  /\ acts = 0

Act == acts < MaxActs /\ acts' = acts + 1

server == <<shelf, value>>
answers == <<cache, stale, failed, changed>>
view == <<filters, table, request, answers>>
dialogs == <<form, deleting, saving, removing>>

-----------------------------------------------------------------------------
(* The table. *)

Cached(f) == {t \in cache : t.of = f}

(* A cached answer is shown at once, and fetched again if it is known to   *)
(* be out of date or older than staleTime; other filters are fetched, and  *)
(* the last rows shown meanwhile (keepPreviousData).  A fetch of the old   *)
(* filters is cancelled.                                                   *)
SetFilters(f) ==
  /\ Act
  /\ filters' = f
  /\ \/ Cached(f) # {} /\ f \notin stale /\ request' = NoRequest
     \/ request' = Sent({})
  /\ table' \in IF Cached(f) # {} THEN Cached(f) ELSE {table}
  /\ UNCHANGED <<server, dialogs, answers>>

(* Window focus, reconnection, or Retry. *)
Refetch ==
  /\ request.at = "none" /\ request' = Sent({})
  /\ UNCHANGED <<server, dialogs, filters, table, answers, acts>>

(* Without an answer to its filters a table shows the last one while they  *)
(* are fetched, and none once that has failed.                             *)
Shown == IF request.at = "none" /\ table.of # filters THEN [of |-> filters, rows |-> {}, totalPages |-> 0] ELSE table

(* update, toggleSort: any filter change returns to page one; Clear does,  *)
(* too.                                                                    *)
Update == SetFilters([Default EXCEPT !.search = ~filters.search])

(* The pager shows with the pages of the rows shown, whosever filters.     *)
Previous ==
  /\ Shown.totalPages > 1 /\ filters.page > 1
  /\ SetFilters([filters EXCEPT !.page = @ - 1])

NextPage ==
  /\ Shown.totalPages > 1 /\ filters.page < Shown.totalPages
  /\ SetFilters([filters EXCEPT !.page = @ + 1])

Reads ==
  /\ request.at = "sent"
  /\ request' = [at |-> "read", awaited |-> request.awaited, answer |-> Answer(filters), fresh |-> TRUE]
  /\ UNCHANGED <<server, dialogs, filters, table, answers, acts>>

Arrives ==
  /\ request.at = "read"
  /\ table' = request.answer /\ request' = NoRequest
  /\ cache' = (cache \ Cached(filters)) \cup {request.answer}
  /\ stale' = stale \ {filters} /\ failed' = failed \ {filters}
  /\ changed' = IF request.fresh THEN changed \ {filters} ELSE changed \cup {filters}
  /\ UNCHANGED <<server, dialogs, filters, acts>>

(* After its retries: an error is shown, over the rows there were.         *)
Fails ==
  /\ request.at # "none" /\ request' = NoRequest
  /\ failed' = failed \cup {filters}
  /\ UNCHANGED <<server, dialogs, filters, table, cache, stale, changed, acts>>

-----------------------------------------------------------------------------
(* The dialogs.  Each is closed by its own Cancel at any time. *)

(* A plausible bug: the form is reset only for another product. *)
OpenFormAsLeft(p, values) ==
  /\ Act /\ ~form.open /\ deleting = NoOne
  /\ form' = [open |-> TRUE, for |-> p, base |-> values,
              draft |-> IF p = form.for THEN form.draft ELSE values,
              typed |-> IF p = form.for THEN form.typed ELSE {}]
  /\ UNCHANGED <<server, view, deleting, saving, removing>>

(* "Add product" and the pencil of a row.  The form is reset when the      *)
(* values it is opened with are others than it had: what was typed and     *)
(* cancelled is still there otherwise.                                     *)
OpenForm(p, values) ==
  LET kept == p = form.for /\ values = form.base
  IN /\ Act /\ ~form.open /\ deleting = NoOne
     /\ form' = [open |-> TRUE, for |-> p, base |-> values,
                 draft |-> IF kept THEN form.draft ELSE values,
                 typed |-> IF kept THEN form.typed ELSE {}]
     /\ UNCHANGED <<server, view, deleting, saving, removing>>

Open == OpenForm(NoOne, Plain) \/ \E row \in Shown.rows : OpenForm(row[1], row[2])

Type(f) ==
  /\ Act /\ form.open
  /\ form' = [form EXCEPT !.draft[f] = 1, !.typed = @ \cup {f}]
  /\ UNCHANGED <<server, view, deleting, saving, removing>>

Cancel ==
  /\ form.open
  /\ form' = [form EXCEPT !.open = FALSE]
  /\ UNCHANGED <<server, view, deleting, saving, removing, acts>>

Dirty == {f \in Field : form.draft[f] # form.base[f]}

(* A new product is sent whole, an edit with its dirty fields.             *)
Patch == IF form.for = NoOne THEN Field ELSE Dirty

Submit ==
  /\ Act /\ form.open /\ saving.at = "none"
  /\ form.for # NoOne => Dirty # {}
  /\ saving' = [at |-> "sent", ok |-> FALSE, for |-> form.for, values |-> form.draft, patch |-> Patch,
                typed |-> form.typed]
  /\ UNCHANGED <<server, view, form, deleting, removing>>

AskDelete(p) ==
  /\ Act /\ ~form.open /\ deleting = NoOne
  /\ \E values \in Values : <<p, values>> \in Shown.rows
  /\ deleting' = p
  /\ UNCHANGED <<server, view, form, saving, removing>>

KeepIt ==
  /\ deleting # NoOne /\ deleting' = NoOne
  /\ UNCHANGED <<server, view, form, saving, removing, acts>>

Confirm ==
  /\ Act /\ deleting # NoOne /\ removing.at = "none"
  /\ removing' = [at |-> "sent", ok |-> FALSE, for |-> deleting]
  /\ UNCHANGED <<server, view, form, deleting, saving>>

-----------------------------------------------------------------------------
(* The server's part of a write, which may be refused.                     *)

First(p) == <<p>> \o RemoveFirst(shelf, p)

With(values, fields) == [f \in Field |-> IF f \in fields THEN saving.values[f] ELSE values[f]]

Handle ==
  /\ saving.at = "sent"
  /\ \/ \E p \in Product :
          /\ IF saving.for = NoOne THEN p \notin ToSet(shelf) ELSE p = saving.for /\ p \in ToSet(shelf)
          /\ shelf' = First(p)
          /\ value' = [value EXCEPT ![p] = With(@, saving.patch)]
          /\ saving' = [saving EXCEPT !.at = "handled", !.ok = TRUE]
     \/ /\ saving' = [saving EXCEPT !.at = "handled"]
        /\ UNCHANGED server
  /\ UNCHANGED <<view, form, deleting, removing, acts>>

HandleDelete ==
  /\ removing.at = "sent"
  /\ \/ /\ removing' = [removing EXCEPT !.at = "handled", !.ok = TRUE]
        /\ shelf' = RemoveFirst(shelf, removing.for)
     \/ /\ removing' = [removing EXCEPT !.at = "handled"]
        /\ UNCHANGED shelf
  /\ UNCHANGED <<value, view, form, deleting, saving, acts>>

(* Another admin edits, or deletes. *)
Other(p) ==
  /\ Act /\ p \in ToSet(shelf)
  /\ \/ \E f \in Field :
          /\ value' = [value EXCEPT ![p][f] = 2]
          /\ shelf' = First(p)
     \/ shelf' = RemoveFirst(shelf, p) /\ UNCHANGED value
  /\ changed' = {t.of : t \in cache}
  /\ request' = IF request.at = "read" THEN [request EXCEPT !.fresh = FALSE] ELSE request
  /\ UNCHANGED <<dialogs, filters, table, cache, stale, failed>>

(* A plausible bug: only the page on the screen is invalidated. *)
InvalidateShown(write) ==
  /\ stale' = stale \cup {filters}
  /\ request' = Sent({write})

(* onSettled: every answer is out of date, and the one on the screen is    *)
(* fetched anew, a fetch of it under way or not.                           *)
Invalidate(write) ==
  /\ stale' = {t.of : t \in cache}
  /\ request' = Sent({write})

Answered ==
  /\ saving.at = "handled" /\ saving' = [saving EXCEPT !.at = "answered"]
  /\ Invalidate("save")
  /\ UNCHANGED <<server, filters, table, cache, failed, changed, form, deleting, removing, acts>>

DeleteAnswered ==
  /\ removing.at = "handled" /\ removing' = [removing EXCEPT !.at = "answered"]
  /\ Invalidate("delete")
  /\ UNCHANGED <<server, filters, table, cache, failed, changed, form, deleting, saving, acts>>

Refetched(write) == request.at # "none" => write \notin request.awaited

(* Then the callback: a success closes the form, whichever product it is   *)
(* open for by then; a failure leaves it open, its errors on the fields.   *)
Settle ==
  /\ saving.at = "answered" /\ Refetched("save")
  /\ saving' = NoRequest
  /\ form' = [form EXCEPT !.open = @ /\ ~saving.ok]
  /\ UNCHANGED <<server, view, deleting, removing, acts>>

SettleDelete ==
  /\ removing.at = "answered" /\ Refetched("delete")
  /\ removing' = NoRequest
  /\ deleting' = IF removing.ok THEN NoOne ELSE deleting
  /\ UNCHANGED <<server, view, form, saving, acts>>

Next ==
  \/ Update \/ Previous \/ NextPage \/ Refetch \/ Reads \/ Arrives \/ Fails
  \/ Open \/ Cancel \/ Submit \/ KeepIt \/ Confirm
  \/ \E f \in Field : Type(f)
  \/ \E p \in Product : AskDelete(p) \/ Other(p)
  \/ Handle \/ HandleDelete \/ Answered \/ DeleteAnswered \/ Settle \/ SettleDelete

Spec == Init /\ [][Next]_shopVars

-----------------------------------------------------------------------------
(* Properties. *)

(* A table at rest that shows no error is the server's page for the        *)
(* filters on the screen, fetched or cached, but for what others wrote     *)
(* since it was read: no answer to older filters or from before a write of *)
(* one's own stays.                                                        *)
QuietTableIsCurrent ==
  request.at = "none" /\ filters \notin failed \cup changed
    /\ saving.at # "handled" /\ removing.at # "handled" => table = Answer(filters)

(* An edit sends only fields that were entered into this form over this    *)
(* row: opened again over a row that somebody changed in between, it does  *)
(* not carry the older values back.                                        *)
OnlyTypedFieldsAreSent ==
  saving.at # "none" /\ saving.for # NoOne => saving.patch \subseteq saving.typed

ShopHolds == QuietTableIsCurrent /\ OnlyTypedFieldsAreSent

(* Refuted: a table without rows and without an error says that no product *)
(* matches.                                                                *)
EmptyMeansNone ==
  request.at = "none" /\ filters \notin failed /\ table.rows = {} =>
    \A p \in ToSet(shelf) : filters.search /\ p \notin Narrow
=============================================================================

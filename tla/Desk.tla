---------------------------------- MODULE Desk ----------------------------------
(***************************************************************************)
(* DecisionsPage: the queue and the decision beside it, the dialogs over   *)
(* them, and the toast that offers to undo.  Module Queue has the cache of *)
(* the queue and its requests; here a fetch of the list is one step, and   *)
(* the matter is what the analyst's next key or click acts on.             *)
(*                                                                         *)
(* A recommendation is the rank of its confidence.  The error banner and   *)
(* the layout are left out.                                                *)
(***************************************************************************)
EXTENDS Integers, FiniteSets, FiniteSetsExt

CONSTANTS
  Rec,
  MaxActs   \* bound: what the analyst and the others do

Nothing == 0
Some == Rec \cup {Nothing}

VARIABLES
  queue,      \* server: the pending recommendations
  wide,       \* whether both panes show (useMediaQuery)
  tab,        \* the filter: PENDING, or a status of the past
  items,      \* the rows of the list
  url,        \* the selected recommendation
  details,    \* what the cache says of each recommendation's status
  pane,       \* DecisionDetail: whether Modify is open, for whom the price was filled in
  dialog,     \* RejectDialog: whether it is wanted, for whom the reason was written
  checked, toast,
  calls,      \* the requests under way
  acts,       \* how many times somebody did something
  own,        \* history: what this page decided
  calm        \* history: one request at a time, on the queue's tab, and nobody else's

deskVars ==
  <<queue, wide, tab, items, url, details, pane, dialog, checked, toast, calls, acts, own, calm>>

Decision == {"approve", "modify", "reject"}
Kind == Decision \cup {"batch", "undo"}

(* ids, and for a modification the recommendation its price was written    *)
(* for; rows: the list when it was sent; followed: its hook's latest.      *)
Call ==
  [n : 1..MaxActs, kind : Kind, ids : SUBSET Rec, for : Some, rows : SUBSET Rec,
   at : {"sent", "done", "failed"}, followed : BOOLEAN]

TypeOK ==
  /\ queue \subseteq Rec /\ items \subseteq Rec /\ checked \subseteq Rec /\ own \subseteq Rec
  /\ wide \in BOOLEAN /\ calm \in BOOLEAN
  /\ tab \in {"PENDING", "past"}
  /\ url \in Some /\ toast \in Some
  /\ details \in [Rec -> {"none", "PENDING", "decided"}]
  /\ pane \in [modifying : BOOLEAN, for : Some]
  /\ dialog \in [open : BOOLEAN, for : Some]
  /\ calls \subseteq Call
  /\ acts \in 0..MaxActs
  /\ \A c, d \in calls : c.n = d.n => c = d

-----------------------------------------------------------------------------
(* What is on the screen. *)

Listed(t, pending) == IF t = "PENDING" THEN pending ELSE Rec \ pending

(* The effect that keeps the URL at something: it runs after every render. *)
Pinned(u, rows) == IF wide /\ u = Nothing /\ rows # {} THEN Max(rows) ELSE u

Mounted(u) == u # Nothing /\ details[u] # "none"
Decidable == Mounted(url) /\ details[url] = "PENDING"

(* The price field is filled in when the detail mounts, and kept from one  *)
(* cached recommendation to the next.                                      *)
PaneFor(u) ==
  IF Mounted(u) /\ Mounted(url) THEN pane
  ELSE [modifying |-> FALSE, for |-> IF Mounted(u) THEN u ELSE Nothing]

Empty(open) == [open |-> open, for |-> Nothing]
DialogFor(u) == IF Mounted(u) THEN dialog ELSE Empty(dialog.open)

Move(u) == url' = u /\ pane' = PaneFor(u) /\ dialog' = DialogFor(u)

Init ==
  /\ queue = Rec /\ items = Rec /\ tab = "PENDING"
  /\ wide \in BOOLEAN
  /\ url = Pinned(Nothing, Rec)
  /\ details = [r \in Rec |-> "none"]
  /\ pane = [modifying |-> FALSE, for |-> Nothing] /\ dialog = Empty(FALSE)
  /\ checked = {} /\ toast = Nothing /\ calls = {}
  /\ acts = 0 /\ own = {} /\ calm = TRUE

-----------------------------------------------------------------------------
(* Looking. *)

Act == acts < MaxActs /\ acts' = acts + 1

Fetched(rows) == items' = rows /\ Move(Pinned(url, rows))

(* The list is fetched at a new filter, at focus, at an invalidation.      *)
ListArrives ==
  /\ Fetched(Listed(tab, queue))
  /\ UNCHANGED <<queue, wide, tab, details, checked, toast, calls, acts, own, calm>>

DetailArrives ==
  /\ url # Nothing
  /\ details' = [details EXCEPT ![url] = IF url \in queue THEN "PENDING" ELSE "decided"]
  /\ pane' = IF Mounted(url) THEN pane ELSE [modifying |-> FALSE, for |-> url]
  /\ UNCHANGED <<queue, wide, tab, items, url, dialog, checked, toast, calls, acts, own, calm>>

(* A click on a card, J and K. *)
Select(r) ==
  /\ Act
  /\ r \in items
  /\ Move(r)
  /\ UNCHANGED <<queue, wide, tab, items, details, checked, toast, calls, own, calm>>

(* "All decisions", below lg. *)
Back ==
  /\ Act
  /\ ~wide
  /\ Move(Nothing)
  /\ UNCHANGED <<queue, wide, tab, items, details, checked, toast, calls, own, calm>>

(* Rows of the other filter come with its fetch. *)
FilterChange(t) ==
  /\ Act
  /\ tab' = t /\ items' = IF t = tab THEN items ELSE {}
  /\ checked' = {}
  /\ Move(Pinned(Nothing, items'))
  /\ calm' = (calm /\ calls = {} /\ toast = Nothing)
  /\ UNCHANGED <<queue, wide, details, toast, calls, own>>

ToggleCheck(r) ==
  /\ Act
  /\ tab = "PENDING" /\ r \in items
  /\ checked' = IF r \in checked THEN checked \ {r} ELSE checked \cup {r}
  /\ UNCHANGED <<queue, wide, tab, items, url, details, pane, dialog, toast, calls, own, calm>>

ClearChecks ==
  /\ Act
  /\ checked # {} /\ checked' = {}
  /\ UNCHANGED <<queue, wide, tab, items, url, details, pane, dialog, toast, calls, own, calm>>

Followed(kinds) == \E c \in calls : c.kind \in kinds /\ c.followed
Busy == Followed(Decision)

(* Modify and Cancel. *)
ToggleModify ==
  /\ Act
  /\ Decidable
  /\ pane' = [pane EXCEPT !.modifying = ~@]
  /\ UNCHANGED <<queue, wide, tab, items, url, details, dialog, checked, toast, calls, own, calm>>

EnterPrice ==
  /\ Act
  /\ Decidable /\ pane.modifying
  /\ pane' = [pane EXCEPT !.for = url]
  /\ UNCHANGED <<queue, wide, tab, items, url, details, dialog, checked, toast, calls, own, calm>>

(* The key R is not held back by a decision under way, as the button is.   *)
OpenReject ==
  /\ Act
  /\ Decidable /\ ~dialog.open
  /\ dialog' = Empty(TRUE)
  /\ UNCHANGED <<queue, wide, tab, items, url, details, pane, checked, toast, calls, own, calm>>

EnterReason ==
  /\ Act
  /\ dialog.open /\ Mounted(url)
  /\ dialog' = [dialog EXCEPT !.for = url]
  /\ UNCHANGED <<queue, wide, tab, items, url, details, pane, checked, toast, calls, own, calm>>

CloseReject ==
  /\ Act
  /\ dialog.open /\ Mounted(url)
  /\ dialog' = Empty(FALSE)
  /\ UNCHANGED <<queue, wide, tab, items, url, details, pane, checked, toast, calls, own, calm>>

-----------------------------------------------------------------------------
(* Deciding. *)

Send(kind, ids, for) ==
  /\ Act
  /\ calls' = {[c EXCEPT !.followed = @ /\ c.kind # kind] : c \in calls} \cup
       {[n |-> acts', kind |-> kind, ids |-> ids, for |-> for, rows |-> items,
         at |-> "sent", followed |-> TRUE]}
  /\ calm' = (calm /\ calls = {} /\ kind # "batch" /\ (kind = "undo" => tab = "PENDING"))
  /\ UNCHANGED <<queue, wide, tab, details, pane, checked, toast, own>>

(* The key A is not held back either; the row leaves at once.              *)
HandleApprove ==
  /\ Decidable
  /\ Send("approve", {url}, Nothing)
  /\ items' = items \ {url}
  /\ UNCHANGED <<url, dialog>>

HandleModify ==
  /\ Decidable /\ pane.modifying /\ ~Busy
  /\ Send("modify", {url}, pane.for)
  /\ UNCHANGED <<items, url, dialog>>

HandleReject ==
  /\ dialog.open /\ Mounted(url) /\ dialog.for # Nothing /\ ~Followed({"reject"})
  /\ Send("reject", {url}, dialog.for)
  /\ UNCHANGED <<items, url, dialog>>

HandleBatch ==
  /\ checked # {} /\ ~Followed({"batch"})
  /\ Send("batch", checked, Nothing)
  /\ UNCHANGED <<items, url, dialog>>

HandleUndo ==
  /\ toast # Nothing /\ ~\E c \in calls : c.kind = "undo" /\ c.ids = {toast}
  /\ Send("undo", {toast}, Nothing)
  /\ UNCHANGED <<items, url, dialog>>

(* The toast's timer. *)
Dismiss ==
  /\ toast # Nothing /\ ~\E c \in calls : c.kind = "undo" /\ c.ids = {toast}
  /\ toast' = Nothing
  /\ UNCHANGED <<queue, wide, tab, items, url, details, pane, dialog, checked, calls, acts, own, calm>>

Becomes(c, at) == calls' = (calls \ {c}) \cup {[c EXCEPT !.at = at]}

(* The server decides what is open to the request, or refuses. *)
Answer(c) ==
  LET open == c.ids \cap (IF c.kind = "undo" THEN Rec \ queue ELSE queue)
  IN /\ c.at = "sent"
     /\ \/ /\ open # {} \/ c.kind = "batch"
           /\ queue' = IF c.kind = "undo" THEN queue \cup open ELSE queue \ open
           /\ own' = IF c.kind = "undo" THEN own \ open ELSE own \cup open
           /\ Becomes(c, "done")
        \/ c.kind # "batch" /\ Becomes(c, "failed") /\ UNCHANGED <<queue, own>>
     /\ UNCHANGED <<wide, tab, items, url, details, pane, dialog, checked, toast, acts, calm>>

(* Another analyst decides, or a run finishes. *)
Other(r) ==
  /\ Act
  /\ queue' = IF r \in queue THEN queue \ {r} ELSE queue \cup {r}
  /\ own' = own \ {r} /\ calm' = FALSE
  /\ UNCHANGED <<wide, tab, items, url, details, pane, dialog, checked, toast, calls>>

(* A plausible bug: the fallback of the last row is that row. *)
AdvanceOrStay(rows, r) ==
  LET below == {x \in rows : x < r} IN IF below # {} THEN Max(below) ELSE r

(* The row below in the list of the click, else the one above. *)
Advance(rows, r) ==
  LET below == {x \in rows : x < r}
      above == {x \in rows : x > r}
  IN CASE r \notin rows /\ rows # {} -> Max(rows)
       [] r \in rows /\ below # {} -> Max(below)
       [] r \in rows /\ below = {} /\ above # {} -> Min(above)
       [] OTHER -> Nothing

(* The refetch after the answer is over (with the list's rows or without), *)
(* and the callbacks of the page run: of mutateAsync always, of mutate for *)
(* the latest of the hook.  Undo ends with no toast, whichever it is.      *)
Settle(c) ==
  /\ c.at # "sent" /\ calls' = calls \ {c}
  /\ \E rows \in {Listed(tab, queue), items} :
       /\ items' = rows
       /\ calm' = (calm /\ rows = Listed(tab, queue))
       /\ CASE c.at = "done" /\ c.kind = "undo" ->
                 Move(CHOOSE r \in c.ids : TRUE) /\ toast' = Nothing /\ UNCHANGED checked
            [] c.at = "done" /\ c.kind = "batch" /\ c.followed ->
                 Move(Pinned(url, rows)) /\ toast' = Nothing /\ checked' = {}
            [] c.at = "done" /\ c.kind \in Decision /\ c.followed ->
                 LET r == CHOOSE x \in c.ids : TRUE
                     to == Pinned(Advance(c.rows, r), rows)
                 IN /\ url' = to
                    /\ pane' = PaneFor(to)
                    /\ dialog' = IF c.kind = "reject" THEN Empty(FALSE) ELSE DialogFor(to)
                    /\ toast' = r /\ UNCHANGED checked
            [] OTHER ->
                 Move(Pinned(url, rows)) /\ UNCHANGED checked
                 /\ toast' = IF c.kind = "undo" THEN Nothing ELSE toast
  /\ UNCHANGED <<queue, wide, tab, details, acts, own>>

Next ==
  \/ ListArrives \/ DetailArrives \/ Back \/ ClearChecks
  \/ \E r \in Rec : Select(r) \/ ToggleCheck(r) \/ Other(r)
  \/ \E t \in {"PENDING", "past"} : FilterChange(t)
  \/ ToggleModify \/ EnterPrice \/ OpenReject \/ EnterReason \/ CloseReject
  \/ HandleApprove \/ HandleModify \/ HandleReject \/ HandleBatch \/ HandleUndo \/ Dismiss
  \/ \E c \in calls : Answer(c) \/ Settle(c)

Spec == Init /\ [][Next]_deskVars

-----------------------------------------------------------------------------
(* Properties. *)

(* An analyst who takes one decision at a time, alone, is never left with  *)
(* a recommendation beside the queue that is not in it, wherever they had  *)
(* moved when the answer came: advance and the pinned URL see to it.       *)
PaneIsReal ==
  calm /\ wide /\ tab = "PENDING" /\ calls = {} /\ items = queue =>
    (items = {} /\ url = Nothing) \/ url \in items

(* Whatever the order of requests, answers and moves, the toast never      *)
(* offers to undo what this page did not decide, or what is open again,    *)
(* but for what others do meanwhile.                                       *)
UndoIsForOwnDecision == calm /\ calls = {} /\ toast # Nothing => toast \in own

DeskIsCoherent == PaneIsReal /\ UndoIsForOwnDecision

(* Refuted: the price and the reason sent are those written for the        *)
(* recommendation they are sent for.                                       *)
WordsGoWhereWritten == \A c \in calls : c.kind \in {"modify", "reject"} => c.ids = {c.for}
=============================================================================

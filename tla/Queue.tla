--------------------------------- MODULE Queue ---------------------------------
(***************************************************************************)
(* The decision queue of one analyst's browser: the hooks of               *)
(* features/recommendations/api.ts, what DecisionsPage does with their     *)
(* callbacks, and the Undo of the toast.                                   *)
(*                                                                         *)
(* The queue is the cached list of the filter PENDING: one page of it, the *)
(* newest first, for DecisionsPage never asks for the next.  What other    *)
(* analysts and pipeline runs do to a recommendation is one step here;     *)
(* module Decisions has the server's side of a decision.                   *)
(*                                                                         *)
(* A recommendation is its place in the order of creation (see Paging).    *)
(***************************************************************************)
EXTENDS Paging

CONSTANTS
  Rec, None,
  QueueLimit,     \* the LIMIT of the client's page
  MaxMutations,   \* bound: decisions under way at a time
  MaxEvents       \* bound: changes by others, lost requests or answers, and visits elsewhere

ASSUME RecAssumption == Rec \subseteq Nat \ {0} /\ None \notin Rec
ASSUME QueueLimitAssumption == QueueLimit \in Nat \ {0}
ASSUME BoundAssumption == MaxMutations \in Nat /\ MaxEvents \in Nat

VARIABLES
  pending,     \* server: the recommendations whose status is PENDING
  page,        \* whether DecisionsPage is mounted
  list,        \* the cached queue
  invalid,     \* whether the cache knows it to be out of date (isInvalidated)
  fetch,       \* the queue's request under way
  mutations,   \* decisions under way
  toast,       \* the recommendation the toast offers to undo
  events,      \* history: how many of them
  changed      \* history: changed by others since the list was read

vars == <<pending, page, list, invalid, fetch, mutations, toast, events, changed>>

Kind == {"approve", "reject", "modify", "batch", "undo"}

(* at: sent, or answered (done, failed) and waiting for the refetch that   *)
(* onSettled returns; current: the mutation its hook follows, whose        *)
(* callbacks still fire.                                                   *)
Mutation ==
  [n : 1..MaxMutations, kind : Kind, at : {"sent", "done", "failed"}, ids : SUBSET Rec,
   left : SUBSET Rec, refused : BOOLEAN, previous : SUBSET Rec, current : BOOLEAN]

(* awaited: the mutations whose onSettled waits for it.                    *)
Fetch == [at : {"sent", "read"}, rows : SUBSET Rec, missed : SUBSET Rec, awaited : SUBSET (1..MaxMutations)]

TypeOK ==
  /\ pending \subseteq Rec /\ list \subseteq Rec /\ changed \subseteq Rec
  /\ page \in BOOLEAN /\ invalid \in BOOLEAN
  /\ fetch \in Fetch \cup {None}
  /\ mutations \subseteq Mutation
  /\ toast \in Rec \cup {None}
  /\ events \in 0..MaxEvents
  /\ fetch # None => page
  /\ \A m, other \in mutations :
       m.n = other.n \/ (m.kind = other.kind /\ m.current /\ other.current) => m = other

(* findMany without a cursor: limit + 1 rows are read, and the first limit *)
(* of them answered.                                                       *)
FirstPage(rows) == Newest(rows, QueueLimit)

Init ==
  /\ pending \in SUBSET Rec /\ list = FirstPage(pending)
  /\ page = TRUE /\ invalid = FALSE /\ fetch = None /\ mutations = {}
  /\ toast = None
  /\ events = 0 /\ changed = {}

-----------------------------------------------------------------------------
(* The query of the queue. *)

Event == events < MaxEvents /\ events' = events + 1

Sent(awaited) == [at |-> "sent", rows |-> {}, missed |-> {}, awaited |-> awaited]

(* Window focus, reconnection, or Retry. *)
Refetch ==
  /\ page /\ fetch = None
  /\ fetch' = Sent({})
  /\ UNCHANGED <<pending, page, list, invalid, mutations, toast, events, changed>>

FetchReads ==
  /\ fetch # None /\ fetch.at = "sent"
  /\ fetch' = [fetch EXCEPT !.at = "read", !.rows = FirstPage(pending)]
  /\ UNCHANGED <<pending, page, list, invalid, mutations, toast, events, changed>>

FetchArrives ==
  /\ fetch # None /\ fetch.at = "read"
  /\ list' = fetch.rows /\ changed' = fetch.missed
  /\ invalid' = FALSE /\ fetch' = None
  /\ UNCHANGED <<pending, page, mutations, toast, events>>

(* After its retries. *)
FetchFails ==
  /\ fetch # None
  /\ Event
  /\ fetch' = None
  /\ UNCHANGED <<pending, page, list, invalid, mutations, toast, changed>>

Uncurrent(kinds) ==
  {IF m.kind \in kinds THEN [m EXCEPT !.current = FALSE] ELSE m : m \in mutations}

(* A plausible bug: the query does not take the signal, and goes on. *)
LeaveFetching ==
  /\ page /\ page' = FALSE
  /\ Event
  /\ mutations' = Uncurrent(Kind)
  /\ UNCHANGED <<pending, list, invalid, fetch, toast, changed>>

(* The query, which takes the signal, is cancelled with its last observer; *)
(* the callbacks given to mutate do not fire any more.                     *)
Leave ==
  /\ page /\ page' = FALSE
  /\ Event
  /\ fetch' = None
  /\ mutations' = Uncurrent(Kind)
  /\ UNCHANGED <<pending, list, invalid, toast, changed>>

(* A list known to be out of date is fetched; one older than staleTime,    *)
(* too.                                                                    *)
Return ==
  /\ ~page /\ page' = TRUE
  /\ fetch' \in {Sent({})} \cup (IF invalid THEN {} ELSE {None})
  /\ UNCHANGED <<pending, list, invalid, mutations, toast, events, changed>>

-----------------------------------------------------------------------------
(* Decisions. *)

Free == (1..MaxMutations) \ {m.n : m \in mutations}

Mutate(kind, ids, previous) ==
  /\ Free # {}
  /\ mutations' = Uncurrent({kind}) \cup
       {[n |-> CHOOSE n \in Free : TRUE, kind |-> kind, at |-> "sent", ids |-> ids, left |-> ids, refused |-> FALSE,
         previous |-> previous, current |-> page]}
  /\ UNCHANGED <<pending, page, events, changed>>

(* useApprove's onMutate: the request of the queue is cancelled and the row *)
(* leaves.  The key is not held back by a decision under way, nor by one   *)
(* on the same recommendation while the cached detail still says PENDING.  *)
Approve(r) ==
  /\ page
  /\ Mutate("approve", {r}, list)
  /\ fetch' = None
  /\ list' = list \ {r} /\ invalid' = FALSE
  /\ UNCHANGED toast

(* isPending of a hook: of the mutation that this visit's hook follows.    *)
IsPending(kinds) == \E m \in mutations : m.kind \in kinds /\ m.current

(* useReject: the dialog waits for the rejection before. *)
Reject(r) ==
  /\ page /\ ~IsPending({"reject"})
  /\ Mutate("reject", {r}, {})
  /\ UNCHANGED <<list, invalid, fetch, toast>>

(* useModify: the button waits for whichever decision is under way.        *)
Modify(r) ==
  /\ page /\ ~IsPending({"approve", "reject", "modify"})
  /\ Mutate("modify", {r}, {})
  /\ UNCHANGED <<list, invalid, fetch, toast>>

(* useBatchApprove, for the checked rows, gone ones among them. *)
BatchApprove(ids) ==
  /\ page /\ ~IsPending({"batch"}) /\ ids # {}
  /\ Mutate("batch", ids, {})
  /\ UNCHANGED <<list, invalid, fetch, toast>>

(* useUndo from the toast, wherever the user is by then. *)
Undo ==
  /\ toast # None
  /\ ~\E m \in mutations : m.kind = "undo" /\ m.ids = {toast}
  /\ Mutate("undo", {toast}, {})
  /\ UNCHANGED <<list, invalid, fetch, toast>>

(* The timer of a toast, which Undo stops. *)
Expire ==
  /\ toast # None /\ ~\E m \in mutations : m.kind = "undo" /\ m.ids = {toast}
  /\ toast' = None
  /\ UNCHANGED <<pending, page, list, invalid, fetch, mutations, events, changed>>

-----------------------------------------------------------------------------
(* The server, for one recommendation of a mutation: in the state the      *)
(* decision needs it may go through or be refused (a rule, a failed push); *)
(* a batch answers a result for each, the others an error.                 *)
Handle(m, r) ==
  LET fits == (r \in pending) <=> (m.kind # "undo")
      Handled(refused) ==
        mutations' = (mutations \ {m}) \cup {[m EXCEPT !.left = @ \ {r}, !.refused = refused]}
  IN /\ m.at = "sent" /\ r \in m.left
     /\ \/ /\ fits
           /\ pending' = IF m.kind = "undo" THEN pending \cup {r} ELSE pending \ {r}
           /\ Handled(m.refused)
        \/ /\ UNCHANGED pending
           /\ Handled(m.kind # "batch")
     /\ UNCHANGED <<page, list, invalid, fetch, toast, events, changed>>

(* Another analyst, a pipeline run, or a request this client believes lost *)
(* and the server still carries out.                                       *)
Foreign(r) ==
  /\ Event
  /\ pending' = IF r \in pending THEN pending \ {r} ELSE pending \cup {r}
  /\ changed' = changed \cup {r}
  /\ fetch' = IF fetch # None /\ fetch.at = "read" THEN [fetch EXCEPT !.missed = @ \cup {r}] ELSE fetch
  /\ UNCHANGED <<page, list, invalid, mutations, toast>>

-----------------------------------------------------------------------------
(* A plausible bug: a request under way is taken for the refetch. *)
InvalidateUnlessFetching(m) ==
  /\ invalid' = TRUE
  /\ fetch' = IF page /\ fetch = None THEN Sent({m.n}) ELSE fetch

(* onSettled: the mounted queue is fetched again, also when a request of   *)
(* it is under way; an unmounted one at its next mount.                    *)
Invalidate(m) ==
  /\ invalid' = TRUE
  /\ fetch' = IF page THEN Sent({m.n}) ELSE None

Becomes(m, at) ==
  mutations' = (mutations \ {m}) \cup
    {[m EXCEPT !.at = at, !.left = {}, !.refused = FALSE, !.previous = {}]}

(* onError puts the snapshot back before onSettled.                        *)
Failure(m) ==
  /\ Becomes(m, "failed")
  /\ list' = IF m.kind = "approve" THEN m.previous ELSE list
  /\ Invalidate(m)

Success(m) ==
  /\ Becomes(m, "done")
  /\ Invalidate(m)
  /\ UNCHANGED list

Answered(m) ==
  /\ m.at = "sent" /\ m.left = {}
  /\ IF m.refused THEN Failure(m) ELSE Success(m)
  /\ UNCHANGED <<pending, page, toast, events, changed>>

Lose(m) ==
  /\ m.at = "sent"
  /\ Event
  /\ Failure(m)
  /\ UNCHANGED <<pending, page, toast, changed>>

(* The refetch is over, or another took its place: the mutation is not     *)
(* pending any more, the callbacks of mutate fire if its hook still        *)
(* follows it, and mutateAsync ends.  Undo ends with no toast, whichever   *)
(* it is by then.                                                          *)
Settle(m) ==
  /\ m.at # "sent"
  /\ fetch # None => m.n \notin fetch.awaited
  /\ mutations' = mutations \ {m}
  /\ toast' \in CASE m.kind = "undo" -> {None}
                 [] m.kind # "undo" /\ (m.at = "failed" \/ ~m.current) -> {toast}
                 [] m.kind = "batch" /\ m.at = "done" /\ m.current -> {None}
                 [] m.kind \in {"approve", "reject", "modify"} /\ m.at = "done" /\ m.current -> m.ids
  /\ UNCHANGED <<pending, page, list, invalid, fetch, events, changed>>

Query == Refetch \/ FetchReads \/ FetchArrives \/ FetchFails \/ Leave \/ Return

Analyst ==
  \/ \E r \in Rec : Approve(r) \/ Reject(r) \/ Modify(r)
  \/ \E ids \in SUBSET Rec : BatchApprove(ids)
  \/ Undo \/ Expire

Next ==
  \/ Query
  \/ Analyst
  \/ \E m \in mutations : (\E r \in Rec : Handle(m, r)) \/ Answered(m) \/ Lose(m) \/ Settle(m)
  \/ \E r \in Rec : Foreign(r)

Spec == Init /\ [][Next]_vars

-----------------------------------------------------------------------------
(* Properties. *)

(* Once no decision waits for its answer and no request is under way, the  *)
(* queue is the first page of what is pending, but for what others have    *)
(* changed since it was read: no snapshot put back, no row dropped too     *)
(* early and no late answer survives.                                      *)
QuietQueueIsCurrent ==
  page /\ fetch = None /\ ~invalid /\ (\A m \in mutations : m.at # "sent") =>
    \E read \in SUBSET Rec :
      /\ \A r \in Rec \ changed : r \in read <=> r \in pending
      /\ list = FirstPage(read)
=============================================================================

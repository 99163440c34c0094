------------------------------ MODULE Decisions ------------------------------
(***************************************************************************)
(* What happens to a recommendation: the pipeline tail that creates and    *)
(* finalizes it (agents/orchestrator.ts), the analysts' approve, reject,   *)
(* modify and undo (services/recommendation.service.ts), and the rows they *)
(* share (repositories/recommendation.repository.ts).  Prices are pushed   *)
(* by module Execution, instantiated as E.                                 *)
(*                                                                         *)
(* A handler is one HTTP request or one pipeline run, and each action is   *)
(* its code between two awaits.  The run that creates recommendation r is  *)
(* named r.  Batch approval is a sequence of approve requests.             *)
(***************************************************************************)
EXTENDS Integers, FiniteSets, Sequences

CONSTANTS
  Request,         \* requests an analyst sends
  Rec,             \* recommendations, and the pipeline runs that create them
  Product,
  ProductOf,       \* the product a recommendation is about
  Price,
  None,
  Ops,             \* what the requests of an instance ask for
  MaxEdits, MaxDbFailures, MaxCrashes,
  MaxFailures      \* bound: statements of the handlers themselves that fail

ASSUME RecAssumption == Request \cap Rec = {} /\ ProductOf \in [Rec -> Product]
ASSUME OpsAssumption == Ops \subseteq {"approve", "reject", "modify", "undo"}
ASSUME FailureAssumption == MaxFailures \in Nat

Handler == Request \cup Rec

VARIABLES
  \* shared with Execution
  price, floor, storefront, accepted, phase, product, amount, previous, row,
  edits, dbFailures, crashes, overlapped,
  \* the recommendation's row
  status, resolvedAt, resolvedBy, recommended, base,
  \* the handlers
  pc, op, target, seen, chosen, answer,
  \* the rows in audit_logs about recommendations
  audit,
  failures,
  \* history: recommendations decided before their run was over, and products
  \* that had two handlers at work at a time
  early, contended

E == INSTANCE Execution WITH Caller <- Handler

ASSUME ExecutionAssumption ==
  E!PriceAssumption /\ E!ProductAssumption /\ E!BoundAssumption

exec     == <<price, floor, storefront, accepted, row, phase, product, amount, previous,
              edits, dbFailures, crashes, overlapped>>
recRow   == <<status, resolvedAt, resolvedBy, recommended, base>>
handlers == <<pc, op, target, seen, chosen, answer>>
history  == <<early, contended>>
own      == <<recRow, handlers, audit, failures, history>>
vars     == <<exec, own>>

RecStatus == {"PENDING", "APPROVED", "REJECTED", "MODIFIED", "AUTO_EXECUTED", "FAILED"}
Pushing   == {"APPROVED", "MODIFIED", "AUTO_EXECUTED"}
Op        == {"approve", "reject", "modify", "undo", "generate"}
Busy      == {"loaded", "agents", "reading", "claiming", "undoing", "executing", "auditing"}

ASSUME NoneAssumption == None \notin Handler \cup Op

(* The status a handler's claim writes. *)
Resolution(o) ==
  CASE o = "approve"  -> "APPROVED"
    [] o = "reject"   -> "REJECTED"
    [] o = "modify"   -> "MODIFIED"
    [] o = "generate" -> "AUTO_EXECUTED"
    [] OTHER          -> "PENDING"

TypeOK ==
  /\ E!TypeOK
  /\ status \in [Rec -> RecStatus \cup {"ABSENT"}]
  /\ resolvedAt \in [Rec -> {"never", "recent", "old"}]
  /\ resolvedBy \in [Rec -> Request \cup {None}]
  /\ recommended \in [Rec -> Price \cup {None}]
  /\ base \in [Rec -> Price \cup {None}]
  /\ pc \in [Handler -> Busy \cup {"idle", "done", "dead"}]
  /\ op \in [Handler -> Op \cup {None}]
  /\ target \in [Handler -> Rec \cup {None}]
  /\ seen \in [Handler -> RecStatus \cup {None}]
  /\ chosen \in [Handler -> Price \cup {None}]
  /\ answer \in [Handler -> {"none", "ok", "conflict", "invalid", "error"}]
  /\ audit \in [Rec -> Seq({"APPROVED", "REJECTED", "MODIFIED", "UNDONE"})]
  /\ failures \in 0..MaxFailures
  /\ early \subseteq Rec
  /\ contended \subseteq Product

Init ==
  /\ E!Init
  /\ status = [r \in Rec |-> "ABSENT"]
  /\ resolvedAt = [r \in Rec |-> "never"]
  /\ resolvedBy = [r \in Rec |-> None]
  /\ recommended = [r \in Rec |-> None]
  /\ base = [r \in Rec |-> None]
  /\ pc = [c \in Handler |-> "idle"]
  /\ op = [c \in Handler |-> IF c \in Rec THEN "generate" ELSE None]
  /\ target = [c \in Handler |-> IF c \in Rec THEN c ELSE None]
  /\ seen = [c \in Handler |-> None]
  /\ chosen = [c \in Handler |-> None]
  /\ answer = [c \in Handler |-> "none"]
  /\ audit = [r \in Rec |-> << >>]
  /\ failures = 0
  /\ early = {} /\ contended = {}

(* Some handler of product p is at work. *)
AtWork(p) == \E d \in Handler : pc[d] \in Busy /\ ProductOf[target[d]] = p

NoteContention(p) == contended' = IF AtWork(p) THEN contended \cup {p} ELSE contended

Goto(c, l)   == pc' = [pc EXCEPT ![c] = l]
Finish(c, a) == Goto(c, "done") /\ answer' = [answer EXCEPT ![c] = a]
Push(c, x)   == E!Call(c, ProductOf[target[c]], x) /\ Goto(c, "executing") /\ UNCHANGED answer

-----------------------------------------------------------------------------
(* Plausible bugs: each of these replaces the action it is named after.    *)

(* A read-then-write claim: the UPDATE no longer checks the status. *)
ResolveUnconditional(c) ==
  /\ pc[c] = "claiming"
  /\ status' = [status EXCEPT ![target[c]] = Resolution(op[c])]
  /\ resolvedAt' = [resolvedAt EXCEPT ![target[c]] = "recent"]
  /\ resolvedBy' = [resolvedBy EXCEPT ![target[c]] = c]
  /\ UNCHANGED <<recommended, base>>

(* The failure is reported and the recommendation stays approved. *)
RequeueForgotten(c) ==
  /\ pc[c] = "executing" /\ op[c] # "undo" /\ phase[c] \in {"refused", "failed"}
  /\ Finish(c, "error")
  /\ UNCHANGED <<exec, recRow, op, target, seen, chosen, audit, failures, history>>

(* The failed push is tried again, past the gate. *)
RequeueRetries(c) ==
  /\ pc[c] = "executing" /\ op[c] # "undo" /\ phase[c] \in {"refused", "failed"}
  /\ phase' = [phase EXCEPT ![c] = "checked"]
  /\ UNCHANGED <<price, floor, storefront, accepted, row, product, amount, previous,
                 edits, dbFailures, crashes, overlapped, own>>

(* An undo whose push fails is not caught. *)
DecidedOnlyBySuccess(c) ==
  \/ pc[c] = "auditing"
  \/ pc[c] = "executing" /\ op[c] # "generate" /\ phase[c] = "succeeded"

-----------------------------------------------------------------------------
(* The pipeline's first and last statements; the waves between them do not *)
(* touch the recommendation.                                               *)

LoadProduct(r) ==
  /\ pc[r] = "idle"
  /\ Goto(r, "loaded")
  /\ chosen' = [chosen EXCEPT ![r] = price[ProductOf[r]]]
  /\ NoteContention(ProductOf[r])
  /\ UNCHANGED <<exec, recRow, op, target, seen, answer, audit, failures, early>>

(* createPending: a placeholder at the current price, in the queue at once. *)
CreateSkeleton(r) ==
  /\ pc[r] = "loaded"
  /\ Goto(r, "agents")
  /\ status' = [status EXCEPT ![r] = "PENDING"]
  /\ recommended' = [recommended EXCEPT ![r] = chosen[r]]
  /\ base' = [base EXCEPT ![r] = chosen[r]]
  /\ UNCHANGED <<exec, resolvedAt, resolvedBy, op, target, seen, chosen, answer, audit, failures, history>>

(* markFailed: inventory or strategy produced nothing. *)
MarkFailed(r) ==
  /\ pc[r] = "agents"
  /\ Finish(r, "error")
  /\ status' = [status EXCEPT ![r] = "FAILED"]
  /\ UNCHANGED <<exec, resolvedAt, resolvedBy, recommended, base, op, target, seen, chosen, audit, failures, history>>

(* finalize with PENDING: blocked, or below the confidence threshold. *)
FinalizeForReview(r, x) ==
  /\ pc[r] = "agents"
  /\ Finish(r, "ok")
  /\ status' = [status EXCEPT ![r] = "PENDING"]
  /\ recommended' = [recommended EXCEPT ![r] = x]
  /\ UNCHANGED <<exec, resolvedAt, resolvedBy, base, op, target, seen, chosen, audit, failures, history>>

(* finalize with AUTO_EXECUTED, then the push.  Both writes are            *)
(* unconditional, and neither stamps resolvedAt.                           *)
FinalizeAuto(r, x) ==
  /\ pc[r] = "agents"
  /\ Push(r, x)
  /\ status' = [status EXCEPT ![r] = "AUTO_EXECUTED"]
  /\ recommended' = [recommended EXCEPT ![r] = x]
  /\ UNCHANGED <<resolvedAt, resolvedBy, base, op, target, seen, chosen, audit, failures, history>>

(* A statement of the run throws: the stream reports a failure and the     *)
(* skeleton stays where it is.                                             *)
RunThrows(r) ==
  /\ pc[r] \in {"loaded", "agents"}
  /\ failures < MaxFailures
  /\ failures' = failures + 1
  /\ Finish(r, "error")
  /\ UNCHANGED <<exec, recRow, op, target, seen, chosen, audit, history>>

RunEnds(r) ==
  /\ pc[r] = "executing" /\ phase[r] = "succeeded"
  /\ Finish(r, "ok")
  /\ UNCHANGED <<exec, recRow, op, target, seen, chosen, audit, failures, history>>

-----------------------------------------------------------------------------
(* Decisions. *)

(* A request names a recommendation the queue or the detail page shows. *)
Open(c, r, o) ==
  /\ pc[c] = "idle" /\ o \in Ops
  /\ status[r] # "ABSENT"
  /\ op' = [op EXCEPT ![c] = o]
  /\ target' = [target EXCEPT ![c] = r]
  /\ early' = IF pc[r] \in {"done", "dead"} THEN early ELSE early \cup {r}
  /\ NoteContention(ProductOf[r])

(* claim's findById and canTransition. *)
Consider(c, r) ==
  /\ seen' = [seen EXCEPT ![c] = status[r]]
  /\ \/ status[r] = "PENDING" /\ Goto(c, "claiming") /\ UNCHANGED answer
     \/ status[r] # "PENDING" /\ Finish(c, "conflict")

(* approve and reject open with claim's read; approve will execute the     *)
(* recommendedPrice of this read.                                          *)
ApproveOrReject(c, r, o) ==
  /\ o \in {"approve", "reject"}
  /\ Open(c, r, o)
  /\ Consider(c, r)
  /\ chosen' = [chosen EXCEPT ![c] = recommended[r]]
  /\ UNCHANGED <<exec, recRow, audit, failures>>

(* modify opens with its own reads and the gate on the human's price. *)
Modify(c, r, x) ==
  /\ Open(c, r, "modify")
  /\ chosen' = [chosen EXCEPT ![c] = x]
  /\ \/ x >= floor[ProductOf[r]] /\ Goto(c, "reading") /\ UNCHANGED answer
     \/ x < floor[ProductOf[r]] /\ Finish(c, "invalid")
  /\ UNCHANGED <<exec, recRow, seen, audit, failures>>

ModifyReads(c) ==
  /\ pc[c] = "reading"
  /\ Consider(c, target[c])
  /\ UNCHANGED <<exec, recRow, op, target, chosen, audit, failures, history>>

(* claimAndResolve: the check is in the UPDATE's WHERE clause. *)
Resolve(c) ==
  LET r == target[c] IN
  /\ pc[c] = "claiming" /\ status[r] = "PENDING"
  /\ status' = [status EXCEPT ![r] = Resolution(op[c])]
  /\ resolvedAt' = [resolvedAt EXCEPT ![r] = "recent"]
  /\ resolvedBy' = [resolvedBy EXCEPT ![r] = c]
  /\ UNCHANGED <<recommended, base>>

(* A winner that approves or modifies goes on to push its price. *)
Claim(c) ==
  /\ Resolve(c)
  /\ \/ op[c] = "reject" /\ Goto(c, "auditing") /\ UNCHANGED <<exec, answer>>
     \/ op[c] # "reject" /\ Push(c, chosen[c])
  /\ UNCHANGED <<op, target, seen, chosen, audit, failures, history>>

(* undo reads the status and the price it may have to put back. *)
Undo(c, r) ==
  /\ Open(c, r, "undo")
  /\ seen' = [seen EXCEPT ![c] = status[r]]
  /\ chosen' = [chosen EXCEPT ![c] = base[r]]
  /\ \/ status[r] = "PENDING" /\ Finish(c, "conflict")
     \/ status[r] # "PENDING" /\ Goto(c, "undoing") /\ UNCHANGED answer
  /\ UNCHANGED <<exec, recRow, audit, failures>>

(* claimAndUndo's UPDATE. *)
Undoable(r) == status[r] # "PENDING" /\ resolvedAt[r] = "recent"

Restore(c) ==
  LET r == target[c] IN
  /\ pc[c] = "undoing" /\ Undoable(r)
  /\ status' = [status EXCEPT ![r] = "PENDING"]
  /\ resolvedAt' = [resolvedAt EXCEPT ![r] = "never"]
  /\ resolvedBy' = [resolvedBy EXCEPT ![r] = None]
  /\ UNCHANGED <<recommended, base>>

(* The push follows if the status read before the UPDATE had pushed. *)
ClaimUndo(c) ==
  /\ Restore(c)
  /\ \/ seen[c] \notin Pushing /\ Goto(c, "auditing") /\ UNCHANGED <<exec, answer>>
     \/ seen[c] \in Pushing /\ Push(c, chosen[c])
  /\ UNCHANGED <<op, target, seen, chosen, audit, failures, history>>

(* A read or a claim throws.  Both claims read the row again after their   *)
(* UPDATE, so a claim that throws may have been made.                      *)
ClaimThrows(c) ==
  /\ pc[c] \in {"reading", "claiming", "undoing"}
  /\ failures < MaxFailures
  /\ failures' = failures + 1
  /\ Finish(c, "error")
  /\ UNCHANGED recRow \/ Resolve(c) \/ Restore(c)
  /\ UNCHANGED <<exec, op, target, seen, chosen, audit, history>>

(* Either conditional UPDATE matched no row. *)
LoseClaim(c) ==
  /\ \/ pc[c] = "claiming" /\ status[target[c]] # "PENDING"
     \/ pc[c] = "undoing" /\ ~Undoable(target[c])
  /\ Finish(c, "conflict")
  /\ UNCHANGED <<exec, recRow, op, target, seen, chosen, audit, failures, history>>

(* The catch of approve, modify and the auto-execution: setStatus PENDING,  *)
(* whatever the row holds by now, and nothing else in the row.             *)
Requeue(c) ==
  /\ pc[c] = "executing" /\ op[c] # "undo" /\ phase[c] \in {"refused", "failed"}
  /\ Finish(c, "error")
  /\ status' = [status EXCEPT ![target[c]] = "PENDING"]
  /\ UNCHANGED <<exec, resolvedAt, resolvedBy, recommended, base, op, target, seen, chosen, audit, failures, history>>

(* The decision is done and only its audit row is missing.  undo swallows  *)
(* a failed push.                                                          *)
Decided(c) ==
  \/ pc[c] = "auditing"
  \/ pc[c] = "executing" /\ op[c] # "generate" /\ phase[c] = "succeeded"
  \/ pc[c] = "executing" /\ op[c] = "undo" /\ phase[c] \in E!Ended

(* Two plausible bugs in its place. *)
AuditSkipsUndo(c) ==
  /\ Decided(c)
  /\ Finish(c, "ok")
  /\ audit' = [audit EXCEPT ![target[c]] = IF op[c] = "undo" THEN @ ELSE Append(@, Resolution(op[c]))]
  /\ UNCHANGED <<exec, recRow, op, target, seen, chosen, failures, history>>

AuditWritesOp(c) ==
  /\ Decided(c)
  /\ Finish(c, "ok")
  /\ audit' = [audit EXCEPT ![target[c]] = Append(@, op[c])]
  /\ UNCHANGED <<exec, recRow, op, target, seen, chosen, failures, history>>

(* The audit row is written last, after the decision and its push. *)
Audit(c) ==
  LET entry == IF op[c] = "undo" THEN "UNDONE" ELSE Resolution(op[c]) IN
  /\ Decided(c)
  /\ Finish(c, "ok")
  /\ audit' = [audit EXCEPT ![target[c]] = Append(@, entry)]
  /\ UNCHANGED <<exec, recRow, op, target, seen, chosen, failures, history>>

(* auditService.record swallows its failure; a failing setStatus loses the *)
(* requeue.                                                                *)
LastStatementFails(c) ==
  /\ failures < MaxFailures
  /\ failures' = failures + 1
  /\ \/ Decided(c) /\ Finish(c, "ok")
     \/ /\ pc[c] = "executing" /\ op[c] # "undo" /\ phase[c] \in {"refused", "failed"}
        /\ Finish(c, "error")
  /\ UNCHANGED <<exec, recRow, op, target, seen, chosen, audit, history>>

Executing(c) == E!Step(c) /\ UNCHANGED own

HandlerStep(c) ==
  \/ ModifyReads(c)
  \/ Claim(c)
  \/ ClaimUndo(c)
  \/ LoseClaim(c)
  \/ Executing(c)
  \/ Requeue(c)
  \/ Audit(c)

RunStep(r) ==
  \/ CreateSkeleton(r)
  \/ MarkFailed(r)
  \/ \E x \in Price : FinalizeForReview(r, x) \/ FinalizeAuto(r, x)
  \/ RunEnds(r)

-----------------------------------------------------------------------------
(* The undo window of ten minutes closes. *)
WindowCloses(r) ==
  /\ resolvedAt[r] = "recent"
  /\ resolvedAt' = [resolvedAt EXCEPT ![r] = "old"]
  /\ UNCHANGED <<exec, status, resolvedBy, recommended, base, handlers, audit, failures, history>>

Crash ==
  /\ E!Crash
  /\ pc' = [c \in Handler |-> IF pc[c] \in Busy THEN "dead" ELSE pc[c]]
  /\ UNCHANGED <<recRow, op, target, seen, chosen, answer, audit, failures, history>>

Environment ==
  \/ \E r \in Rec : WindowCloses(r)
  \/ \E p \in Product, x \in Price : (E!EditPrice(p, x) \/ E!EditLimits(p, x)) /\ UNCHANGED own
  \/ Crash

Next ==
  \/ \E r \in Rec : LoadProduct(r) \/ RunStep(r) \/ RunThrows(r)
  \/ \E c \in Request, r \in Rec :
       \/ \E o \in Ops : ApproveOrReject(c, r, o)
       \/ \E x \in Price : Modify(c, r, x)
       \/ Undo(c, r)
  \/ \E c \in Handler :
       \/ HandlerStep(c)
       \/ E!StatementFails(c) /\ UNCHANGED own
       \/ ClaimThrows(c)
       \/ LastStatementFails(c)
  \/ Environment

Safe == Init /\ [][Next]_vars

(* Every await settles: the agents by AGENT_TIMEOUT_MS and their bounded   *)
(* retries, the database and the storefront by answering or throwing.      *)
Fairness ==
  /\ \A c \in Handler : WF_vars(HandlerStep(c))
  /\ \A r \in Rec : WF_vars(RunStep(r))

Spec == Safe /\ Fairness
-----------------------------------------------------------------------------
(* Properties. *)

UndoAttempted(r) == \E c \in Request : op[c] = "undo" /\ target[c] = r

(* No handler of r is at work. *)
AtRest(r) == \A c \in Handler : target[c] = r => pc[c] \notin Busy

Undisturbed == edits = 0 /\ dbFailures = 0 /\ failures = 0 /\ crashes = 0

(* Handlers composed with executeRecommendation call it as it expects to   *)
(* be called: once each, from its start to its end.                        *)
ImplementsExecution == E!Safe

(* The handlers that pushed a price for r, whatever their row says of it,  *)
(* and those that are on their way to it.                                  *)
Pushes(r) ==
  {c \in Handler : target[c] = r /\ (c \in accepted \/ phase[c] \in E!InFlight)}

(* "Re-approving an approved recommendation would execute a second price   *)
(* change, so it is made impossible": at most one handler ever pushes a    *)
(* price for a recommendation nobody asked to undo.                        *)
NoSecondPush == \A r \in Rec : ~UndoAttempted(r) => Cardinality(Pushes(r)) <= 1

(* The same for a recommendation nobody decided before its run was over,   *)
(* if no executions row is lost.  A success row that is lost after its     *)
(* push counts as a failed push, the recommendation is requeued, and the   *)
(* next approval pushes again: so there is one push and, for each failed   *)
(* statement of an execution, at most one more, however many analysts race *)
(* and whatever fails, is refused or dies in between.                      *)
EachFurtherPushLostARow ==
  \A r \in Rec \ early : ~UndoAttempted(r) => Cardinality(Pushes(r)) <= 1 + dbFailures

(* The comment's claim for such a recommendation, which a lost row refutes. *)
NoSecondPushAfterItsRun ==
  \A r \in Rec \ early : ~UndoAttempted(r) => Cardinality(Pushes(r)) <= 1

(* "Rather than leaving it falsely approved": a status that says a price   *)
(* was pushed is backed by a handler that pushed it, is pushing it or died *)
(* doing so, whatever claims, undos and requeues overlapped.               *)
PushedStatusHasPush ==
  failures = 0 =>
    \A r \in Rec : status[r] \in Pushing =>
      \E c \in Handler :
        /\ target[c] = r /\ Resolution(op[c]) = status[r]
        /\ \/ row[c] = "succeeded"
           \/ pc[c] \in {"executing", "dead"} /\ phase[c] # "idle"

(* Where handlers do not overlap an undo or the run, the last audit row    *)
(* of a recommendation at rest explains its status.                        *)
AuditExplainsStatus ==
  \A r \in Rec :
    /\ failures = 0 /\ crashes = 0 /\ AtRest(r)
    /\ ProductOf[r] \notin contended \/ (r \notin early /\ ~UndoAttempted(r))
    => LET last == IF audit[r] = << >> THEN "UNDONE" ELSE audit[r][Len(audit[r])] IN
       IF status[r] \in {"APPROVED", "REJECTED", "MODIFIED"} THEN last = status[r]
                                                             ELSE last = "UNDONE"

(* An undo puts the price back: where the handlers of a product took turns *)
(* and it has one recommendation, one that waits for a decision has left   *)
(* the price where it found it, unless the push that should have put it    *)
(* back failed.                                                            *)
PendingMeansUnpriced ==
  Undisturbed =>
    \A r \in Rec :
      /\ status[r] = "PENDING" /\ AtRest(r)
      /\ ProductOf[r] \notin contended
      /\ \A s \in Rec \ {r} : ProductOf[s] # ProductOf[r]
      /\ \A c \in Handler : op[c] = "undo" => phase[c] \notin {"refused", "failed"}
      => price[ProductOf[r]] = base[r] /\ storefront[ProductOf[r]] = base[r]

(* What the rows say of a recommendation is what was done to it: the push  *)
(* behind a status, the decision behind a status, the price behind none.   *)
RowsTellTheStory == PushedStatusHasPush /\ AuditExplainsStatus /\ PendingMeansUnpriced

(* "An APPROVED or AUTO_EXECUTED recommendation already pushed a price, so *)
(* the undo puts the previous price back": such a recommendation is        *)
(* refused an undo only when the window has closed.                        *)
AutoExecutedCanBeUndone ==
  [][\A c \in Request :
       pc[c] = "undoing" /\ answer'[c] = "conflict" /\ status[target[c]] = "AUTO_EXECUTED"
       => resolvedAt[target[c]] = "old"]_vars

(* "It is itself a conditional claim", so it "does not reintroduce that    *)
(* race": a decision leaves its status only by an undo or by the failure   *)
(* of the handler that made it.                                            *)
DecisionsStand ==
  [][\A r \in Rec : resolvedBy[r] # None /\ status[r] \in {"APPROVED", "MODIFIED", "REJECTED"}
       /\ status'[r] # status[r]
       => \/ \E u \in Request : op[u] = "undo" /\ target[u] = r /\ pc[u] = "undoing" /\ pc'[u] # pc[u]
          \/ answer'[resolvedBy[r]] = "error"]_vars

(* Every request and every run is answered, unless the process exits. *)
HandlersAnswer == \A c \in Handler : pc[c] \in Busy ~> pc[c] \in {"done", "dead"}

(* A claim whose push fails gives the recommendation back to the queue, if *)
(* no statement of the catch block fails too.                              *)
FailedPushRequeues ==
  \A c \in Handler :
    (op[c] # "undo" /\ pc[c] = "executing" /\ phase[c] \in {"refused", "failed"})
      ~> \/ \E r \in Rec : target[c] = r /\ status[r] = "PENDING"
         \/ failures > 0 \/ pc[c] = "dead"
=============================================================================

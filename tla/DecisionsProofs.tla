--------------------------- MODULE DecisionsProofs ---------------------------
(***************************************************************************)
(* Proofs about Decisions, for every set of requests, recommendations,     *)
(* products and prices and every value of the bounds, in this order: types *)
(* and the refinement of Execution, what a further push costs, the push    *)
(* behind a status, handlers that take turns, the audit row behind a       *)
(* status, and the price behind a waiting recommendation.  Each part rests *)
(* on the invariants of the parts before it.                               *)
(***************************************************************************)
EXTENDS Decisions, FiniteSetTheorems, TLAPS

P == INSTANCE ExecutionProofs WITH Caller <- Handler

-----------------------------------------------------------------------------
(* What a handler knows at each point of its code.  A request past its     *)
(* first read has a target the queue has shown, and whoever may push next  *)
(* has the price to push.                                                  *)

RunsKnowThemselves ==
  \A r \in Rec :
    /\ target[r] = r /\ op[r] = "generate"
    /\ pc[r] \in {"idle", "loaded", "agents", "executing", "done", "dead"}
    /\ pc[r] \in {"agents", "executing"} => status[r] # "ABSENT"
    /\ status[r] # "ABSENT" => recommended[r] \in Price /\ base[r] \in Price

RequestsKnowTarget ==
  \A c \in Request :
    /\ pc[c] \notin {"loaded", "agents"}
    /\ pc[c] # "idle" =>
         /\ target[c] \in Rec /\ status[target[c]] # "ABSENT"
         /\ op[c] \in {"approve", "reject", "modify", "undo"}
    /\ pc[c] \in {"reading", "claiming"} => op[c] # "undo"
    /\ pc[c] = "idle" => op[c] = None

PushersKnowPrice ==
  \A c \in Handler : pc[c] \in {"loaded", "reading", "claiming", "undoing"} => chosen[c] \in Price

RowsTyped ==
  /\ status \in [Rec -> RecStatus \cup {"ABSENT"}]
  /\ resolvedAt \in [Rec -> {"never", "recent", "old"}]
  /\ resolvedBy \in [Rec -> Request \cup {None}]
  /\ recommended \in [Rec -> Price \cup {None}]
  /\ base \in [Rec -> Price \cup {None}]
  /\ audit \in [Rec -> Seq({"APPROVED", "REJECTED", "MODIFIED", "UNDONE"})]
  /\ failures \in 0..MaxFailures
  /\ early \subseteq Rec
  /\ contended \subseteq Product

HandlersTyped ==
  /\ pc \in [Handler -> Busy \cup {"idle", "done", "dead"}]
  /\ op \in [Handler -> Op \cup {None}]
  /\ target \in [Handler -> Rec \cup {None}]
  /\ seen \in [Handler -> RecStatus \cup {None}]
  /\ chosen \in [Handler -> Price \cup {None}]
  /\ answer \in [Handler -> {"none", "ok", "conflict", "invalid", "error"}]

OwnInv == RowsTyped /\ HandlersTyped /\ RunsKnowThemselves /\ RequestsKnowTarget /\ PushersKnowPrice

ExecInv == E!TypeOK /\ P!WellFormed

LEMMA InitOwn == Init => OwnInv
  <1> SUFFICES ASSUME Init PROVE OwnInv
    OBVIOUS
  <1> USE RecAssumption, FailureAssumption, NoneAssumption DEF Init, Handler
  <1>1. RowsTyped /\ HandlersTyped
    BY DEF RowsTyped, HandlersTyped, RecStatus, Busy, Op
  <1>2. RunsKnowThemselves /\ RequestsKnowTarget /\ PushersKnowPrice
    BY DEF RunsKnowThemselves, RequestsKnowTarget, PushersKnowPrice
  <1>3. QED
    BY <1>1, <1>2 DEF OwnInv

(* The steps that leave every variable of Execution alone. *)
ExecUnchanged == UNCHANGED exec

LEMMA ExecIsVars == ExecUnchanged => UNCHANGED E!vars
  BY DEF ExecUnchanged, exec, E!vars, E!data, E!locals, E!history

(* All that most steps need of the types. *)
LEMMA Domains ==
  ASSUME OwnInv
  PROVE  /\ DOMAIN pc = Handler /\ DOMAIN op = Handler /\ DOMAIN target = Handler
         /\ DOMAIN seen = Handler /\ DOMAIN chosen = Handler /\ DOMAIN answer = Handler
         /\ DOMAIN status = Rec /\ DOMAIN recommended = Rec /\ DOMAIN base = Rec
  BY DEF OwnInv, RowsTyped, HandlersTyped

LEMMA Members == (\A r \in Rec : r \in Handler) /\ (\A c \in Request : c \in Handler /\ c \notin Rec)
  BY RecAssumption DEF Handler

LEMMA LoadOwn ==
  ASSUME OwnInv, ExecInv, NEW r \in Rec, LoadProduct(r)
  PROVE  OwnInv' /\ ExecUnchanged
  <1>a. r \in Handler /\ r \notin Request
    BY RecAssumption DEF Handler
  <1>b. price[ProductOf[r]] \in Price
    BY RecAssumption DEF ExecInv, E!TypeOK
  <1>1. RowsTyped'
    BY RecAssumption, <1>a DEF OwnInv, RowsTyped, LoadProduct, Goto, Busy, recRow, history, NoteContention
  <1>2. HandlersTyped'
    BY <1>a, <1>b DEF OwnInv, HandlersTyped, LoadProduct, Goto, Busy, recRow
  <1>3. RunsKnowThemselves'
    BY Domains, Members, <1>a DEF OwnInv, RunsKnowThemselves, LoadProduct, Goto, Busy, recRow
  <1>4. RequestsKnowTarget'
    BY Domains, Members, <1>a DEF OwnInv, RequestsKnowTarget, LoadProduct, Goto, Busy, recRow
  <1>5. PushersKnowPrice'
    BY <1>a, <1>b DEF OwnInv, HandlersTyped, PushersKnowPrice, LoadProduct, Goto, Busy, recRow
  <1>6. QED
    BY <1>1, <1>2, <1>3, <1>4, <1>5 DEF OwnInv, ExecUnchanged, LoadProduct, Goto, Busy, recRow

LEMMA CreateOwn ==
  ASSUME OwnInv, ExecInv, NEW r \in Rec, CreateSkeleton(r)
  PROVE  OwnInv' /\ ExecUnchanged
  <1>a. r \in Handler /\ r \notin Request
    BY RecAssumption DEF Handler
  <1>b. chosen[r] \in Price
    BY <1>a DEF OwnInv, PushersKnowPrice, CreateSkeleton
  <1>1. RowsTyped'
    BY <1>b DEF OwnInv, RowsTyped, CreateSkeleton, Goto, Busy, RecStatus, history
  <1>2. HandlersTyped'
    BY <1>a DEF OwnInv, HandlersTyped, CreateSkeleton, Goto, Busy, RecStatus
  <1>3. RunsKnowThemselves'
    BY Domains, Members, <1>a, <1>b DEF OwnInv, RunsKnowThemselves, CreateSkeleton, Goto, Busy, RecStatus
  <1>4. RequestsKnowTarget'
    BY Domains, Members, <1>a DEF OwnInv, RequestsKnowTarget, CreateSkeleton, Goto, Busy, RecStatus
  <1>5. PushersKnowPrice'
    BY <1>a DEF OwnInv, HandlersTyped, PushersKnowPrice, CreateSkeleton, Goto, Busy, RecStatus
  <1>6. QED
    BY <1>1, <1>2, <1>3, <1>4, <1>5 DEF OwnInv, ExecUnchanged, CreateSkeleton, Goto, Busy, RecStatus

LEMMA MarkFailedOwn ==
  ASSUME OwnInv, ExecInv, NEW r \in Rec, MarkFailed(r)
  PROVE  OwnInv' /\ ExecUnchanged
  <1>a. r \in Handler /\ r \notin Request
    BY RecAssumption DEF Handler
  <1>1. RowsTyped'
    BY <1>a DEF OwnInv, RowsTyped, MarkFailed, Goto, Finish, RecStatus, history
  <1>2. HandlersTyped'
    BY <1>a DEF OwnInv, HandlersTyped, MarkFailed, Goto, Finish, RecStatus
  <1>3. RunsKnowThemselves'
    BY Domains, Members, <1>a DEF OwnInv, RunsKnowThemselves, MarkFailed, Goto, Finish, RecStatus
  <1>4. RequestsKnowTarget'
    BY Domains, Members, <1>a DEF OwnInv, RequestsKnowTarget, MarkFailed, Goto, Finish, RecStatus
  <1>5. PushersKnowPrice'
    BY <1>a DEF OwnInv, HandlersTyped, PushersKnowPrice, MarkFailed, Goto, Finish, RecStatus
  <1>6. QED
    BY <1>1, <1>2, <1>3, <1>4, <1>5 DEF OwnInv, ExecUnchanged, MarkFailed, Goto, Finish, RecStatus

LEMMA ReviewOwn ==
  ASSUME OwnInv, ExecInv, NEW r \in Rec, NEW x \in Price, FinalizeForReview(r, x)
  PROVE  OwnInv' /\ ExecUnchanged
  <1>a. r \in Handler /\ r \notin Request
    BY RecAssumption DEF Handler
  <1>1. RowsTyped'
    BY <1>a DEF OwnInv, RowsTyped, FinalizeForReview, Goto, Finish, RecStatus, history
  <1>2. HandlersTyped'
    BY <1>a DEF OwnInv, HandlersTyped, FinalizeForReview, Goto, Finish, RecStatus
  <1>3. RunsKnowThemselves'
    BY Domains, Members, <1>a DEF OwnInv, RunsKnowThemselves, FinalizeForReview, Goto, Finish, RecStatus
  <1>4. RequestsKnowTarget'
    BY Domains, Members, <1>a DEF OwnInv, RequestsKnowTarget, FinalizeForReview, Goto, Finish, RecStatus
  <1>5. PushersKnowPrice'
    BY <1>a DEF OwnInv, HandlersTyped, PushersKnowPrice, FinalizeForReview, Goto, Finish, RecStatus
  <1>6. QED
    BY <1>1, <1>2, <1>3, <1>4, <1>5 DEF OwnInv, ExecUnchanged, FinalizeForReview, Goto, Finish, RecStatus

LEMMA AutoOwn ==
  ASSUME OwnInv, ExecInv, NEW r \in Rec, NEW x \in Price, FinalizeAuto(r, x)
  PROVE  OwnInv'
  <1>a. r \in Handler /\ r \notin Request
    BY RecAssumption DEF Handler
  <1>1. RowsTyped'
    BY <1>a DEF OwnInv, RowsTyped, FinalizeAuto, Goto, Push, Busy, RecStatus, history
  <1>2. HandlersTyped'
    BY <1>a DEF OwnInv, HandlersTyped, FinalizeAuto, Goto, Push, Busy, RecStatus
  <1>3. RunsKnowThemselves'
    BY Domains, Members, <1>a DEF OwnInv, RunsKnowThemselves, FinalizeAuto, Goto, Push, Busy, RecStatus
  <1>4. RequestsKnowTarget'
    BY Domains, Members, <1>a DEF OwnInv, RequestsKnowTarget, FinalizeAuto, Goto, Push, Busy, RecStatus
  <1>5. PushersKnowPrice'
    BY <1>a DEF OwnInv, HandlersTyped, PushersKnowPrice, FinalizeAuto, Goto, Push, Busy, RecStatus
  <1>6. QED
    BY <1>1, <1>2, <1>3, <1>4, <1>5 DEF OwnInv

LEMMA RunThrowsOwn ==
  ASSUME OwnInv, ExecInv, NEW r \in Rec, RunThrows(r)
  PROVE  OwnInv' /\ ExecUnchanged
  <1>a. r \in Handler /\ r \notin Request
    BY RecAssumption DEF Handler
  <1>1. RowsTyped'
    BY FailureAssumption DEF OwnInv, RowsTyped, RunThrows, Goto, Finish, recRow, history
  <1>2. HandlersTyped'
    BY <1>a DEF OwnInv, HandlersTyped, RunThrows, Goto, Finish, recRow
  <1>3. RunsKnowThemselves'
    BY Domains, Members, <1>a DEF OwnInv, RunsKnowThemselves, RunThrows, Goto, Finish, recRow
  <1>4. RequestsKnowTarget'
    BY Domains, Members, <1>a DEF OwnInv, RequestsKnowTarget, RunThrows, Goto, Finish, recRow
  <1>5. PushersKnowPrice'
    BY <1>a DEF OwnInv, HandlersTyped, PushersKnowPrice, RunThrows, Goto, Finish, recRow
  <1>6. QED
    BY <1>1, <1>2, <1>3, <1>4, <1>5 DEF OwnInv, ExecUnchanged, RunThrows, Goto, Finish, recRow

LEMMA RunEndsOwn ==
  ASSUME OwnInv, ExecInv, NEW r \in Rec, RunEnds(r)
  PROVE  OwnInv' /\ ExecUnchanged
  <1>a. r \in Handler /\ r \notin Request
    BY RecAssumption DEF Handler
  <1>1. RowsTyped'
    BY <1>a DEF OwnInv, RowsTyped, RunEnds, Goto, Finish, recRow, history
  <1>2. HandlersTyped'
    BY <1>a DEF OwnInv, HandlersTyped, RunEnds, Goto, Finish, recRow
  <1>3. RunsKnowThemselves'
    BY Domains, Members, <1>a DEF OwnInv, RunsKnowThemselves, RunEnds, Goto, Finish, recRow
  <1>4. RequestsKnowTarget'
    BY Domains, Members, <1>a DEF OwnInv, RequestsKnowTarget, RunEnds, Goto, Finish, recRow
  <1>5. PushersKnowPrice'
    BY <1>a DEF OwnInv, HandlersTyped, PushersKnowPrice, RunEnds, Goto, Finish, recRow
  <1>6. QED
    BY <1>1, <1>2, <1>3, <1>4, <1>5 DEF OwnInv, ExecUnchanged, RunEnds, Goto, Finish, recRow

LEMMA ApproveOrRejectOwn ==
  ASSUME OwnInv, ExecInv, NEW c \in Request, NEW r \in Rec, NEW o \in Ops, ApproveOrReject(c, r, o)
  PROVE  OwnInv' /\ ExecUnchanged
  <1>a. c \in Handler /\ c \notin Rec
    BY RecAssumption DEF Handler
  <1>b. status[r] \in RecStatus
    BY DEF Open, ApproveOrReject, OwnInv, RowsTyped
  <1>c. recommended[r] \in Price /\ base[r] \in Price
    BY <1>b DEF OwnInv, RunsKnowThemselves, RecStatus
  <1>1. RowsTyped'
    BY RecAssumption, <1>a DEF OwnInv, RowsTyped, ApproveOrReject, Consider, Open, Goto, Finish, recRow, Busy, Op, history, NoteContention
  <1>2. HandlersTyped'
    BY <1>a, <1>b, <1>c, OpsAssumption DEF OwnInv, HandlersTyped, ApproveOrReject, Consider, Open, Goto, Finish, recRow, Busy, Op
  <1>3. RunsKnowThemselves'
    BY Domains, Members, <1>a DEF OwnInv, RunsKnowThemselves, ApproveOrReject, Consider, Open, Goto, Finish, recRow, Busy, Op
  <1>4. RequestsKnowTarget'
    BY Domains, Members, <1>a, <1>b, OpsAssumption, NoneAssumption DEF OwnInv, RequestsKnowTarget, ApproveOrReject, Consider, Open, Goto, Finish, recRow, Busy, Op
  <1>5. PushersKnowPrice'
    BY <1>a, <1>c DEF OwnInv, HandlersTyped, PushersKnowPrice, ApproveOrReject, Consider, Open, Goto, Finish, recRow, Busy, Op
  <1>6. QED
    BY <1>1, <1>2, <1>3, <1>4, <1>5 DEF OwnInv, ExecUnchanged, ApproveOrReject, Consider, Open, Goto, Finish, recRow, Busy, Op

LEMMA ModifyOwn ==
  ASSUME OwnInv, ExecInv, NEW c \in Request, NEW r \in Rec, NEW x \in Price, Modify(c, r, x)
  PROVE  OwnInv' /\ ExecUnchanged
  <1>a. c \in Handler /\ c \notin Rec
    BY RecAssumption DEF Handler
  <1>b. status[r] \in RecStatus
    BY DEF Open, Modify, OwnInv, RowsTyped
  <1>c. recommended[r] \in Price /\ base[r] \in Price
    BY <1>b DEF OwnInv, RunsKnowThemselves, RecStatus
  <1>1. RowsTyped'
    BY RecAssumption, <1>a DEF OwnInv, RowsTyped, Modify, Open, Goto, Finish, recRow, Busy, Op, history, NoteContention
  <1>2. HandlersTyped'
    BY <1>a, <1>b, <1>c, OpsAssumption DEF OwnInv, HandlersTyped, Modify, Open, Goto, Finish, recRow, Busy, Op
  <1>3. RunsKnowThemselves'
    BY Domains, Members, <1>a DEF OwnInv, RunsKnowThemselves, Modify, Open, Goto, Finish, recRow, Busy, Op
  <1>4. RequestsKnowTarget'
    BY Domains, Members, <1>a, <1>b, OpsAssumption, NoneAssumption DEF OwnInv, RequestsKnowTarget, Modify, Open, Goto, Finish, recRow, Busy, Op
  <1>5. PushersKnowPrice'
    BY <1>a, <1>c DEF OwnInv, HandlersTyped, PushersKnowPrice, Modify, Open, Goto, Finish, recRow, Busy, Op
  <1>6. QED
    BY <1>1, <1>2, <1>3, <1>4, <1>5 DEF OwnInv, ExecUnchanged, Modify, Open, Goto, Finish, recRow, Busy, Op

LEMMA UndoOwn ==
  ASSUME OwnInv, ExecInv, NEW c \in Request, NEW r \in Rec, Undo(c, r)
  PROVE  OwnInv' /\ ExecUnchanged
  <1>a. c \in Handler /\ c \notin Rec
    BY RecAssumption DEF Handler
  <1>b. status[r] \in RecStatus
    BY DEF Open, Undo, OwnInv, RowsTyped
  <1>c. recommended[r] \in Price /\ base[r] \in Price
    BY <1>b DEF OwnInv, RunsKnowThemselves, RecStatus
  <1>1. RowsTyped'
    BY RecAssumption, <1>a DEF OwnInv, RowsTyped, Undo, Open, Goto, Finish, recRow, Busy, Op, history, NoteContention
  <1>2. HandlersTyped'
    BY <1>a, <1>b, <1>c, OpsAssumption DEF OwnInv, HandlersTyped, Undo, Open, Goto, Finish, recRow, Busy, Op
  <1>3. RunsKnowThemselves'
    BY Domains, Members, <1>a DEF OwnInv, RunsKnowThemselves, Undo, Open, Goto, Finish, recRow, Busy, Op
  <1>4. RequestsKnowTarget'
    BY Domains, Members, <1>a, <1>b, OpsAssumption, NoneAssumption DEF OwnInv, RequestsKnowTarget, Undo, Open, Goto, Finish, recRow, Busy, Op
  <1>5. PushersKnowPrice'
    BY <1>a, <1>c DEF OwnInv, HandlersTyped, PushersKnowPrice, Undo, Open, Goto, Finish, recRow, Busy, Op
  <1>6. QED
    BY <1>1, <1>2, <1>3, <1>4, <1>5 DEF OwnInv, ExecUnchanged, Undo, Open, Goto, Finish, recRow, Busy, Op

LEMMA ModifyReadsOwn ==
  ASSUME OwnInv, ExecInv, NEW c \in Handler, ModifyReads(c)
  PROVE  OwnInv' /\ ExecUnchanged
  <1>a. c \in Request /\ c \notin Rec
    BY RecAssumption DEF OwnInv, RunsKnowThemselves, ModifyReads, Handler
  <1>b. target[c] \in Rec /\ status[target[c]] \in RecStatus
    BY <1>a DEF OwnInv, RequestsKnowTarget, RowsTyped, ModifyReads
  <1>1. RowsTyped'
    BY <1>a, <1>b DEF OwnInv, RowsTyped, ModifyReads, Consider, Goto, Finish, recRow, Busy, history
  <1>2. HandlersTyped'
    BY <1>a, <1>b DEF OwnInv, HandlersTyped, ModifyReads, Consider, Goto, Finish, recRow, Busy
  <1>3. RunsKnowThemselves'
    BY Domains, Members, <1>a, <1>b DEF OwnInv, RunsKnowThemselves, ModifyReads, Consider, Goto, Finish, recRow, Busy
  <1>4. RequestsKnowTarget'
    BY Domains, Members, <1>a, <1>b DEF OwnInv, RequestsKnowTarget, ModifyReads, Consider, Goto, Finish, recRow, Busy
  <1>5. PushersKnowPrice'
    BY <1>a, <1>b DEF OwnInv, HandlersTyped, PushersKnowPrice, ModifyReads, Consider, Goto, Finish, recRow, Busy
  <1>6. QED
    BY <1>1, <1>2, <1>3, <1>4, <1>5 DEF OwnInv, ExecUnchanged, ModifyReads, Consider, Goto, Finish, recRow, Busy

LEMMA ClaimOwn ==
  ASSUME OwnInv, ExecInv, NEW c \in Handler, Claim(c)
  PROVE  OwnInv'
  <1>a. c \in Request /\ c \notin Rec
    BY RecAssumption DEF OwnInv, RunsKnowThemselves, Claim, Resolve, Handler
  <1>b. target[c] \in Rec /\ status[target[c]] \in RecStatus
    BY <1>a DEF OwnInv, RequestsKnowTarget, RowsTyped, Claim, Resolve
  <1>c. Resolution(op[c]) \in {"APPROVED", "REJECTED", "MODIFIED"}
    BY <1>a DEF Resolution, OwnInv, RequestsKnowTarget, Claim, Resolve
  <1>1. RowsTyped'
    BY <1>a, <1>b, <1>c DEF RecStatus, OwnInv, RowsTyped, Claim, Resolve, Push, Goto, Busy, history
  <1>2. HandlersTyped'
    BY <1>a, <1>b DEF OwnInv, HandlersTyped, Claim, Resolve, Push, Goto, Busy
  <1>3. RunsKnowThemselves'
    BY Domains, Members, <1>a, <1>b, <1>c DEF OwnInv, RunsKnowThemselves, Claim, Resolve, Push, Goto, Busy
  <1>4. RequestsKnowTarget'
    BY Domains, Members, <1>a, <1>b, <1>c DEF OwnInv, RequestsKnowTarget, Claim, Resolve, Push, Goto, Busy
  <1>5. PushersKnowPrice'
    BY <1>a, <1>b DEF OwnInv, HandlersTyped, PushersKnowPrice, Claim, Resolve, Push, Goto, Busy
  <1>6. QED
    BY <1>1, <1>2, <1>3, <1>4, <1>5 DEF OwnInv

LEMMA ClaimUndoOwn ==
  ASSUME OwnInv, ExecInv, NEW c \in Handler, ClaimUndo(c)
  PROVE  OwnInv'
  <1>a. c \in Request /\ c \notin Rec
    BY RecAssumption DEF OwnInv, RunsKnowThemselves, ClaimUndo, Restore, Handler
  <1>b. target[c] \in Rec /\ status[target[c]] \in RecStatus
    BY <1>a DEF OwnInv, RequestsKnowTarget, RowsTyped, ClaimUndo, Restore
  <1>1. RowsTyped'
    BY <1>a, <1>b DEF OwnInv, RowsTyped, ClaimUndo, Restore, RecStatus, history
  <1>2. HandlersTyped'
    BY <1>a, <1>b DEF OwnInv, HandlersTyped, ClaimUndo, Restore, Undoable, Push, Goto, Busy, RecStatus
  <1>3. RunsKnowThemselves'
    BY Domains, Members, <1>a, <1>b DEF OwnInv, RunsKnowThemselves, ClaimUndo, Restore, Undoable, Push, Goto, Busy, RecStatus
  <1>4. RequestsKnowTarget'
    BY Domains, Members, <1>a, <1>b DEF OwnInv, RequestsKnowTarget, ClaimUndo, Restore, Undoable, Push, Goto, Busy, RecStatus
  <1>5. PushersKnowPrice'
    BY <1>a, <1>b DEF OwnInv, HandlersTyped, PushersKnowPrice, ClaimUndo, Restore, Undoable, Push, Goto, Busy, RecStatus
  <1>6. QED
    BY <1>1, <1>2, <1>3, <1>4, <1>5 DEF OwnInv

LEMMA ClaimThrowsOwn ==
  ASSUME OwnInv, ExecInv, NEW c \in Handler, ClaimThrows(c)
  PROVE  OwnInv' /\ ExecUnchanged
  <1>a. c \in Request /\ c \notin Rec
    BY RecAssumption DEF OwnInv, RunsKnowThemselves, ClaimThrows, Handler
  <1>b. target[c] \in Rec /\ status[target[c]] \in RecStatus
    BY <1>a DEF OwnInv, RequestsKnowTarget, RowsTyped, ClaimThrows
  <1>c. pc[c] = "claiming" => Resolution(op[c]) \in {"APPROVED", "REJECTED", "MODIFIED"}
    BY <1>a DEF Resolution, OwnInv, RequestsKnowTarget
  <1>d. /\ status' \in [Rec -> RecStatus \cup {"ABSENT"}]
        /\ resolvedAt' \in [Rec -> {"never", "recent", "old"}]
        /\ resolvedBy' \in [Rec -> Request \cup {None}]
        /\ UNCHANGED <<recommended, base>>
        /\ \A r \in Rec : status'[r] = "ABSENT" <=> status[r] = "ABSENT"
    <2>1. CASE UNCHANGED recRow
      BY <2>1 DEF OwnInv, RowsTyped, recRow
    <2>2. CASE Resolve(c)
      BY <1>a, <1>b, <1>c, <2>2 DEF OwnInv, RowsTyped, Resolve, RecStatus
    <2>3. CASE Restore(c)
      BY <1>a, <1>b, <2>3 DEF OwnInv, RowsTyped, Restore, RecStatus
    <2>4. QED
      BY <2>1, <2>2, <2>3 DEF ClaimThrows
  <1>1. RowsTyped'
    BY <1>d, FailureAssumption DEF OwnInv, RowsTyped, ClaimThrows, history
  <1>2. HandlersTyped'
    BY <1>a DEF OwnInv, HandlersTyped, ClaimThrows, Goto, Finish
  <1>3. RunsKnowThemselves'
    BY Domains, Members, <1>a, <1>d DEF OwnInv, RunsKnowThemselves, ClaimThrows, Goto, Finish
  <1>4. RequestsKnowTarget'
    BY Domains, Members, <1>a, <1>b, <1>d DEF OwnInv, RequestsKnowTarget, ClaimThrows, Goto, Finish
  <1>5. PushersKnowPrice'
    BY <1>a DEF OwnInv, HandlersTyped, PushersKnowPrice, ClaimThrows, Goto, Finish
  <1>6. QED
    BY <1>1, <1>2, <1>3, <1>4, <1>5 DEF OwnInv, ExecUnchanged, ClaimThrows

LEMMA LoseClaimOwn ==
  ASSUME OwnInv, ExecInv, NEW c \in Handler, LoseClaim(c)
  PROVE  OwnInv' /\ ExecUnchanged
  <1>a. c \in Request /\ c \notin Rec
    BY RecAssumption DEF OwnInv, RunsKnowThemselves, LoseClaim, Handler
  <1>b. target[c] \in Rec /\ status[target[c]] \in RecStatus
    BY <1>a DEF OwnInv, RequestsKnowTarget, RowsTyped, LoseClaim
  <1>1. RowsTyped'
    BY <1>a, <1>b DEF OwnInv, RowsTyped, LoseClaim, Goto, Finish, recRow, history
  <1>2. HandlersTyped'
    BY <1>a, <1>b DEF OwnInv, HandlersTyped, LoseClaim, Goto, Finish, recRow
  <1>3. RunsKnowThemselves'
    BY Domains, Members, <1>a, <1>b DEF OwnInv, RunsKnowThemselves, LoseClaim, Goto, Finish, recRow
  <1>4. RequestsKnowTarget'
    BY Domains, Members, <1>a, <1>b DEF OwnInv, RequestsKnowTarget, LoseClaim, Goto, Finish, recRow
  <1>5. PushersKnowPrice'
    BY <1>a, <1>b DEF OwnInv, HandlersTyped, PushersKnowPrice, LoseClaim, Goto, Finish, recRow
  <1>6. QED
    BY <1>1, <1>2, <1>3, <1>4, <1>5 DEF OwnInv, ExecUnchanged, LoseClaim, Goto, Finish, recRow

LEMMA RequeueOwn ==
  ASSUME OwnInv, ExecInv, NEW c \in Handler, Requeue(c)
  PROVE  OwnInv' /\ ExecUnchanged
  <1>a. target[c] \in Rec /\ c \in Handler
    BY DEF Handler, OwnInv, RunsKnowThemselves, RequestsKnowTarget, Requeue
  <1>b. status[target[c]] # "ABSENT"
    BY DEF Handler, OwnInv, RunsKnowThemselves, RequestsKnowTarget, Requeue
  <1>1. RowsTyped'
    BY <1>a DEF OwnInv, RowsTyped, Requeue, Goto, Finish, RecStatus, history
  <1>2. HandlersTyped'
    BY <1>a DEF OwnInv, HandlersTyped, Requeue, Goto, Finish, RecStatus
  <1>3. RunsKnowThemselves'
    BY Domains, Members, <1>a, <1>b DEF OwnInv, RunsKnowThemselves, Requeue, Goto, Finish, RecStatus
  <1>4. RequestsKnowTarget'
    BY Domains, Members, <1>a DEF OwnInv, RequestsKnowTarget, Requeue, Goto, Finish, RecStatus
  <1>5. PushersKnowPrice'
    BY <1>a DEF OwnInv, HandlersTyped, PushersKnowPrice, Requeue, Goto, Finish, RecStatus
  <1>6. QED
    BY <1>1, <1>2, <1>3, <1>4, <1>5 DEF OwnInv, ExecUnchanged, Requeue, Goto, Finish, RecStatus

LEMMA AuditOwn ==
  ASSUME OwnInv, ExecInv, NEW c \in Handler, Audit(c)
  PROVE  OwnInv' /\ ExecUnchanged
  <1>a. c \in Request /\ c \notin Rec
    BY RecAssumption DEF OwnInv, RunsKnowThemselves, Audit, Decided, Handler
  <1>b. target[c] \in Rec /\ status[target[c]] \in RecStatus
    BY <1>a DEF OwnInv, RequestsKnowTarget, RowsTyped, Audit, Decided
  <1>c. op[c] # "undo" => Resolution(op[c]) \in {"APPROVED", "REJECTED", "MODIFIED"}
    BY <1>a DEF Resolution, OwnInv, RequestsKnowTarget, Audit, Decided
  <1>1. RowsTyped'
    BY <1>a, <1>b, <1>c DEF OwnInv, RowsTyped, Audit, Decided, Goto, Finish, recRow, history
  <1>2. HandlersTyped'
    BY <1>a, <1>b DEF OwnInv, HandlersTyped, Audit, Decided, Goto, Finish, recRow
  <1>3. RunsKnowThemselves'
    BY Domains, Members, <1>a, <1>b DEF OwnInv, RunsKnowThemselves, Audit, Decided, Goto, Finish, recRow
  <1>4. RequestsKnowTarget'
    BY Domains, Members, <1>a, <1>b DEF OwnInv, RequestsKnowTarget, Audit, Decided, Goto, Finish, recRow
  <1>5. PushersKnowPrice'
    BY <1>a, <1>b DEF OwnInv, HandlersTyped, PushersKnowPrice, Audit, Decided, Goto, Finish, recRow
  <1>6. QED
    BY <1>1, <1>2, <1>3, <1>4, <1>5 DEF OwnInv, ExecUnchanged, Audit, Decided, Goto, Finish, recRow

LEMMA LastStatementOwn ==
  ASSUME OwnInv, ExecInv, NEW c \in Handler, LastStatementFails(c)
  PROVE  OwnInv' /\ ExecUnchanged
  <1>a. target[c] \in Rec /\ c \in Handler
    BY DEF Handler, OwnInv, RunsKnowThemselves, RequestsKnowTarget, LastStatementFails, Decided
  <1>1. RowsTyped'
    BY FailureAssumption DEF OwnInv, RowsTyped, LastStatementFails, Decided, Goto, Finish, recRow, history
  <1>2. HandlersTyped'
    BY <1>a DEF OwnInv, HandlersTyped, LastStatementFails, Decided, Goto, Finish, recRow
  <1>3. RunsKnowThemselves'
    BY Domains, Members, <1>a DEF OwnInv, RunsKnowThemselves, LastStatementFails, Decided, Goto, Finish, recRow
  <1>4. RequestsKnowTarget'
    BY Domains, Members, <1>a DEF OwnInv, RequestsKnowTarget, LastStatementFails, Decided, Goto, Finish, recRow
  <1>5. PushersKnowPrice'
    BY <1>a DEF OwnInv, HandlersTyped, PushersKnowPrice, LastStatementFails, Decided, Goto, Finish, recRow
  <1>6. QED
    BY <1>1, <1>2, <1>3, <1>4, <1>5 DEF OwnInv, ExecUnchanged, LastStatementFails, Decided, Goto, Finish, recRow

LEMMA WindowOwn ==
  ASSUME OwnInv, ExecInv, NEW r \in Rec, WindowCloses(r)
  PROVE  OwnInv' /\ ExecUnchanged
  <1>1. RowsTyped'
    BY DEF OwnInv, RowsTyped, WindowCloses, handlers, history
  <1>2. HandlersTyped'
    BY DEF OwnInv, HandlersTyped, WindowCloses, handlers
  <1>3. RunsKnowThemselves'
    BY Domains, Members DEF OwnInv, RunsKnowThemselves, WindowCloses, handlers
  <1>4. RequestsKnowTarget'
    BY Domains, Members DEF OwnInv, RequestsKnowTarget, WindowCloses, handlers
  <1>5. PushersKnowPrice'
    BY DEF OwnInv, HandlersTyped, PushersKnowPrice, WindowCloses, handlers
  <1>6. QED
    BY <1>1, <1>2, <1>3, <1>4, <1>5 DEF OwnInv, ExecUnchanged, WindowCloses, handlers

LEMMA CrashOwn ==
  ASSUME OwnInv, ExecInv, Crash
  PROVE  OwnInv'
  <1>1. RowsTyped'
    BY DEF OwnInv, RowsTyped, Crash, Busy, recRow, history
  <1>2. HandlersTyped'
    BY DEF OwnInv, HandlersTyped, Crash, Busy, recRow
  <1>3. RunsKnowThemselves'
    BY Domains, Members DEF OwnInv, RunsKnowThemselves, Crash, Busy, recRow
  <1>4. RequestsKnowTarget'
    BY Domains, Members DEF OwnInv, RequestsKnowTarget, Crash, Busy, recRow
  <1>5. PushersKnowPrice'
    BY DEF OwnInv, HandlersTyped, PushersKnowPrice, Crash, Busy, recRow
  <1>6. QED
    BY <1>1, <1>2, <1>3, <1>4, <1>5 DEF OwnInv

LEMMA UnchangedOwn ==
  ASSUME OwnInv, ExecInv, UNCHANGED own
  PROVE  OwnInv'
  <1>1. RowsTyped'
    BY DEF OwnInv, RowsTyped, own, recRow, handlers, history
  <1>2. HandlersTyped'
    BY DEF OwnInv, HandlersTyped, own, recRow, handlers
  <1>3. RunsKnowThemselves'
    BY Domains, Members DEF OwnInv, RunsKnowThemselves, own, recRow, handlers
  <1>4. RequestsKnowTarget'
    BY Domains, Members DEF OwnInv, RequestsKnowTarget, own, recRow, handlers
  <1>5. PushersKnowPrice'
    BY DEF OwnInv, HandlersTyped, PushersKnowPrice, own, recRow, handlers
  <1>6. QED
    BY <1>1, <1>2, <1>3, <1>4, <1>5 DEF OwnInv

-----------------------------------------------------------------------------
(* What each step is to Execution. *)

LEMMA PushIsCall ==
  ASSUME NEW c \in Handler, target[c] \in Rec, NEW x \in Price, Push(c, x)
  PROVE  E!Next
  <1>1. ProductOf[target[c]] \in Product
    BY RecAssumption
  <1>2. QED
    BY <1>1 DEF Push, E!Next

LEMMA NextMaps == OwnInv /\ ExecInv /\ [Next]_vars => OwnInv' /\ [E!Next]_(E!vars)
  <1> SUFFICES ASSUME OwnInv, ExecInv, [Next]_vars
               PROVE  OwnInv' /\ (E!Next \/ UNCHANGED E!vars)
    OBVIOUS
  <1>1. CASE UNCHANGED vars
    BY <1>1, ExecIsVars, UnchangedOwn DEF vars, ExecUnchanged
  <1>2. ASSUME NEW r \in Rec, LoadProduct(r) \/ RunThrows(r) \/ WindowCloses(r)
        PROVE  OwnInv' /\ (E!Next \/ UNCHANGED E!vars)
    BY <1>2, ExecIsVars, LoadOwn, RunThrowsOwn, WindowOwn
  <1>3. ASSUME NEW r \in Rec, RunStep(r)
        PROVE  OwnInv' /\ (E!Next \/ UNCHANGED E!vars)
    <2>1. ASSUME NEW x \in Price, FinalizeAuto(r, x)
          PROVE  OwnInv' /\ E!Next
      <3>1. r \in Handler /\ target[r] \in Rec /\ Push(r, x)
        BY <2>1, Members DEF OwnInv, RunsKnowThemselves, FinalizeAuto
      <3>2. QED
        BY <2>1, <3>1, PushIsCall, AutoOwn
    <2>2. QED
      BY <1>3, <2>1, ExecIsVars, CreateOwn, MarkFailedOwn, ReviewOwn, RunEndsOwn DEF RunStep
  <1>4. ASSUME NEW c \in Request, NEW r \in Rec,
               (\E o \in Ops : ApproveOrReject(c, r, o)) \/ (\E x \in Price : Modify(c, r, x)) \/ Undo(c, r)
        PROVE  OwnInv' /\ (E!Next \/ UNCHANGED E!vars)
    BY <1>4, ExecIsVars, ApproveOrRejectOwn, ModifyOwn, UndoOwn
  <1>5. ASSUME NEW c \in Handler, Claim(c) \/ ClaimUndo(c)
        PROVE  OwnInv' /\ (E!Next \/ UNCHANGED E!vars)
    <2>1. OwnInv'
      BY <1>5, ClaimOwn, ClaimUndoOwn
    <2>2. target[c] \in Rec /\ chosen[c] \in Price
      BY <1>5 DEF Claim, Resolve, ClaimUndo, Restore, Handler, OwnInv, RunsKnowThemselves, RequestsKnowTarget, PushersKnowPrice
    <2>3. ExecUnchanged \/ Push(c, chosen[c])
      BY <1>5 DEF Claim, ClaimUndo, ExecUnchanged
    <2>4. QED
      BY <2>1, <2>2, <2>3, PushIsCall, ExecIsVars
  <1>6. ASSUME NEW c \in Handler, Executing(c) \/ (E!StatementFails(c) /\ UNCHANGED own)
        PROVE  OwnInv' /\ E!Next
    BY <1>6, UnchangedOwn DEF Executing, E!Next
  <1>7. ASSUME NEW c \in Handler, ModifyReads(c) \/ LoseClaim(c) \/ Requeue(c) \/ Audit(c)
                                    \/ ClaimThrows(c) \/ LastStatementFails(c)
        PROVE  OwnInv' /\ (E!Next \/ UNCHANGED E!vars)
    BY <1>7, ExecIsVars, ModifyReadsOwn, LoseClaimOwn, RequeueOwn, AuditOwn,
       ClaimThrowsOwn, LastStatementOwn
  <1>8. CASE Crash
    BY <1>8, CrashOwn DEF Crash, E!Next
  <1>9. ASSUME NEW p \in Product, NEW x \in Price,
               (E!EditPrice(p, x) \/ E!EditLimits(p, x)) /\ UNCHANGED own
        PROVE  OwnInv' /\ E!Next
    BY <1>9, UnchangedOwn DEF E!Next
  <1>10. QED
    BY <1>1, <1>2, <1>3, <1>4, <1>5, <1>6, <1>7, <1>8, <1>9 DEF Next, Environment, HandlerStep

(* P and E are two names of one instance of Execution.                     *)
LEMMA SameInit == E!Init <=> P!Init
  BY DEF E!Init, P!Init

LEMMA SameType == E!TypeOK <=> P!TypeOK
  BY DEF E!TypeOK, P!TypeOK, E!Phase, P!Phase, E!InFlight, P!InFlight, E!Ended, P!Ended

LEMMA SameStep == ASSUME NEW c \in Handler PROVE E!Step(c) <=> P!Step(c)
  BY DEF E!Step, P!Step, E!ReadContext, P!ReadContext, E!WriteLocal, P!WriteLocal,
         E!PushAccepted, P!PushAccepted, E!PushRejected, P!PushRejected,
         E!RecordSuccess, P!RecordSuccess, E!Rollback, P!Rollback,
         E!RecordFailure, P!RecordFailure, E!data, P!data, E!locals, P!locals, E!history, P!history

LEMMA SameRest ==
  /\ \A c \in Handler : E!StatementFails(c) <=> P!StatementFails(c)
  /\ \A c \in Handler, p \in Product, x \in Price : E!Call(c, p, x) <=> P!Call(c, p, x)
  /\ \A p \in Product, x \in Price : E!EditPrice(p, x) <=> P!EditPrice(p, x)
  /\ \A p \in Product, x \in Price : E!EditLimits(p, x) <=> P!EditLimits(p, x)
  /\ E!Crash <=> P!Crash
  BY DEF E!StatementFails, P!StatementFails, E!Call, P!Call, E!Quiet, P!Quiet,
         E!EditPrice, P!EditPrice, E!EditLimits, P!EditLimits, E!Crash, P!Crash,
         E!InFlight, P!InFlight, E!data, P!data, E!locals, P!locals, E!history, P!history

LEMMA SameNext == E!Next <=> P!Next
  BY SameStep, SameRest DEF E!Next, P!Next

LEMMA SameAssumptions ==
  P!PriceAssumption /\ P!ProductAssumption /\ P!BoundAssumption
  BY ExecutionAssumption
  DEF E!PriceAssumption, E!ProductAssumption, E!BoundAssumption,
      P!PriceAssumption, P!ProductAssumption, P!BoundAssumption

(* The two halves of the invariant support each other: a push has a typed  *)
(* amount because of the handlers' half.                                   *)
THEOREM HandlersTypeCorrect == Safe => [](OwnInv /\ ExecInv)
  <1>1. Init => OwnInv /\ ExecInv
    BY InitOwn, P!InitTyped, SameAssumptions, SameInit, SameType DEF Init, ExecInv
  <1>2. OwnInv /\ ExecInv /\ [Next]_vars => OwnInv' /\ ExecInv'
    <2>1. [E!Next]_(E!vars) => [P!Next]_(P!vars)
      BY SameNext DEF E!vars, P!vars, E!data, P!data, E!locals, P!locals, E!history, P!history
    <2>2. E!TypeOK' <=> P!TypeOK'
      BY DEF E!TypeOK, P!TypeOK, E!Phase, P!Phase, E!InFlight, P!InFlight, E!Ended, P!Ended
    <2>3. QED
      BY <2>1, <2>2, NextMaps, P!NextTyped, SameAssumptions, SameType DEF ExecInv
  <1>3. QED
    BY <1>1, <1>2, PTL DEF Safe

(* Every variable of the composed system keeps its type. *)
THEOREM DecisionsTypeCorrect == Safe => []TypeOK
  <1>1. OwnInv /\ ExecInv => TypeOK
    BY DEF OwnInv, ExecInv, RowsTyped, HandlersTyped, TypeOK
  <1>2. QED
    BY <1>1, HandlersTypeCorrect, PTL

(* The handlers use executeRecommendation only as Execution describes it:  *)
(* Execution's theorems hold of the composed system.                       *)
THEOREM HandlersImplementExecution == Safe => ImplementsExecution
  <1>1. Init => E!Init
    BY DEF Init
  <1>2. OwnInv /\ ExecInv /\ [Next]_vars => [E!Next]_(E!vars)
    BY NextMaps
  <1>3. QED
    BY <1>1, <1>2, HandlersTypeCorrect, PTL DEF Safe, ImplementsExecution, E!Safe

(* What was proved of executeRecommendation alone holds of the decisions,  *)
(* the undos and the runs that call it: no price below the floor reaches   *)
(* the storefront.                                                         *)
THEOREM HandlersRespectFloor == Safe => E!PushesRespectFloor
  <1>1. E!Init => P!Init
    BY SameInit
  <1>2. [E!Next]_(E!vars) => [P!Next]_(P!vars)
    BY SameNext DEF E!vars, P!vars, E!data, P!data, E!locals, P!locals, E!history, P!history
  <1>3. E!Safe => P!Safe
    BY <1>1, <1>2, PTL DEF E!Safe, P!Safe
  <1>4. P!Safe => P!PushesRespectFloor
    BY P!FloorRespected, SameAssumptions
  <1>5. [\A p \in Product : edits = 0 /\ storefront'[p] # storefront[p] => storefront'[p] >= floor[p]]_(P!vars)
          => [\A p \in Product : edits = 0 /\ storefront'[p] # storefront[p] => storefront'[p] >= floor[p]]_(E!vars)
    BY DEF E!vars, P!vars, E!data, P!data, E!locals, P!locals, E!history, P!history
  <1>6. P!PushesRespectFloor => E!PushesRespectFloor
    BY <1>5, PTL DEF P!PushesRespectFloor, E!PushesRespectFloor
  <1>7. QED
    BY <1>3, <1>4, <1>6, HandlersImplementExecution DEF ImplementsExecution

-----------------------------------------------------------------------------
(* One push per recommendation and lost row.  The owner of a               *)
(* recommendation is the handler that is pushing its price, has pushed it  *)
(* or died doing so.  A claim makes one only where the status is PENDING,  *)
(* and the status of an owned recommendation never is; that is why there   *)
(* is never a second owner.                                                *)

Owns(c, r) ==
  target[c] = r /\ (pc[c] = "executing" \/ phase[c] \in E!InFlight \cup {"succeeded", "dead"})

(* executeRecommendation runs only inside the handler that awaits it. *)
PhaseFollowsPc ==
  \A c \in Handler :
    /\ phase[c] \in E!InFlight => pc[c] = "executing"
    /\ pc[c] \notin {"executing", "done", "dead"} => phase[c] = "idle"

UndoersUndo == \A c \in Request : pc[c] = "undoing" => op[c] = "undo"

(* Nothing is promised of a recommendation somebody has asked to undo or   *)
(* has decided before its run was over.                                    *)
Spoilt(r) == UndoAttempted(r) \/ r \in early

DecisionsWait ==
  \A c \in Request : pc[c] # "idle" => target[c] \in early \/ pc[target[c]] \in {"done", "dead"}

OneOwner ==
  \A r \in Rec, c, d \in Handler : ~Spoilt(r) /\ Owns(c, r) /\ Owns(d, r) => c = d

OwnedIsPushing ==
  \A r \in Rec, c \in Handler : ~Spoilt(r) /\ Owns(c, r) => status[r] \in Pushing

Owned == DecisionsWait /\ OneOwner /\ OwnedIsPushing

Ownership == PhaseFollowsPc /\ UndoersUndo /\ Owned

-----------------------------------------------------------------------------
(* Most steps are a handler's own code: it is past no push that is still   *)
(* going on, and it starts none.                                           *)
Plain(c) ==
  /\ phase' = phase
  /\ \A d \in Handler \ {c} : pc'[d] = pc[d] /\ op'[d] = op[d] /\ target'[d] = target[d]
  /\ pc'[c] \notin {"idle", "executing"}
  /\ pc'[c] = "done" \/ pc[c] \notin {"executing", "done", "dead"}
  /\ pc[c] = "executing" => phase[c] \notin E!InFlight
  /\ pc[c] \notin {"done", "dead"}
  /\ pc[c] # "idle" \/ c \in Rec => op'[c] = op[c] /\ target'[c] = target[c]
  /\ c \in Request /\ pc'[c] = "undoing" => op'[c] = "undo"
  /\ c \in Rec /\ pc[c] \notin {"idle", "loaded", "agents"} => pc'[c] = "done"
  /\ early \subseteq early'

LEMMA RunsArePlain ==
  ASSUME OwnInv, Ownership, NEW r \in Rec,
         LoadProduct(r) \/ CreateSkeleton(r) \/ MarkFailed(r) \/ RunThrows(r) \/ RunEnds(r)
           \/ \E x \in Price : FinalizeForReview(r, x)
  PROVE  Plain(r)
  <1>a. r \in Handler /\ r \notin Request
    BY RecAssumption DEF Handler
  <1>1. CASE LoadProduct(r)
    BY Domains, <1>a, <1>1 DEF Plain, LoadProduct, Goto, exec, history
  <1>2. CASE CreateSkeleton(r)
    BY Domains, <1>a, <1>2 DEF Plain, CreateSkeleton, Goto, exec, history
  <1>3. CASE MarkFailed(r)
    BY Domains, <1>a, <1>3 DEF Plain, MarkFailed, Goto, Finish, exec, history
  <1>4. CASE RunThrows(r)
    BY Domains, <1>a, <1>4 DEF Plain, RunThrows, Goto, Finish, exec, history
  <1>5. CASE RunEnds(r)
    BY Domains, <1>a, <1>5 DEF Plain, RunEnds, Goto, Finish, exec, E!InFlight, history
  <1>6. ASSUME NEW x \in Price, FinalizeForReview(r, x) PROVE Plain(r)
    BY Domains, <1>a, <1>6 DEF Plain, FinalizeForReview, Goto, Finish, exec, history
  <1>7. QED
    BY <1>1, <1>2, <1>3, <1>4, <1>5, <1>6

LEMMA OpeningsArePlain ==
  ASSUME OwnInv, NEW c \in Request, NEW r \in Rec,
         (\E o \in Ops : ApproveOrReject(c, r, o)) \/ (\E x \in Price : Modify(c, r, x)) \/ Undo(c, r)
  PROVE  Plain(c) /\ pc[c] = "idle" /\ target'[c] = r /\ (r \in early' \/ pc[r] \in {"done", "dead"})
         /\ UNCHANGED status
  <1>a. c \in Handler /\ c \notin Rec
    BY RecAssumption DEF Handler
  <1>1. ASSUME NEW o \in Ops, ApproveOrReject(c, r, o)
        PROVE  Plain(c) /\ pc[c] = "idle" /\ target'[c] = r /\ (r \in early' \/ pc[r] \in {"done", "dead"})
               /\ UNCHANGED status
    BY Domains, <1>a, <1>1 DEF Plain, ApproveOrReject, Open, Consider, Goto, Finish, exec, recRow, history
  <1>2. ASSUME NEW x \in Price, Modify(c, r, x)
        PROVE  Plain(c) /\ pc[c] = "idle" /\ target'[c] = r /\ (r \in early' \/ pc[r] \in {"done", "dead"})
               /\ UNCHANGED status
    BY Domains, <1>a, <1>2 DEF Plain, Modify, Open, Goto, Finish, exec, recRow, history
  <1>3. ASSUME Undo(c, r)
        PROVE  Plain(c) /\ pc[c] = "idle" /\ target'[c] = r /\ (r \in early' \/ pc[r] \in {"done", "dead"})
               /\ UNCHANGED status
    BY Domains, <1>a, <1>3 DEF Plain, Undo, Open, Goto, Finish, exec, recRow, history
  <1>4. QED
    BY <1>1, <1>2, <1>3

LEMMA RequestsArePlain ==
  ASSUME OwnInv, Ownership, NEW c \in Handler,
         ModifyReads(c) \/ LoseClaim(c) \/ Requeue(c) \/ Audit(c) \/ ClaimThrows(c) \/ LastStatementFails(c)
  PROVE  Plain(c) /\ pc[c] # "idle"
  <1>1. CASE ModifyReads(c)
    <2>1. c \in Request /\ c \notin Rec
      BY <1>1, RecAssumption DEF ModifyReads, Handler, OwnInv, RunsKnowThemselves
    <2>2. QED
      BY Domains, <1>1, <2>1 DEF Plain, ModifyReads, Consider, Goto, Finish, exec, history
  <1>2. CASE LoseClaim(c)
    BY Domains, <1>2 DEF Plain, LoseClaim, Goto, Finish, exec, history
  <1>3. CASE Requeue(c)
    BY Domains, <1>3 DEF Plain, Requeue, Goto, Finish, exec, E!InFlight, history
  <1>4. CASE Audit(c)
    BY Domains, <1>4 DEF Plain, Audit, Decided, Goto, Finish, exec, E!InFlight, E!Ended, history
  <1>5. CASE ClaimThrows(c)
    BY Domains, <1>5 DEF Plain, ClaimThrows, Goto, Finish, exec, history
  <1>6. CASE LastStatementFails(c)
    BY Domains, <1>6 DEF Plain, LastStatementFails, Decided, Goto, Finish, exec, E!InFlight, E!Ended, history
  <1>7. QED
    BY <1>1, <1>2, <1>3, <1>4, <1>5, <1>6

(* The statement of the claims that start no push. *)
LEMMA ClaimsArePlain ==
  ASSUME OwnInv, NEW c \in Handler, Claim(c) \/ ClaimUndo(c), ~Push(c, chosen[c])
  PROVE  Plain(c) /\ pc[c] # "idle"
  <1>a. c \in Request /\ c \notin Rec
    BY RecAssumption DEF Claim, Resolve, ClaimUndo, Restore, Handler, OwnInv, RunsKnowThemselves
  <1>1. CASE Claim(c)
    BY Domains, <1>a, <1>1 DEF Plain, Claim, Resolve, Goto, exec, history
  <1>2. CASE ClaimUndo(c)
    BY Domains, <1>a, <1>2 DEF Plain, ClaimUndo, Restore, Goto, exec, history
  <1>3. QED
    BY <1>1, <1>2

LEMMA PlainKeepsPhases ==
  ASSUME OwnInv, PhaseFollowsPc, UndoersUndo, NEW c \in Handler, Plain(c)
  PROVE  PhaseFollowsPc' /\ UndoersUndo'
  <1>1. PhaseFollowsPc'
    BY DEF PhaseFollowsPc, Plain, E!InFlight
  <1>2. UndoersUndo'
    BY Members DEF UndoersUndo, Plain
  <1>3. QED
    BY <1>1, <1>2

(* A plain step makes no owner, forgets no undo and keeps decisions        *)
(* waiting, if the recommendation it opens is decided.                     *)
LEMMA PlainOwners ==
  ASSUME OwnInv, PhaseFollowsPc, NEW c \in Handler, Plain(c), NEW d \in Handler, NEW r \in Rec, Owns(d, r)'
  PROVE  Owns(d, r)
  <1>1. CASE d = c
    <2>1. pc[c] = "executing"
      BY <1>1, Domains DEF Owns, Plain, PhaseFollowsPc, E!InFlight
    <2>2. QED
      BY <1>1, <2>1 DEF Owns, Plain
  <1>2. CASE d # c
    BY <1>2 DEF Owns, Plain
  <1>3. QED
    BY <1>1, <1>2

LEMMA PlainSpoils ==
  ASSUME OwnInv, NEW c \in Handler, Plain(c), NEW r \in Rec, Spoilt(r)
  PROVE  Spoilt(r)'
  <1>a. CASE r \in early
    BY <1>a DEF Plain, Spoilt
  <1> SUFFICES ASSUME UndoAttempted(r) PROVE Spoilt(r)'
    BY <1>a DEF Spoilt
  <1>1. PICK u \in Request : op[u] = "undo" /\ target[u] = r
    BY DEF UndoAttempted
  <1>2. pc[u] # "idle"
    BY <1>1, NoneAssumption DEF OwnInv, RequestsKnowTarget, Op
  <1>3. op'[u] = "undo" /\ target'[u] = r
    BY <1>1, <1>2, Members DEF Plain
  <1>4. QED
    BY <1>3 DEF UndoAttempted, Spoilt

LEMMA PlainWaits ==
  ASSUME OwnInv, OwnInv', DecisionsWait, NEW c \in Handler, Plain(c),
         c \in Request /\ pc[c] = "idle" => target'[c] \in early' \/ pc[target'[c]] \in {"done", "dead"}
  PROVE  DecisionsWait'
  <1>1. \A d \in Handler : pc[d] \in {"done", "dead"} => pc'[d] \in {"done", "dead"}
    BY DEF Plain
  <1>2. \A d \in Request : pc'[d] # "idle" => target'[d] \in Handler
    BY Members DEF OwnInv, RequestsKnowTarget
  <1>3. ASSUME NEW d \in Request, pc'[d] # "idle"
        PROVE  target'[d] \in early' \/ pc[target'[d]] \in {"done", "dead"}
    BY <1>3, Members DEF Plain, DecisionsWait
  <1>4. QED
    BY <1>1, <1>2, <1>3 DEF DecisionsWait

LEMMA PlainKeepsOne ==
  ASSUME OwnInv, PhaseFollowsPc, OneOwner, NEW c \in Handler, Plain(c)
  PROVE  OneOwner'
  BY PlainOwners, PlainSpoils DEF OneOwner

-----------------------------------------------------------------------------
(* The steps inside a push. *)

(* Whoever pushes: it was no owner, and the status is one of a push. *)
Starts(c) ==
  /\ phase[c] = "idle" /\ phase' = [phase EXCEPT ![c] = "called"]
  /\ pc[c] \notin {"idle", "executing", "done", "dead"} /\ pc' = [pc EXCEPT ![c] = "executing"]
  /\ UNCHANGED <<op, target, early>>
  /\ target[c] \in Rec
  /\ c \in Rec => pc[c] = "agents"

LEMMA AutoStarts ==
  ASSUME OwnInv, NEW r \in Rec, NEW x \in Price, FinalizeAuto(r, x)
  PROVE  Starts(r) /\ status' = [status EXCEPT ![r] = "AUTO_EXECUTED"]
  BY DEF Starts, FinalizeAuto, Push, E!Call, Goto, OwnInv, RunsKnowThemselves, history

LEMMA ClaimStarts ==
  ASSUME OwnInv, NEW c \in Handler, Claim(c), Push(c, chosen[c])
  PROVE  Starts(c) /\ c \in Request
         /\ status[target[c]] = "PENDING" /\ \E s \in Pushing : status' = [status EXCEPT ![target[c]] = s]
  <1>1. c \in Request /\ c \notin Rec
    BY RecAssumption DEF Claim, Resolve, Handler, OwnInv, RunsKnowThemselves
  <1>2. op[c] \in {"approve", "reject", "modify"}
    BY <1>1 DEF Claim, Resolve, OwnInv, RequestsKnowTarget
  <1>3. pc'[c] = "executing"
    BY Domains DEF Push, Goto
  <1>4. op[c] # "reject"
    BY <1>3, Domains DEF Claim, Goto
  <1>5. Resolution(op[c]) \in Pushing
    BY <1>2, <1>4 DEF Resolution, Pushing
  <1>6. target[c] \in Rec
    BY <1>1 DEF Claim, Resolve, OwnInv, RequestsKnowTarget
  <1>7. Starts(c)
    BY <1>1, <1>6 DEF Starts, Claim, Resolve, Push, E!Call, Goto, history
  <1>8. QED
    BY <1>1, <1>5, <1>7 DEF Claim, Resolve

LEMMA UndoStarts ==
  ASSUME OwnInv, UndoersUndo, NEW c \in Handler, ClaimUndo(c), Push(c, chosen[c])
  PROVE  Starts(c) /\ c \in Request /\ Spoilt(target[c])
         /\ status' = [status EXCEPT ![target[c]] = "PENDING"]
  <1>1. c \in Request /\ c \notin Rec
    BY RecAssumption DEF ClaimUndo, Restore, Handler, OwnInv, RunsKnowThemselves
  <1>2. target[c] \in Rec
    BY <1>1 DEF ClaimUndo, Restore, OwnInv, RequestsKnowTarget
  <1>3. Starts(c)
    BY <1>1, <1>2 DEF Starts, ClaimUndo, Restore, Push, E!Call, Goto, history
  <1>4. Spoilt(target[c])
    BY <1>1 DEF UndoersUndo, UndoAttempted, Spoilt, ClaimUndo, Restore
  <1>5. QED
    BY <1>1, <1>3, <1>4 DEF ClaimUndo, Restore

LEMMA StartsKeepsPhases ==
  ASSUME OwnInv, ExecInv, PhaseFollowsPc, UndoersUndo, NEW c \in Handler, Starts(c)
  PROVE  PhaseFollowsPc' /\ UndoersUndo'
  <1>1. DOMAIN phase = Handler
    BY DEF ExecInv, E!TypeOK
  <1>2. QED
    BY <1>1, Domains, Members DEF PhaseFollowsPc, UndoersUndo, Starts, E!InFlight

LEMMA StartsKeepsWaiting ==
  ASSUME OwnInv, DecisionsWait, NEW c \in Handler, Starts(c)
  PROVE  DecisionsWait'
  BY Domains, Members DEF DecisionsWait, Starts

LEMMA StartsOwners ==
  ASSUME OwnInv, ExecInv, NEW c \in Handler, Starts(c), NEW d \in Handler, NEW r \in Rec, Owns(d, r)'
  PROVE  Owns(d, r) \/ (d = c /\ r = target[c])
  <1>1. DOMAIN phase = Handler
    BY DEF ExecInv, E!TypeOK
  <1>2. QED
    BY <1>1, Domains DEF Owns, Starts

(* Within executeRecommendation only the caller's phase moves. *)
LEMMA StepMovesPhase ==
  ASSUME NEW c \in Handler, E!Step(c) \/ E!StatementFails(c)
  PROVE  phase[c] \in E!InFlight /\ \E x \in E!Phase : phase' = [phase EXCEPT ![c] = x]
  <1> USE DEF E!InFlight, E!Phase, E!Ended
  <1>1. CASE E!StatementFails(c)
    BY <1>1 DEF E!StatementFails
  <1>2. CASE E!Step(c)
    BY <1>2 DEF E!Step, E!ReadContext, E!WriteLocal, E!PushAccepted, E!PushRejected,
                E!RecordSuccess, E!Rollback, E!RecordFailure
  <1>3. QED
    BY <1>1, <1>2

LEMMA PushKeepsOwnership ==
  ASSUME OwnInv, ExecInv, Ownership, NEW c \in Handler,
         E!Step(c) \/ E!StatementFails(c), UNCHANGED own
  PROVE  Ownership'
  <1>1. phase[c] \in E!InFlight /\ pc[c] = "executing" /\ \E x \in E!Phase : phase' = [phase EXCEPT ![c] = x]
    BY StepMovesPhase DEF Ownership, PhaseFollowsPc
  <1>2. \A d \in Handler \ {c} : phase'[d] = phase[d]
    BY <1>1 DEF ExecInv, E!TypeOK
  <1>3. UNCHANGED <<pc, op, target, status, early>>
    BY DEF own, handlers, recRow, history
  <1>4. PhaseFollowsPc' /\ UndoersUndo'
    BY <1>1, <1>2, <1>3 DEF Ownership, PhaseFollowsPc, UndoersUndo
  <1>5. \A d \in Handler, r \in Rec : Owns(d, r)' => Owns(d, r)
    BY <1>1, <1>2, <1>3 DEF Owns
  <1>6. \A r \in Rec : Spoilt(r)' <=> Spoilt(r)
    BY <1>3 DEF UndoAttempted, Spoilt
  <1>7. Owned => Owned'
    BY <1>3, <1>5, <1>6 DEF Owned, DecisionsWait, OneOwner, OwnedIsPushing
  <1>8. QED
    BY <1>4, <1>7 DEF Ownership

-----------------------------------------------------------------------------
(* The status of an owned recommendation. *)

LEMMA Unowned ==
  ASSUME OwnInv, PhaseFollowsPc, DecisionsWait, NEW r \in Rec, pc[r] \in {"idle", "loaded", "agents"},
         r \notin early, NEW d \in Handler
  PROVE  ~Owns(d, r)
  <1>1. CASE d \in Request
    <2>1. pc[d] # "idle" => target[d] # r
      BY <1>1 DEF DecisionsWait
    <2>2. QED
      BY <2>1 DEF Owns, PhaseFollowsPc, E!InFlight
  <1>2. CASE d \in Rec
    BY <1>2, Members DEF Owns, PhaseFollowsPc, E!InFlight, OwnInv, RunsKnowThemselves
  <1>3. QED
    BY <1>1, <1>2 DEF Handler

LEMMA PlainKeepsOwned ==
  ASSUME OwnInv, OwnInv', PhaseFollowsPc, Owned, NEW c \in Handler, Plain(c),
         c \in Request /\ pc[c] = "idle" => target'[c] \in early' \/ pc[target'[c]] \in {"done", "dead"},
         \A r \in Rec, d \in Handler :
           ~Spoilt(r) /\ Owns(d, r) /\ Owns(d, r)' /\ status[r] \in Pushing => status'[r] \in Pushing
  PROVE  Owned'
  <1>1. DecisionsWait'
    BY PlainWaits DEF Owned
  <1>2. OneOwner'
    BY PlainKeepsOne DEF Owned
  <1>3. OwnedIsPushing'
    BY PlainOwners, PlainSpoils DEF Owned, OwnedIsPushing
  <1>4. QED
    BY <1>1, <1>2, <1>3 DEF Owned

LEMMA StartsKeepsOwned ==
  ASSUME OwnInv, ExecInv, Owned, NEW c \in Handler, Starts(c), NEW s, status' = [status EXCEPT ![target[c]] = s],
         ~Spoilt(target[c]) => s \in Pushing /\ \A d \in Handler : ~Owns(d, target[c])
  PROVE  Owned'
  <1>1. DecisionsWait'
    BY StartsKeepsWaiting DEF Owned
  <1>2. \A r \in Rec : Spoilt(r)' <=> Spoilt(r)
    BY DEF Starts, UndoAttempted, Spoilt
  <1>3. \A r \in Rec : r # target[c] => status'[r] = status[r]
    BY Domains
  <1>4. status'[target[c]] = s
    BY Domains DEF Starts
  <1>5. OneOwner'
    BY <1>2, StartsOwners DEF Owned, OneOwner
  <1>6. OwnedIsPushing'
    BY <1>2, <1>3, <1>4, StartsOwners DEF Owned, OwnedIsPushing
  <1>7. QED
    BY <1>1, <1>5, <1>6 DEF Owned

(* What the steps that write a status do to an owner of the row. *)
LEMMA RunsSpareOwners ==
  ASSUME OwnInv, PhaseFollowsPc, DecisionsWait, NEW q \in Rec, NEW r \in Rec, NEW d \in Handler,
         LoadProduct(q) \/ CreateSkeleton(q) \/ MarkFailed(q) \/ RunThrows(q) \/ RunEnds(q)
           \/ \E x \in Price : FinalizeForReview(q, x),
         r \notin early, Owns(d, r)
  PROVE  status'[r] = status[r]
  <1>1. CASE LoadProduct(q) \/ RunThrows(q) \/ RunEnds(q)
    BY <1>1 DEF LoadProduct, RunThrows, RunEnds, recRow
  <1>2. CASE pc[q] \in {"loaded", "agents"} /\ \E s \in RecStatus : status' = [status EXCEPT ![q] = s]
    <2>1. r # q
      BY <1>2, Unowned
    <2>2. QED
      BY <1>2, <2>1, Domains
  <1>3. QED
    BY <1>1, <1>2 DEF CreateSkeleton, MarkFailed, FinalizeForReview, RecStatus

LEMMA ResolveSparesOwners ==
  ASSUME OwnInv, UndoersUndo, NEW c \in Handler, Resolve(c) \/ Restore(c), NEW r \in Rec,
         ~Spoilt(r), status[r] \in Pushing
  PROVE  status'[r] = status[r]
  <1>1. CASE Resolve(c)
    BY <1>1, Domains DEF Resolve, Pushing
  <1>2. CASE Restore(c)
    <2>1. c \in Request
      BY <1>2 DEF Restore, Handler, OwnInv, RunsKnowThemselves
    <2>2. target[c] # r
      BY <1>2, <2>1 DEF Restore, UndoersUndo, UndoAttempted, Spoilt
    <2>3. QED
      BY <1>2, <2>2, Domains DEF Restore
  <1>3. QED
    BY <1>1, <1>2

LEMMA RequeueSparesOwners ==
  ASSUME OwnInv, OneOwner, NEW c \in Handler, Requeue(c), NEW r \in Rec, NEW d \in Handler,
         ~Spoilt(r), Owns(d, r), Owns(d, r)'
  PROVE  status'[r] = status[r]
  <1>1. CASE target[c] = r
    <2>1. Owns(c, r)
      BY <1>1 DEF Owns, Requeue
    <2>2. d = c
      BY <2>1 DEF OneOwner
    <2>3. ~Owns(c, r)'
      BY Domains DEF Owns, Requeue, Finish, Goto, exec, E!InFlight
    <2>4. QED
      BY <2>2, <2>3
  <1>2. CASE target[c] # r
    BY <1>2, Domains DEF Requeue
  <1>3. QED
    BY <1>1, <1>2

-----------------------------------------------------------------------------
(* The invariant. *)

LEMMA InitOwnership == Init => Ownership
  <1> SUFFICES ASSUME Init PROVE Ownership
    OBVIOUS
  <1>1. \A c \in Handler : pc[c] = "idle" /\ phase[c] = "idle"
    BY DEF Init, E!Init
  <1>2. PhaseFollowsPc /\ UndoersUndo
    BY <1>1, Members DEF PhaseFollowsPc, UndoersUndo, E!InFlight
  <1>3. Owned
    BY <1>1, Members DEF Owned, DecisionsWait, OneOwner, OwnedIsPushing, Owns, E!InFlight
  <1>4. QED
    BY <1>2, <1>3 DEF Ownership

LEMMA RunsKeepOwnership ==
  ASSUME OwnInv, OwnInv', Ownership, NEW q \in Rec,
         LoadProduct(q) \/ CreateSkeleton(q) \/ MarkFailed(q) \/ RunThrows(q) \/ RunEnds(q)
           \/ \E x \in Price : FinalizeForReview(q, x)
  PROVE  Ownership'
  <1>1. q \in Handler /\ q \notin Request /\ Plain(q)
    BY RunsArePlain, Members, RecAssumption
  <1>2. PhaseFollowsPc' /\ UndoersUndo'
    BY <1>1, PlainKeepsPhases DEF Ownership
  <1>3. ASSUME Owned PROVE Owned'
    <2>1. \A r \in Rec, d \in Handler : ~Spoilt(r) /\ Owns(d, r) => status'[r] = status[r]
      BY <1>3, RunsSpareOwners DEF Ownership, Owned, Spoilt
    <2>2. QED
      BY <1>1, <1>3, <2>1, PlainKeepsOwned DEF Ownership
  <1>4. QED
    BY <1>2, <1>3 DEF Ownership

LEMMA OpeningsKeepOwnership ==
  ASSUME OwnInv, OwnInv', Ownership, NEW c \in Request, NEW r \in Rec,
         (\E o \in Ops : ApproveOrReject(c, r, o)) \/ (\E x \in Price : Modify(c, r, x)) \/ Undo(c, r)
  PROVE  Ownership'
  <1>1. c \in Handler /\ Plain(c) /\ target'[c] = r /\ (r \in early' \/ pc[r] \in {"done", "dead"})
        /\ UNCHANGED status
    BY OpeningsArePlain, Members
  <1>2. PhaseFollowsPc' /\ UndoersUndo'
    BY <1>1, PlainKeepsPhases DEF Ownership
  <1>3. ASSUME Owned PROVE Owned'
    BY <1>1, <1>3, PlainKeepsOwned DEF Ownership
  <1>4. QED
    BY <1>2, <1>3 DEF Ownership

LEMMA RequestsKeepOwnership ==
  ASSUME OwnInv, OwnInv', Ownership, NEW c \in Handler,
         ModifyReads(c) \/ LoseClaim(c) \/ Requeue(c) \/ Audit(c) \/ ClaimThrows(c) \/ LastStatementFails(c)
  PROVE  Ownership'
  <1>1. Plain(c) /\ pc[c] # "idle"
    BY RequestsArePlain
  <1>2. PhaseFollowsPc' /\ UndoersUndo'
    BY <1>1, PlainKeepsPhases DEF Ownership
  <1>3. ASSUME Owned PROVE Owned'
    <2>1. ASSUME NEW r \in Rec, NEW d \in Handler,
                 ~Spoilt(r), Owns(d, r), Owns(d, r)', status[r] \in Pushing
          PROVE  status'[r] \in Pushing
      <3>1. CASE UNCHANGED recRow
        BY <2>1, <3>1 DEF recRow
      <3>2. CASE Resolve(c) \/ Restore(c)
        BY <2>1, <3>2, ResolveSparesOwners DEF Ownership
      <3>3. CASE Requeue(c)
        BY <1>3, <2>1, <3>3, RequeueSparesOwners DEF Owned
      <3>4. QED
        BY <3>1, <3>2, <3>3 DEF ModifyReads, LoseClaim, Audit, ClaimThrows, LastStatementFails
    <2>2. QED
      BY <1>1, <1>3, <2>1, PlainKeepsOwned DEF Ownership
  <1>4. QED
    BY <1>2, <1>3 DEF Ownership

LEMMA ClaimsKeepOwnership ==
  ASSUME OwnInv, OwnInv', ExecInv, Ownership, NEW c \in Handler, Claim(c) \/ ClaimUndo(c)
  PROVE  Ownership'
  <1>1. CASE ~Push(c, chosen[c])
    <2>1. Plain(c) /\ pc[c] # "idle"
      BY <1>1, ClaimsArePlain
    <2>2. PhaseFollowsPc' /\ UndoersUndo'
      BY <2>1, PlainKeepsPhases DEF Ownership
    <2>3. ASSUME Owned PROVE Owned'
      <3>1. \A r \in Rec : ~Spoilt(r) /\ status[r] \in Pushing => status'[r] \in Pushing
        BY ResolveSparesOwners DEF Claim, ClaimUndo, Ownership
      <3>2. QED
        BY <2>1, <2>3, <3>1, PlainKeepsOwned DEF Ownership
    <2>4. QED
      BY <2>2, <2>3 DEF Ownership
  <1>2. CASE Claim(c) /\ Push(c, chosen[c])
    <2>1. PICK s \in Pushing : status' = [status EXCEPT ![target[c]] = s]
      BY <1>2, ClaimStarts
    <2>2. Starts(c) /\ status[target[c]] = "PENDING" /\ target[c] \in Rec
      BY <1>2, ClaimStarts DEF Starts
    <2>3. PhaseFollowsPc' /\ UndoersUndo'
      BY <2>2, StartsKeepsPhases DEF Ownership
    <2>4. ASSUME Owned, ~Spoilt(target[c]), NEW d \in Handler PROVE ~Owns(d, target[c])
      BY <2>2, <2>4 DEF Owned, OwnedIsPushing, Pushing
    <2>5. ASSUME Owned PROVE Owned'
      BY <2>1, <2>2, <2>4, <2>5, StartsKeepsOwned
    <2>6. QED
      BY <2>3, <2>5 DEF Ownership
  <1>3. CASE ClaimUndo(c) /\ Push(c, chosen[c])
    <2>1. Starts(c) /\ Spoilt(target[c]) /\ status' = [status EXCEPT ![target[c]] = "PENDING"]
      BY <1>3, UndoStarts DEF Ownership
    <2>2. PhaseFollowsPc' /\ UndoersUndo'
      BY <2>1, StartsKeepsPhases DEF Ownership
    <2>3. ASSUME Owned PROVE Owned'
      BY <2>1, <2>3, StartsKeepsOwned
    <2>4. QED
      BY <2>2, <2>3 DEF Ownership
  <1>4. QED
    BY <1>1, <1>2, <1>3

LEMMA AutoKeepsOwnership ==
  ASSUME OwnInv, ExecInv, Ownership, NEW r \in Rec, NEW x \in Price, FinalizeAuto(r, x)
  PROVE  Ownership'
  <1>1. r \in Handler /\ target[r] = r
    BY Members DEF OwnInv, RunsKnowThemselves
  <1>2. Starts(r) /\ status' = [status EXCEPT ![r] = "AUTO_EXECUTED"] /\ pc[r] = "agents"
    BY AutoStarts DEF FinalizeAuto
  <1>3. PhaseFollowsPc' /\ UndoersUndo'
    BY <1>1, <1>2, StartsKeepsPhases DEF Ownership
  <1>4. ASSUME Owned, ~Spoilt(r), NEW d \in Handler PROVE ~Owns(d, r)
    BY <1>2, <1>4, Unowned DEF Ownership, Owned, Spoilt
  <1>5. ASSUME Owned PROVE Owned'
    <2>1. "AUTO_EXECUTED" \in Pushing
      BY DEF Pushing
    <2>2. QED
      BY <1>1, <1>2, <1>4, <1>5, <2>1, StartsKeepsOwned
  <1>6. QED
    BY <1>3, <1>5 DEF Ownership

LEMMA IdleKeepsOwnership ==
  ASSUME Ownership, UNCHANGED <<phase, pc, op, target, status, early>>
  PROVE  Ownership'
  BY DEF Ownership, PhaseFollowsPc, UndoersUndo, Owned, DecisionsWait, OneOwner, OwnedIsPushing,
         Owns, UndoAttempted, Spoilt

LEMMA CrashKeepsOwnership ==
  ASSUME OwnInv, OwnInv', Ownership, Crash
  PROVE  Ownership'
  <1>1. \A c \in Handler : phase'[c] = IF phase[c] \in E!InFlight THEN "dead" ELSE phase[c]
    BY DEF Crash, E!Crash
  <1>2. \A c \in Handler : pc'[c] = IF pc[c] \in Busy THEN "dead" ELSE pc[c]
    BY DEF Crash
  <1>3. UNCHANGED <<op, target, status, early>>
    BY DEF Crash, recRow, history
  <1>4. PhaseFollowsPc' /\ UndoersUndo'
    BY <1>1, <1>2, <1>3, Members DEF Ownership, PhaseFollowsPc, UndoersUndo, E!InFlight, Busy
  <1>5. \A c \in Handler, r \in Rec : Owns(c, r)' => Owns(c, r)
    BY <1>1, <1>2, <1>3 DEF Owns, E!InFlight, Busy
  <1>6. \A r \in Rec : Spoilt(r)' <=> Spoilt(r)
    BY <1>3 DEF UndoAttempted, Spoilt
  <1>7. DecisionsWait => DecisionsWait'
    <2>1. \A c \in Request : pc[c] # "idle" => target[c] \in Handler
      BY Members DEF OwnInv, RequestsKnowTarget
    <2>2. QED
      BY <1>2, <1>3, <2>1, Members DEF DecisionsWait, Busy
  <1>8. Owned => Owned'
    BY <1>3, <1>5, <1>6, <1>7 DEF Owned, OneOwner, OwnedIsPushing
  <1>9. QED
    BY <1>4, <1>8 DEF Ownership

LEMMA NextOwnership ==
  ASSUME OwnInv, OwnInv', ExecInv, Ownership, [Next]_vars
  PROVE  Ownership'
  <1>1. CASE UNCHANGED vars
    BY <1>1, IdleKeepsOwnership DEF vars, exec, own, recRow, handlers, history
  <1>2. ASSUME NEW r \in Rec, LoadProduct(r) \/ RunStep(r) \/ RunThrows(r)
        PROVE  Ownership'
    BY <1>2, RunsKeepOwnership, AutoKeepsOwnership DEF RunStep
  <1>3. ASSUME NEW c \in Request, NEW r \in Rec,
               (\E o \in Ops : ApproveOrReject(c, r, o)) \/ (\E x \in Price : Modify(c, r, x)) \/ Undo(c, r)
        PROVE  Ownership'
    BY <1>3, OpeningsKeepOwnership
  <1>4. ASSUME NEW c \in Handler, HandlerStep(c) \/ ClaimThrows(c) \/ LastStatementFails(c)
        PROVE  Ownership'
    BY <1>4, RequestsKeepOwnership, ClaimsKeepOwnership, PushKeepsOwnership DEF HandlerStep, Executing
  <1>5. ASSUME NEW c \in Handler, E!StatementFails(c) /\ UNCHANGED own
        PROVE  Ownership'
    BY <1>5, PushKeepsOwnership
  <1>6. CASE \E r \in Rec : WindowCloses(r)
    BY <1>6, IdleKeepsOwnership DEF WindowCloses, exec, handlers, history
  <1>7. CASE \E p \in Product, x \in Price : (E!EditPrice(p, x) \/ E!EditLimits(p, x)) /\ UNCHANGED own
    BY <1>7, IdleKeepsOwnership DEF E!EditPrice, E!EditLimits, own, recRow, handlers, history
  <1>8. CASE Crash
    BY <1>8, CrashKeepsOwnership
  <1>9. QED
    BY <1>1, <1>2, <1>3, <1>4, <1>5, <1>6, <1>7, <1>8 DEF Next, Environment

-----------------------------------------------------------------------------
(* A handler whose push was accepted and whose success row was then lost   *)
(* goes down the path of a failed push and ends no owner.  Each of them    *)
(* has cost a failed statement of its own.                                 *)
Lost == {c \in Handler : c \in accepted /\ phase[c] \in {"rejected", "reverted", "failed"}}

AcceptedPushed ==
  \A c \in Handler :
    c \in accepted => phase[c] \in {"accepted", "rejected", "reverted", "succeeded", "failed", "dead"}

LossesCounted == AcceptedPushed /\ IsFiniteSet(Lost) /\ Cardinality(Lost) <= dbFailures

LEMMA AddOne ==
  ASSUME NEW S, IsFiniteSet(S), NEW x
  PROVE  IsFiniteSet(S \cup {x}) /\ Cardinality(S \cup {x}) <= Cardinality(S) + 1
  <1>1. Cardinality(S) \in Nat
    BY FS_CardinalityType
  <1>2. Cardinality(S \cup {x}) = Cardinality(S) \/ Cardinality(S \cup {x}) = Cardinality(S) + 1
    BY FS_AddElement
  <1>3. IsFiniteSet(S \cup {x})
    BY FS_AddElement
  <1>4. QED
    BY <1>1, <1>2, <1>3

LEMMA SomeLost ==
  ASSUME LossesCounted, dbFailures \in Nat, dbFailures' \in Nat, dbFailures' >= dbFailures, Lost' \subseteq Lost
  PROVE  IsFiniteSet(Lost') /\ Cardinality(Lost') <= dbFailures'
  <1>1. IsFiniteSet(Lost') /\ Cardinality(Lost') <= Cardinality(Lost)
    BY FS_Subset DEF LossesCounted
  <1>2. Cardinality(Lost) \in Nat /\ Cardinality(Lost') \in Nat
    BY <1>1, FS_CardinalityType DEF LossesCounted
  <1>3. QED
    BY <1>1, <1>2 DEF LossesCounted

LEMMA OneMoreLost ==
  ASSUME LossesCounted, dbFailures \in Nat, dbFailures' = dbFailures + 1, NEW c \in Handler,
         Lost' \subseteq Lost \cup {c}
  PROVE  IsFiniteSet(Lost') /\ Cardinality(Lost') <= dbFailures'
  <1>1. IsFiniteSet(Lost \cup {c}) /\ Cardinality(Lost \cup {c}) <= Cardinality(Lost) + 1
    BY AddOne DEF LossesCounted
  <1>2. IsFiniteSet(Lost') /\ Cardinality(Lost') <= Cardinality(Lost \cup {c})
    BY <1>1, FS_Subset
  <1>3. Cardinality(Lost) \in Nat /\ Cardinality(Lost') \in Nat /\ Cardinality(Lost \cup {c}) \in Nat
    BY <1>1, <1>2, FS_CardinalityType DEF LossesCounted
  <1>4. QED
    BY <1>1, <1>2, <1>3 DEF LossesCounted

LEMMA NextLosses ==
  ASSUME ExecInv, ExecInv', LossesCounted, [E!Next]_(E!vars)
  PROVE  LossesCounted'
  <1>a. /\ DOMAIN phase = Handler
        /\ dbFailures \in Nat /\ dbFailures' \in Nat
    BY DEF ExecInv, E!TypeOK
  <1>1. CASE UNCHANGED E!vars
    BY <1>1 DEF LossesCounted, AcceptedPushed, Lost, E!vars, E!data, E!history
  <1>2. ASSUME NEW c \in Handler, E!Step(c) \/ \E p \in Product, x \in Price : E!Call(c, p, x)
        PROVE  LossesCounted'
    <2>1. AcceptedPushed' /\ Lost' \subseteq Lost /\ dbFailures' = dbFailures
      <3> USE <1>a DEF LossesCounted, AcceptedPushed, Lost, E!data, E!history
      <3>1. CASE \E p \in Product, x \in Price : E!Call(c, p, x)
        BY <3>1 DEF E!Call
      <3>2. CASE E!ReadContext(c)    BY <3>2 DEF E!ReadContext
      <3>3. CASE E!WriteLocal(c)     BY <3>3 DEF E!WriteLocal
      <3>4. CASE E!PushAccepted(c)   BY <3>4 DEF E!PushAccepted
      <3>5. CASE E!PushRejected(c)   BY <3>5 DEF E!PushRejected
      <3>6. CASE E!RecordSuccess(c)  BY <3>6 DEF E!RecordSuccess
      <3>7. CASE E!Rollback(c)       BY <3>7 DEF E!Rollback
      <3>8. CASE E!RecordFailure(c)  BY <3>8 DEF E!RecordFailure
      <3>9. QED
        BY <1>2, <3>1, <3>2, <3>3, <3>4, <3>5, <3>6, <3>7, <3>8 DEF E!Step
    <2>2. QED
      BY <1>a, <2>1, SomeLost DEF LossesCounted
  <1>3. ASSUME NEW c \in Handler, E!StatementFails(c)
        PROVE  LossesCounted'
    <2>1. AcceptedPushed' /\ Lost' \subseteq Lost \cup {c} /\ dbFailures' = dbFailures + 1
      BY <1>a, <1>3 DEF E!StatementFails, E!data, LossesCounted, AcceptedPushed, Lost
    <2>2. QED
      BY <1>a, <2>1, OneMoreLost DEF LossesCounted
  <1>4. CASE E!Crash \/ \E p \in Product, x \in Price : E!EditPrice(p, x) \/ E!EditLimits(p, x)
    <2>1. AcceptedPushed' /\ Lost' \subseteq Lost /\ dbFailures' = dbFailures
      BY <1>4, <1>a DEF E!Crash, E!EditPrice, E!EditLimits, E!data, E!InFlight, LossesCounted, AcceptedPushed, Lost
    <2>2. QED
      BY <1>a, <2>1, SomeLost DEF LossesCounted
  <1>5. QED
    BY <1>1, <1>2, <1>3, <1>4 DEF E!Next

LEMMA InitLosses == Init => LossesCounted
  <1> SUFFICES ASSUME Init PROVE LossesCounted
    OBVIOUS
  <1>1. Lost = {} /\ AcceptedPushed /\ dbFailures = 0
    BY DEF Init, E!Init, Lost, AcceptedPushed
  <1>2. QED
    BY <1>1, FS_EmptySet DEF LossesCounted

(* The pushes of a recommendation are its owner's and the lost ones.       *)
LEMMA PushersCounted ==
  ASSUME ExecInv, Ownership, LossesCounted
  PROVE  EachFurtherPushLostARow
  <1> SUFFICES ASSUME NEW r \in Rec, ~Spoilt(r)
               PROVE  Cardinality(Pushes(r)) <= 1 + dbFailures
    BY DEF EachFurtherPushLostARow, Spoilt
  <1>a. dbFailures \in Nat /\ IsFiniteSet(Lost) /\ Cardinality(Lost) \in Nat /\ Cardinality(Lost) <= dbFailures
    BY FS_CardinalityType DEF ExecInv, E!TypeOK, LossesCounted
  <1>1. \A c \in Pushes(r) : c \in Handler /\ (Owns(c, r) \/ c \in Lost)
    BY DEF Pushes, Owns, Lost, LossesCounted, AcceptedPushed, E!InFlight
  <1>2. CASE Pushes(r) \subseteq Lost
    <2>1. Cardinality(Pushes(r)) <= Cardinality(Lost) /\ IsFiniteSet(Pushes(r))
      BY <1>a, <1>2, FS_Subset
    <2>2. Cardinality(Pushes(r)) \in Nat
      BY <2>1, FS_CardinalityType
    <2>3. QED
      BY <1>a, <2>1, <2>2
  <1>3. CASE \E o \in Pushes(r) : o \notin Lost
    <2>1. PICK o \in Pushes(r) : Owns(o, r) /\ o \in Handler
      BY <1>1, <1>3
    <2>2. Pushes(r) \subseteq Lost \cup {o}
      BY <1>1, <2>1 DEF Ownership, Owned, OneOwner
    <2>3. IsFiniteSet(Lost \cup {o}) /\ Cardinality(Lost \cup {o}) <= Cardinality(Lost) + 1
      BY <1>a, AddOne
    <2>4. IsFiniteSet(Pushes(r)) /\ Cardinality(Pushes(r)) <= Cardinality(Lost \cup {o})
      BY <2>2, <2>3, FS_Subset
    <2>5. Cardinality(Pushes(r)) \in Nat /\ Cardinality(Lost \cup {o}) \in Nat
      BY <2>3, <2>4, FS_CardinalityType
    <2>6. QED
      BY <1>a, <2>3, <2>4, <2>5
  <1>4. QED
    BY <1>2, <1>3

(* However many analysts race on however many recommendations, through     *)
(* failed pushes, failed statements and crashes: a recommendation nobody   *)
(* decides early or undoes is pushed once, and once more at most for each  *)
(* failed statement of an execution.  Where none fails it is pushed at     *)
(* most once.                                                              *)
THEOREM PushesCostRows == Safe => []EachFurtherPushLostARow
  <1>1. Init => Ownership /\ LossesCounted
    BY InitOwnership, InitLosses
  <1>2. OwnInv /\ ExecInv /\ OwnInv' /\ Ownership /\ [Next]_vars => Ownership'
    BY NextOwnership
  <1>3. OwnInv /\ ExecInv /\ ExecInv' /\ LossesCounted /\ [Next]_vars => LossesCounted'
    BY NextMaps, NextLosses
  <1>4. ExecInv /\ Ownership /\ LossesCounted => EachFurtherPushLostARow
    BY PushersCounted
  <1>5. QED
    BY <1>1, <1>2, <1>3, <1>4, HandlersTypeCorrect, PTL DEF Safe

-----------------------------------------------------------------------------
(* A counter of failures never goes back, and who opened an undo stays its *)
(* opener.                                                                 *)
CountersGrow ==
  /\ failures' = failures \/ failures' = failures + 1
  /\ crashes' = crashes \/ crashes' = crashes + 1
  /\ edits' = edits \/ edits' = edits + 1
  /\ dbFailures' = dbFailures \/ dbFailures' = dbFailures + 1
  /\ contended \subseteq contended' /\ early \subseteq early'

LEMMA RunsCount ==
  ASSUME NEW r \in Rec, LoadProduct(r) \/ RunStep(r) \/ RunThrows(r)
  PROVE  CountersGrow
  <1> USE DEF CountersGrow, exec, history
  <1>1. CASE LoadProduct(r)
    BY <1>1 DEF LoadProduct, NoteContention
  <1>2. CASE RunThrows(r)
    BY <1>2 DEF RunThrows
  <1>3. CASE CreateSkeleton(r) \/ MarkFailed(r) \/ RunEnds(r)
    BY <1>3 DEF CreateSkeleton, MarkFailed, RunEnds
  <1>4. ASSUME NEW x \in Price, FinalizeForReview(r, x) \/ FinalizeAuto(r, x)
        PROVE  CountersGrow
    BY <1>4 DEF FinalizeForReview, FinalizeAuto, Push, E!Call
  <1>5. QED
    BY <1>1, <1>2, <1>3, <1>4 DEF RunStep

LEMMA OpeningsCount ==
  ASSUME NEW c \in Request, NEW r \in Rec,
         (\E o \in Ops : ApproveOrReject(c, r, o)) \/ (\E x \in Price : Modify(c, r, x)) \/ Undo(c, r)
  PROVE  CountersGrow
  <1>1. \E o : Open(c, r, o)
    BY DEF ApproveOrReject, Modify, Undo
  <1>2. contended \subseteq contended' /\ early \subseteq early'
    BY <1>1 DEF Open, NoteContention
  <1>3. UNCHANGED <<exec, failures>>
    BY DEF ApproveOrReject, Modify, Undo
  <1>4. QED
    BY <1>2, <1>3 DEF CountersGrow, exec

LEMMA HandlersCount ==
  ASSUME NEW c \in Handler, HandlerStep(c) \/ ClaimThrows(c) \/ LastStatementFails(c)
                            \/ (E!StatementFails(c) /\ UNCHANGED own)
  PROVE  CountersGrow
  <1> USE DEF CountersGrow, exec, history
  <1>1. CASE ModifyReads(c) \/ LoseClaim(c) \/ Requeue(c) \/ Audit(c) \/ ClaimThrows(c) \/ LastStatementFails(c)
    BY <1>1 DEF ModifyReads, LoseClaim, Requeue, Audit, ClaimThrows, LastStatementFails
  <1>2. CASE Claim(c) \/ ClaimUndo(c)
    BY <1>2 DEF Claim, ClaimUndo, Push, E!Call
  <1>3. CASE E!StatementFails(c) /\ UNCHANGED own
    BY <1>3 DEF E!StatementFails, own
  <1>4. CASE Executing(c)
    BY <1>4 DEF Executing, own, E!Step, E!ReadContext, E!WriteLocal, E!PushAccepted, E!PushRejected,
                E!RecordSuccess, E!Rollback, E!RecordFailure, E!history
  <1>5. QED
    BY <1>1, <1>2, <1>3, <1>4 DEF HandlerStep

LEMMA NextCounts == [Next]_vars => CountersGrow
  <1> SUFFICES ASSUME [Next]_vars PROVE CountersGrow
    OBVIOUS
  <1>1. CASE UNCHANGED vars
    BY <1>1 DEF vars, own, exec, history, CountersGrow
  <1>2. CASE Environment
    BY <1>2 DEF Environment, WindowCloses, Crash, E!Crash, E!EditPrice, E!EditLimits, own, exec, history, CountersGrow
  <1>3. QED
    BY <1>1, <1>2, RunsCount, OpeningsCount, HandlersCount DEF Next

-----------------------------------------------------------------------------
(* The push behind a status. *)

(* An executions row says succeeded exactly when the call is over and did. *)
RowFollowsPhase == \A c \in Handler : phase[c] = "succeeded" <=> row[c] = "succeeded"

Backs(c) == row[c] = "succeeded" \/ (pc[c] \in {"executing", "dead"} /\ phase[c] # "idle")

Backed(r) == \E c \in Handler : target[c] = r /\ Resolution(op[c]) = status[r] /\ Backs(c)

EveryPushBacked == failures = 0 => \A r \in Rec : status[r] \in Pushing => Backed(r)

Backing == RowFollowsPhase /\ EveryPushBacked

(* A step takes the backing of a status only together with the status, and *)
(* gives a status its backing.                                             *)
BackersStay ==
  \A d \in Handler : Backs(d) /\ op[d] # "undo" =>
    /\ op'[d] = op[d] /\ target'[d] = target[d]
    /\ Backs(d)' \/ status'[target[d]] = "PENDING"

PushesAreBacked ==
  \A r \in Rec : status'[r] \in Pushing => status'[r] = status[r] \/ Backed(r)'

LEMMA BackingKept ==
  ASSUME OwnInv, EveryPushBacked, CountersGrow, BackersStay, PushesAreBacked
  PROVE  EveryPushBacked'
  <1> SUFFICES ASSUME failures' = 0, NEW r \in Rec, status'[r] \in Pushing, status'[r] = status[r]
               PROVE  Backed(r)'
    BY DEF EveryPushBacked, PushesAreBacked
  <1>1. failures = 0
    BY DEF CountersGrow, OwnInv, RowsTyped
  <1>2. PICK d \in Handler : target[d] = r /\ Resolution(op[d]) = status[r] /\ Backs(d)
    BY <1>1 DEF EveryPushBacked, Backed
  <1>3. op[d] # "undo"
    BY <1>2 DEF Resolution, Pushing
  <1>4. op'[d] = op[d] /\ target'[d] = r /\ Backs(d)'
    BY <1>2, <1>3 DEF BackersStay, Pushing
  <1>5. QED
    BY <1>2, <1>4 DEF Backed

LEMMA PlainBackers ==
  ASSUME OwnInv, PhaseFollowsPc, RowFollowsPhase, NEW c \in Handler, Plain(c), row' = row,
         pc[c] = "executing" => phase[c] = "succeeded" \/ op[c] = "undo" \/ status'[target[c]] = "PENDING"
  PROVE  BackersStay /\ RowFollowsPhase'
  <1>1. RowFollowsPhase'
    BY DEF RowFollowsPhase, Plain
  <1>2. ASSUME NEW d \in Handler, Backs(d), op[d] # "undo", d # c
        PROVE  op'[d] = op[d] /\ target'[d] = target[d] /\ Backs(d)'
    BY <1>2 DEF Backs, Plain
  <1>3. ASSUME Backs(c), op[c] # "undo"
        PROVE  op'[c] = op[c] /\ target'[c] = target[c] /\ (Backs(c)' \/ status'[target[c]] = "PENDING")
    <2>1. pc[c] = "executing"
      BY <1>3 DEF Backs, Plain, PhaseFollowsPc, RowFollowsPhase
    <2>2. QED
      BY <1>3, <2>1 DEF Backs, Plain, RowFollowsPhase
  <1>4. QED
    BY <1>1, <1>2, <1>3 DEF BackersStay

LEMMA StartsBackers ==
  ASSUME OwnInv, ExecInv, PhaseFollowsPc, RowFollowsPhase, NEW c \in Handler, Starts(c), row' = row
  PROVE  BackersStay /\ RowFollowsPhase' /\ Backs(c)'
  <1>1. \A d \in Handler : phase'[d] = (IF d = c THEN "called" ELSE phase[d])
                        /\ pc'[d] = (IF d = c THEN "executing" ELSE pc[d])
    BY Domains DEF Starts, ExecInv, E!TypeOK
  <1>2. QED
    BY <1>1 DEF BackersStay, Backs, Starts, RowFollowsPhase

(* The two statements that write a row of executions, and the rest. *)
LEMMA StepBackers ==
  ASSUME OwnInv, ExecInv, PhaseFollowsPc, RowFollowsPhase, NEW c \in Handler,
         E!Step(c) \/ E!StatementFails(c), UNCHANGED own
  PROVE  BackersStay /\ RowFollowsPhase'
  <1>1. DOMAIN phase = Handler /\ DOMAIN row = Handler
    BY DEF ExecInv, E!TypeOK
  <1>2. phase[c] \in E!InFlight /\ pc[c] = "executing"
    BY StepMovesPhase DEF PhaseFollowsPc
  <1>3. /\ \A d \in Handler \ {c} : phase'[d] = phase[d] /\ row'[d] = row[d]
        /\ phase'[c] # "idle"
        /\ phase'[c] = "succeeded" <=> row'[c] = "succeeded"
    <2> USE <1>1, <1>2 DEF RowFollowsPhase, E!InFlight
    <2>1. CASE E!StatementFails(c)
      BY <2>1 DEF E!StatementFails, E!data
    <2>2. CASE E!ReadContext(c) \/ E!WriteLocal(c) \/ E!PushAccepted(c) \/ E!PushRejected(c) \/ E!Rollback(c)
      BY <2>2 DEF E!ReadContext, E!WriteLocal, E!PushAccepted, E!PushRejected, E!Rollback, E!data
    <2>3. CASE E!RecordSuccess(c) \/ E!RecordFailure(c)
      BY <2>3 DEF E!RecordSuccess, E!RecordFailure
    <2>4. QED
      BY <2>1, <2>2, <2>3 DEF E!Step
  <1>4. UNCHANGED <<pc, op, target, status>>
    BY DEF own, handlers, recRow
  <1>5. QED
    BY <1>2, <1>3, <1>4 DEF BackersStay, Backs, RowFollowsPhase, E!InFlight

LEMMA SilentBackers ==
  ASSUME RowFollowsPhase, UNCHANGED <<phase, row, pc, op, target, status>>
  PROVE  BackersStay /\ PushesAreBacked /\ RowFollowsPhase'
  BY DEF BackersStay, PushesAreBacked, Backs, RowFollowsPhase

LEMMA CrashBackers ==
  ASSUME RowFollowsPhase, PhaseFollowsPc, Crash
  PROVE  BackersStay /\ PushesAreBacked /\ RowFollowsPhase'
  <1>1. \A c \in Handler : phase'[c] = IF phase[c] \in E!InFlight THEN "dead" ELSE phase[c]
    BY DEF Crash, E!Crash
  <1>2. \A c \in Handler : pc'[c] = IF pc[c] \in Busy THEN "dead" ELSE pc[c]
    BY DEF Crash
  <1>3. UNCHANGED <<op, target, status, row>>
    BY DEF Crash, E!Crash, E!data, recRow
  <1>4. QED
    BY <1>1, <1>2, <1>3 DEF BackersStay, PushesAreBacked, Backs, RowFollowsPhase, E!InFlight, Busy

LEMMA RunsBacking ==
  ASSUME OwnInv, ExecInv, Ownership, RowFollowsPhase, NEW r \in Rec, LoadProduct(r) \/ RunStep(r) \/ RunThrows(r)
  PROVE  BackersStay /\ PushesAreBacked /\ RowFollowsPhase'
  <1>a. r \in Handler /\ target[r] = r /\ op[r] = "generate"
    BY Members DEF OwnInv, RunsKnowThemselves
  <1>1. ASSUME NEW x \in Price, FinalizeAuto(r, x)
        PROVE  BackersStay /\ PushesAreBacked /\ RowFollowsPhase'
    <2>1. Starts(r) /\ status' = [status EXCEPT ![r] = "AUTO_EXECUTED"] /\ row' = row
      BY <1>1, AutoStarts DEF FinalizeAuto, Push, E!Call, E!data
    <2>2. BackersStay /\ RowFollowsPhase' /\ Backs(r)'
      BY <1>a, <2>1, StartsBackers DEF Ownership
    <2>3. Backed(r)'
      BY <1>a, <2>1, <2>2, Domains DEF Backed, Starts, Resolution
    <2>4. QED
      BY <2>1, <2>2, <2>3, Domains DEF PushesAreBacked
  <1>2. ASSUME LoadProduct(r) \/ CreateSkeleton(r) \/ MarkFailed(r) \/ RunThrows(r) \/ RunEnds(r)
                 \/ \E x \in Price : FinalizeForReview(r, x)
        PROVE  BackersStay /\ PushesAreBacked /\ RowFollowsPhase'
    <2>1. Plain(r)
      BY <1>2, RunsArePlain
    <2>2. row' = row /\ (pc[r] = "executing" => phase[r] = "succeeded")
      BY <1>2 DEF LoadProduct, CreateSkeleton, MarkFailed, RunThrows, RunEnds, FinalizeForReview, exec
    <2>3. PushesAreBacked
      BY <1>2, Domains DEF PushesAreBacked, Pushing, LoadProduct, CreateSkeleton, MarkFailed, RunThrows, RunEnds,
         FinalizeForReview, recRow
    <2>4. QED
      BY <1>a, <2>1, <2>2, <2>3, PlainBackers DEF Ownership
  <1>3. QED
    BY <1>1, <1>2 DEF RunStep

LEMMA OpeningsBacking ==
  ASSUME OwnInv, Ownership, RowFollowsPhase, NEW c \in Request, NEW r \in Rec,
         (\E o \in Ops : ApproveOrReject(c, r, o)) \/ (\E x \in Price : Modify(c, r, x)) \/ Undo(c, r)
  PROVE  BackersStay /\ PushesAreBacked /\ RowFollowsPhase'
  <1>1. c \in Handler /\ Plain(c) /\ UNCHANGED status /\ pc[c] = "idle"
    BY OpeningsArePlain, Members
  <1>2. row' = row
    BY DEF ApproveOrReject, Modify, Undo, exec
  <1>3. QED
    BY <1>1, <1>2, PlainBackers DEF Ownership, PushesAreBacked

LEMMA HandlersBacking ==
  ASSUME OwnInv, ExecInv, Ownership, RowFollowsPhase, NEW c \in Handler,
         HandlerStep(c) \/ ClaimThrows(c) \/ LastStatementFails(c)
  PROVE  RowFollowsPhase' /\ (failures' = 0 => BackersStay /\ PushesAreBacked)
  <1>1. CASE Executing(c)
    BY <1>1, StepBackers DEF Executing, Ownership, PushesAreBacked, own, recRow
  <1>2. CASE Claim(c) /\ Push(c, chosen[c])
    <2>1. Starts(c) /\ row' = row
      BY <1>2, ClaimStarts DEF Push, E!Call, E!data
    <2>2. status' = [status EXCEPT ![target[c]] = Resolution(op[c])] /\ UNCHANGED <<op, target>>
      BY <1>2 DEF Claim, Resolve
    <2>3. BackersStay /\ RowFollowsPhase' /\ Backs(c)'
      BY <2>1, StartsBackers DEF Ownership
    <2>4. Backed(target[c])'
      BY <2>1, <2>2, <2>3, Domains DEF Backed, Starts
    <2>5. QED
      BY <2>2, <2>3, <2>4, Domains DEF PushesAreBacked
  <1>3. CASE ClaimUndo(c) /\ Push(c, chosen[c])
    <2>1. Starts(c) /\ row' = row /\ status' = [status EXCEPT ![target[c]] = "PENDING"]
      BY <1>3, UndoStarts DEF Push, E!Call, E!data, Ownership
    <2>2. QED
      BY <2>1, StartsBackers, Domains DEF Ownership, PushesAreBacked, Pushing
  <1>4. CASE (Claim(c) \/ ClaimUndo(c)) /\ ~Push(c, chosen[c])
    <2>1. Plain(c)
      BY <1>4, ClaimsArePlain
    <2>2. row' = row /\ pc[c] # "executing"
      BY <1>4 DEF Claim, ClaimUndo, Resolve, Restore, exec
    <2>3. PushesAreBacked
      BY <1>4, Domains DEF PushesAreBacked, Pushing, Claim, ClaimUndo, Resolve, Restore, Resolution
    <2>4. QED
      BY <2>1, <2>2, <2>3, PlainBackers DEF Ownership
  <1>5. CASE ModifyReads(c) \/ LoseClaim(c) \/ Requeue(c) \/ Audit(c)
    <2>1. Plain(c)
      BY <1>5, RequestsArePlain
    <2>2. row' = row
      BY <1>5 DEF ModifyReads, LoseClaim, Requeue, Audit, exec
    <2>3. PushesAreBacked
      BY <1>5, Domains DEF PushesAreBacked, Pushing, ModifyReads, LoseClaim, Requeue, Audit, recRow
    <2>4. pc[c] = "executing" => phase[c] = "succeeded" \/ op[c] = "undo" \/ status'[target[c]] = "PENDING"
      <3>1. target[c] \in Rec \/ pc[c] # "executing"
        BY DEF Handler, OwnInv, RunsKnowThemselves, RequestsKnowTarget
      <3>2. QED
        BY <1>5, <3>1, Domains DEF ModifyReads, LoseClaim, Requeue, Audit, Decided
    <2>5. QED
      BY <2>1, <2>2, <2>3, <2>4, PlainBackers DEF Ownership
  <1>6. CASE ClaimThrows(c) \/ LastStatementFails(c)
    BY <1>6 DEF ClaimThrows, LastStatementFails, OwnInv, RowsTyped, RowFollowsPhase, exec
  <1>7. QED
    BY <1>1, <1>2, <1>3, <1>4, <1>5, <1>6 DEF HandlerStep

LEMMA NextBacking ==
  ASSUME OwnInv, ExecInv, Ownership, Backing, [Next]_vars
  PROVE  Backing'
  <1> USE DEF Backing
  <1>1. CountersGrow
    BY NextCounts
  <1>2. RowFollowsPhase' /\ (failures' = 0 => BackersStay /\ PushesAreBacked)
    <2>1. CASE UNCHANGED vars
      BY <2>1, SilentBackers DEF vars, exec, own, recRow, handlers
    <2>2. ASSUME NEW r \in Rec, LoadProduct(r) \/ RunStep(r) \/ RunThrows(r)
          PROVE  RowFollowsPhase' /\ BackersStay /\ PushesAreBacked
      BY <2>2, RunsBacking
    <2>3. ASSUME NEW c \in Request, NEW r \in Rec,
                 (\E o \in Ops : ApproveOrReject(c, r, o)) \/ (\E x \in Price : Modify(c, r, x)) \/ Undo(c, r)
          PROVE  RowFollowsPhase' /\ BackersStay /\ PushesAreBacked
      BY <2>3, OpeningsBacking
    <2>4. ASSUME NEW c \in Handler, HandlerStep(c) \/ ClaimThrows(c) \/ LastStatementFails(c)
          PROVE  RowFollowsPhase' /\ (failures' = 0 => BackersStay /\ PushesAreBacked)
      BY <2>4, HandlersBacking
    <2>5. ASSUME NEW c \in Handler, E!StatementFails(c) /\ UNCHANGED own
          PROVE  RowFollowsPhase' /\ BackersStay /\ PushesAreBacked
      BY <2>5, StepBackers DEF Ownership, PushesAreBacked, own, recRow
    <2>6. CASE Crash
      BY <2>6, CrashBackers DEF Ownership
    <2>7. CASE \E r \in Rec : WindowCloses(r)
      BY <2>7, SilentBackers DEF WindowCloses, exec, handlers
    <2>8. CASE \E p \in Product, x \in Price : (E!EditPrice(p, x) \/ E!EditLimits(p, x)) /\ UNCHANGED own
      BY <2>8, SilentBackers DEF E!EditPrice, E!EditLimits, own, recRow, handlers
    <2>9. QED
      BY <2>1, <2>2, <2>3, <2>4, <2>5, <2>6, <2>7, <2>8 DEF Next, Environment
  <1>3. EveryPushBacked'
    BY <1>1, <1>2, BackingKept DEF EveryPushBacked
  <1>4. QED
    BY <1>2, <1>3

LEMMA OwnershipAlways == Safe => [](OwnInv /\ ExecInv /\ Ownership)
  <1>1. OwnInv /\ ExecInv /\ OwnInv' /\ Ownership /\ [Next]_vars => Ownership'
    BY NextOwnership
  <1>2. QED
    BY <1>1, InitOwnership, HandlersTypeCorrect, PTL DEF Safe

(* A status that says a price was pushed is backed by its push, whatever   *)
(* claims, undos and requeues overlapped (the catch around                 *)
(* executeRecommendation, in the service and in orchestrate).              *)
THEOREM PushedStatusesAreBacked == Safe => []PushedStatusHasPush
  <1>1. Init => Backing
    BY DEF Init, E!Init, Backing, RowFollowsPhase, EveryPushBacked, Pushing
  <1>2. OwnInv /\ ExecInv /\ Ownership /\ Backing /\ [Next]_vars => Backing'
    BY NextBacking
  <1>3. Backing => PushedStatusHasPush
    BY DEF Backing, EveryPushBacked, Backed, Backs, PushedStatusHasPush
  <1>4. QED
    BY <1>1, <1>2, <1>3, OwnershipAlways, PTL DEF Safe
-----------------------------------------------------------------------------
(* Handlers that take turns, and rows that do not exist yet. *)

(* A product nobody contended for has at most one handler at work. *)
Alone ==
  \A c, d \in Handler :
    /\ pc[c] \in Busy /\ pc[d] \in Busy /\ ProductOf[target[c]] = ProductOf[target[d]]
    /\ ProductOf[target[c]] \notin contended
    => c = d

Unborn == \A r \in Rec : pc[r] \in {"idle", "loaded"} => status[r] = "ABSENT"

Turns == Alone /\ Unborn

(* Handler c moves, and at one recommendation. *)
MovesOnly(c) ==
  /\ \A d \in Handler \ {c} : pc'[d] = pc[d] /\ op'[d] = op[d] /\ target'[d] = target[d]
  /\ \A q \in Rec : q # target'[c] => status'[q] = status[q] /\ audit'[q] = audit[q] /\ base'[q] = base[q]
  /\ pc[c] # "idle" \/ c \in Rec => op'[c] = op[c] /\ target'[c] = target[c]
  /\ pc'[c] # "idle" /\ pc[c] \notin {"done", "dead"}
  /\ target'[c] \in Rec

RunActs(r) == LoadProduct(r) \/ RunStep(r) \/ RunThrows(r)

Opens(c, r) ==
  (\E o \in Ops : ApproveOrReject(c, r, o)) \/ (\E x \in Price : Modify(c, r, x)) \/ Undo(c, r)

(* What a handler does once it knows its recommendation, outside of        *)
(* executeRecommendation.                                                  *)
Proceeds(c) ==
  \/ ModifyReads(c) \/ Claim(c) \/ ClaimUndo(c) \/ LoseClaim(c) \/ Requeue(c) \/ Audit(c)
  \/ ClaimThrows(c) \/ LastStatementFails(c)

LEMMA RunMoves ==
  ASSUME OwnInv, Ownership, NEW r \in Rec, RunActs(r)
  PROVE  MovesOnly(r)
  <1>a. r \in Handler /\ r \notin Request /\ target[r] = r
    BY Members DEF OwnInv, RunsKnowThemselves
  <1>1. /\ \A d \in Handler \ {r} : pc'[d] = pc[d] /\ op'[d] = op[d] /\ target'[d] = target[d]
        /\ op'[r] = op[r] /\ target'[r] = target[r]
        /\ pc'[r] # "idle" /\ pc[r] \notin {"done", "dead"}
    <2>1. ASSUME NEW x \in Price, FinalizeAuto(r, x)
          PROVE  Starts(r)
      BY <2>1, AutoStarts
    <2>2. Plain(r) \/ Starts(r)
      BY <2>1, RunsArePlain DEF RunActs, RunStep
    <2>3. CASE Plain(r)
      BY <1>a, <2>3 DEF Plain
    <2>4. CASE Starts(r)
      BY <1>a, <2>4, Domains DEF Starts
    <2>5. QED
      BY <2>2, <2>3, <2>4
  <1>2. \A q \in Rec : q # r => status'[q] = status[q] /\ audit'[q] = audit[q] /\ base'[q] = base[q]
    BY Domains DEF RunActs, RunStep, LoadProduct, CreateSkeleton, MarkFailed, RunThrows, RunEnds,
       FinalizeForReview, FinalizeAuto, recRow
  <1>3. QED
    BY <1>a, <1>1, <1>2 DEF MovesOnly

LEMMA OpenMoves ==
  ASSUME OwnInv, NEW c \in Request, NEW r \in Rec, Opens(c, r)
  PROVE  MovesOnly(c) /\ target'[c] = r /\ pc[c] = "idle" /\ UNCHANGED <<status, audit, base>>
  <1>1. c \in Handler /\ c \notin Rec /\ Plain(c) /\ pc[c] = "idle" /\ target'[c] = r
    BY OpeningsArePlain, Members DEF Opens
  <1>2. UNCHANGED <<status, audit, base>>
    BY DEF Opens, ApproveOrReject, Modify, Undo, recRow
  <1>3. QED
    BY <1>1, <1>2 DEF MovesOnly, Plain

LEMMA ProceedMoves ==
  ASSUME OwnInv, Ownership, NEW c \in Handler, Proceeds(c)
  PROVE  MovesOnly(c) /\ pc[c] # "idle"
  <1>1. pc[c] \notin {"idle", "loaded", "agents", "done", "dead"}
    BY DEF Proceeds, ModifyReads, Claim, Resolve, ClaimUndo, Restore, LoseClaim, Requeue, Audit, Decided,
       ClaimThrows, LastStatementFails
  <1>2. target[c] \in Rec
    BY <1>1 DEF Handler, OwnInv, RunsKnowThemselves, RequestsKnowTarget
  <1>3. Plain(c) \/ Starts(c)
    <2>1. CASE Claim(c) \/ ClaimUndo(c)
      BY <2>1, ClaimsArePlain, ClaimStarts, UndoStarts DEF Ownership
    <2>2. QED
      BY <2>1, RequestsArePlain DEF Proceeds
  <1>4. /\ \A d \in Handler \ {c} : pc'[d] = pc[d] /\ op'[d] = op[d] /\ target'[d] = target[d]
        /\ op'[c] = op[c] /\ target'[c] = target[c] /\ pc'[c] # "idle"
    <2>1. CASE Plain(c)
      BY <1>1, <2>1 DEF Plain
    <2>2. CASE Starts(c)
      BY <2>2, Domains DEF Starts
    <2>3. QED
      BY <1>3, <2>1, <2>2
  <1>5. \A q \in Rec : q # target[c] => status'[q] = status[q] /\ audit'[q] = audit[q] /\ base'[q] = base[q]
    <2>1. CASE Resolve(c) \/ Restore(c)
      <3>1. \A q \in Rec : q # target[c] => status'[q] = status[q] /\ base'[q] = base[q]
        BY <2>1, Domains DEF Resolve, Restore
      <3>2. audit' = audit
        BY <2>1 DEF Proceeds, ModifyReads, Claim, Resolve, ClaimUndo, Restore, LoseClaim, Requeue, Audit, Decided,
           ClaimThrows, LastStatementFails
      <3>3. QED
        BY <3>1, <3>2
    <2>2. CASE Requeue(c)
      BY <2>2, Domains DEF Requeue
    <2>3. CASE Audit(c)
      BY <2>3, Domains DEF Audit, recRow, OwnInv, RowsTyped
    <2>4. CASE UNCHANGED <<status, audit, base>>
      BY <2>4
    <2>5. QED
      BY <2>1, <2>2, <2>3, <2>4 DEF Proceeds, ModifyReads, Claim, ClaimUndo, LoseClaim, ClaimThrows,
         LastStatementFails, recRow
  <1>6. QED
    BY <1>1, <1>2, <1>4, <1>5 DEF MovesOnly

(* The steps of executeRecommendation and of the world around the          *)
(* handlers, without the process exit.                                     *)
Silent == UNCHANGED <<status, base, audit, handlers>>

LEMMA Classified ==
  ASSUME OwnInv, [Next]_vars
  PROVE  \/ \E r \in Rec : RunActs(r)
         \/ \E c \in Request, r \in Rec : Opens(c, r)
         \/ \E c \in Handler : Proceeds(c)
         \/ Crash
         \/ Silent
  <1>1. CASE UNCHANGED vars
    BY <1>1 DEF vars, own, recRow, handlers, Silent
  <1>2. CASE Environment
    BY <1>2 DEF Environment, WindowCloses, Silent, own, recRow, handlers
  <1>3. ASSUME NEW c \in Handler, HandlerStep(c)
        PROVE  Proceeds(c) \/ Silent
    BY <1>3 DEF HandlerStep, Proceeds, Executing, own, recRow, handlers, Silent
  <1>4. ASSUME NEW c \in Handler, E!StatementFails(c), UNCHANGED own
        PROVE  Silent
    BY <1>4 DEF own, recRow, handlers, Silent
  <1>5. QED
    BY <1>1, <1>2, <1>3, <1>4 DEF Next, RunActs, Opens, Proceeds

(* A handler that starts on a product where another is at work says so. *)
LEMMA StartersNote ==
  ASSUME OwnInv, NEW c \in Handler, NEW d \in Handler, NEW r \in Rec,
         c # d, pc[c] = "idle", (RunActs(c) /\ c = r) \/ (c \in Request /\ Opens(c, r)),
         pc[d] \in Busy, ProductOf[target[d]] = ProductOf[r]
  PROVE  ProductOf[r] \in contended'
  <1>1. NoteContention(ProductOf[r])
    <2>1. CASE c = r /\ RunActs(r)
      BY <2>1 DEF RunActs, RunStep, LoadProduct, CreateSkeleton, MarkFailed, RunThrows, RunEnds,
         FinalizeForReview, FinalizeAuto
    <2>2. CASE Opens(c, r)
      BY <2>2 DEF Opens, ApproveOrReject, Modify, Undo, Open
    <2>3. QED
      BY <2>1, <2>2
  <1>2. AtWork(ProductOf[r])
    BY DEF AtWork
  <1>3. QED
    BY <1>1, <1>2 DEF NoteContention

LEMMA MoversKeepTurns ==
  ASSUME OwnInv, OwnInv', CountersGrow, Turns, NEW c \in Handler, MovesOnly(c),
         pc[c] # "idle" \/ \E r \in Rec : target'[c] = r /\ ((RunActs(c) /\ c = r) \/ (c \in Request /\ Opens(c, r))),
         c \in Rec => (pc'[c] \in {"idle", "loaded"} => status'[c] = "ABSENT")
  PROVE  Turns'
  <1>1. Alone'
    <2> SUFFICES ASSUME NEW d \in Handler, d # c, pc'[c] \in Busy, pc'[d] \in Busy,
                        ProductOf[target'[c]] = ProductOf[target'[d]], ProductOf[target'[c]] \notin contended'
                 PROVE  FALSE
      BY DEF Alone, MovesOnly, Turns, CountersGrow
    <2>1. pc[d] \in Busy /\ target'[d] = target[d]
      BY DEF MovesOnly
    <2>2. CASE pc[c] = "idle"
      BY <2>1, <2>2, StartersNote
    <2>3. CASE pc[c] # "idle"
      <3>1. pc[c] \in Busy /\ target'[c] = target[c]
        BY <2>3 DEF MovesOnly, OwnInv, HandlersTyped
      <3>2. QED
        BY <2>1, <3>1 DEF Turns, Alone, CountersGrow
    <2>4. QED
      BY <2>2, <2>3
  <1>2. Unborn'
    <2> SUFFICES ASSUME NEW q \in Rec, pc'[q] \in {"idle", "loaded"}, q # c
                 PROVE  status'[q] = "ABSENT"
      BY DEF Unborn
    <2>1. pc[q] = pc'[q] /\ status[q] = "ABSENT"
      BY Members DEF MovesOnly, Turns, Unborn
    <2>2. q # target'[c]
      <3>1. CASE c \in Rec
        BY <3>1 DEF MovesOnly, OwnInv, RunsKnowThemselves
      <3>2. CASE c \in Request /\ pc[c] # "idle"
        BY <2>1, <3>2 DEF MovesOnly, OwnInv, RequestsKnowTarget
      <3>3. CASE c \in Request /\ pc[c] = "idle"
        <4>1. PICK r \in Rec : target'[c] = r /\ Opens(c, r)
          BY <3>3, RecAssumption
        <4>2. status[r] # "ABSENT"
          BY <4>1 DEF Opens, ApproveOrReject, Modify, Undo, Open
        <4>3. QED
          BY <2>1, <4>1, <4>2
      <3>4. QED
        BY <3>1, <3>2, <3>3 DEF Handler
    <2>3. QED
      BY <2>1, <2>2 DEF MovesOnly
  <1>3. QED
    BY <1>1, <1>2 DEF Turns

LEMMA NextTurns ==
  ASSUME OwnInv, OwnInv', Ownership, Turns, [Next]_vars
  PROVE  Turns'
  <1>0. CountersGrow
    BY NextCounts
  <1>1. ASSUME NEW r \in Rec, RunActs(r)
        PROVE  Turns'
    <2>1. r \in Handler /\ MovesOnly(r) /\ target'[r] = r
      BY <1>1, RunMoves, Members DEF MovesOnly, OwnInv, RunsKnowThemselves
    <2>2. pc'[r] \in {"idle", "loaded"} => status'[r] = "ABSENT"
      <3>1. pc'[r] \in {"idle", "loaded"} => LoadProduct(r)
        BY <1>1, <2>1, Domains DEF RunActs, RunStep, CreateSkeleton, MarkFailed, RunThrows, RunEnds,
           FinalizeForReview, FinalizeAuto, Goto, Finish, Push
      <3>2. LoadProduct(r) => pc[r] = "idle" /\ status' = status
        BY DEF LoadProduct, recRow
      <3>3. QED
        BY <3>1, <3>2 DEF Turns, Unborn
    <2>3. \E q \in Rec : target'[r] = q /\ ((RunActs(r) /\ r = q) \/ (r \in Request /\ Opens(r, q)))
      BY <1>1, <2>1
    <2>4. QED
      BY <1>0, <2>1, <2>2, <2>3, MoversKeepTurns
  <1>2. ASSUME NEW c \in Request, NEW r \in Rec, Opens(c, r)
        PROVE  Turns'
    BY <1>0, <1>2, OpenMoves, Members, MoversKeepTurns
  <1>3. ASSUME NEW c \in Handler, Proceeds(c)
        PROVE  Turns'
    <2>1. MovesOnly(c) /\ pc[c] # "idle"
      BY <1>3, ProceedMoves
    <2>2. c \in Rec => pc'[c] \notin {"idle", "loaded"}
      BY <1>3, Domains DEF Proceeds, ModifyReads, Consider, Claim, ClaimUndo, LoseClaim, Requeue, Audit,
         ClaimThrows, LastStatementFails, Goto, Finish, Push
    <2>3. QED
      BY <1>0, <2>1, <2>2, MoversKeepTurns
  <1>4. CASE Crash
    <2>1. \A c \in Handler : pc'[c] = IF pc[c] \in Busy THEN "dead" ELSE pc[c]
      BY <1>4 DEF Crash
    <2>2. status' = status
      BY <1>4 DEF Crash, recRow
    <2>3. QED
      BY <2>1, <2>2, Members DEF Turns, Alone, Unborn, Busy
  <1>5. CASE Silent
    BY <1>0, <1>5 DEF Silent, handlers, Turns, Alone, Unborn, CountersGrow
  <1>6. QED
    BY <1>1, <1>2, <1>3, <1>4, <1>5, Classified
-----------------------------------------------------------------------------
(* The decision behind a status.  A handler holds a recommendation from    *)
(* its claim to its audit row.                                             *)
Last(r) == IF audit[r] = << >> THEN "UNDONE" ELSE audit[r][Len(audit[r])]

Explained(r) ==
  Last(r) = IF status[r] \in {"APPROVED", "REJECTED", "MODIFIED"} THEN status[r] ELSE "UNDONE"

Holds(c, r) == target[c] = r /\ pc[c] \in {"executing", "auditing"}

Unheld(r) == \A c \in Handler : ~Holds(c, r)

Orderly(r) == failures = 0 /\ crashes = 0 /\ (ProductOf[r] \notin contended \/ ~Spoilt(r))

(* What a holder will leave behind. *)
HolderTells(c, r) ==
  IF op[c] = "undo" THEN status[r] = "PENDING"
  ELSE status[r] = Resolution(op[c]) /\ Last(r) = "UNDONE"

Tells(r) ==
  /\ \A c, d \in Handler : Holds(c, r) /\ Holds(d, r) => c = d
  /\ \A c \in Handler : Holds(c, r) => HolderTells(c, r)
  /\ Unheld(r) => Explained(r)
  /\ pc[r] = "agents" => status[r] = "PENDING"

Told == \A r \in Rec : Orderly(r) => Tells(r)

(* A counter at zero was at zero before. *)
LEMMA ZeroBefore ==
  ASSUME OwnInv, ExecInv, CountersGrow
  PROVE  /\ failures' = 0 => failures = 0
         /\ crashes' = 0 => crashes = 0
         /\ edits' = 0 => edits = 0
         /\ dbFailures' = 0 => dbFailures = 0
  <1>1. failures \in Nat
    BY FailureAssumption DEF OwnInv, RowsTyped
  <1>2. crashes \in Nat /\ edits \in Nat /\ dbFailures \in Nat
    BY ExecutionAssumption DEF ExecInv, E!TypeOK, E!BoundAssumption
  <1>3. QED
    BY <1>1, <1>2 DEF CountersGrow

(* What is orderly now was so before. *)
LEMMA OrderlyBefore ==
  ASSUME OwnInv, ExecInv, CountersGrow, NEW c \in Handler, MovesOnly(c), NEW r \in Rec, Orderly(r)'
  PROVE  Orderly(r)
  <1>1. failures = 0 /\ crashes = 0
    BY ZeroBefore DEF Orderly
  <1>2. ProductOf[r] \notin contended' => ProductOf[r] \notin contended
    BY DEF CountersGrow
  <1>3. ASSUME UndoAttempted(r)
        PROVE  UndoAttempted(r)'
    <2>1. PICK u \in Request : op[u] = "undo" /\ target[u] = r
      BY <1>3 DEF UndoAttempted
    <2>2. pc[u] # "idle"
      BY <2>1, NoneAssumption DEF OwnInv, RequestsKnowTarget, Op
    <2>3. op'[u] = "undo" /\ target'[u] = r
      BY <2>1, <2>2, Members DEF MovesOnly
    <2>4. QED
      BY <2>3 DEF UndoAttempted
  <1>4. Spoilt(r) => Spoilt(r)'
    BY <1>3 DEF Spoilt, CountersGrow
  <1>5. QED
    BY <1>1, <1>2, <1>4 DEF Orderly

(* A run that is not over has its recommendation to itself. *)
LEMMA RunIsAlone ==
  ASSUME OwnInv, Ownership, Turns, NEW r \in Rec, Orderly(r), pc[r] \in {"loaded", "agents", "executing"},
         NEW d \in Handler, d # r, target[d] = r
  PROVE  pc[d] \notin Busy
  <1>1. d \in Request
    BY DEF Handler, OwnInv, RunsKnowThemselves
  <1>2. pc[r] \in Busy /\ target[r] = r /\ r \in Handler
    BY Members DEF Busy, OwnInv, RunsKnowThemselves
  <1>3. CASE ProductOf[r] \notin contended
    BY <1>2, <1>3 DEF Turns, Alone
  <1>4. CASE ~Spoilt(r)
    BY <1>1, <1>4 DEF Ownership, Owned, DecisionsWait, Spoilt, Busy
  <1>5. QED
    BY <1>3, <1>4 DEF Orderly

(* Nobody holds what another handler claims. *)
LEMMA ClaimedIsUnheld ==
  ASSUME OwnInv, Ownership, Turns, NEW c \in Handler, NEW r \in Rec, Orderly(r), Tells(r),
         target[c] = r, Resolve(c) \/ Restore(c)
  PROVE  Unheld(r)
  <1>1. pc[c] \in {"claiming", "undoing"} /\ c \in Request
    BY DEF Resolve, Restore, Handler, OwnInv, RunsKnowThemselves
  <1>2. SUFFICES ASSUME NEW d \in Handler, Holds(d, r) PROVE FALSE
    BY DEF Unheld
  <1>3. CASE ProductOf[r] \notin contended
    <2>1. pc[c] \in Busy /\ pc[d] \in Busy /\ target[d] = r
      BY <1>1, <1>2 DEF Busy, Holds
    <2>2. QED
      BY <1>1, <1>2, <1>3, <2>1 DEF Turns, Alone, Holds
  <1>4. CASE ~Spoilt(r)
    <2>1. op[c] # "undo" /\ (d \in Request => op[d] # "undo")
      BY <1>1, <1>2, <1>4 DEF Spoilt, UndoAttempted, Holds
    <2>2. Resolve(c) /\ status[r] = "PENDING"
      BY <1>1, <2>1 DEF Resolve, Restore, Ownership, UndoersUndo
    <2>3. op[d] \in {"approve", "reject", "modify", "generate"}
      BY <1>2, <2>1 DEF Holds, Handler, OwnInv, RunsKnowThemselves, RequestsKnowTarget
    <2>4. status[r] = Resolution(op[d])
      BY <1>2, <2>3 DEF Tells, HolderTells
    <2>5. QED
      BY <2>2, <2>3, <2>4 DEF Resolution
  <1>5. QED
    BY <1>3, <1>4 DEF Orderly

LEMMA TellsElsewhere ==
  ASSUME OwnInv, NEW c \in Handler, MovesOnly(c), NEW r \in Rec, r # target'[c], Tells(r)
  PROVE  Tells(r)'
  <1>1. \A d \in Handler : Holds(d, r)' <=> Holds(d, r)
    BY DEF Holds, MovesOnly
  <1>2. \A d \in Handler : Holds(d, r) => op'[d] = op[d]
    BY DEF Holds, MovesOnly
  <1>3. status'[r] = status[r] /\ Last(r)' = Last(r)
    BY DEF MovesOnly, Last
  <1>4. pc'[r] = pc[r]
    BY Members DEF MovesOnly, OwnInv, RunsKnowThemselves
  <1>5. QED
    BY <1>1, <1>2, <1>3, <1>4 DEF Tells, Unheld, HolderTells, Explained

(* The handler that moves holds nothing before or after. *)
LEMMA TellsQuiet ==
  ASSUME OwnInv, NEW c \in Handler, MovesOnly(c), NEW r \in Rec, target'[c] = r, Tells(r),
         pc[c] \notin {"executing", "auditing"}, pc'[c] \notin {"executing", "auditing"},
         audit'[r] = audit[r],
         \/ status'[r] = status[r]
         \/ Unheld(r) /\ {status[r], status'[r]} \cap {"APPROVED", "REJECTED", "MODIFIED"} = {},
         pc'[r] = "agents" => status'[r] = "PENDING"
  PROVE  Tells(r)'
  <1>1. \A d \in Handler : Holds(d, r)' <=> Holds(d, r)
    BY DEF Holds, MovesOnly
  <1>2. \A d \in Handler : Holds(d, r) => op'[d] = op[d]
    BY DEF Holds, MovesOnly
  <1>3. Last(r)' = Last(r)
    BY DEF Last
  <1>4. QED
    BY <1>1, <1>2, <1>3 DEF Tells, Unheld, HolderTells, Explained

LEMMA TellsTaken ==
  ASSUME OwnInv, NEW c \in Handler, MovesOnly(c), NEW r \in Rec, target'[c] = r, Unheld(r),
         pc'[c] \in {"executing", "auditing"}, HolderTells(c, r)',
         pc'[r] # "agents"
  PROVE  Tells(r)'
  <1>1. \A d \in Handler : Holds(d, r)' <=> d = c
    BY DEF Holds, MovesOnly, Unheld
  <1>2. QED
    BY <1>1 DEF Tells, Unheld

LEMMA TellsLeft ==
  ASSUME OwnInv, NEW c \in Handler, MovesOnly(c), NEW r \in Rec, Tells(r), Holds(c, r), pc'[c] = "done",
         Explained(r)', pc'[r] # "agents"
  PROVE  Tells(r)'
  <1>1. \A d \in Handler : ~Holds(d, r)'
    BY DEF Holds, MovesOnly, Tells
  <1>2. QED
    BY <1>1 DEF Tells, Unheld

-----------------------------------------------------------------------------
LEMMA RunTells ==
  ASSUME OwnInv, ExecInv, Ownership, Turns, NEW r \in Rec, RunActs(r), failures' = 0, Orderly(r), Tells(r)
  PROVE  Tells(r)'
  <1>a. r \in Handler /\ target[r] = r /\ op[r] = "generate" /\ MovesOnly(r) /\ target'[r] = r /\ op'[r] = op[r]
    BY RunMoves, Members DEF MovesOnly, OwnInv, RunsKnowThemselves
  <1>b. ASSUME pc[r] \in {"loaded", "agents"}
        PROVE  Unheld(r)
    BY <1>b, RunIsAlone DEF Unheld, Holds, Busy
  <1>1. CASE LoadProduct(r)
    <2>1. pc[r] = "idle" /\ pc'[r] = "loaded" /\ status' = status /\ audit' = audit
      BY <1>a, <1>1, Domains DEF LoadProduct, Goto, recRow
    <2>2. QED
      BY <1>a, <2>1, TellsQuiet
  <1>2. CASE CreateSkeleton(r)
    <2>1. pc[r] = "loaded" /\ pc'[r] = "agents" /\ status'[r] = "PENDING" /\ audit' = audit
      BY <1>a, <1>2, Domains DEF CreateSkeleton, Goto
    <2>2. status[r] = "ABSENT"
      BY <2>1 DEF Turns, Unborn
    <2>3. QED
      BY <1>a, <1>b, <2>1, <2>2, TellsQuiet
  <1>3. CASE MarkFailed(r) \/ \E x \in Price : FinalizeForReview(r, x)
    <2>1. pc[r] = "agents" /\ pc'[r] = "done" /\ status'[r] \in {"FAILED", "PENDING"} /\ audit' = audit
      BY <1>a, <1>3, Domains DEF MarkFailed, FinalizeForReview, Finish, Goto
    <2>2. status[r] = "PENDING"
      BY <2>1 DEF Tells
    <2>3. QED
      BY <1>a, <1>b, <2>1, <2>2, TellsQuiet
  <1>4. ASSUME NEW x \in Price, FinalizeAuto(r, x)
        PROVE  Tells(r)'
    <2>1. pc[r] = "agents" /\ pc'[r] = "executing" /\ status'[r] = "AUTO_EXECUTED" /\ audit' = audit
      BY <1>a, <1>4, Domains DEF FinalizeAuto, Push, Goto
    <2>2. Unheld(r) /\ status[r] = "PENDING" /\ Last(r) = "UNDONE"
      BY <1>b, <2>1 DEF Tells, Explained
    <2>3. HolderTells(r, r)'
      BY <1>a, <2>1, <2>2 DEF HolderTells, Resolution, Last
    <2>4. QED
      BY <1>a, <2>1, <2>2, <2>3, TellsTaken
  <1>5. CASE RunEnds(r)
    <2>1. pc[r] = "executing" /\ pc'[r] = "done" /\ status' = status /\ audit' = audit
      BY <1>a, <1>5, Domains DEF RunEnds, Finish, Goto, recRow
    <2>2. Holds(r, r)
      BY <1>a, <2>1 DEF Holds
    <2>3. status[r] = "AUTO_EXECUTED" /\ Last(r) = "UNDONE"
      BY <1>a, <2>2 DEF Tells, HolderTells, Resolution
    <2>4. Explained(r)'
      BY <2>1, <2>3 DEF Explained, Last
    <2>5. QED
      BY <1>a, <2>1, <2>2, <2>4, TellsLeft
  <1>6. CASE RunThrows(r)
    BY <1>6, FailureAssumption DEF RunThrows, OwnInv, RowsTyped
  <1>7. QED
    BY <1>1, <1>2, <1>3, <1>4, <1>5, <1>6 DEF RunActs, RunStep

LEMMA OpenTells ==
  ASSUME OwnInv, NEW c \in Request, NEW r \in Rec, Opens(c, r), Tells(r)
  PROVE  Tells(r)'
  <1>1. c \in Handler /\ c \notin Rec
    BY Members
  <1>2. MovesOnly(c) /\ target'[c] = r /\ pc[c] = "idle" /\ UNCHANGED <<status, audit, base>>
    BY OpenMoves
  <1>3. pc'[c] \notin {"executing", "auditing"}
    BY <1>1, Domains DEF Opens, ApproveOrReject, Modify, Undo, Consider, Goto, Finish
  <1>4. pc'[r] = pc[r]
    BY <1>1, <1>2, Members DEF MovesOnly
  <1>5. QED
    BY <1>1, <1>2, <1>3, <1>4, TellsQuiet DEF Tells

LEMMA ProceedTells ==
  ASSUME OwnInv, ExecInv, Ownership, Turns, NEW c \in Handler, Proceeds(c), failures' = 0,
         NEW r \in Rec, target[c] = r, Orderly(r), Tells(r)
  PROVE  Tells(r)'
  <1>a. MovesOnly(c) /\ pc[c] # "idle" /\ target'[c] = r /\ op'[c] = op[c]
    BY ProceedMoves DEF MovesOnly
  <1>b. ASSUME c \in Request
        PROVE  pc'[r] = pc[r] /\ op[c] \in {"approve", "reject", "modify", "undo"}
    BY <1>a, <1>b, Members DEF MovesOnly, OwnInv, RequestsKnowTarget
  <1>c. ASSUME pc[c] \in {"reading", "claiming", "undoing", "auditing"} \/ (pc[c] = "executing" /\ op[c] # "generate")
        PROVE  c \in Request
    BY <1>c DEF Handler, OwnInv, RunsKnowThemselves
  <1>1. CASE ModifyReads(c) \/ LoseClaim(c)
    <2>1. /\ pc[c] \in {"reading", "claiming", "undoing"} /\ pc'[c] \in {"claiming", "done"}
          /\ status' = status /\ audit' = audit
      BY <1>1, Domains DEF ModifyReads, Consider, LoseClaim, Finish, Goto, recRow
    <2>2. pc'[r] = "agents" => status'[r] = "PENDING"
      BY <1>b, <1>c, <2>1 DEF Tells
    <2>3. QED
      BY <1>a, <2>1, <2>2, TellsQuiet
  <1>2. CASE Claim(c)
    <2>1. Resolve(c) /\ pc[c] = "claiming" /\ pc'[c] \in {"executing", "auditing"}
          /\ status[r] = "PENDING" /\ status'[r] = Resolution(op[c]) /\ audit' = audit
      BY <1>2, Domains DEF Claim, Resolve, Push, Goto
    <2>2. c \in Request /\ op[c] # "undo" /\ pc'[r] = pc[r]
      BY <1>b, <1>c, <2>1 DEF OwnInv, RequestsKnowTarget
    <2>3. Unheld(r) /\ Last(r) = "UNDONE"
      BY <2>1, ClaimedIsUnheld DEF Tells, Explained
    <2>4. HolderTells(c, r)'
      BY <1>a, <2>1, <2>2, <2>3 DEF HolderTells, Last
    <2>5. pc'[r] # "agents"
      BY <2>1, <2>2, RunIsAlone DEF Busy, Handler
    <2>6. QED
      BY <1>a, <2>1, <2>3, <2>4, <2>5, TellsTaken
  <1>3. CASE ClaimUndo(c)
    <2>1. Restore(c) /\ pc[c] = "undoing" /\ pc'[c] \in {"executing", "auditing"}
          /\ status[r] # "PENDING" /\ status'[r] = "PENDING" /\ audit' = audit
      BY <1>3, Domains DEF ClaimUndo, Restore, Undoable, Push, Goto
    <2>2. c \in Request /\ op[c] = "undo" /\ pc'[r] = pc[r]
      BY <1>b, <1>c, <2>1 DEF Ownership, UndoersUndo
    <2>3. Unheld(r)
      BY <2>1, ClaimedIsUnheld
    <2>4. HolderTells(c, r)'
      BY <1>a, <2>1, <2>2 DEF HolderTells
    <2>5. pc'[r] # "agents"
      BY <2>1, <2>2 DEF Tells
    <2>6. QED
      BY <1>a, <2>1, <2>3, <2>4, <2>5, TellsTaken
  <1>4. CASE Requeue(c)
    <2>1. pc[c] = "executing" /\ pc'[c] = "done" /\ status'[r] = "PENDING" /\ audit' = audit /\ op[c] # "undo"
      BY <1>4, Domains DEF Requeue, Finish, Goto
    <2>2. Holds(c, r)
      BY <2>1 DEF Holds
    <2>3. Last(r) = "UNDONE" /\ status[r] = Resolution(op[c])
      BY <2>1, <2>2 DEF Tells, HolderTells
    <2>4. Explained(r)'
      BY <2>1, <2>3 DEF Explained, Last
    <2>5. pc'[r] # "agents"
      <3>1. CASE c = r
        BY <2>1, <3>1
      <3>2. CASE c # r
        <4>1. pc'[r] = pc[r]
          BY <3>2, <1>a, Members DEF MovesOnly
        <4>2. pc[r] = "agents" => FALSE
          BY <2>1, <3>2, RunIsAlone DEF Busy
        <4>3. QED
          BY <4>1, <4>2
      <3>3. QED
        BY <3>1, <3>2
    <2>6. QED
      BY <1>a, <2>1, <2>2, <2>4, <2>5, TellsLeft
  <1>5. CASE Audit(c)
    <2>1. pc[c] \in {"executing", "auditing"} /\ pc'[c] = "done" /\ status' = status
          /\ (pc[c] = "executing" => op[c] # "generate")
      BY <1>5, Domains DEF Audit, Decided, Finish, Goto, recRow
    <2>2. c \in Request /\ pc'[r] = pc[r] /\ op[c] \in {"approve", "reject", "modify", "undo"}
      BY <1>b, <1>c, <2>1
    <2>3. Holds(c, r)
      BY <2>1 DEF Holds
    <2>4. HolderTells(c, r)
      BY <2>3 DEF Tells
    <2>5. PICK e \in {"APPROVED", "REJECTED", "MODIFIED", "UNDONE"} :
            /\ e = IF op[c] = "undo" THEN "UNDONE" ELSE Resolution(op[c])
            /\ audit'[r] = Append(audit[r], e)
      <3>1. DOMAIN audit = Rec
        BY DEF OwnInv, RowsTyped
      <3>2. op[c] # "undo" => Resolution(op[c]) \in {"APPROVED", "REJECTED", "MODIFIED"}
        BY <2>2 DEF Resolution
      <3>3. QED
        BY <1>5, <3>1, <3>2 DEF Audit
    <2>6. Last(r)' = e
      <3>1. audit[r] \in Seq({"APPROVED", "REJECTED", "MODIFIED", "UNDONE"})
        BY DEF OwnInv, RowsTyped
      <3>2. audit'[r] # << >> /\ audit'[r][Len(audit'[r])] = e
        BY <2>5, <3>1
      <3>3. QED
        BY <3>2 DEF Last
    <2>7. Explained(r)'
      BY <2>1, <2>2, <2>4, <2>5, <2>6 DEF Explained, HolderTells, Resolution
    <2>8. pc'[r] # "agents"
      BY <2>1, <2>2, RunIsAlone DEF Busy, Handler
    <2>9. QED
      BY <1>a, <2>1, <2>3, <2>7, <2>8, TellsLeft
  <1>6. CASE ClaimThrows(c) \/ LastStatementFails(c)
    BY <1>6, FailureAssumption DEF ClaimThrows, LastStatementFails, OwnInv, RowsTyped
  <1>7. QED
    BY <1>1, <1>2, <1>3, <1>4, <1>5, <1>6 DEF Proceeds

LEMMA NextTold ==
  ASSUME OwnInv, ExecInv, Ownership, Turns, Told, [Next]_vars
  PROVE  Told'
  <1>0. CountersGrow
    BY NextCounts
  <1> SUFFICES ASSUME NEW r \in Rec, Orderly(r)'
               PROVE  Tells(r)'
    BY DEF Told
  <1>1. failures' = 0
    BY DEF Orderly
  <1>2. ASSUME NEW q \in Rec, RunActs(q)
        PROVE  Tells(r)'
    <2>1. q \in Handler /\ MovesOnly(q) /\ target'[q] = q
      BY <1>2, RunMoves, Members DEF MovesOnly, OwnInv, RunsKnowThemselves
    <2>2. Orderly(r) /\ Tells(r)
      BY <1>0, <2>1, OrderlyBefore DEF Told
    <2>3. QED
      BY <1>1, <1>2, <2>1, <2>2, RunTells, TellsElsewhere
  <1>3. ASSUME NEW c \in Request, NEW q \in Rec, Opens(c, q)
        PROVE  Tells(r)'
    <2>1. c \in Handler /\ MovesOnly(c) /\ target'[c] = q
      BY <1>3, OpenMoves, Members
    <2>2. Orderly(r) /\ Tells(r)
      BY <1>0, <2>1, OrderlyBefore DEF Told
    <2>3. QED
      BY <1>3, <2>1, <2>2, OpenTells, TellsElsewhere
  <1>4. ASSUME NEW c \in Handler, Proceeds(c)
        PROVE  Tells(r)'
    <2>1. MovesOnly(c) /\ target'[c] = target[c]
      BY <1>4, ProceedMoves DEF MovesOnly
    <2>2. Orderly(r) /\ Tells(r)
      BY <1>0, <2>1, OrderlyBefore DEF Told
    <2>3. QED
      BY <1>1, <1>4, <2>1, <2>2, ProceedTells, TellsElsewhere
  <1>5. CASE Crash
    BY <1>5, ExecutionAssumption DEF Orderly, Crash, E!Crash, ExecInv, E!TypeOK, E!BoundAssumption
  <1>6. CASE Silent
    <2>1. Orderly(r)
      <3>1. Spoilt(r) => Spoilt(r)'
        BY <1>0, <1>6 DEF Silent, handlers, Spoilt, UndoAttempted, CountersGrow
      <3>2. QED
        BY <1>0, <3>1, ZeroBefore DEF Orderly, CountersGrow
    <2>2. Tells(r)
      BY <2>1 DEF Told
    <2>3. QED
      BY <1>6, <2>2 DEF Silent, handlers, Tells, Holds, HolderTells, Unheld, Explained, Last
  <1>7. QED
    BY <1>2, <1>3, <1>4, <1>5, <1>6, Classified

LEMMA InitTold == Init => Turns /\ Told
  <1> SUFFICES ASSUME Init PROVE Turns /\ Told
    OBVIOUS
  <1>1. \A c \in Handler : pc[c] = "idle"
    BY DEF Init
  <1>2. Turns
    BY <1>1, Members DEF Init, Turns, Alone, Unborn, Busy
  <1>3. ASSUME NEW r \in Rec PROVE Tells(r)
    <2>1. pc[r] = "idle" /\ status[r] = "ABSENT" /\ audit[r] = << >> /\ \A c \in Handler : ~Holds(c, r)
      BY <1>1, Members DEF Init, Holds
    <2>2. QED
      BY <2>1 DEF Tells, Explained, Last
  <1>4. QED
    BY <1>2, <1>3 DEF Told

(* Where handlers do not overlap an undo or the run, the last audit row of *)
(* a recommendation at rest explains its status (claimAndResolve, the push *)
(* and auditService.record, in that order).                                *)
THEOREM AuditTellsTheStatus == Safe => []AuditExplainsStatus
  <1>1. Init => Turns /\ Told
    BY InitTold
  <1>2. OwnInv /\ ExecInv /\ Ownership /\ OwnInv' /\ Turns /\ Told /\ [Next]_vars => Turns' /\ Told'
    BY NextTurns, NextTold
  <1>3. Told => AuditExplainsStatus
    <2> SUFFICES ASSUME Told, NEW r \in Rec, failures = 0, crashes = 0, AtRest(r),
                        ProductOf[r] \notin contended \/ (r \notin early /\ ~UndoAttempted(r))
                 PROVE  LET last == IF audit[r] = << >> THEN "UNDONE" ELSE audit[r][Len(audit[r])] IN
                        IF status[r] \in {"APPROVED", "REJECTED", "MODIFIED"} THEN last = status[r]
                                                                              ELSE last = "UNDONE"
      BY DEF AuditExplainsStatus
    <2>1. Orderly(r)
      BY DEF Orderly, Spoilt
    <2>2. Unheld(r)
      BY DEF Unheld, Holds, AtRest, Busy
    <2>3. Explained(r)
      BY <2>1, <2>2 DEF Told, Tells
    <2>4. QED
      BY <2>3 DEF Explained, Last
  <1>4. QED
    BY <1>1, <1>2, <1>3, OwnershipAlways, PTL DEF Safe
-----------------------------------------------------------------------------
(* The price behind a waiting recommendation. *)

(* A call of executeRecommendation prices the product of its handler's own *)
(* recommendation, and no rejection makes one.                             *)
OwnCalls ==
  \A c \in Handler :
    /\ phase[c] # "idle" => target[c] \in Rec /\ product[c] = ProductOf[target[c]]
    /\ pc[c] = "executing" => op[c] # "reject"

Executes(c, r) == target[c] = r /\ pc[c] = "executing"

(* The recommendations PendingMeansUnpriced speaks of, at rest or not. *)
Watched(r) ==
  /\ Undisturbed /\ ProductOf[r] \notin contended
  /\ \A s \in Rec \ {r} : ProductOf[s] # ProductOf[r]
  /\ \A c \in Handler : op[c] = "undo" => phase[c] \notin {"refused", "failed"}

(* How far a call has taken the two prices: from base, to what it pushes   *)
(* or back; an undo pushes base itself.                                    *)
AtPrice(c, r) ==
  LET p == ProductOf[r] IN
  /\ phase[c] \in {"called", "checked", "reverted", "refused", "failed"} => price[p] = storefront[p]
  /\ phase[c] \in {"checked", "written", "rejected"} => previous[c] = storefront[p]
  /\ phase[c] \in {"written", "rejected"} => price[p] = amount[c]
  /\ phase[c] \in {"accepted", "succeeded"} => price[p] = amount[c] /\ storefront[p] = amount[c]
  /\ op[c] = "undo" => amount[c] = base[r]
  /\ op[c] # "undo" /\ phase[c] \notin {"accepted", "succeeded"} => storefront[p] = base[r]

Untouched == {"PENDING", "REJECTED", "FAILED"}

Agrees(r) ==
  LET p == ProductOf[r] IN price[p] = storefront[p] /\ (status[r] \in Untouched => price[p] = base[r])

Accounted(r) ==
  /\ (\A c \in Handler : ~Executes(c, r)) => Agrees(r)
  /\ \A c \in Handler : Executes(c, r) => AtPrice(c, r)
  /\ \A c \in Handler : target[c] = r /\ pc[c] = "undoing" => chosen[c] = base[r] /\ seen[c] = status[r]
  /\ pc[r] = "loaded" => chosen[r] = price[ProductOf[r]]

Priced == OwnCalls /\ \A r \in Rec : Watched(r) => Accounted(r)

(* What a moving handler leaves alone in Execution and in the others. *)
ExecMoves(c) ==
  /\ UNCHANGED <<price, storefront>>
  /\ \A d \in Handler \ {c} :
       /\ phase'[d] = phase[d] /\ product'[d] = product[d] /\ amount'[d] = amount[d]
       /\ previous'[d] = previous[d] /\ chosen'[d] = chosen[d] /\ seen'[d] = seen[d]
  /\ \/ phase'[c] = phase[c] /\ product'[c] = product[c] /\ pc'[c] # "executing"
     \/ /\ phase[c] = "idle" /\ phase'[c] = "called" /\ pc'[c] = "executing"
        /\ product'[c] = ProductOf[target'[c]] /\ op'[c] # "reject"

LEMMA ExecDomains ==
  ASSUME ExecInv
  PROVE  /\ DOMAIN phase = Handler /\ DOMAIN product = Handler /\ DOMAIN amount = Handler
         /\ DOMAIN previous = Handler /\ DOMAIN price = Product /\ DOMAIN storefront = Product
  BY DEF ExecInv, E!TypeOK

(* A push is a call and nothing else to Execution. *)
LEMMA PushMoves ==
  ASSUME OwnInv, ExecInv, NEW c \in Handler, NEW x, Push(c, x)
  PROVE  /\ UNCHANGED <<price, storefront>> /\ phase[c] = "idle"
         /\ pc'[c] = "executing" /\ phase'[c] = "called" /\ amount'[c] = x
         /\ product'[c] = ProductOf[target[c]]
         /\ \A d \in Handler \ {c} :
              /\ phase'[d] = phase[d] /\ product'[d] = product[d] /\ amount'[d] = amount[d]
              /\ previous'[d] = previous[d]
  BY Domains, ExecDomains DEF Push, E!Call, Goto, E!data

LEMMA RunExec ==
  ASSUME OwnInv, ExecInv, NEW r \in Rec, RunActs(r)
  PROVE  ExecMoves(r)
  <1>a. r \in Handler /\ target[r] = r /\ op[r] = "generate"
    BY Members DEF OwnInv, RunsKnowThemselves
  <1>1. ASSUME NEW x \in Price, FinalizeAuto(r, x)
        PROVE  ExecMoves(r)
    BY <1>a, <1>1, PushMoves DEF FinalizeAuto, ExecMoves
  <1>2. CASE LoadProduct(r)
    BY <1>a, <1>2, Domains DEF LoadProduct, Goto, exec, ExecMoves
  <1>3. CASE CreateSkeleton(r) \/ MarkFailed(r) \/ RunEnds(r) \/ RunThrows(r) \/ \E x \in Price : FinalizeForReview(r, x)
    <2>1. UNCHANGED <<exec, chosen, seen>> /\ pc'[r] # "executing"
      BY <1>a, <1>3, Domains DEF CreateSkeleton, MarkFailed, RunEnds, RunThrows, FinalizeForReview, Finish, Goto
    <2>2. QED
      BY <2>1 DEF exec, ExecMoves
  <1>4. QED
    BY <1>1, <1>2, <1>3 DEF RunActs, RunStep

LEMMA OpenExec ==
  ASSUME OwnInv, ExecInv, NEW c \in Request, NEW r \in Rec, Opens(c, r)
  PROVE  ExecMoves(c) /\ UNCHANGED exec
         /\ (pc'[c] = "undoing" => chosen'[c] = base[r] /\ seen'[c] = status[r])
  <1>a. c \in Handler
    BY Members
  <1>1. ASSUME NEW o \in Ops, ApproveOrReject(c, r, o)
        PROVE  UNCHANGED exec /\ pc'[c] \notin {"executing", "undoing"}
               /\ \A d \in Handler \ {c} : chosen'[d] = chosen[d] /\ seen'[d] = seen[d]
    BY <1>a, <1>1, Domains DEF ApproveOrReject, Consider, Finish, Goto
  <1>2. ASSUME NEW x \in Price, Modify(c, r, x)
        PROVE  UNCHANGED exec /\ pc'[c] \notin {"executing", "undoing"}
               /\ \A d \in Handler \ {c} : chosen'[d] = chosen[d] /\ seen'[d] = seen[d]
    BY <1>a, <1>2, Domains DEF Modify, Finish, Goto
  <1>3. ASSUME Undo(c, r)
        PROVE  UNCHANGED exec /\ pc'[c] # "executing" /\ chosen'[c] = base[r] /\ seen'[c] = status[r]
               /\ \A d \in Handler \ {c} : chosen'[d] = chosen[d] /\ seen'[d] = seen[d]
    BY <1>a, <1>3, Domains DEF Undo, Finish, Goto
  <1>4. QED
    BY <1>1, <1>2, <1>3 DEF Opens, ExecMoves, exec

LEMMA ProceedExec ==
  ASSUME OwnInv, ExecInv, Ownership, NEW c \in Handler, Proceeds(c)
  PROVE  ExecMoves(c)
  <1>1. CASE Claim(c) \/ ClaimUndo(c)
    <2>1. UNCHANGED <<chosen, seen, op, target>>
      BY <1>1 DEF Claim, ClaimUndo
    <2>2. CASE Push(c, chosen[c])
      <3>1. op[c] # "reject"
        <4>1. pc'[c] = "executing"
          BY <2>2, PushMoves
        <4>2. CASE Claim(c)
          BY <4>1, <4>2, Domains DEF Claim, Goto
        <4>3. CASE ClaimUndo(c)
          <5>1. c \in Request
            BY <4>3 DEF ClaimUndo, Restore, Handler, OwnInv, RunsKnowThemselves
          <5>2. QED
            BY <4>3, <5>1 DEF ClaimUndo, Restore, Ownership, UndoersUndo
        <4>4. QED
          BY <1>1, <4>2, <4>3
      <3>2. QED
        BY <2>1, <2>2, <3>1, PushMoves DEF ExecMoves
    <2>3. CASE UNCHANGED exec /\ pc'[c] = "auditing"
      BY <2>1, <2>3 DEF exec, ExecMoves
    <2>4. QED
      BY <1>1, <2>2, <2>3, Domains DEF Claim, ClaimUndo, Goto
  <1>2. CASE ModifyReads(c)
    BY <1>2, Domains DEF ModifyReads, Consider, Finish, Goto, exec, ExecMoves
  <1>3. CASE LoseClaim(c) \/ Requeue(c) \/ Audit(c) \/ ClaimThrows(c) \/ LastStatementFails(c)
    <2>1. UNCHANGED <<exec, chosen, seen>> /\ pc'[c] # "executing"
      BY <1>3, Domains DEF LoseClaim, Requeue, Audit, ClaimThrows, LastStatementFails, Finish, Goto
    <2>2. QED
      BY <2>1 DEF exec, ExecMoves
  <1>4. QED
    BY <1>1, <1>2, <1>3 DEF Proceeds

(* What an execution step moves: one phase, and the prices of the product  *)
(* of the caller.                                                          *)
LEMMA StepExec ==
  ASSUME ExecInv, NEW c \in Handler, E!Step(c)
  PROVE  /\ phase[c] \in E!InFlight /\ phase'[c] # "idle" /\ UNCHANGED <<product, amount>>
         /\ \A d \in Handler \ {c} : phase'[d] = phase[d] /\ previous'[d] = previous[d]
         /\ \A p \in Product : p # product[c] => price'[p] = price[p] /\ storefront'[p] = storefront[p]
  <1> USE ExecDomains DEF E!InFlight
  <1>1. CASE E!ReadContext(c)
    BY <1>1 DEF E!ReadContext, E!data
  <1>2. CASE E!WriteLocal(c) \/ E!Rollback(c)
    BY <1>2 DEF E!WriteLocal, E!Rollback, E!locals
  <1>3. CASE E!PushAccepted(c)
    BY <1>3 DEF E!PushAccepted, E!locals
  <1>4. CASE E!PushRejected(c) \/ E!RecordSuccess(c) \/ E!RecordFailure(c)
    BY <1>4 DEF E!PushRejected, E!RecordSuccess, E!RecordFailure, E!locals, E!data
  <1>5. QED
    BY <1>1, <1>2, <1>3, <1>4 DEF E!Step

LEMMA StepAtPrice ==
  ASSUME OwnInv, ExecInv, NEW c \in Handler, E!Step(c), UNCHANGED <<op, target, base>>, NEW r \in Rec,
         product[c] = ProductOf[r], AtPrice(c, r)
  PROVE  AtPrice(c, r)'
  <1>1. ProductOf[r] \in Product
    BY RecAssumption
  <1> USE <1>1, ExecDomains DEF AtPrice
  <1>2. CASE E!ReadContext(c)
    BY <1>2 DEF E!ReadContext, E!data
  <1>3. CASE E!WriteLocal(c)
    BY <1>3 DEF E!WriteLocal, E!locals
  <1>4. CASE E!PushAccepted(c)
    BY <1>4 DEF E!PushAccepted, E!locals
  <1>5. CASE E!PushRejected(c)
    BY <1>5 DEF E!PushRejected, E!locals, E!data
  <1>6. CASE E!RecordSuccess(c)
    BY <1>6 DEF E!RecordSuccess, E!locals
  <1>7. CASE E!Rollback(c)
    BY <1>7 DEF E!Rollback, E!locals
  <1>8. CASE E!RecordFailure(c)
    BY <1>8 DEF E!RecordFailure, E!locals
  <1>9. QED
    BY <1>2, <1>3, <1>4, <1>5, <1>6, <1>7, <1>8 DEF E!Step

LEMMA MoversOwnCalls ==
  ASSUME OwnInv, Ownership, OwnCalls, NEW c \in Handler, MovesOnly(c), ExecMoves(c)
  PROVE  OwnCalls'
  <1>1. ASSUME NEW d \in Handler, d # c
        PROVE  /\ phase'[d] # "idle" => target'[d] \in Rec /\ product'[d] = ProductOf[target'[d]]
               /\ pc'[d] = "executing" => op'[d] # "reject"
    BY <1>1 DEF MovesOnly, ExecMoves, OwnCalls
  <1>2. /\ phase'[c] # "idle" => target'[c] \in Rec /\ product'[c] = ProductOf[target'[c]]
        /\ pc'[c] = "executing" => op'[c] # "reject"
    <2>1. phase[c] # "idle" => pc[c] # "idle"
      BY DEF Ownership, PhaseFollowsPc
    <2>2. QED
      BY <2>1 DEF MovesOnly, ExecMoves, OwnCalls
  <1>3. QED
    BY <1>1, <1>2 DEF OwnCalls

LEMMA StepOwnCalls ==
  ASSUME ExecInv, OwnCalls, NEW c \in Handler, E!Step(c), UNCHANGED own
  PROVE  OwnCalls'
  <1>1. phase[c] # "idle" /\ UNCHANGED <<product, pc, op, target>> /\ \A d \in Handler \ {c} : phase'[d] = phase[d]
    BY StepExec DEF E!InFlight, own, handlers
  <1>2. QED
    BY <1>1 DEF OwnCalls

(* The steps of nobody: a failing statement, an edit, the window that      *)
(* closes and the exit of the process.  All but the window disturb.        *)
WorldActs ==
  \/ \E c \in Handler : E!StatementFails(c) /\ UNCHANGED own
  \/ Environment
  \/ UNCHANGED vars

LEMMA Sorted ==
  ASSUME [Next]_vars
  PROVE  \/ \E r \in Rec : RunActs(r)
         \/ \E c \in Request, r \in Rec : Opens(c, r)
         \/ \E c \in Handler : Proceeds(c)
         \/ \E c \in Handler : E!Step(c) /\ UNCHANGED own
         \/ WorldActs
  <1>1. ASSUME NEW c \in Handler, HandlerStep(c)
        PROVE  Proceeds(c) \/ (E!Step(c) /\ UNCHANGED own)
    BY <1>1 DEF HandlerStep, Proceeds, Executing
  <1>2. QED
    BY <1>1 DEF Next, RunActs, Opens, Proceeds, WorldActs

LEMMA WorldOwnCalls ==
  ASSUME OwnInv, ExecInv, OwnCalls, WorldActs
  PROVE  OwnCalls'
  <1>1. ASSUME NEW c \in Handler, E!StatementFails(c), UNCHANGED own
        PROVE  OwnCalls'
    <2>1. phase[c] # "idle" /\ UNCHANGED <<product, pc, op, target>> /\ \A d \in Handler \ {c} : phase'[d] = phase[d]
      BY <1>1, ExecDomains DEF E!StatementFails, E!locals, own, handlers
    <2>2. QED
      BY <2>1 DEF OwnCalls
  <1>2. CASE Crash
    <2>1. UNCHANGED <<product, op, target>> /\ \A c \in Handler : /\ phase'[c] # "idle" => phase[c] # "idle"
                                                                  /\ pc'[c] = "executing" => pc[c] = "executing"
      BY <1>2 DEF Crash, E!Crash, E!locals, E!InFlight
    <2>2. QED
      BY <2>1 DEF OwnCalls
  <1>3. ASSUME UNCHANGED <<phase, product, pc, op, target>>
        PROVE  OwnCalls'
    BY <1>3 DEF OwnCalls
  <1>4. CASE \E r \in Rec : WindowCloses(r)
    BY <1>3, <1>4 DEF WindowCloses, exec, handlers
  <1>5. CASE \E p \in Product, x \in Price : (E!EditPrice(p, x) \/ E!EditLimits(p, x)) /\ UNCHANGED own
    BY <1>3, <1>5 DEF E!EditPrice, E!EditLimits, E!locals, own, handlers
  <1>6. CASE UNCHANGED vars
    BY <1>3, <1>6 DEF vars, exec, own, handlers
  <1>7. QED
    BY <1>1, <1>2, <1>4, <1>5, <1>6 DEF WorldActs, Environment

(* What is watched now was so before, and the rows about it are in order.  *)
LEMMA WatchedBefore ==
  ASSUME OwnInv, ExecInv, CountersGrow, NEW r \in Rec, Watched(r)',
         \A c \in Handler : op[c] = "undo" /\ phase[c] \in {"refused", "failed"} =>
           op'[c] = "undo" /\ phase'[c] = phase[c]
  PROVE  Watched(r) /\ Orderly(r)
  <1>1. Undisturbed
    BY ZeroBefore DEF Watched, Undisturbed
  <1>2. ProductOf[r] \notin contended
    BY DEF Watched, CountersGrow
  <1>3. QED
    BY <1>1, <1>2 DEF Watched, Undisturbed, Orderly

LEMMA MoversWatch ==
  ASSUME OwnInv, ExecInv, Ownership, CountersGrow, NEW c \in Handler, MovesOnly(c), ExecMoves(c),
         NEW r \in Rec, Watched(r)'
  PROVE  Watched(r) /\ Orderly(r)
  <1>1. phase[c] # "idle" => pc[c] # "idle"
    BY DEF Ownership, PhaseFollowsPc
  <1>2. \A d \in Handler : op[d] = "undo" /\ phase[d] \in {"refused", "failed"} =>
          op'[d] = "undo" /\ phase'[d] = phase[d]
    BY <1>1 DEF MovesOnly, ExecMoves
  <1>3. QED
    BY <1>2, WatchedBefore

(* A handler at work on a watched recommendation is its only one.          *)
LEMMA SoleWorker ==
  ASSUME Turns, NEW r \in Rec, Watched(r), NEW c \in Handler, target[c] = r, pc[c] \in Busy,
         NEW d \in Handler, d # c, target[d] = r
  PROVE  pc[d] \notin Busy
  BY DEF Turns, Alone, Watched

LEMMA AccountedElsewhere ==
  ASSUME OwnInv, ExecInv, NEW c \in Handler, MovesOnly(c), ExecMoves(c), NEW r \in Rec, r # target'[c], Accounted(r)
  PROVE  Accounted(r)'
  <1>1. target[c] = r => pc[c] = "idle" /\ c \notin Rec
    BY DEF MovesOnly
  <1>2. \A d \in Handler : Executes(d, r)' => d # c /\ Executes(d, r)
    BY DEF MovesOnly, Executes
  <1>3. \A d \in Handler : Executes(d, r) => d # c /\ Executes(d, r)'
    BY <1>1 DEF MovesOnly, Executes
  <1>4. r # c /\ r \in Handler
    BY <1>1, Members DEF OwnInv, RunsKnowThemselves
  <1>5. status'[r] = status[r] /\ base'[r] = base[r] /\ UNCHANGED <<price, storefront>>
    BY DEF MovesOnly, ExecMoves
  <1>6. ASSUME NEW d \in Handler, Executes(d, r)'
        PROVE  AtPrice(d, r)'
    <2>1. AtPrice(d, r) /\ d # c
      BY <1>2, <1>6 DEF Accounted
    <2>2. phase'[d] = phase[d] /\ previous'[d] = previous[d] /\ amount'[d] = amount[d] /\ op'[d] = op[d]
      BY <2>1 DEF ExecMoves, MovesOnly
    <2>3. QED
      BY <1>5, <2>1, <2>2 DEF AtPrice
  <1>7. (\A d \in Handler : ~Executes(d, r)') => Agrees(r)'
    BY <1>3, <1>5 DEF Accounted, Agrees
  <1>8. ASSUME NEW d \in Handler, target'[d] = r, pc'[d] = "undoing"
        PROVE  chosen'[d] = base'[r] /\ seen'[d] = status'[r]
    <2>1. d # c
      BY <1>8
    <2>2. target[d] = r /\ pc[d] = "undoing" /\ chosen'[d] = chosen[d] /\ seen'[d] = seen[d]
      BY <1>8, <2>1 DEF MovesOnly, ExecMoves
    <2>3. QED
      BY <1>5, <2>2 DEF Accounted
  <1>9. pc'[r] = "loaded" => chosen'[r] = price'[ProductOf[r]]
    BY <1>4, <1>5 DEF Accounted, MovesOnly, ExecMoves
  <1>10. QED
    BY <1>6, <1>7, <1>8, <1>9 DEF Accounted

(* A handler of r moves without a word in its row and without a push.      *)
LEMMA AccountedQuiet ==
  ASSUME OwnInv, ExecInv, NEW c \in Handler, MovesOnly(c), ExecMoves(c), NEW r \in Rec, target'[c] = r, Accounted(r),
         pc[c] # "executing", pc'[c] # "executing", status'[r] = status[r], base'[r] = base[r],
         pc'[c] = "undoing" => chosen'[c] = base[r] /\ seen'[c] = status[r],
         pc'[c] = "loaded" => chosen'[c] = price[ProductOf[r]]
  PROVE  Accounted(r)'
  <1>1. \A d \in Handler : Executes(d, r)' => d # c /\ Executes(d, r)
    BY DEF MovesOnly, Executes
  <1>2. \A d \in Handler : Executes(d, r) => Executes(d, r)'
    BY DEF MovesOnly, Executes
  <1>3. UNCHANGED <<price, storefront>>
    BY DEF ExecMoves
  <1>4. ASSUME NEW d \in Handler, Executes(d, r)'
        PROVE  AtPrice(d, r)'
    <2>1. AtPrice(d, r) /\ d # c
      BY <1>1, <1>4 DEF Accounted
    <2>2. phase'[d] = phase[d] /\ previous'[d] = previous[d] /\ amount'[d] = amount[d] /\ op'[d] = op[d]
      BY <2>1 DEF ExecMoves, MovesOnly
    <2>3. QED
      BY <1>3, <2>1, <2>2 DEF AtPrice
  <1>5. (\A d \in Handler : ~Executes(d, r)') => Agrees(r)'
    BY <1>2, <1>3 DEF Accounted, Agrees
  <1>6. ASSUME NEW d \in Handler, target'[d] = r, pc'[d] = "undoing"
        PROVE  chosen'[d] = base'[r] /\ seen'[d] = status'[r]
    BY <1>6 DEF MovesOnly, ExecMoves, Accounted
  <1>7. pc'[r] = "loaded" => chosen'[r] = price'[ProductOf[r]]
    <2>1. CASE c = r
      BY <1>3, <2>1
    <2>2. CASE c # r
      BY <1>3, <2>2, Members DEF Accounted, MovesOnly, ExecMoves
    <2>3. QED
      BY <2>1, <2>2
  <1>8. QED
    BY <1>4, <1>5, <1>6, <1>7 DEF Accounted

(* The only handler at work on r is past its push, or has none to make.    *)
LEMMA AccountedLeft ==
  ASSUME OwnInv, NEW c \in Handler, MovesOnly(c), NEW r \in Rec, target'[c] = r,
         \A d \in Handler \ {c} : target[d] = r => pc[d] \notin Busy,
         pc'[c] \notin {"executing", "undoing", "loaded"}, Agrees(r)'
  PROVE  Accounted(r)'
  <1>1. \A d \in Handler : target'[d] = r => pc'[d] \notin {"executing", "undoing", "loaded"}
    BY DEF MovesOnly, Busy
  <1>2. pc'[r] # "loaded"
    <2>1. CASE c = r
      BY <2>1
    <2>2. CASE c # r
      BY <1>1, <2>2, Members DEF MovesOnly, OwnInv, RunsKnowThemselves
    <2>3. QED
      BY <2>1, <2>2
  <1>3. QED
    BY <1>1, <1>2 DEF Accounted, Executes

(* ... or starts one. *)
LEMMA AccountedTaken ==
  ASSUME OwnInv, NEW c \in Handler, MovesOnly(c), NEW r \in Rec, target'[c] = r,
         \A d \in Handler \ {c} : target[d] = r => pc[d] \notin Busy,
         pc'[c] = "executing", AtPrice(c, r)'
  PROVE  Accounted(r)'
  <1>1. \A d \in Handler \ {c} : target'[d] = r => pc'[d] \notin {"executing", "undoing", "loaded"}
    BY DEF MovesOnly, Busy
  <1>2. pc'[r] # "loaded"
    <2>1. CASE c = r
      BY <2>1
    <2>2. CASE c # r
      BY <1>1, <2>2, Members DEF MovesOnly, OwnInv, RunsKnowThemselves
    <2>3. QED
      BY <2>1, <2>2
  <1>3. QED
    BY <1>1, <1>2 DEF Accounted, Executes

-----------------------------------------------------------------------------
(* A handler at work that pushes nothing leaves the prices to agree.       *)
LEMMA SoleAgrees ==
  ASSUME Turns, NEW r \in Rec, Watched(r), Accounted(r), NEW c \in Handler, target[c] = r, pc[c] \in Busy,
         pc[c] # "executing"
  PROVE  Agrees(r)
  <1>1. \A d \in Handler : ~Executes(d, r)
    BY SoleWorker DEF Executes, Busy
  <1>2. QED
    BY <1>1 DEF Accounted

LEMMA RunAccounts ==
  ASSUME OwnInv, ExecInv, Ownership, Turns, NEW r \in Rec, RunActs(r), Undisturbed', Tells(r), Watched(r), Accounted(r)
  PROVE  Accounted(r)'
  <1>a. r \in Handler /\ target[r] = r /\ op[r] = "generate" /\ MovesOnly(r) /\ ExecMoves(r) /\ target'[r] = r
        /\ op'[r] = op[r]
    BY RunMoves, RunExec, Members DEF MovesOnly, OwnInv, RunsKnowThemselves
  <1>b. UNCHANGED <<price, storefront>>
    BY <1>a DEF ExecMoves
  <1>c. pc[r] \in Busy => \A d \in Handler \ {r} : target[d] = r => pc[d] \notin Busy
    BY <1>a, SoleWorker
  <1>d. pc[r] \in {"loaded", "agents"} => Agrees(r)
    BY <1>a, SoleAgrees DEF Busy
  <1>1. CASE LoadProduct(r)
    <2>1. pc[r] = "idle" /\ pc'[r] = "loaded" /\ chosen'[r] = price[ProductOf[r]] /\ status' = status /\ base' = base
      BY <1>a, <1>1, Domains DEF LoadProduct, Goto, recRow
    <2>2. QED
      BY <1>a, <2>1, AccountedQuiet
  <1>2. CASE CreateSkeleton(r)
    <2>1. pc[r] = "loaded" /\ pc'[r] = "agents" /\ base'[r] = chosen[r]
      BY <1>a, <1>2, Domains DEF CreateSkeleton, Goto
    <2>2. Agrees(r) /\ chosen[r] = price[ProductOf[r]]
      BY <1>d, <2>1 DEF Accounted
    <2>3. Agrees(r)'
      BY <1>b, <2>1, <2>2 DEF Agrees
    <2>4. QED
      BY <1>a, <1>c, <2>1, <2>3, AccountedLeft DEF Busy
  <1>3. CASE MarkFailed(r) \/ \E x \in Price : FinalizeForReview(r, x)
    <2>1. pc[r] = "agents" /\ pc'[r] = "done" /\ base' = base
      BY <1>a, <1>3, Domains DEF MarkFailed, FinalizeForReview, Finish, Goto
    <2>2. Agrees(r) /\ status[r] = "PENDING"
      BY <1>d, <2>1 DEF Tells
    <2>3. Agrees(r)'
      BY <1>b, <2>1, <2>2 DEF Agrees, Untouched
    <2>4. QED
      BY <1>a, <1>c, <2>1, <2>3, AccountedLeft DEF Busy
  <1>4. ASSUME NEW x \in Price, FinalizeAuto(r, x)
        PROVE  Accounted(r)'
    <2>1. pc[r] = "agents" /\ pc'[r] = "executing" /\ phase'[r] = "called" /\ base' = base
      BY <1>a, <1>4, PushMoves DEF FinalizeAuto
    <2>2. Agrees(r) /\ status[r] = "PENDING"
      BY <1>d, <2>1 DEF Tells
    <2>3. AtPrice(r, r)'
      BY <1>a, <1>b, <2>1, <2>2 DEF Agrees, AtPrice, Untouched
    <2>4. QED
      BY <1>a, <1>c, <2>1, <2>3, AccountedTaken DEF Busy
  <1>5. CASE RunEnds(r)
    <2>1. pc[r] = "executing" /\ phase[r] = "succeeded" /\ pc'[r] = "done" /\ status' = status /\ base' = base
      BY <1>a, <1>5, Domains DEF RunEnds, Finish, Goto, recRow
    <2>2. Holds(r, r) /\ Executes(r, r)
      BY <1>a, <2>1 DEF Holds, Executes
    <2>3. status[r] = "AUTO_EXECUTED"
      BY <1>a, <2>2 DEF Tells, HolderTells, Resolution
    <2>4. price[ProductOf[r]] = storefront[ProductOf[r]]
      BY <1>a, <2>1, <2>2 DEF Accounted, AtPrice
    <2>5. Agrees(r)'
      BY <1>b, <2>1, <2>3, <2>4 DEF Agrees, Untouched
    <2>6. QED
      BY <1>a, <1>c, <2>1, <2>5, AccountedLeft DEF Busy
  <1>6. CASE RunThrows(r)
    BY <1>6, FailureAssumption DEF RunThrows, OwnInv, RowsTyped, Undisturbed
  <1>7. QED
    BY <1>1, <1>2, <1>3, <1>4, <1>5, <1>6 DEF RunActs, RunStep

LEMMA OpenAccounts ==
  ASSUME OwnInv, ExecInv, NEW c \in Request, NEW r \in Rec, Opens(c, r), Accounted(r)
  PROVE  Accounted(r)'
  <1>1. c \in Handler /\ c \notin Rec
    BY Members
  <1>2. MovesOnly(c) /\ target'[c] = r /\ pc[c] = "idle" /\ UNCHANGED <<status, audit, base>>
    BY OpenMoves
  <1>3. ExecMoves(c) /\ (pc'[c] = "undoing" => chosen'[c] = base[r] /\ seen'[c] = status[r])
    BY OpenExec
  <1>4. pc'[c] \notin {"executing", "loaded"}
    BY <1>1, Domains DEF Opens, ApproveOrReject, Modify, Undo, Consider, Goto, Finish
  <1>5. QED
    BY <1>1, <1>2, <1>3, <1>4, AccountedQuiet

LEMMA ProceedAccounts ==
  ASSUME OwnInv, ExecInv, Ownership, Turns, OwnCalls, NEW c \in Handler, Proceeds(c), NEW r \in Rec, target[c] = r,
         Tells(r), Watched(r), Watched(r)', Accounted(r)
  PROVE  Accounted(r)'
  <1>a. MovesOnly(c) /\ ExecMoves(c) /\ target'[c] = r /\ op'[c] = op[c]
    BY ProceedMoves, ProceedExec DEF MovesOnly
  <1>b. UNCHANGED <<price, storefront>>
    BY <1>a DEF ExecMoves
  <1>c. pc[c] \in Busy => \A d \in Handler \ {c} : target[d] = r => pc[d] \notin Busy
    BY SoleWorker
  <1>d. pc[c] \in {"claiming", "undoing", "auditing"} => Agrees(r)
    BY SoleAgrees DEF Busy
  <1>e. pc[c] = "executing" => AtPrice(c, r) /\ HolderTells(c, r)
    BY DEF Accounted, Executes, Tells, Holds
  <1>1. CASE ModifyReads(c) \/ LoseClaim(c)
    <2>1. /\ pc[c] # "executing" /\ pc'[c] \in {"claiming", "done"}
          /\ status' = status /\ base' = base
      BY <1>1, Domains DEF ModifyReads, Consider, LoseClaim, Finish, Goto, recRow
    <2>2. QED
      BY <1>a, <2>1, AccountedQuiet
  <1>2. CASE Claim(c)
    <2>1. /\ pc[c] = "claiming" /\ status[r] = "PENDING" /\ status'[r] = Resolution(op[c]) /\ base' = base
      BY <1>2, Domains DEF Claim, Resolve
    <2>2. Agrees(r) /\ price[ProductOf[r]] = base[r]
      BY <1>d, <2>1 DEF Agrees, Untouched
    <2>3. c \in Request /\ op[c] # "undo"
      BY <2>1 DEF Handler, OwnInv, RunsKnowThemselves, RequestsKnowTarget
    <2>4. CASE Push(c, chosen[c])
      <3>1. pc'[c] = "executing" /\ phase'[c] = "called"
        BY <2>4, PushMoves
      <3>2. AtPrice(c, r)'
        BY <1>a, <1>b, <2>1, <2>2, <2>3, <3>1 DEF AtPrice, Agrees
      <3>3. QED
        BY <1>a, <1>c, <2>1, <3>1, <3>2, AccountedTaken DEF Busy
    <2>5. CASE ~Push(c, chosen[c])
      <3>1. pc'[c] = "auditing"
        BY <1>2, <2>5, Domains DEF Claim, Goto
      <3>2. Agrees(r)'
        BY <1>b, <2>1, <2>2 DEF Agrees
      <3>3. QED
        BY <1>a, <1>c, <2>1, <3>1, <3>2, AccountedLeft DEF Busy
    <2>6. QED
      BY <2>4, <2>5
  <1>3. CASE ClaimUndo(c)
    <2>1. pc[c] = "undoing" /\ status[r] # "PENDING" /\ status'[r] = "PENDING" /\ base' = base
      BY <1>3, Domains DEF ClaimUndo, Restore, Undoable
    <2>2. Agrees(r) /\ chosen[c] = base[r] /\ seen[c] = status[r]
      BY <1>d, <2>1 DEF Accounted
    <2>3. c \in Request /\ op[c] = "undo"
      BY <2>1 DEF Handler, OwnInv, RunsKnowThemselves, Ownership, UndoersUndo
    <2>4. CASE Push(c, chosen[c])
      <3>1. pc'[c] = "executing" /\ phase'[c] = "called" /\ amount'[c] = base[r]
        BY <2>2, <2>4, PushMoves
      <3>2. AtPrice(c, r)'
        BY <1>a, <1>b, <2>1, <2>2, <2>3, <3>1 DEF AtPrice, Agrees
      <3>3. QED
        BY <1>a, <1>c, <2>1, <3>1, <3>2, AccountedTaken DEF Busy
    <2>5. CASE ~Push(c, chosen[c])
      <3>1. pc'[c] = "auditing" /\ seen[c] \notin Pushing
        BY <1>3, <2>5, Domains DEF ClaimUndo, Goto
      <3>2. status[r] \in RecStatus
        BY <2>1, <2>3 DEF OwnInv, RequestsKnowTarget, RowsTyped
      <3>3. status[r] \in Untouched
        BY <2>2, <3>1, <3>2 DEF RecStatus, Pushing, Untouched
      <3>4. Agrees(r)'
        BY <1>b, <2>1, <2>2, <3>3 DEF Agrees
      <3>5. QED
        BY <1>a, <1>c, <2>1, <3>1, <3>4, AccountedLeft DEF Busy
    <2>6. QED
      BY <2>4, <2>5
  <1>4. CASE Requeue(c)
    <2>1. pc[c] = "executing" /\ pc'[c] = "done" /\ op[c] # "undo" /\ phase[c] \in {"refused", "failed"} /\ base' = base
      BY <1>4, Domains DEF Requeue, Finish, Goto
    <2>2. Agrees(r)'
      BY <1>b, <1>e, <2>1 DEF Agrees, AtPrice
    <2>3. QED
      BY <1>a, <1>c, <2>1, <2>2, AccountedLeft DEF Busy
  <1>5. CASE Audit(c)
    <2>1. pc'[c] = "done" /\ status' = status /\ base' = base /\ phase' = phase
      BY <1>5, Domains DEF Audit, Finish, Goto, recRow, exec
    <2>2. Agrees(r)
      <3>1. CASE pc[c] = "auditing"
        BY <1>d, <3>1
      <3>2. CASE pc[c] = "executing" /\ op[c] = "undo"
        <4>1. phase[c] = "succeeded"
          BY <1>5, <1>a, <2>1, <3>2 DEF Audit, Decided, E!Ended, Watched
        <4>2. QED
          BY <1>e, <3>2, <4>1 DEF AtPrice, Agrees
      <3>3. CASE pc[c] = "executing" /\ op[c] # "undo"
        <4>1. phase[c] = "succeeded" /\ op[c] # "generate"
          BY <1>5, <3>3 DEF Audit, Decided
        <4>2. c \in Request
          BY <4>1 DEF Handler, OwnInv, RunsKnowThemselves
        <4>3. op[c] \in {"approve", "modify"}
          BY <3>3, <4>2 DEF OwnCalls, OwnInv, RequestsKnowTarget
        <4>4. status[r] \notin Untouched
          BY <1>e, <3>3, <4>3 DEF HolderTells, Resolution, Untouched
        <4>5. QED
          BY <1>e, <3>3, <4>1, <4>4 DEF AtPrice, Agrees
      <3>4. QED
        BY <1>5, <3>1, <3>2, <3>3 DEF Audit, Decided
    <2>3. Agrees(r)'
      BY <1>b, <2>1, <2>2 DEF Agrees
    <2>4. pc[c] \in Busy
      BY <1>5 DEF Audit, Decided, Busy
    <2>5. QED
      BY <1>a, <1>c, <2>1, <2>3, <2>4, AccountedLeft
  <1>6. CASE ClaimThrows(c) \/ LastStatementFails(c)
    BY <1>6, FailureAssumption DEF ClaimThrows, LastStatementFails, OwnInv, RowsTyped, Watched, Undisturbed
  <1>7. QED
    BY <1>1, <1>2, <1>3, <1>4, <1>5, <1>6 DEF Proceeds

(* A step of executeRecommendation for r itself, or for another product.   *)
LEMMA StepAccounts ==
  ASSUME OwnInv, ExecInv, Ownership, Turns, OwnCalls, NEW c \in Handler, E!Step(c), UNCHANGED own,
         NEW r \in Rec, Watched(r), Accounted(r)
  PROVE  Accounted(r)'
  <1>1. /\ phase[c] \in E!InFlight /\ phase'[c] # "idle" /\ UNCHANGED <<product, amount>>
        /\ \A d \in Handler \ {c} : phase'[d] = phase[d] /\ previous'[d] = previous[d]
        /\ \A p \in Product : p # product[c] => price'[p] = price[p] /\ storefront'[p] = storefront[p]
    BY StepExec
  <1>2. UNCHANGED <<status, base, pc, op, target, seen, chosen>>
    BY DEF own, recRow, handlers
  <1>3. pc[c] = "executing" /\ target[c] \in Rec /\ product[c] = ProductOf[target[c]]
    BY <1>1 DEF Ownership, PhaseFollowsPc, OwnCalls, E!InFlight
  <1>4. CASE target[c] = r
    <2>1. \A d \in Handler \ {c} : target[d] = r => pc[d] \notin Busy
      BY <1>3, <1>4, SoleWorker DEF Busy
    <2>2. AtPrice(c, r)'
      <3>1. AtPrice(c, r)
        BY <1>3, <1>4 DEF Accounted, Executes
      <3>2. QED
        BY <1>2, <1>3, <1>4, <3>1, StepAtPrice
    <2>3. pc'[r] # "loaded"
      BY <1>2, <1>3, <2>1, Members DEF OwnInv, RunsKnowThemselves, Busy
    <2>4. QED
      BY <1>2, <1>3, <1>4, <2>1, <2>2, <2>3 DEF Accounted, Executes, Busy
  <1>5. CASE target[c] # r
    <2>1. price'[ProductOf[r]] = price[ProductOf[r]] /\ storefront'[ProductOf[r]] = storefront[ProductOf[r]]
      BY <1>1, <1>3, <1>5, RecAssumption DEF Watched
    <2>2. \A d \in Handler : Executes(d, r)' <=> Executes(d, r)
      BY <1>2 DEF Executes
    <2>3. ASSUME NEW d \in Handler, Executes(d, r), AtPrice(d, r)
          PROVE  AtPrice(d, r)'
      <3>1. d # c
        BY <1>5, <2>3 DEF Executes
      <3>2. QED
        BY <1>1, <1>2, <2>1, <2>3, <3>1 DEF AtPrice
    <2>4. Agrees(r) => Agrees(r)'
      BY <1>2, <2>1 DEF Agrees
    <2>5. QED
      BY <1>2, <2>1, <2>2, <2>3, <2>4 DEF Accounted
  <1>6. QED
    BY <1>4, <1>5

LEMMA WorldKeeps ==
  ASSUME OwnInv, ExecInv, WorldActs, Undisturbed'
  PROVE  UNCHANGED <<exec, status, base, handlers>>
  <1>1. ~\E c \in Handler : E!StatementFails(c)
    BY ExecutionAssumption DEF E!StatementFails, Undisturbed, ExecInv, E!TypeOK, E!BoundAssumption
  <1>2. ~Crash
    BY ExecutionAssumption DEF Crash, E!Crash, Undisturbed, ExecInv, E!TypeOK, E!BoundAssumption
  <1>3. ~\E p \in Product, x \in Price : E!EditPrice(p, x) \/ E!EditLimits(p, x)
    BY ExecutionAssumption DEF E!EditPrice, E!EditLimits, Undisturbed, ExecInv, E!TypeOK, E!BoundAssumption
  <1>4. CASE \E q \in Rec : WindowCloses(q)
    BY <1>4 DEF WindowCloses
  <1>5. CASE UNCHANGED vars
    BY <1>5 DEF vars, own, recRow
  <1>6. QED
    BY <1>1, <1>2, <1>3, <1>4, <1>5 DEF WorldActs, Environment

LEMMA WorldAccounts ==
  ASSUME UNCHANGED <<exec, status, base, handlers>>, NEW r \in Rec, Accounted(r)
  PROVE  Accounted(r)'
  BY DEF exec, handlers, Accounted, Executes, AtPrice, Agrees

LEMMA NextPriced ==
  ASSUME OwnInv, ExecInv, Ownership, Turns, Told, Priced, [Next]_vars
  PROVE  Priced'
  <1>0. CountersGrow
    BY NextCounts
  <1>1. ASSUME NEW q \in Rec, RunActs(q)
        PROVE  Priced'
    <2>1. q \in Handler /\ MovesOnly(q) /\ ExecMoves(q) /\ target'[q] = q
      BY <1>1, RunMoves, RunExec, Members DEF MovesOnly, OwnInv, RunsKnowThemselves
    <2>2. ASSUME NEW r \in Rec, Watched(r)'
          PROVE  Accounted(r)'
      <3>1. Watched(r) /\ Tells(r) /\ Accounted(r)
        BY <1>0, <2>1, <2>2, MoversWatch DEF Told, Priced
      <3>2. QED
        BY <1>1, <2>1, <2>2, <3>1, RunAccounts, AccountedElsewhere DEF Watched
    <2>3. QED
      BY <2>1, <2>2, MoversOwnCalls DEF Priced
  <1>2. ASSUME NEW c \in Request, NEW q \in Rec, Opens(c, q)
        PROVE  Priced'
    <2>1. c \in Handler /\ MovesOnly(c) /\ ExecMoves(c) /\ target'[c] = q
      BY <1>2, OpenMoves, OpenExec, Members
    <2>2. ASSUME NEW r \in Rec, Watched(r)'
          PROVE  Accounted(r)'
      <3>1. Accounted(r)
        BY <1>0, <2>1, <2>2, MoversWatch DEF Priced
      <3>2. QED
        BY <1>2, <2>1, <3>1, OpenAccounts, AccountedElsewhere
    <2>3. QED
      BY <2>1, <2>2, MoversOwnCalls DEF Priced
  <1>3. ASSUME NEW c \in Handler, Proceeds(c)
        PROVE  Priced'
    <2>1. MovesOnly(c) /\ ExecMoves(c) /\ target'[c] = target[c]
      BY <1>3, ProceedMoves, ProceedExec DEF MovesOnly
    <2>2. ASSUME NEW r \in Rec, Watched(r)'
          PROVE  Accounted(r)'
      <3>1. Watched(r) /\ Tells(r) /\ Accounted(r)
        BY <1>0, <2>1, <2>2, MoversWatch DEF Told, Priced
      <3>2. QED
        BY <1>3, <2>1, <2>2, <3>1, ProceedAccounts, AccountedElsewhere DEF Priced
    <2>3. QED
      BY <2>1, <2>2, MoversOwnCalls DEF Priced
  <1>4. ASSUME NEW c \in Handler, E!Step(c), UNCHANGED own
        PROVE  Priced'
    <2>1. \A d \in Handler : op[d] = "undo" /\ phase[d] \in {"refused", "failed"} =>
            op'[d] = "undo" /\ phase'[d] = phase[d]
      BY <1>4, StepExec DEF own, handlers, E!InFlight
    <2>2. ASSUME NEW r \in Rec, Watched(r)'
          PROVE  Accounted(r)'
      BY <1>0, <1>4, <2>1, <2>2, WatchedBefore, StepAccounts DEF Priced
    <2>3. QED
      BY <1>4, <2>2, StepOwnCalls DEF Priced
  <1>5. CASE WorldActs
    <2>1. ASSUME NEW r \in Rec, Watched(r)'
          PROVE  Accounted(r)'
      <3>1. Undisturbed'
        BY <2>1 DEF Watched
      <3>2. \A d \in Handler : op[d] = "undo" /\ phase[d] \in {"refused", "failed"} =>
              op'[d] = "undo" /\ phase'[d] = phase[d]
        BY <1>5, <3>1, WorldKeeps DEF exec, handlers
      <3>3. Accounted(r)
        BY <1>0, <2>1, <3>2, WatchedBefore DEF Priced
      <3>4. QED
        BY <1>5, <3>1, <3>3, WorldKeeps, WorldAccounts
    <2>2. QED
      BY <1>5, <2>1, WorldOwnCalls DEF Priced
  <1>6. QED
    BY <1>1, <1>2, <1>3, <1>4, <1>5, Sorted

LEMMA InitPriced == Init => Priced
  <1> SUFFICES ASSUME Init PROVE Priced
    OBVIOUS
  <1>1. \A c \in Handler : pc[c] = "idle" /\ phase[c] = "idle"
    BY DEF Init, E!Init
  <1>2. storefront = price /\ \A r \in Rec : status[r] = "ABSENT"
    BY DEF Init, E!Init
  <1>3. OwnCalls
    BY <1>1 DEF OwnCalls
  <1>4. \A r \in Rec : Accounted(r)
    BY <1>1, <1>2, Members DEF Accounted, Executes, Agrees, Untouched
  <1>5. QED
    BY <1>3, <1>4 DEF Priced

(* Where handlers take turns, a recommendation that waits for a decision   *)
(* left both prices at the base it was created at: a failed push rolls     *)
(* back, and an undo pushes previousPrice again.                           *)
THEOREM WaitingMeansUnpriced == Safe => []PendingMeansUnpriced
  <1>1. Init => Turns /\ Told /\ Priced
    BY InitTold, InitPriced
  <1>2. OwnInv /\ ExecInv /\ Ownership /\ OwnInv' /\ Turns /\ Told /\ Priced /\ [Next]_vars => Turns' /\ Told' /\ Priced'
    BY NextTurns, NextTold, NextPriced
  <1>3. Priced => PendingMeansUnpriced
    <2> SUFFICES ASSUME Priced, Undisturbed, NEW r \in Rec, status[r] = "PENDING", AtRest(r),
                        ProductOf[r] \notin contended,
                        \A s \in Rec \ {r} : ProductOf[s] # ProductOf[r],
                        \A c \in Handler : op[c] = "undo" => phase[c] \notin {"refused", "failed"}
                 PROVE  price[ProductOf[r]] = base[r] /\ storefront[ProductOf[r]] = base[r]
      BY DEF PendingMeansUnpriced
    <2>1. Accounted(r)
      BY DEF Priced, Watched
    <2>2. Agrees(r)
      BY <2>1 DEF Accounted, Executes, AtRest, Busy
    <2>3. QED
      BY <2>2 DEF Agrees, Untouched
  <1>4. QED
    BY <1>1, <1>2, <1>3, OwnershipAlways, PTL DEF Safe

(* The rows of a recommendation tell what was done to it: the push behind  *)
(* a status, the decision behind a status, the price behind none.          *)
THEOREM RowsAreTrue == Safe => []RowsTellTheStory
  <1>1. PushedStatusHasPush /\ AuditExplainsStatus /\ PendingMeansUnpriced => RowsTellTheStory
    BY DEF RowsTellTheStory
  <1>2. QED
    BY <1>1, PushedStatusesAreBacked, AuditTellsTheStatus, WaitingMeansUnpriced, PTL
=============================================================================

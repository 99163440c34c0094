--------------------------- MODULE ExecutionProofs ---------------------------
(***************************************************************************)
(* Proofs about Execution, for every set of callers, products and prices   *)
(* and every value of the bounds.                                          *)
(***************************************************************************)
EXTENDS Execution, TLAPS

(* A caller past its start knows its product and amount; past the gate it  *)
(* also knows the price to go back to.  Without this TypeOK is not         *)
(* inductive: Rollback would write None.                                   *)
WellFormed ==
  \A c \in Caller :
    /\ phase[c] # "idle" => product[c] \in Product /\ amount[c] \in Price
    /\ phase[c] \in InFlight \ {"called"} => previous[c] \in Price

LEMMA InitTyped == Init => TypeOK /\ WellFormed
  BY BoundAssumption DEF Init, TypeOK, WellFormed, Phase, InFlight, Ended

LEMMA CallTyped ==
  ASSUME TypeOK, WellFormed, NEW c \in Caller, NEW p \in Product, NEW x \in Price, Call(c, p, x)
  PROVE  TypeOK' /\ WellFormed'
  BY DEF TypeOK, WellFormed, Call, Phase, InFlight, Ended, data, history

LEMMA StepTyped ==
  ASSUME TypeOK, WellFormed, NEW c \in Caller, Step(c)
  PROVE  TypeOK' /\ WellFormed'
  <1> USE DEF TypeOK, WellFormed, Phase, InFlight, Ended, data, locals, history
  <1>1. CASE ReadContext(c)    BY <1>1 DEF ReadContext
  <1>2. CASE WriteLocal(c)     BY <1>2 DEF WriteLocal
  <1>3. CASE PushAccepted(c)   BY <1>3 DEF PushAccepted
  <1>4. CASE PushRejected(c)   BY <1>4 DEF PushRejected
  <1>5. CASE RecordSuccess(c)  BY <1>5 DEF RecordSuccess
  <1>6. CASE Rollback(c)       BY <1>6 DEF Rollback
  <1>7. CASE RecordFailure(c)  BY <1>7 DEF RecordFailure
  <1>8. QED
    BY <1>1, <1>2, <1>3, <1>4, <1>5, <1>6, <1>7 DEF Step

LEMMA StatementFailsTyped ==
  ASSUME TypeOK, WellFormed, NEW c \in Caller, StatementFails(c)
  PROVE  TypeOK' /\ WellFormed'
  <1>1. dbFailures' \in 0..MaxDbFailures
    BY BoundAssumption DEF TypeOK, StatementFails
  <1>2. QED
    BY <1>1 DEF TypeOK, WellFormed, StatementFails, Phase, InFlight, Ended, data, locals

LEMMA EnvironmentTyped ==
  ASSUME TypeOK, WellFormed,
         Crash \/ \E p \in Product, x \in Price : EditPrice(p, x) \/ EditLimits(p, x)
  PROVE  TypeOK' /\ WellFormed'
  <1> USE DEF TypeOK, WellFormed, Phase, InFlight, Ended, data, locals
  <1>1. CASE Crash
    BY <1>1, BoundAssumption DEF Crash
  <1>2. CASE \E p \in Product, x \in Price : EditPrice(p, x) \/ EditLimits(p, x)
    BY <1>2, BoundAssumption DEF EditPrice, EditLimits
  <1>3. QED
    BY <1>1, <1>2

LEMMA NextTyped == TypeOK /\ WellFormed /\ [Next]_vars => TypeOK' /\ WellFormed'
  <1> SUFFICES ASSUME TypeOK, WellFormed, [Next]_vars
               PROVE  TypeOK' /\ WellFormed'
    OBVIOUS
  <1>1. CASE UNCHANGED vars
    BY <1>1 DEF vars, data, locals, history, TypeOK, WellFormed
  <1>2. CASE Next
    BY <1>2, CallTyped, StepTyped, StatementFailsTyped, EnvironmentTyped DEF Next
  <1>3. QED
    BY <1>1, <1>2

(* Every variable keeps its type, and a caller in flight its operands. *)
THEOREM TypeCorrect == Safe => [](TypeOK /\ WellFormed)
  <1>1. QED
    BY InitTyped, NextTyped, PTL DEF Safe

-----------------------------------------------------------------------------
(* What the gate established is still true when the write and the push     *)
(* happen, because amount never changes and, with no edits, floor does not *)
(* either.                                                                 *)
GateHolds ==
  edits = 0 =>
    \A c \in Caller : phase[c] \in {"checked", "written"} => amount[c] >= floor[product[c]]

LEMMA GateInductive ==
  TypeOK /\ WellFormed /\ GateHolds /\ [Next]_vars => GateHolds'
  <1> SUFFICES ASSUME TypeOK, WellFormed, GateHolds, [Next]_vars, edits' = 0
               PROVE  GateHolds'
    BY DEF GateHolds
  <1> USE DEF TypeOK, WellFormed, GateHolds, InFlight, data, locals, history
  <1>1. CASE UNCHANGED vars
    BY <1>1 DEF vars
  <1>2. ASSUME NEW c \in Caller, NEW p \in Product, NEW x \in Price, Call(c, p, x)
        PROVE  GateHolds'
    BY <1>2 DEF Call
  <1>3. ASSUME NEW c \in Caller, Step(c)
        PROVE  GateHolds'
    <2>1. CASE ReadContext(c)    BY <2>1 DEF ReadContext
    <2>2. CASE WriteLocal(c)     BY <2>2 DEF WriteLocal
    <2>3. CASE PushAccepted(c)   BY <2>3 DEF PushAccepted
    <2>4. CASE PushRejected(c)   BY <2>4 DEF PushRejected
    <2>5. CASE RecordSuccess(c)  BY <2>5 DEF RecordSuccess
    <2>6. CASE Rollback(c)       BY <2>6 DEF Rollback
    <2>7. CASE RecordFailure(c)  BY <2>7 DEF RecordFailure
    <2>8. QED
      BY <1>3, <2>1, <2>2, <2>3, <2>4, <2>5, <2>6, <2>7 DEF Step
  <1>4. ASSUME NEW c \in Caller, StatementFails(c)
        PROVE  GateHolds'
    BY <1>4 DEF StatementFails
  <1>5. CASE Crash
    BY <1>5 DEF Crash
  <1>6. ASSUME NEW p \in Product, NEW x \in Price, EditPrice(p, x) \/ EditLimits(p, x)
        PROVE  GateHolds'
    BY <1>6 DEF EditPrice, EditLimits
  <1>7. QED
    BY <1>1, <1>2, <1>3, <1>4, <1>5, <1>6 DEF Next

LEMMA GateGuardsPush ==
  TypeOK /\ WellFormed /\ GateHolds /\ [Next]_vars =>
    \A p \in Product :
      edits = 0 /\ storefront'[p] # storefront[p] => storefront'[p] >= floor[p]
  <1> SUFFICES ASSUME TypeOK, WellFormed, GateHolds, [Next]_vars, edits = 0,
                      NEW p \in Product, storefront'[p] # storefront[p]
               PROVE  storefront'[p] >= floor[p]
    OBVIOUS
  <1>1. PICK c \in Caller : PushAccepted(c)
    BY DEF Next, vars, data, Call, Step, StatementFails, EditPrice, EditLimits, Crash,
           ReadContext, WriteLocal, PushRejected, RecordSuccess, Rollback, RecordFailure
  <1>2. product[c] = p /\ storefront'[p] = amount[c]
    BY <1>1 DEF PushAccepted, TypeOK, WellFormed
  <1>3. QED
    BY <1>1, <1>2 DEF PushAccepted, GateHolds

(* No interleaving of callers, failures and crashes puts a price below the *)
(* floor in front of a customer while the limits stand still.              *)
THEOREM FloorRespected == Safe => PushesRespectFloor
  <1>1. Init => GateHolds
    BY DEF Init, GateHolds
  <1>2. Safe => [](TypeOK /\ WellFormed /\ GateHolds)
    BY <1>1, InitTyped, NextTyped, GateInductive, PTL DEF Safe
  <1>3. QED
    BY <1>2, GateGuardsPush, PTL DEF Safe, PushesRespectFloor

-----------------------------------------------------------------------------
(* Where a caller is tells what the storefront and the row know of it.     *)
RowsFollowPhase ==
  dbFailures = 0 =>
    \A c \in Caller :
      /\ phase[c] \in {"accepted", "succeeded"} => c \in accepted
      /\ c \in accepted => phase[c] \in {"accepted", "succeeded", "dead"}
      /\ row[c] = "succeeded" <=> phase[c] = "succeeded"

LEMMA RowsInductive ==
  TypeOK /\ RowsFollowPhase /\ [Next]_vars => RowsFollowPhase'
  <1> SUFFICES ASSUME TypeOK, RowsFollowPhase, [Next]_vars, dbFailures' = 0
               PROVE  RowsFollowPhase'
    BY DEF RowsFollowPhase
  <1> USE DEF TypeOK, RowsFollowPhase, InFlight, data, locals, history
  <1>1. CASE UNCHANGED vars
    BY <1>1 DEF vars
  <1>2. ASSUME NEW c \in Caller, NEW p \in Product, NEW x \in Price, Call(c, p, x)
        PROVE  RowsFollowPhase'
    BY <1>2 DEF Call
  <1>3. ASSUME NEW c \in Caller, Step(c)
        PROVE  RowsFollowPhase'
    <2>1. CASE ReadContext(c)    BY <2>1 DEF ReadContext
    <2>2. CASE WriteLocal(c)     BY <2>2 DEF WriteLocal
    <2>3. CASE PushAccepted(c)   BY <2>3 DEF PushAccepted
    <2>4. CASE PushRejected(c)   BY <2>4 DEF PushRejected
    <2>5. CASE RecordSuccess(c)  BY <2>5 DEF RecordSuccess
    <2>6. CASE Rollback(c)       BY <2>6 DEF Rollback
    <2>7. CASE RecordFailure(c)  BY <2>7 DEF RecordFailure
    <2>8. QED
      BY <1>3, <2>1, <2>2, <2>3, <2>4, <2>5, <2>6, <2>7 DEF Step
  <1>4. ASSUME NEW c \in Caller, StatementFails(c)
        PROVE  RowsFollowPhase'
    BY <1>4 DEF StatementFails
  <1>5. CASE Crash
    BY <1>5 DEF Crash
  <1>6. ASSUME NEW p \in Product, NEW x \in Price, EditPrice(p, x) \/ EditLimits(p, x)
        PROVE  RowsFollowPhase'
    BY <1>6 DEF EditPrice, EditLimits
  <1>7. QED
    BY <1>1, <1>2, <1>3, <1>4, <1>5, <1>6 DEF Next

(* An executions row never contradicts the storefront while every          *)
(* statement succeeds.                                                     *)
THEOREM RowsTruthful == Safe => []RowsTellTheTruth
  <1>1. Init => RowsFollowPhase
    BY DEF Init, RowsFollowPhase
  <1>2. Safe => [](TypeOK /\ WellFormed /\ RowsFollowPhase)
    BY <1>1, InitTyped, NextTyped, RowsInductive, PTL DEF Safe
  <1>3. TypeOK /\ RowsFollowPhase => RowsTellTheTruth
    BY DEF TypeOK, RowsFollowPhase, RowsTellTheTruth, Ended
  <1>4. QED
    BY <1>2, <1>3, PTL

-----------------------------------------------------------------------------
(* A caller that has its product to itself, and what each of its steps     *)
(* leaves in the database and in the storefront.                           *)
Undisturbed == edits = 0 /\ dbFailures = 0 /\ crashes = 0

OneAtATime ==
  \A c, d \in Caller :
    phase[c] \in InFlight /\ phase[d] \in InFlight /\ product[c] = product[d] =>
      c = d \/ product[c] \in overlapped

InStep(c) ==
  LET p == product[c] IN
    CASE phase[c] \in {"called", "accepted", "reverted"} -> price[p] = storefront[p]
      [] phase[c] = "checked" -> price[p] = storefront[p] /\ previous[c] = storefront[p]
      [] phase[c] \in {"written", "rejected"} -> price[p] = amount[c] /\ previous[c] = storefront[p]
      [] OTHER -> TRUE

AgreementInv ==
  Undisturbed =>
    /\ OneAtATime
    /\ \A c \in Caller : product[c] \notin overlapped => InStep(c)
    /\ \A p \in Product \ overlapped : Quiet(p) => price[p] = storefront[p]

LEMMA AgreementCall ==
  ASSUME TypeOK, WellFormed, AgreementInv, Undisturbed',
         NEW c \in Caller, NEW p \in Product, NEW x \in Price, Call(c, p, x)
  PROVE  AgreementInv'
  BY DEF TypeOK, WellFormed, AgreementInv, Undisturbed, OneAtATime, InStep, Quiet, InFlight,
         Call, data, history

LEMMA AgreementStep ==
  ASSUME TypeOK, WellFormed, AgreementInv, Undisturbed', NEW c \in Caller, Step(c)
  PROVE  AgreementInv'
  <1> USE DEF TypeOK, WellFormed, AgreementInv, Undisturbed, OneAtATime, InStep, Quiet, InFlight,
              data, locals, history
  <1>1. CASE ReadContext(c)    BY <1>1 DEF ReadContext
  <1>2. CASE WriteLocal(c)     BY <1>2 DEF WriteLocal
  <1>3. CASE PushAccepted(c)   BY <1>3 DEF PushAccepted
  <1>4. CASE PushRejected(c)   BY <1>4 DEF PushRejected
  <1>5. CASE RecordSuccess(c)  BY <1>5 DEF RecordSuccess
  <1>6. CASE Rollback(c)       BY <1>6 DEF Rollback
  <1>7. CASE RecordFailure(c)  BY <1>7 DEF RecordFailure
  <1>8. QED
    BY <1>1, <1>2, <1>3, <1>4, <1>5, <1>6, <1>7 DEF Step

LEMMA AgreementInductive ==
  TypeOK /\ WellFormed /\ AgreementInv /\ [Next]_vars => AgreementInv'
  <1> SUFFICES ASSUME TypeOK, WellFormed, AgreementInv, [Next]_vars, Undisturbed'
               PROVE  AgreementInv'
    BY DEF AgreementInv
  <1>1. CASE UNCHANGED vars
    BY <1>1 DEF vars, data, locals, history, AgreementInv, Undisturbed, OneAtATime, InStep, Quiet
  <1>2. CASE \E c \in Caller : StatementFails(c)
    BY <1>2 DEF StatementFails, Undisturbed, TypeOK
  <1>3. CASE Crash \/ \E p \in Product, x \in Price : EditPrice(p, x) \/ EditLimits(p, x)
    BY <1>3 DEF Crash, EditPrice, EditLimits, Undisturbed, TypeOK
  <1>4. QED
    BY <1>1, <1>2, <1>3, AgreementCall, AgreementStep DEF Next

(* One call at a time on a product is enough for the database and the      *)
(* storefront to agree between calls, however the pushes are answered.     *)
THEOREM AgreementWhenApart == Safe => []StorefrontAgreement
  <1>1. Init => AgreementInv
    BY DEF Init, AgreementInv, OneAtATime, InStep, Quiet, InFlight
  <1>2. Safe => [](TypeOK /\ WellFormed /\ AgreementInv)
    BY <1>1, InitTyped, NextTyped, AgreementInductive, PTL DEF Safe
  <1>3. AgreementInv => StorefrontAgreement
    BY DEF AgreementInv, StorefrontAgreement, Undisturbed
  <1>4. QED
    BY <1>2, <1>3, PTL
=============================================================================

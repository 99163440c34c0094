---------------------------------- MODULE Export --------------------------------
(***************************************************************************)
(* ExportButton: the recommendations of one status, walked through the     *)
(* endpoint page by page and downloaded, while decisions change their      *)
(* statuses and a product's deletion removes them.                         *)
(***************************************************************************)
EXTENDS Paging

CONSTANTS
  MaxRecs,      \* bound: recommendations ever made
  PageSize,     \* 100
  MaxRows,      \* 1000
  MaxDecisions  \* bound: changes of a status, and deletions

VARIABLES
  made, alive,   \* server: how many were made; those that exist
  wanted,        \* those with the status that is exported
  file,          \* the walk of run
  decisions,
  stayed,        \* history: had the status from the start of the walk
  slipped        \* history: a page was read from a row without the status

exportVars == <<made, alive, wanted, file, decisions, stayed, slipped>>

RecId == 1..MaxRecs

TypeOK ==
  /\ made \in 0..MaxRecs /\ alive \subseteq 1..made /\ wanted \subseteq alive
  /\ file \in [at : {"idle", "walking", "done", "error"}, rows : SUBSET RecId, count : 0..MaxRows, cursor : RecId \cup {Start}]
  /\ decisions \in 0..MaxDecisions
  /\ stayed \subseteq RecId /\ slipped \in BOOLEAN

NoFile == [at |-> "idle", rows |-> {}, count |-> 0, cursor |-> Start]

Init ==
  /\ made \in 0..MaxRecs /\ alive = 1..made /\ wanted \in SUBSET alive
  /\ file = NoFile /\ decisions = 0 /\ stayed = {} /\ slipped = FALSE

(* A new recommendation is the newest row. *)
Make ==
  /\ made < MaxRecs /\ made' = made + 1
  /\ alive' = alive \cup {made'} /\ wanted' = wanted \cup {made'}
  /\ UNCHANGED <<file, decisions, stayed, slipped>>

Decided == decisions < MaxDecisions /\ decisions' = decisions + 1

(* A decision or an undo moves a row out of the status or into it.         *)
Resolve(r) ==
  /\ Decided /\ r \in alive
  /\ wanted' = IF r \in wanted THEN wanted \ {r} ELSE wanted \cup {r}
  /\ stayed' = stayed \ {r}
  /\ UNCHANGED <<made, alive, file, slipped>>

(* The product is deleted, and its recommendations with it. *)
Delete(r) ==
  /\ Decided /\ r \in alive
  /\ alive' = alive \ {r} /\ wanted' = wanted \ {r} /\ stayed' = stayed \ {r}
  /\ UNCHANGED <<made, file, slipped>>

(* busy keeps the button from starting a second walk.                      *)
Run ==
  /\ file.at # "walking"
  /\ file' = [NoFile EXCEPT !.at = "walking"]
  /\ stayed' = wanted /\ slipped' = FALSE
  /\ UNCHANGED <<made, alive, wanted, decisions>>

(* One turn of the loop, its rows capped at the end.                       *)
Walk ==
  LET page == PageOf(wanted, alive, file.cursor, PageSize)
      over == page.next = Start \/ file.count + Cardinality(page.items) >= MaxRows
      rows == file.rows \cup page.items
      kept == IF over THEN Newest(rows, MaxRows) ELSE rows
  IN /\ file.at = "walking"
     /\ file' = [at |-> IF over THEN "done" ELSE "walking", rows |-> kept, count |-> Cardinality(kept),
                 cursor |-> IF over THEN Start ELSE page.next]
     /\ slipped' = (slipped \/ file.cursor \notin wanted \cup {Start})
     /\ UNCHANGED <<made, alive, wanted, decisions, stayed>>

Fail ==
  /\ file.at = "walking"
  /\ file' = [NoFile EXCEPT !.at = "error"]
  /\ UNCHANGED <<made, alive, wanted, decisions, stayed, slipped>>

Next ==
  \/ Make \/ Run \/ Walk \/ Fail
  \/ \E r \in RecId : Resolve(r) \/ Delete(r)

Spec == Init /\ [][Next]_exportVars

-----------------------------------------------------------------------------
(* A finished file has every recommendation that had the status from the   *)
(* first page to the last, up to the cap, as long as no page was read from *)
(* a row that had lost it.                                                 *)
Complete == file.count >= MaxRows \/ stayed \subseteq file.rows
ExportIsComplete == file.at = "done" /\ ~slipped => Complete

(* Refuted: a finished file is complete. *)
DoneMeansComplete == file.at = "done" => Complete
=============================================================================

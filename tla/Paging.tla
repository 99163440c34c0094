--------------------------------- MODULE Paging ---------------------------------
(***************************************************************************)
(* Reading a list newest first by cursor, as the repositories of the audit *)
(* log and of the recommendations do (orderBy createdAt and id descending, *)
(* cursor and skip: 1, take: limit + 1).  A row is its place in that       *)
(* order, the newest the greatest.                                         *)
(***************************************************************************)
EXTENDS Integers, FiniteSets, FiniteSetsExt, Sequences

Start == 0   \* no cursor

(* The first k of a set, newest first. *)
Newest(rows, k) == {r \in rows : Cardinality({s \in rows : s > r}) < k}

(* skip: 1 leaves out the first row that matches at or after the cursor,   *)
(* which is the cursor's as long as it matches.                            *)
After(rows, cursor) ==
  LET rest == {r \in rows : r <= cursor}
  IN IF cursor = Start THEN rows ELSE rest \ Newest(rest, 1)

(* A plausible bug: the cursor is the row that was read to see whether     *)
(* there is more.                                                          *)
NextCursorAhead(found, limit) ==
  IF Cardinality(found) <= limit THEN Start ELSE Min(Newest(found, limit + 1))

(* The last row of the page, if one more row showed that there is more.    *)
NextCursor(found, limit) ==
  IF Cardinality(found) <= limit THEN Start ELSE Min(Newest(found, limit))

(* A cursor whose row is gone compares with nothing. *)
PageOf(rows, existing, cursor, limit) ==
  LET found == IF cursor \in existing \cup {Start} THEN After(rows, cursor) ELSE {}
  IN [items |-> Newest(found, limit), next |-> NextCursor(found, limit)]
=============================================================================

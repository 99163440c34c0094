------------------------------ MODULE PagesProofs ------------------------------
(***************************************************************************)
(* The pages, for any number of recommendations, products, organizations,  *)
(* entries and requests under way: the queue at rest is current, the       *)
(* decision page coherent, the catalog's table current and no edit of it   *)
(* undone, the settings saved as chosen and their lists current, and what  *)
(* is read by cursor has no holes.                                         *)
(*                                                                         *)
(* Each part has an invariant of its own, which the steps of the others    *)
(* leave alone; the last section puts them together.                       *)
(***************************************************************************)
EXTENDS Pages, Sequences, TLAPS, FiniteSetTheorems, WellFoundedInduction

-----------------------------------------------------------------------------
(* Numbers. *)

(* A set of naturals has a least element, and if it is finite a greatest.  *)
LEMMA MinExists ==
  ASSUME NEW N \in SUBSET Nat, N # {}
  PROVE  D!Min(N) \in N /\ \A y \in N : D!Min(N) <= y
  <1>1. \A x, y \in Nat : y < x => <<y, x>> \in OpToRel(<, Nat)
    BY DEF OpToRel
  <1>2. PICK less : IsWellFoundedOn(less, Nat) /\ \A x, y \in Nat : y < x => <<y, x>> \in less
    BY <1>1, NatLessThanWellFounded, Zenon
  <1>3. PICK x \in N : \A y \in N : <<y, x>> \notin less
    BY <1>2, WFMin
  <1>4. \A y \in N : x \in Nat /\ y \in Nat /\ ~(y < x)
    BY <1>2, <1>3, Zenon
  <1>5. QED
    <2>1. \A y \in N : x <= y
      BY <1>4
    <2>2. QED
      BY <2>1 DEF D!Min

LEMMA MaxExists ==
  ASSUME NEW N \in SUBSET Nat, N # {}, IsFiniteSet(N)
  PROVE  D!Max(N) \in N /\ \A y \in N : D!Max(N) >= y
  <1> DEFINE Above(x) == {y \in N : y > x}
             Counts == {Cardinality(Above(x)) : x \in N}
  <1>1. \A x \in N : IsFiniteSet(Above(x)) /\ Cardinality(Above(x)) \in Nat
    BY FS_Subset, FS_CardinalityType
  <1>2. Counts \in SUBSET Nat /\ Counts # {}
    BY <1>1
  <1>3. PICK x \in N : \A y \in N : Cardinality(Above(x)) <= Cardinality(Above(y))
    <2> HIDE DEF Above
    <2>1. D!Min(Counts) \in Counts /\ \A c \in Counts : D!Min(Counts) <= c
      <3> HIDE DEF Counts
      <3>1. QED
        BY <1>2, MinExists
    <2>2. PICK x \in N : Cardinality(Above(x)) = D!Min(Counts)
      BY <2>1
    <2>3. QED
      BY <2>1, <2>2
  <1>4. ASSUME NEW y \in N, y > x
        PROVE  FALSE
    <2>1. Above(y) \subseteq Above(x) /\ Above(y) # Above(x)
      <3>1. x \in Nat /\ y \in Nat /\ y > x
        BY <1>4
      <3>2. \A z \in N : z > y => z > x
        BY <3>1
      <3>3. Above(y) \subseteq Above(x)
        BY <3>2
      <3>4. y \in Above(x) /\ y \notin Above(y)
        BY <3>1
      <3>5. QED
        BY <3>3, <3>4
    <2>2. Cardinality(Above(y)) < Cardinality(Above(x))
      <3> HIDE DEF Above
      <3>1. QED
        BY <1>1, <2>1, FS_Subset
    <2>3. QED
      BY <1>1, <1>3, <2>2
  <1>5. \A y \in N : x >= y
    BY <1>4
  <1>6. QED
    BY <1>5 DEF D!Max

LEMMA SameCardinality ==
  \A set : /\ T!Cardinality(set) = Cardinality(set)
           /\ X!Cardinality(set) = Cardinality(set)
           /\ S!Cardinality(set) = Cardinality(set)
  <1>1. \A set : T!Cardinality(set) = Cardinality(set)
    BY Zenon DEF T!Cardinality, Cardinality
  <1>2. \A set : X!Cardinality(set) = Cardinality(set)
    BY Zenon DEF X!Cardinality, Cardinality
  <1>3. \A set : S!Cardinality(set) = Cardinality(set)
    BY Zenon DEF S!Cardinality, Cardinality
  <1>4. QED
    BY <1>1, <1>2, <1>3

-----------------------------------------------------------------------------
(* The queue's requests. *)

(* A new request has read nothing yet. *)
LEMMA SentTyped ==
  ASSUME NEW awaited \in SUBSET (1..MaxMutations)
  PROVE  Sent(awaited) \in Fetch /\ Sent(awaited).at = "sent"
  BY DEF Sent, Fetch

(* The end of a decision asks for a new read. *)
LEMMA InvalidateSends ==
  ASSUME TypeOK, NEW m \in mutations, Invalidate(m)
  PROVE  /\ invalid' = TRUE
         /\ fetch' \in Fetch \cup {None} /\ (fetch' # None => page /\ fetch'.at = "sent")
  <1>1. {m.n} \in SUBSET (1..MaxMutations)
    BY DEF TypeOK, Mutation
  <1>2. Sent({m.n}) \in Fetch /\ Sent({m.n}).at = "sent"
    BY <1>1, SentTyped
  <1> HIDE DEF Sent
  <1>3. QED
    BY <1>2 DEF Invalidate

-----------------------------------------------------------------------------
(* Type correctness. *)

Distinct(all) ==
  \A m, other \in all :
    m.n = other.n \/ (m.kind = other.kind /\ m.current /\ other.current) => m = other

(* Following fewer mutations keeps them apart. *)
LEMMA UncurrentTyped ==
  ASSUME mutations \subseteq Mutation, Distinct(mutations), NEW kinds
  PROVE  /\ Uncurrent(kinds) \subseteq Mutation
         /\ Distinct(Uncurrent(kinds))
         /\ {m.n : m \in Uncurrent(kinds)} \subseteq {m.n : m \in mutations}
         /\ \A m \in Uncurrent(kinds) : m.kind \in kinds => ~m.current
  <1> DEFINE Less(m) == IF m.kind \in kinds THEN [m EXCEPT !.current = FALSE] ELSE m
  <1>1. \A m \in mutations : /\ Less(m) \in Mutation
                             /\ Less(m).n = m.n /\ Less(m).kind = m.kind
                             /\ Less(m).current => m.current
                             /\ m.kind \in kinds => ~Less(m).current
    BY DEF Mutation
  <1>2. Uncurrent(kinds) = {Less(m) : m \in mutations}
    BY DEF Uncurrent
  <1> HIDE DEF Less
  <1>3. Distinct(Uncurrent(kinds))
    BY <1>1, <1>2 DEF Distinct
  <1>4. QED
    BY <1>1, <1>2, <1>3

LEMMA MutateTyped ==
  ASSUME TypeOK, NEW kind \in Kind, NEW ids \in SUBSET Rec, NEW previous,
         previous \in SUBSET Rec, Mutate(kind, ids, previous)
  PROVE  mutations' \subseteq Mutation /\ Distinct(mutations')
  <1> DEFINE n == CHOOSE k \in Free : TRUE
             new == [n |-> n, kind |-> kind, at |-> "sent", ids |-> ids, left |-> ids, refused |-> FALSE,
                     previous |-> previous, current |-> page]
             old == Uncurrent({kind})
  <1>1. n \in Free /\ mutations' = old \cup {new}
    BY DEF Mutate
  <1>2. n \in 1..MaxMutations /\ n \notin {m.n : m \in mutations}
    BY <1>1 DEF Free
  <1>3. new \in Mutation
    BY <1>2 DEF Mutation, TypeOK
  <1>4. /\ old \subseteq Mutation /\ Distinct(old)
        /\ {m.n : m \in old} \subseteq {m.n : m \in mutations}
        /\ \A m \in old : m.kind = kind => ~m.current
    BY UncurrentTyped DEF TypeOK, Distinct
  <1>5. new.n = n /\ new.kind = kind
    OBVIOUS
  <1> HIDE DEF n, new, old
  <1>6. \A m \in old : m.n # new.n /\ ~(m.kind = new.kind /\ m.current)
    BY <1>2, <1>4, <1>5
  <1>7. QED
    BY <1>1, <1>3, <1>4, <1>6 DEF Distinct

(* A mutation the server has seen to keeps its number and its hook.        *)
LEMMA ChangedTyped ==
  ASSUME TypeOK, NEW m \in mutations, NEW next \in Mutation,
         next.n = m.n, next.kind = m.kind, next.current = m.current,
         mutations' = (mutations \ {m}) \cup {next}
  PROVE  mutations' \subseteq Mutation /\ Distinct(mutations')
  BY DEF TypeOK, Distinct

LEMMA HandleTyped ==
  ASSUME TypeOK, NEW m \in mutations, NEW r \in Rec, Handle(m, r)
  PROVE  mutations' \subseteq Mutation /\ Distinct(mutations')
  <1>1. PICK refused \in BOOLEAN :
          mutations' = (mutations \ {m}) \cup {[m EXCEPT !.left = @ \ {r}, !.refused = refused]}
    BY DEF Handle, TypeOK, Mutation
  <1> DEFINE next == [m EXCEPT !.left = @ \ {r}, !.refused = refused]
  <1>2. m \in Mutation
    BY DEF TypeOK
  <1>3. next \in Mutation /\ next.n = m.n /\ next.kind = m.kind /\ next.current = m.current
    BY <1>2 DEF Mutation
  <1>4. QED
    BY <1>1, <1>3, ChangedTyped

LEMMA BecomesTyped ==
  ASSUME TypeOK, NEW m \in mutations, NEW at \in {"done", "failed"}, Becomes(m, at)
  PROVE  mutations' \subseteq Mutation /\ Distinct(mutations')
  <1> DEFINE next == [m EXCEPT !.at = at, !.left = {}, !.refused = FALSE, !.previous = {}]
  <1>1. m \in Mutation
    BY DEF TypeOK
  <1>2. next \in Mutation /\ next.n = m.n /\ next.kind = m.kind /\ next.current = m.current
    BY <1>1 DEF Mutation
  <1>3. mutations' = (mutations \ {m}) \cup {next}
    BY DEF Becomes
  <1> HIDE DEF next
  <1>4. QED
    BY <1>2, <1>3, ChangedTyped

(* What is read of the queue is of the recommendations. *)
LEMMA FirstPageTyped == \A rows \in SUBSET Rec : FirstPage(rows) \in SUBSET Rec
  BY DEF FirstPage, Newest

LEMMA QueryTyped == TypeOK /\ Query => TypeOK'
  <1> SUFFICES ASSUME TypeOK, Query
               PROVE  TypeOK'
    OBVIOUS
  <1>0. Sent({}) \in Fetch
    BY SentTyped
  <1>1. CASE Refetch
    BY <1>0, <1>1 DEF Refetch, TypeOK
  <1>2. CASE FetchReads
    BY <1>2, FirstPageTyped DEF FetchReads, TypeOK, Fetch
  <1>3. CASE FetchArrives
    BY <1>3 DEF FetchArrives, TypeOK, Fetch
  <1>4. CASE FetchFails
    BY <1>4, BoundAssumption DEF FetchFails, Event, TypeOK
  <1>5. CASE Leave
    <2>1. mutations' \subseteq Mutation /\ Distinct(mutations')
      BY <1>5, UncurrentTyped DEF Leave, TypeOK, Distinct
    <2>2. events' \in 0..MaxEvents
      BY <1>5, BoundAssumption DEF Leave, Event, TypeOK
    <2>3. fetch' = None /\ page' = FALSE /\ UNCHANGED <<pending, list, invalid, toast, changed>>
      BY <1>5 DEF Leave
    <2>4. QED
      BY <2>1, <2>2, <2>3, Zenon DEF TypeOK, Distinct
  <1>6. CASE Return
    BY <1>0, <1>6 DEF Return, TypeOK
  <1>7. QED
    BY <1>1, <1>2, <1>3, <1>4, <1>5, <1>6 DEF Query

LEMMA AnalystTyped == TypeOK /\ Analyst => TypeOK'
  <1> SUFFICES ASSUME TypeOK, Analyst
               PROVE  TypeOK'
    OBVIOUS
  <1>1. ASSUME NEW kind, NEW ids, NEW previous, Mutate(kind, ids, previous)
        PROVE  UNCHANGED <<pending, page, events, changed>>
    BY <1>1 DEF Mutate
  <1>2. ASSUME NEW r \in Rec, Approve(r)
        PROVE  TypeOK'
    <2>1. mutations' \subseteq Mutation /\ Distinct(mutations')
      BY <1>2, MutateTyped DEF Approve, Kind, TypeOK
    <2>2. QED
      BY <1>1, <1>2, <2>1 DEF Approve, TypeOK, Distinct
  <1>3. ASSUME NEW r \in Rec, Reject(r) \/ Modify(r)
        PROVE  TypeOK'
    <2>1. mutations' \subseteq Mutation /\ Distinct(mutations')
      BY <1>3, MutateTyped DEF Reject, Modify, Kind
    <2>2. QED
      BY <1>1, <1>3, <2>1 DEF Reject, Modify, TypeOK, Distinct
  <1>4. ASSUME NEW ids \in SUBSET Rec, BatchApprove(ids)
        PROVE  TypeOK'
    <2>1. mutations' \subseteq Mutation /\ Distinct(mutations')
      BY <1>4, MutateTyped DEF BatchApprove, Kind
    <2>2. QED
      BY <1>1, <1>4, <2>1 DEF BatchApprove, TypeOK, Distinct
  <1>5. CASE Undo
    <2>1. mutations' \subseteq Mutation /\ Distinct(mutations')
      BY <1>5, MutateTyped DEF Undo, Kind, TypeOK
    <2>2. QED
      BY <1>1, <1>5, <2>1 DEF Undo, TypeOK, Distinct
  <1>6. CASE Expire
    BY <1>6 DEF Expire, TypeOK
  <1>7. QED
    BY <1>2, <1>3, <1>4, <1>5, <1>6 DEF Analyst

LEMMA EndTyped ==
  ASSUME TypeOK, NEW m \in mutations, Answered(m) \/ Lose(m)
  PROVE  TypeOK'
  <1>1. m \in Mutation
    BY DEF TypeOK
  <1>2. Invalidate(m) /\ \E at \in {"done", "failed"} : Becomes(m, at)
    BY DEF Answered, Lose, Success, Failure
  <1>3. mutations' \subseteq Mutation /\ Distinct(mutations')
    BY <1>2, BecomesTyped
  <1>4. list' \subseteq Rec
    BY <1>1 DEF Answered, Lose, Success, Failure, Mutation, TypeOK
  <1>5. UNCHANGED <<pending, page, toast, changed>> /\ events' \in 0..MaxEvents
    BY BoundAssumption DEF Answered, Lose, Event, TypeOK
  <1>6. QED
    BY <1>2, <1>3, <1>4, <1>5, InvalidateSends DEF TypeOK, Distinct

LEMMA SettleTyped ==
  ASSUME TypeOK, NEW m \in mutations, Settle(m)
  PROVE  TypeOK'
  <1>1. m \in Mutation
    BY DEF TypeOK
  <1>2. toast' \in Rec \cup {None}
    <2>1. toast' \in {None} \cup {toast} \cup m.ids
      BY <1>1 DEF Settle, Mutation, Kind
    <2>2. QED
      BY <1>1, <2>1 DEF Mutation, TypeOK
  <1>3. QED
    BY <1>2 DEF Settle, TypeOK

LEMMA TypeStep == TypeOK /\ [Next]_vars => TypeOK'
  <1> SUFFICES ASSUME TypeOK, [Next]_vars
               PROVE  TypeOK'
    OBVIOUS
  <1>1. CASE UNCHANGED vars
    BY <1>1 DEF vars, TypeOK
  <1>2. ASSUME NEW m \in mutations, NEW r \in Rec, Handle(m, r)
        PROVE  TypeOK'
    BY <1>2, HandleTyped DEF Handle, TypeOK, Distinct
  <1>3. ASSUME NEW r \in Rec, Foreign(r)
        PROVE  TypeOK'
    <2>1. fetch' \in Fetch \cup {None} /\ (fetch' # None => page)
      BY <1>3 DEF Foreign, TypeOK, Fetch
    <2>2. QED
      BY <1>3, <2>1, BoundAssumption DEF Foreign, Event, TypeOK
  <1>4. QED
    BY <1>1, <1>2, <1>3, QueryTyped, AnalystTyped, EndTyped, SettleTyped DEF Next

LEMMA InitTyped == Init => TypeOK
  <1> SUFFICES ASSUME Init
               PROVE  TypeOK
    OBVIOUS
  <1>1. 0 \in 0..MaxEvents
    BY BoundAssumption
  <1>2. page = TRUE /\ fetch = None /\ mutations = {}
    BY DEF Init
  <1>3. pending \subseteq Rec /\ list \subseteq Rec
    BY FirstPageTyped DEF Init
  <1>4. QED
    BY <1>1, <1>2, <1>3, Zenon DEF Init, TypeOK

(* Every variable of Queue keeps its type, the decisions under way their   *)
(* numbers, and each hook follows one of them at most.                     *)
THEOREM QueueTypeCorrect == Spec => []TypeOK
  BY InitTyped, TypeStep, PTL DEF Spec

-----------------------------------------------------------------------------
(* The queue at rest. *)

Undecided == {m \in mutations : m.at = "sent"}

(* Rows are the first page of what was pending, but for some changes. *)
Agrees(rows, but) ==
  \E read \in SUBSET Rec :
    /\ \A r \in Rec \ but : r \in read <=> r \in pending
    /\ rows = FirstPage(read)

(* Whenever no decision waits for its answer, a list that is not known to  *)
(* be out of date is right, and so is an answer on its way: what a         *)
(* decision spoils it settles by a new request.                            *)
Settled ==
  Undecided = {} =>
    /\ ~invalid => Agrees(list, changed)
    /\ (fetch # None /\ fetch.at = "read") => Agrees(fetch.rows, fetch.missed)

QueueInv == TypeOK /\ Settled

LEMMA InitSettled == Init => QueueInv
  <1>1. Init => Agrees(list, changed)
    BY DEF Init, Agrees
  <1>2. QED
    BY <1>1, InitTyped DEF Init, QueueInv, Settled

LEMMA QueryKeeps ==
  ASSUME QueueInv, Query
  PROVE  Settled'
  <1> USE DEF QueueInv, Settled, Agrees, Undecided
  <1>0. Sent({}) \in Fetch /\ Sent({}).at = "sent"
    BY SentTyped
  <1>1. CASE Refetch
    BY <1>0, <1>1 DEF Refetch
  <1>2. CASE FetchReads
    <2>1. fetch' \in Fetch /\ fetch'.rows = FirstPage(pending)
      BY <1>2, FirstPageTyped DEF FetchReads, TypeOK, Fetch
    <2>2. Agrees(fetch.rows, fetch.missed)'
      BY <1>2, <2>1 DEF FetchReads, TypeOK
    <2>3. QED
      BY <1>2, <2>2 DEF FetchReads
  <1>3. CASE FetchArrives
    BY <1>3 DEF FetchArrives
  <1>4. CASE FetchFails
    BY <1>4 DEF FetchFails
  <1>5. CASE Leave
    <2>1. Undecided' = {} => Undecided = {}
      <3>1. \A m \in mutations : [m EXCEPT !.current = FALSE].at = m.at
        BY DEF TypeOK, Mutation
      <3>2. QED
        BY <1>5, <3>1 DEF Leave, Uncurrent
    <2>2. QED
      BY <1>5, <2>1 DEF Leave
  <1>6. CASE Return
    BY <1>0, <1>6 DEF Return
  <1>7. QED
    BY <1>1, <1>2, <1>3, <1>4, <1>5, <1>6 DEF Query

(* A decision on its way claims nothing. *)
LEMMA AnalystKeeps ==
  ASSUME QueueInv, Analyst
  PROVE  Settled'
  <1>1. ASSUME NEW kind, NEW ids, NEW previous, Mutate(kind, ids, previous)
        PROVE  Settled'
    <2> DEFINE new == [n |-> CHOOSE k \in Free : TRUE, kind |-> kind, at |-> "sent", ids |-> ids,
                       left |-> ids, refused |-> FALSE, previous |-> previous, current |-> page]
    <2>1. new \in mutations' /\ new.at = "sent"
      BY <1>1 DEF Mutate
    <2>2. QED
      BY <2>1 DEF Settled, Undecided
  <1>2. CASE Expire
    BY <1>2 DEF Expire, QueueInv, Settled, Undecided, Agrees
  <1>3. QED
    BY <1>1, <1>2 DEF Analyst, Approve, Reject, Modify, BatchApprove, Undo

LEMMA ServerKeeps ==
  ASSUME QueueInv, NEW m \in mutations,
         (\E r \in Rec : Handle(m, r)) \/ Answered(m) \/ Lose(m) \/ Settle(m)
  PROVE  Settled'
  <1>1. m \in Mutation
    BY DEF QueueInv, TypeOK
  <1>2. ASSUME NEW r \in Rec, Handle(m, r)
        PROVE  Settled'
    <2>1. PICK refused :
            mutations' = (mutations \ {m}) \cup {[m EXCEPT !.left = @ \ {r}, !.refused = refused]}
      BY <1>2 DEF Handle
    <2>2. [m EXCEPT !.left = @ \ {r}, !.refused = refused].at = "sent"
      BY <1>1, <1>2 DEF Handle, Mutation
    <2>3. Undecided' # {}
      BY <2>1, <2>2 DEF Undecided
    <2>4. QED
      BY <2>3 DEF Settled
  <1>3. CASE Answered(m) \/ Lose(m)
    BY <1>3, InvalidateSends DEF Answered, Lose, Success, Failure, QueueInv, Settled
  <1>4. CASE Settle(m)
    BY <1>4 DEF Settle, QueueInv, Settled, Undecided, Agrees
  <1>5. QED
    BY <1>2, <1>3, <1>4

(* What others change is changed since the list and since the answer. *)
LEMMA ForeignKeeps ==
  ASSUME QueueInv, NEW r \in Rec, Foreign(r)
  PROVE  Settled'
  <1>1. \A s \in Rec \ {r} : s \in pending' <=> s \in pending
    BY DEF Foreign
  <1>2. Undecided' = {} /\ ~invalid' => Agrees(list, changed)'
    BY <1>1 DEF Foreign, QueueInv, Settled, Agrees, Undecided
  <1>3. ASSUME Undecided' = {}, fetch' # None, fetch'.at = "read"
        PROVE  Agrees(fetch.rows, fetch.missed)'
    <2>1. fetch # None /\ fetch.at = "read" /\ fetch \in Fetch
      BY <1>3 DEF Foreign, QueueInv, TypeOK, Fetch
    <2>2. fetch'.rows = fetch.rows /\ fetch'.missed = fetch.missed \cup {r}
      BY <2>1 DEF Foreign, Fetch
    <2>3. QED
      BY <1>1, <1>3, <2>1, <2>2 DEF Foreign, QueueInv, Settled, Agrees, Undecided
  <1>4. QED
    BY <1>2, <1>3 DEF Settled

LEMMA QueueStep == QueueInv /\ [Next]_vars => QueueInv'
  <1> SUFFICES ASSUME QueueInv, [Next]_vars
               PROVE  Settled'
    BY TypeStep DEF QueueInv
  <1>1. CASE UNCHANGED vars
    BY <1>1 DEF vars, QueueInv, Settled, Agrees, Undecided
  <1>2. CASE Next
    BY <1>2, QueryKeeps, AnalystKeeps, ServerKeeps, ForeignKeeps DEF Next
  <1>3. QED
    BY <1>1, <1>2

-----------------------------------------------------------------------------
(* The two lists of the settings page. *)

ListRow ==
  [server : SUBSET L!Row, shown : SUBSET L!Row, writes : SUBSET L!Write,
   fetch : [at : {"none", "sent"}] \cup [at : {"read"}, rows : SUBSET L!Row], behind : BOOLEAN]

ListsTyped == section \in [L!Section -> ListRow] /\ changes \in 0..MaxChanges

(* A write after which its list will be fetched, or be known as behind.    *)
WillFetch(s) ==
  \E w \in section[s].writes : w.at = "expired" \/ (w.at \in {"done", "failed"} /\ L!FetchedAfter(s, s, w))

(* What is shown, or has been read to be shown, is the server's, unless a  *)
(* fetch is to be asked for, one failed, or an answer was wrong.           *)
ListFollows(s) ==
  \/ WillFetch(s)
  \/ section[s].behind
  \/ /\ section[s].fetch.at = "none" => section[s].shown = section[s].server
     /\ section[s].fetch.at = "read" => section[s].fetch.rows = section[s].server

ListsInv == ListsTyped /\ \A s \in L!Section : ListFollows(s)

LEMMA ListsBegin == L!Init => ListsInv
  BY SizeAssumption DEF L!Init, ListsInv, ListsTyped, ListRow, ListFollows, L!Section, L!NoFetch

LEMMA InTyped ==
  ASSUME ListsTyped, NEW s \in L!Section, NEW next \in ListRow, L!In(s, next)
  PROVE  section' \in [L!Section -> ListRow] /\ section'[s] = next
         /\ \A t \in L!Section : t # s => section'[t] = section[t]
  BY DEF L!In, ListsTyped

(* A list that changes keeps the other as it is. *)
LEMMA InFollows ==
  ASSUME ListsInv, NEW s \in L!Section, NEW next \in ListRow, L!In(s, next), changes' \in 0..MaxChanges,
         ListFollows(s)'
  PROVE  ListsInv'
  <1>1. section' \in [L!Section -> ListRow] /\ \A t \in L!Section : t # s => section'[t] = section[t]
    BY InTyped DEF ListsInv
  <1>2. ASSUME NEW t \in L!Section, t # s
        PROVE  ListFollows(t)'
    BY <1>1, <1>2 DEF ListsInv, ListFollows, WillFetch, L!FetchedAfter
  <1>3. QED
    BY <1>1, <1>2 DEF ListsInv, ListsTyped

(* A list that is about to be fetched, or behind, follows. *)
LEMMA NextFollows ==
  ASSUME ListsInv, NEW s \in L!Section, NEW next \in ListRow, L!In(s, next), changes' \in 0..MaxChanges,
         \/ \E w \in next.writes : w.at = "expired" \/ (w.at \in {"done", "failed"} /\ L!FetchedAfter(s, s, w))
         \/ next.behind
         \/ /\ next.fetch.at = "none" => next.shown = next.server
            /\ next.fetch.at = "read" => next.fetch.rows = next.server
  PROVE  ListsInv'
  <1>1. section'[s] = next
    BY InTyped DEF ListsInv
  <1>2. ListFollows(s)'
    BY <1>1 DEF ListFollows, WillFetch, L!FetchedAfter
  <1>3. QED
    BY <1>2, InFollows

LEMMA AskingFollows ==
  ASSUME ListsInv, NEW s \in L!Section, NEW op \in {"put", "delete"}, NEW row \in L!Row, L!Asked(s, op, row)
  PROVE  ListsInv'
  <1> DEFINE next == [section[s] EXCEPT !.writes = @ \cup {[op |-> op, row |-> row, at |-> "sent"]}]
  <1>1. section[s] \in ListRow /\ ListFollows(s) /\ changes \in 0..MaxChanges
    BY DEF ListsInv, ListsTyped
  <1>2. next \in ListRow
    BY <1>1 DEF ListRow, L!Write
  <1>3. next.fetch = section[s].fetch /\ next.shown = section[s].shown /\ next.server = section[s].server
        /\ next.behind = section[s].behind /\ section[s].writes \subseteq next.writes
    BY <1>1 DEF ListRow
  <1>4. L!In(s, next) /\ changes' \in 0..MaxChanges
    BY <1>1, SizeAssumption DEF L!Asked
  <1> HIDE DEF next
  <1>5. QED
    BY <1>1, <1>2, <1>3, <1>4, NextFollows DEF ListFollows, WillFetch

LEMMA WriteGoesOn ==
  ASSUME ListsInv, NEW s \in L!Section, NEW w \in section[s].writes, NEW at \in {"expired", "done", "failed"}
  PROVE  /\ L!After(s, w, at) \in SUBSET L!Write
         /\ \E x \in L!After(s, w, at) : x.at = at
         /\ \A x \in section[s].writes : x # w => x \in L!After(s, w, at)
  <1>1. section[s] \in ListRow
    BY DEF ListsInv, ListsTyped
  <1>2. w \in L!Write
    BY <1>1 DEF ListRow
  <1>3. [w EXCEPT !.at = at] \in L!Write /\ [w EXCEPT !.at = at].at = at
    BY <1>2 DEF L!Write
  <1>4. QED
    BY <1>1, <1>3 DEF L!After, ListRow

LEMMA MadeIsTyped ==
  ASSUME ListsInv, NEW s \in L!Section, NEW w \in section[s].writes
  PROVE  L!Made(s, w) \in SUBSET L!Row /\ L!Others(s, w.row) \in SUBSET L!Row
  <1>1. section[s] \in ListRow
    BY DEF ListsInv, ListsTyped
  <1>2. w \in L!Write /\ section[s].server \in SUBSET L!Row
    BY <1>1 DEF ListRow
  <1>3. w.row \in L!Row
    BY <1>2 DEF L!Write
  <1>4. QED
    BY <1>2, <1>3 DEF L!Made, L!Others

LEMMA ExpiringFollows ==
  ASSUME ListsInv, NEW w \in section["invites"].writes, L!Expire(w)
  PROVE  ListsInv'
  <1> DEFINE rows == L!Others("invites", w.row)
             writes == L!After("invites", w, "expired")
             next == [section["invites"] EXCEPT !.server = rows, !.writes = writes]
  <1>1. "invites" \in L!Section /\ section["invites"] \in ListRow /\ changes \in 0..MaxChanges
    BY DEF ListsInv, ListsTyped, L!Section
  <1>2. rows \in SUBSET L!Row /\ writes \in SUBSET L!Write /\ \E x \in writes : x.at = "expired"
    BY <1>1, MadeIsTyped, WriteGoesOn
  <1>3. L!In("invites", next) /\ changes' = changes
    BY DEF L!Expire
  <1> HIDE DEF rows, writes
  <1>4. next \in ListRow /\ next.writes = writes
    BY <1>1, <1>2 DEF ListRow
  <1> HIDE DEF next
  <1>5. QED
    BY <1>1, <1>2, <1>3, <1>4, NextFollows

LEMMA SucceedingFollows ==
  ASSUME ListsInv, NEW s \in L!Section, NEW w \in section[s].writes, L!Succeed(s, w)
  PROVE  ListsInv'
  <1> DEFINE rows == L!Made(s, w)
             writes == L!After(s, w, "done")
             next == [section[s] EXCEPT !.server = rows, !.writes = writes]
  <1>1. section[s] \in ListRow /\ changes \in 0..MaxChanges
    BY DEF ListsInv, ListsTyped
  <1>2. rows \in SUBSET L!Row /\ writes \in SUBSET L!Write /\ \E x \in writes : x.at = "done"
    BY MadeIsTyped, WriteGoesOn
  <1>3. L!In(s, next) /\ changes' = changes
    BY DEF L!Succeed
  <1> HIDE DEF rows, writes
  <1>4. next \in ListRow /\ next.writes = writes
    BY <1>1, <1>2 DEF ListRow
  <1> HIDE DEF next
  <1>5. QED
    BY <1>1, <1>2, <1>3, <1>4, NextFollows DEF L!FetchedAfter, L!Section

LEMMA FailingFollows ==
  ASSUME ListsInv, NEW s \in L!Section, NEW w \in section[s].writes, L!Fail(s, w)
  PROVE  ListsInv'
  <1> DEFINE rows == L!Made(s, w)
             writes == L!After(s, w, "failed")
             kept == [section[s] EXCEPT !.writes = writes, !.behind = @ \/ w.at = "expired"]
             lost == [section[s] EXCEPT !.server = rows, !.writes = writes, !.behind = @ \/ s = "invites"]
  <1>1. section[s] \in ListRow /\ ListFollows(s) /\ changes \in 0..MaxChanges
    BY DEF ListsInv, ListsTyped
  <1>2. /\ rows \in SUBSET L!Row /\ writes \in SUBSET L!Write /\ \E x \in writes : x.at = "failed"
        /\ \A x \in section[s].writes : x # w => x \in writes
    BY MadeIsTyped, WriteGoesOn
  <1>3. (L!In(s, kept) \/ L!In(s, lost)) /\ changes' = changes /\ w.at \in {"sent", "expired"}
    BY DEF L!Fail
  <1> HIDE DEF rows, writes
  <1>4. CASE L!In(s, kept)
    <2>1. kept \in ListRow /\ kept.writes = writes /\ kept.behind = (section[s].behind \/ w.at = "expired")
      BY <1>1, <1>2 DEF ListRow
    <2>2. kept.fetch = section[s].fetch /\ kept.shown = section[s].shown /\ kept.server = section[s].server
      BY <1>1 DEF ListRow
    <2> HIDE DEF kept
    <2>3. WillFetch(s) => w.at = "expired"
            \/ \E x \in writes : x.at = "expired" \/ (x.at \in {"done", "failed"} /\ L!FetchedAfter(s, s, x))
      BY <1>2, <1>3 DEF WillFetch
    <2>4. \/ \E x \in kept.writes : x.at = "expired" \/ (x.at \in {"done", "failed"} /\ L!FetchedAfter(s, s, x))
          \/ kept.behind
          \/ /\ kept.fetch.at = "none" => kept.shown = kept.server
             /\ kept.fetch.at = "read" => kept.fetch.rows = kept.server
      BY <1>1, <2>1, <2>2, <2>3 DEF ListFollows
    <2>5. QED
      BY <1>1, <1>3, <1>4, <2>1, <2>4, NextFollows
  <1>5. CASE L!In(s, lost)
    <2>1. lost \in ListRow /\ lost.writes = writes /\ lost.behind = (section[s].behind \/ s = "invites")
      BY <1>1, <1>2 DEF ListRow
    <2> HIDE DEF lost
    <2>2. QED
      BY <1>1, <1>2, <1>3, <1>5, <2>1, NextFollows DEF L!FetchedAfter, L!Section
  <1>6. QED
    BY <1>3, <1>4, <1>5

(* An answer has the list fetched, the other one too, or leaves nothing    *)
(* that was to be fetched.                                                 *)
LEMMA AnsweringFollows ==
  ASSUME ListsInv, NEW s \in L!Section, NEW w \in section[s].writes, L!Answered(s, w)
  PROVE  ListsInv'
  <1> DEFINE rest(t) == IF t = s THEN [section[s] EXCEPT !.writes = @ \ {w}] ELSE section[t]
  <1>1. section \in [L!Section -> ListRow] /\ (\A t \in L!Section : ListFollows(t)) /\ changes' \in 0..MaxChanges
    BY DEF ListsInv, ListsTyped, L!Answered
  <1>2. \A t \in L!Section : section'[t] = IF L!FetchedAfter(s, t, w) THEN [rest(t) EXCEPT !.fetch = L!Sent] ELSE rest(t)
    BY DEF L!Answered
  <1>3. section' = [t \in L!Section |-> section'[t]]
    BY DEF L!Answered
  <1>4. \A t \in L!Section : rest(t) \in ListRow
    BY <1>1 DEF ListRow
  <1>5. ASSUME NEW t \in L!Section
        PROVE  section'[t] \in ListRow /\ (L!FetchedAfter(s, t, w) => section'[t].fetch.at = "sent")
    <2> DEFINE r == rest(t)
    <2>1. r \in ListRow /\ section'[t] = IF L!FetchedAfter(s, t, w) THEN [r EXCEPT !.fetch = L!Sent] ELSE r
      BY <1>2, <1>4
    <2> HIDE DEF r, rest
    <2>2. [r EXCEPT !.fetch = L!Sent] \in ListRow /\ [r EXCEPT !.fetch = L!Sent].fetch.at = "sent"
      BY <2>1 DEF ListRow, L!Sent
    <2>3. QED
      BY <2>1, <2>2
  <1>6. ASSUME NEW t \in L!Section
        PROVE  ListFollows(t)'
    <2>1. CASE L!FetchedAfter(s, t, w)
      <3>1. section'[t].fetch.at = "sent"
        BY <1>5, <2>1
      <3>2. QED
        BY <3>1 DEF ListFollows
    <2>2. CASE ~L!FetchedAfter(s, t, w) /\ t = s
      <3>1. /\ section'[s].writes = section[s].writes \ {w} /\ section'[s].fetch = section[s].fetch
            /\ section'[s].shown = section[s].shown /\ section'[s].server = section[s].server
            /\ section'[s].behind = section[s].behind
        BY <1>1, <1>2, <2>2 DEF ListRow
      <3>2. w.at \in {"done", "failed"}
        BY DEF L!Answered
      <3>3. WillFetch(s) => WillFetch(s)'
        BY <2>2, <3>1, <3>2 DEF WillFetch, L!FetchedAfter
      <3>4. QED
        BY <1>1, <2>2, <3>1, <3>3 DEF ListFollows
    <2>3. CASE ~L!FetchedAfter(s, t, w) /\ t # s
      <3>1. section'[t] = section[t]
        BY <1>2, <2>3
      <3>2. QED
        BY <1>1, <3>1 DEF ListFollows, WillFetch, L!FetchedAfter
    <2>4. QED
      BY <2>1, <2>2, <2>3
  <1>7. section' \in [L!Section -> ListRow]
    BY <1>3, <1>5
  <1>8. QED
    BY <1>1, <1>6, <1>7 DEF ListsInv, ListsTyped

LEMMA FetchingFollows ==
  ASSUME ListsInv, NEW s \in L!Section, L!Refetch(s) \/ L!Reads(s) \/ L!Arrives(s) \/ L!FetchFails(s)
  PROVE  ListsInv'
  <1>1. section[s] \in ListRow /\ ListFollows(s) /\ changes \in 0..MaxChanges
    BY DEF ListsInv, ListsTyped
  <1>2. changes' = changes
    BY DEF L!Refetch, L!Reads, L!Arrives, L!FetchFails
  <1>3. CASE L!Refetch(s)
    <2> DEFINE next == [section[s] EXCEPT !.fetch = L!Sent]
    <2>1. next \in ListRow /\ next.fetch.at = "sent" /\ L!In(s, next)
      BY <1>1, <1>3 DEF ListRow, L!Sent, L!Refetch
    <2> HIDE DEF next
    <2>2. QED
      BY <1>1, <1>2, <2>1, NextFollows
  <1>4. CASE L!Reads(s)
    <2> DEFINE next == [section[s] EXCEPT !.fetch = [at |-> "read", rows |-> section[s].server], !.behind = FALSE]
    <2>1. /\ next \in ListRow /\ next.fetch.at = "read" /\ next.fetch.rows = next.server
          /\ L!In(s, next)
      BY <1>1, <1>4 DEF ListRow, L!Reads
    <2> HIDE DEF next
    <2>2. QED
      BY <1>1, <1>2, <2>1, NextFollows
  <1>5. CASE L!Arrives(s)
    <2> DEFINE next == [section[s] EXCEPT !.shown = section[s].fetch.rows, !.fetch = L!NoFetch]
    <2>0. section[s].fetch.at = "read"
      BY <1>5 DEF L!Arrives
    <2>1. /\ next \in ListRow /\ next.shown = section[s].fetch.rows /\ next.fetch.at = "none"
          /\ next.server = section[s].server /\ next.writes = section[s].writes /\ next.behind = section[s].behind
          /\ L!In(s, next)
      BY <1>1, <1>5, <2>0 DEF ListRow, L!NoFetch, L!Arrives
    <2> HIDE DEF next
    <2>2. QED
      BY <1>1, <1>2, <2>0, <2>1, NextFollows DEF ListFollows, WillFetch
  <1>6. CASE L!FetchFails(s)
    <2> DEFINE next == [section[s] EXCEPT !.fetch = L!NoFetch, !.behind = TRUE]
    <2>1. next \in ListRow /\ next.behind /\ L!In(s, next)
      BY <1>1, <1>6 DEF ListRow, L!NoFetch, L!FetchFails
    <2> HIDE DEF next
    <2>2. QED
      BY <1>1, <1>2, <2>1, NextFollows
  <1>7. QED
    BY <1>3, <1>4, <1>5, <1>6

LEMMA ListsStep == ListsInv /\ L!Next => ListsInv'
  <1> SUFFICES ASSUME ListsInv, L!Next
               PROVE  ListsInv'
    OBVIOUS
  <1>1. ASSUME NEW s \in L!Section, NEW k \in Key, L!Put(s, k)
        PROVE  ListsInv'
    <2>1. changes \in 0..MaxChanges /\ changes' = changes + 1 /\ changes < MaxChanges
      BY <1>1 DEF L!Put, L!Asked, ListsInv, ListsTyped
    <2>2. changes' \in 1..MaxChanges
      BY <2>1, SizeAssumption
    <2>3. <<k, changes'>> \in L!Row
      BY <2>2 DEF L!Row
    <2>4. QED
      BY <1>1, <2>3, AskingFollows DEF L!Put
  <1>2. ASSUME NEW s \in L!Section, NEW row \in section[s].shown, L!Delete(s, row)
        PROVE  ListsInv'
    <2>1. section[s] \in ListRow
      BY DEF ListsInv, ListsTyped
    <2>2. row \in L!Row
      BY <2>1 DEF ListRow
    <2>3. QED
      BY <1>2, <2>2, AskingFollows DEF L!Delete
  <1>3. ASSUME NEW s \in L!Section, L!Refetch(s) \/ L!Reads(s) \/ L!Arrives(s) \/ L!FetchFails(s)
        PROVE  ListsInv'
    BY <1>3, FetchingFollows
  <1>4. ASSUME NEW s \in L!Section, NEW w \in section[s].writes, L!Succeed(s, w) \/ L!Fail(s, w) \/ L!Answered(s, w)
        PROVE  ListsInv'
    BY <1>4, SucceedingFollows, FailingFollows, AnsweringFollows
  <1>5. ASSUME NEW w \in section["invites"].writes, L!Expire(w)
        PROVE  ListsInv'
    BY <1>5, ExpiringFollows
  <1>6. QED
    BY <1>1, <1>2, <1>3, <1>4, <1>5 DEF L!Next

(* At rest nothing is to be fetched any more. *)
LEMMA ListsFollow == ListsInv => L!ListsAreCurrent
  BY DEF ListsInv, ListFollows, WillFetch, L!ListsAreCurrent

LEMMA ListsTypeFollows == ListsInv => L!TypeOK
  BY DEF ListsInv, ListsTyped, ListRow, L!TypeOK

-----------------------------------------------------------------------------
(* The settings. *)

(* A save is numbered by the act that began it, and each act leaves at     *)
(* most one save or one timer behind.                                      *)
Numbered ==
  /\ \A p \in patches : p.n <= settingsActs
  /\ IsFiniteSet(patches) /\ Cardinality(patches) <= settingsActs
  /\ panel # O!Nowhere => panel.timers + Cardinality(patches) <= settingsActs

(* What a setting is about to become, of whichever organization, somebody  *)
(* of it chose; and while nobody signs out with a save under way, all of   *)
(* the browser is about the organization that is signed in.                *)
ChosenFor(o, values) == \A f \in O!Setting : values[f] \in chosen[o][f]

Origins ==
  ~crossed =>
    /\ \A o \in Org : ChosenFor(o, saved[o])
    /\ \A p \in patches : ChosenFor(p.org, p.values) /\ (p.mine => p.org = who)
    /\ session # O!Nowhere => session.org = who /\ ChosenFor(who, session.values)
    /\ panel # O!Nowhere => panel.org = who /\ ChosenFor(who, panel.values)

(* A save that has its turn: how far the settings and the trail are.       *)
TakesItsTurn(p) ==
  /\ p.at # "failed"
  /\ p.at \in {"sent", "found"} => audited = saved
  /\ p.at = "updated" => saved[p.org] = p.values /\ saved = [audited EXCEPT ![p.org] = p.values]
  /\ p.at = "done" => saved[p.org] = p.values /\ audited = saved
  /\ p.mine => p.org = who

Turns ==
  apart =>
    /\ \A p, q \in patches : p = q
    /\ \A p \in patches : TakesItsTurn(p)
    /\ patches = {} => audited = saved
    /\ settingsFresh /\ session # O!Nowhere =>
         /\ session.org = who
         /\ (\A p \in patches : p.at \in {"sent", "found"}) => session.values = saved[who]

OthersMakeItStale == settingsFresh => \A p \in patches : p.mine

(* A load under way is of who is signed in, unless somebody signed out     *)
(* meanwhile; and while saves take turns, it is alone, and has read what   *)
(* is saved unless another admin saves.                                    *)
LoadIsOwn ==
  /\ ~crossed /\ loading.at # "none" => loading.org = who
  /\ ~crossed /\ loading.at = "read" => ChosenFor(loading.org, loading.values)

LoadTurns ==
  /\ loading.at = "read" /\ loading.fresh => \A p \in patches : p.mine
  /\ apart /\ loading.at # "none" => loading.org = who /\ \A p \in patches : ~p.mine
  /\ apart /\ loading.at = "read" /\ loading.fresh => loading.values = saved[who]

SettingsInv == O!TypeOK /\ Numbered /\ Origins /\ LoadIsOwn /\ Turns /\ LoadTurns /\ OthersMakeItStale

LEMMA SettingsBegin == O!Init => SettingsInv
  <1> SUFFICES ASSUME O!Init
               PROVE  SettingsInv
    OBVIOUS
  <1> USE OrgAssumption, GivenAssumption, SizeAssumption
  <1>1. O!TypeOK
    <2>1. chosen \in [Org -> [O!Setting -> SUBSET Level]]
      <3>1. \A o \in Org : [f \in O!Setting |-> {Given[o][f]}] \in [O!Setting -> SUBSET Level]
        BY DEF O!Values
      <3>2. QED
        BY <3>1, Zenon DEF O!Init
    <2>2. session \in O!Session /\ panel \in O!Panel /\ loading \in O!Loading
      BY DEF O!Init, O!Session, O!Panel, O!Nowhere, O!Loading, O!NotLoading
    <2>3. saved \in [Org -> O!Values] /\ audited \in [Org -> O!Values] /\ settingsActs \in 0..SettingsActs
      BY DEF O!Init
    <2>4. who \in Org /\ patches = {} /\ crossed \in BOOLEAN /\ apart \in BOOLEAN /\ settingsFresh \in BOOLEAN
      BY DEF O!Init
    <2>5. QED
      BY <2>1, <2>2, <2>3, <2>4, Zenon DEF O!TypeOK
  <1>2. Numbered
    BY FS_EmptySet DEF O!Init, Numbered
  <1>3. Origins /\ LoadIsOwn /\ Turns /\ LoadTurns /\ OthersMakeItStale
    BY DEF O!Init, Origins, ChosenFor, LoadIsOwn, Turns, LoadTurns, OthersMakeItStale, O!Nowhere, O!NotLoading
  <1>4. QED
    BY <1>1, <1>2, <1>3 DEF SettingsInv

-----------------------------------------------------------------------------
(* Types. *)

LEMMA PanelIsMounted ==
  ASSUME O!TypeOK
  PROVE  /\ session # O!Nowhere => session \in [org : Org, values : O!Values]
         /\ panel # O!Nowhere <=> panel.org # O!NoOrg
         /\ panel # O!Nowhere =>
              panel \in [org : Org, id : 0..SettingsActs, values : O!Values,
                         status : {"idle", "saving", "saved", "error"}, timers : 0..SettingsActs]
  BY OrgAssumption DEF O!TypeOK, O!Session, O!Panel, O!Nowhere, O!NoOrg

(* A mount shows the session's organization, with the sliders it had or    *)
(* with the session's values.                                              *)
LEMMA MountShows ==
  ASSUME O!TypeOK, settingsActs' = settingsActs, NEW s \in O!Session
  PROVE  /\ O!Mount(s) \in O!Panel
         /\ s = O!Nowhere => O!Mount(s) = O!Nowhere
         /\ s # O!Nowhere =>
              \/ O!Mount(s) = panel /\ panel # O!Nowhere /\ panel.org = s.org
              \/ /\ O!Mount(s) # O!Nowhere /\ O!Mount(s).org = s.org
                 /\ O!Mount(s).values = s.values /\ O!Mount(s).timers = 0
  <1>1. CASE s = O!Nowhere
    BY <1>1 DEF O!Mount, O!Panel, O!Nowhere
  <1>2. CASE s # O!Nowhere /\ s.org = panel.org
    <2>1. s \in [org : Org, values : O!Values]
      BY <1>2 DEF O!Session, O!Nowhere
    <2>2. panel # O!Nowhere
      BY <1>2, <2>1, OrgAssumption DEF O!Nowhere, O!NoOrg
    <2>3. QED
      BY <1>2, <2>2 DEF O!Mount, O!TypeOK
  <1>3. CASE s # O!Nowhere /\ s.org # panel.org
    <2>1. s \in [org : Org, values : O!Values]
      BY <1>3 DEF O!Session, O!Nowhere
    <2>2. O!Mount(s) = [org |-> s.org, id |-> settingsActs, values |-> s.values, status |-> "idle", timers |-> 0]
      BY <1>3 DEF O!Mount
    <2>3. settingsActs \in 0..SettingsActs /\ 0 \in 0..SettingsActs
      BY SizeAssumption DEF O!TypeOK
    <2>4. O!Mount(s) \in O!Panel /\ O!Mount(s).org # O!NoOrg
      BY <2>1, <2>2, <2>3, OrgAssumption DEF O!Panel, O!NoOrg
    <2>5. QED
      BY <1>3, <2>2, <2>4 DEF O!Nowhere
  <1>4. QED
    BY <1>1, <1>2, <1>3

(* One more save under way. *)
LEMMA RequestTyped ==
  ASSUME O!TypeOK, Numbered, O!Act, NEW mine \in BOOLEAN, NEW o \in Org, NEW values \in O!Values,
         mine => panel # O!Nowhere, O!Request(mine, o, values)
  PROVE  /\ patches' \subseteq O!Patch
         /\ \A p, q \in patches' : p.n = q.n => p = q
         /\ \A p \in patches' : p.n <= settingsActs'
         /\ IsFiniteSet(patches') /\ Cardinality(patches') = Cardinality(patches) + 1
         /\ Cardinality(patches) \in Nat
  <1> DEFINE new == [n |-> settingsActs', mine |-> mine, panel |-> IF mine THEN panel.id ELSE 0, org |-> o,
                     values |-> values, before |-> values, at |-> "sent"]
  <1>1. settingsActs \in 0..SettingsActs /\ settingsActs' = settingsActs + 1 /\ settingsActs' \in 1..SettingsActs
    BY SizeAssumption DEF O!TypeOK, O!Act
  <1>2. new \in O!Patch /\ new.n = settingsActs'
    <2>1. (IF mine THEN panel.id ELSE 0) \in 0..SettingsActs
      BY PanelIsMounted, SizeAssumption
    <2>2. QED
      BY <1>1, <2>1 DEF O!Patch
  <1>3. patches' = patches \cup {new}
    BY DEF O!Request
  <1> HIDE DEF new
  <1>4. \A p \in patches : p.n \in 1..SettingsActs /\ p.n <= settingsActs
    BY DEF O!TypeOK, O!Patch, Numbered
  <1>5. new \notin patches
    BY <1>1, <1>2, <1>4
  <1>6. IsFiniteSet(patches') /\ Cardinality(patches') = Cardinality(patches) + 1 /\ Cardinality(patches) \in Nat
    BY <1>3, <1>5, FS_AddElement, FS_CardinalityType DEF Numbered
  <1>7. QED
    BY <1>1, <1>2, <1>3, <1>4, <1>6 DEF O!TypeOK

(* A save that goes on keeps its number. *)
LEMMA StepTyped ==
  ASSUME O!TypeOK, Numbered, UNCHANGED settingsActs, NEW p \in patches, NEW next \in O!Patch, next.n = p.n,
         patches' = (patches \ {p}) \cup {next}
  PROVE  /\ patches' \subseteq O!Patch
         /\ \A x, y \in patches' : x.n = y.n => x = y
         /\ \A x \in patches' : x.n <= settingsActs'
         /\ IsFiniteSet(patches') /\ Cardinality(patches') = Cardinality(patches)
  <1>1. next \notin patches \ {p}
    BY DEF O!TypeOK
  <1>2. IsFiniteSet(patches \ {p}) /\ Cardinality(patches \ {p}) = Cardinality(patches) - 1
        /\ Cardinality(patches) \in Nat
    BY FS_RemoveElement, FS_CardinalityType DEF Numbered
  <1>3. IsFiniteSet(patches') /\ Cardinality(patches') = Cardinality(patches \ {p}) + 1
    BY <1>1, <1>2, FS_AddElement
  <1>4. QED
    BY <1>2, <1>3 DEF O!TypeOK, Numbered

LEMMA SteppingTyped ==
  ASSUME O!TypeOK, Numbered, NEW p \in patches, NEW next \in O!Patch, next.n = p.n,
         patches' = (patches \ {p}) \cup {next},
         saved' \in [Org -> O!Values], audited' \in [Org -> O!Values], apart' \in BOOLEAN,
         UNCHANGED <<who, session, loading, panel, settingsActs, chosen, crossed, settingsFresh>>
  PROVE  O!TypeOK' /\ Numbered'
  <1>1. /\ patches' \subseteq O!Patch
        /\ \A x, y \in patches' : x.n = y.n => x = y
        /\ \A x \in patches' : x.n <= settingsActs'
        /\ IsFiniteSet(patches') /\ Cardinality(patches') = Cardinality(patches)
    BY StepTyped
  <1>2. O!TypeOK'
    BY <1>1 DEF O!TypeOK
  <1>3. QED
    BY <1>1, <1>2 DEF Numbered

LEMMA LoadingTyped ==
  ASSUME O!TypeOK, Numbered, O!LoadSession \/ O!ReadSession \/ O!LoadFails
  PROVE  O!TypeOK' /\ Numbered'
  <1>1. loading' \in O!Loading
    <2>1. CASE O!LoadSession
      BY <2>1 DEF O!LoadSession, O!TypeOK, O!Loading
    <2>2. CASE O!ReadSession
      <3>1. loading.org \in Org
        BY <2>2 DEF O!ReadSession, O!TypeOK, O!Loading
      <3>2. saved[loading.org] \in O!Values /\ (patches = {}) \in BOOLEAN
        BY <3>1 DEF O!TypeOK
      <3>3. QED
        BY <2>2, <3>1, <3>2 DEF O!ReadSession, O!Loading
    <2>3. CASE O!LoadFails
      BY <2>3 DEF O!LoadFails, O!Loading, O!NotLoading
    <2>4. QED
      BY <2>1, <2>2, <2>3
  <1>2. /\ settingsActs' \in {settingsActs, settingsActs + 1} /\ settingsActs' \in 0..SettingsActs
        /\ settingsActs \in Nat
    BY SizeAssumption DEF O!LoadSession, O!ReadSession, O!LoadFails, O!TypeOK, O!Act
  <1>3. UNCHANGED <<saved, audited, who, session, panel, patches, chosen, crossed, settingsFresh>> /\ apart' \in BOOLEAN
    BY DEF O!LoadSession, O!ReadSession, O!LoadFails, O!TypeOK
  <1>4. O!TypeOK'
    BY <1>1, <1>2, <1>3 DEF O!TypeOK
  <1>5. Cardinality(patches) \in Nat /\ \A p \in patches : p.n \in 1..SettingsActs
    BY FS_CardinalityType DEF Numbered, O!TypeOK, O!Patch
  <1>6. panel # O!Nowhere => panel.timers \in Nat
    BY PanelIsMounted
  <1>7. Numbered'
    BY <1>2, <1>3, <1>5, <1>6 DEF Numbered
  <1>8. QED
    BY <1>4, <1>7

LEMMA ShowingTyped ==
  ASSUME O!TypeOK, Numbered, O!SessionArrives \/ O!SignedIn
  PROVE  O!TypeOK' /\ Numbered'
  <1>1. session' \in O!Session /\ session' # O!Nowhere
    <2>1. PICK o \in Org, values \in O!Values : session' = [org |-> o, values |-> values]
      BY DEF O!SessionArrives, O!SignedIn, O!TypeOK, O!Loading
    <2>2. QED
      BY <2>1, OrgAssumption DEF O!Session, O!Nowhere, O!NoOrg
  <1>2. settingsActs' = settingsActs /\ panel' = O!Mount(session') /\ patches' = patches
    BY DEF O!SessionArrives, O!SignedIn
  <1>3. /\ panel' \in O!Panel
        /\ panel' = panel \/ (panel' # O!Nowhere /\ panel'.timers = 0)
    BY <1>1, <1>2, MountShows
  <1>3a. loading' \in O!Loading /\ settingsFresh' \in BOOLEAN
    <2>1. CASE O!SessionArrives
      BY <2>1 DEF O!SessionArrives, O!TypeOK, O!Loading, O!NotLoading
    <2>2. CASE O!SignedIn
      <3>1. (patches = {}) \in BOOLEAN
        OBVIOUS
      <3>2. QED
        BY <2>2, <3>1 DEF O!SignedIn, O!TypeOK
    <2>3. QED
      BY <2>1, <2>2
  <1>3b. UNCHANGED <<saved, audited, who, chosen, crossed, apart>>
    BY DEF O!SessionArrives, O!SignedIn
  <1>4. O!TypeOK'
    BY <1>1, <1>2, <1>3, <1>3a, <1>3b DEF O!TypeOK
  <1>5. Cardinality(patches) \in Nat
    BY FS_CardinalityType DEF Numbered
  <1>6. Numbered'
    BY <1>2, <1>3, <1>5 DEF Numbered
  <1>7. QED
    BY <1>4, <1>6

LEMMA SwitchingTyped ==
  ASSUME O!TypeOK, Numbered, NEW o \in Org, O!SwitchTo(o)
  PROVE  O!TypeOK' /\ Numbered'
  <1>1. settingsActs \in 0..SettingsActs /\ settingsActs' = settingsActs + 1 /\ settingsActs' \in 0..SettingsActs
    BY SizeAssumption DEF O!TypeOK, O!SwitchTo, O!Act
  <1>2. session' \in O!Session /\ panel' \in O!Panel /\ panel' = O!Nowhere /\ patches' = patches
    BY DEF O!SwitchTo, O!Session, O!Panel, O!Nowhere
  <1>3. O!TypeOK'
    BY <1>1, <1>2 DEF O!SwitchTo, O!TypeOK, O!MineUnderWay
  <1>4. Cardinality(patches) \in Nat /\ \A p \in patches : p.n \in 1..SettingsActs
    BY FS_CardinalityType DEF Numbered, O!TypeOK, O!Patch
  <1>5. QED
    BY <1>1, <1>2, <1>3, <1>4 DEF Numbered

LEMMA SlidingTyped ==
  ASSUME O!TypeOK, Numbered, NEW f \in O!Setting, NEW level \in Level, O!Slide(f, level)
  PROVE  O!TypeOK' /\ Numbered' /\ panel # O!Nowhere
  <1>1. settingsActs \in 0..SettingsActs /\ settingsActs' = settingsActs + 1 /\ settingsActs' \in 0..SettingsActs
    BY SizeAssumption DEF O!TypeOK, O!Slide, O!Act
  <1>2. panel # O!Nowhere /\ panel' = [panel EXCEPT !.values[f] = level]
    BY PanelIsMounted DEF O!Slide
  <1>3. panel \in [org : Org, id : 0..SettingsActs, values : O!Values,
                   status : {"idle", "saving", "saved", "error"}, timers : 0..SettingsActs]
    BY <1>2, PanelIsMounted
  <1>4. [panel.values EXCEPT ![f] = level] \in O!Values
    BY <1>3 DEF O!Values
  <1>5. panel' \in O!Panel /\ panel'.timers = panel.timers /\ panel'.org = panel.org
    BY <1>2, <1>3, <1>4 DEF O!Panel
  <1>6. chosen' \in [Org -> [O!Setting -> SUBSET Level]]
    <2>1. chosen[panel.org][f] \cup {level} \in SUBSET Level
      BY <1>3 DEF O!TypeOK
    <2>2. QED
      BY <1>3, <2>1 DEF O!TypeOK, O!Slide
  <1>7. O!TypeOK'
    BY <1>1, <1>5, <1>6 DEF O!TypeOK, O!Slide
  <1>8. Cardinality(patches) \in Nat /\ \A p \in patches : p.n \in 1..SettingsActs
    BY FS_CardinalityType DEF Numbered, O!TypeOK, O!Patch
  <1>9. patches' = patches /\ panel.timers \in Nat
    BY <1>3 DEF O!Slide
  <1>10. QED
    BY <1>1, <1>2, <1>5, <1>7, <1>8, <1>9 DEF Numbered

LEMMA SavingTyped == O!TypeOK /\ Numbered /\ O!Save => O!TypeOK' /\ Numbered' /\ panel # O!Nowhere
  <1> SUFFICES ASSUME O!TypeOK, Numbered, O!Save
               PROVE  O!TypeOK' /\ Numbered' /\ panel # O!Nowhere
    OBVIOUS
  <1>1. settingsActs \in 0..SettingsActs /\ settingsActs' = settingsActs + 1 /\ settingsActs' \in 0..SettingsActs
    BY SizeAssumption DEF O!TypeOK, O!Save, O!Act
  <1>2. panel # O!Nowhere
    BY PanelIsMounted DEF O!Save
  <1>3. panel \in [org : Org, id : 0..SettingsActs, values : O!Values,
                   status : {"idle", "saving", "saved", "error"}, timers : 0..SettingsActs]
    BY <1>2, PanelIsMounted
  <1>4. panel' \in O!Panel /\ panel'.timers = panel.timers
    BY <1>3 DEF O!Save, O!Panel
  <1>5. /\ patches' \subseteq O!Patch
        /\ \A p, q \in patches' : p.n = q.n => p = q
        /\ \A p \in patches' : p.n <= settingsActs'
        /\ IsFiniteSet(patches') /\ Cardinality(patches') = Cardinality(patches) + 1
        /\ Cardinality(patches) \in Nat
    BY <1>2, <1>3, RequestTyped DEF O!Save, O!TypeOK
  <1>6. apart' \in BOOLEAN
    BY DEF O!Save, O!Request, O!TypeOK
  <1>7. O!TypeOK'
    BY <1>1, <1>4, <1>5, <1>6 DEF O!TypeOK, O!Save
  <1>8. QED
    BY <1>1, <1>2, <1>3, <1>4, <1>5, <1>7 DEF Numbered

LEMMA OtherSavesTyped ==
  ASSUME O!TypeOK, Numbered, NEW o \in Org, NEW f \in O!Setting, NEW level \in Level, O!OtherSaves(o, f, level)
  PROVE  O!TypeOK' /\ Numbered'
  <1>1. settingsActs \in 0..SettingsActs /\ settingsActs' = settingsActs + 1 /\ settingsActs' \in 0..SettingsActs
    BY SizeAssumption DEF O!TypeOK, O!OtherSaves, O!Act
  <1>2. [saved[o] EXCEPT ![f] = level] \in O!Values
    BY DEF O!TypeOK, O!Values
  <1>3. /\ patches' \subseteq O!Patch
        /\ \A p, q \in patches' : p.n = q.n => p = q
        /\ \A p \in patches' : p.n <= settingsActs'
        /\ IsFiniteSet(patches') /\ Cardinality(patches') = Cardinality(patches) + 1
        /\ Cardinality(patches) \in Nat
    BY <1>2, RequestTyped DEF O!OtherSaves
  <1>4. chosen' \in [Org -> [O!Setting -> SUBSET Level]]
    <2>1. chosen[o][f] \cup {level} \in SUBSET Level
      BY DEF O!TypeOK
    <2>2. QED
      BY <2>1 DEF O!TypeOK, O!OtherSaves
  <1>5. apart' \in BOOLEAN
    BY DEF O!OtherSaves, O!Request, O!TypeOK
  <1>5a. loading' \in O!Loading
    BY DEF O!OtherSaves, O!TypeOK, O!Loading
  <1>6. O!TypeOK'
    BY <1>1, <1>3, <1>4, <1>5, <1>5a DEF O!TypeOK, O!OtherSaves
  <1>7. panel' = panel /\ (panel # O!Nowhere => panel.timers \in Nat)
    BY PanelIsMounted DEF O!OtherSaves
  <1>8. QED
    BY <1>1, <1>3, <1>6, <1>7 DEF Numbered

LEMMA GoingOnTyped ==
  ASSUME O!TypeOK, Numbered, NEW p \in patches,
         O!FindBefore(p) \/ O!UpdateOrg(p) \/ O!Record(p) \/ O!SaveFails(p)
  PROVE  O!TypeOK' /\ Numbered'
  <1>0. p \in O!Patch /\ saved[p.org] \in O!Values
    BY DEF O!TypeOK, O!Patch
  <1>1. CASE O!FindBefore(p)
    <2> DEFINE next == [p EXCEPT !.at = "found", !.before = saved[p.org]]
    <2>1. next \in O!Patch /\ next.n = p.n
      BY <1>0 DEF O!Patch
    <2>2. patches' = (patches \ {p}) \cup {next}
      BY <1>1 DEF O!FindBefore
    <2>3. saved' = saved /\ audited' = audited /\ apart' = apart
          /\ UNCHANGED <<who, session, loading, panel, settingsActs, chosen, crossed, settingsFresh>>
      BY <1>1 DEF O!FindBefore
    <2> HIDE DEF next
    <2>4. QED
      BY <2>1, <2>2, <2>3, SteppingTyped DEF O!TypeOK
  <1>2. ASSUME NEW at \in {"updated", "done", "failed"}, O!Step(p, at),
               saved' \in [Org -> O!Values], audited' \in [Org -> O!Values], apart' \in BOOLEAN,
               UNCHANGED <<who, session, loading, panel, settingsActs, chosen, crossed, settingsFresh>>
        PROVE  O!TypeOK' /\ Numbered'
    <2> DEFINE next == [p EXCEPT !.at = at]
    <2>1. next \in O!Patch /\ next.n = p.n
      BY <1>0 DEF O!Patch
    <2>2. patches' = (patches \ {p}) \cup {next}
      BY <1>2 DEF O!Step
    <2> HIDE DEF next
    <2>3. QED
      BY <1>2, <2>1, <2>2, SteppingTyped
  <1>3. CASE O!UpdateOrg(p)
    <2>1. saved' \in [Org -> O!Values]
      BY <1>0, <1>3 DEF O!UpdateOrg, O!TypeOK, O!Patch
    <2>2. QED
      BY <1>2, <1>3, <2>1 DEF O!UpdateOrg, O!TypeOK
  <1>4. CASE O!Record(p)
    <2>1. audited' \in [Org -> O!Values]
      BY <1>0, <1>4 DEF O!Record, O!TypeOK, O!Patch
    <2>2. QED
      BY <1>2, <1>4, <2>1 DEF O!Record, O!TypeOK
  <1>5. CASE O!SaveFails(p)
    BY <1>2, <1>5 DEF O!SaveFails, O!TypeOK
  <1>6. QED
    BY <1>1, <1>3, <1>4, <1>5

(* What the answer leaves of the panel: a new mount, or the panel as it    *)
(* was but for its status and one timer more.                              *)
LEMMA AnswerShows ==
  ASSUME O!TypeOK, NEW p \in patches, O!SaveAnswered(p)
  PROVE  /\ session' \in O!Session
         /\ session' = session \/ (p.mine /\ p.at = "done" /\ session # O!Nowhere
                                      /\ session' = [org |-> p.org, values |-> p.values])
         /\ \/ panel' = panel
            \/ panel' = O!Mount(session') /\ session' # O!Nowhere
            \/ \E status \in {"saved", "error"} : panel' = O!SavedBy(p, status) /\ p.mine
  <1>1. p \in O!Patch
    BY DEF O!TypeOK
  <1>2. CASE p.mine /\ p.at = "done"
    <2>1. session' = IF session = O!Nowhere THEN O!Nowhere ELSE [org |-> p.org, values |-> p.values]
      BY <1>2 DEF O!SaveAnswered, O!FoldIn
    <2>2. session' \in O!Session
      BY <1>1, <2>1 DEF O!Session, O!Patch, O!Nowhere
    <2>3. panel' = IF session' # O!Nowhere /\ session'.org # panel.org THEN O!Mount(session') ELSE O!SavedBy(p, "saved")
      BY <1>2 DEF O!SaveAnswered
    <2>4. CASE session' # O!Nowhere /\ session'.org # panel.org
      <3>1. panel' = O!Mount(session')
        BY <2>3, <2>4
      <3>2. QED
        BY <1>2, <2>1, <2>2, <2>4, <3>1
    <2>5. CASE ~(session' # O!Nowhere /\ session'.org # panel.org)
      BY <1>2, <2>1, <2>2, <2>3, <2>5
    <2>6. QED
      BY <2>4, <2>5
  <1>3. CASE ~(p.mine /\ p.at = "done")
    BY <1>3 DEF O!SaveAnswered, O!TypeOK
  <1>4. QED
    BY <1>2, <1>3

LEMMA AnsweringTyped ==
  ASSUME O!TypeOK, Numbered, NEW p \in patches, O!SaveAnswered(p)
  PROVE  O!TypeOK' /\ Numbered'
  <1>1. settingsActs' = settingsActs
    BY DEF O!SaveAnswered
  <1>2. IsFiniteSet(patches') /\ Cardinality(patches') = Cardinality(patches) - 1 /\ Cardinality(patches) \in Nat
    BY FS_RemoveElement, FS_CardinalityType DEF O!SaveAnswered, Numbered
  <1>3. settingsActs \in 0..SettingsActs /\ Cardinality(patches) <= settingsActs
    BY DEF Numbered, O!TypeOK
  <1>4. /\ panel' \in O!Panel
        /\ panel' # O!Nowhere => panel'.timers + Cardinality(patches') <= settingsActs
    <2>1. CASE panel' = panel
      BY <1>2, <1>3, <2>1, PanelIsMounted DEF Numbered, O!TypeOK
    <2>2. CASE panel' = O!Mount(session') /\ session' # O!Nowhere
      <3>1. session' \in O!Session
        BY AnswerShows
      <3>2. /\ panel' \in O!Panel
            /\ panel' = panel \/ panel'.timers = 0
        BY <1>1, <2>2, <3>1, MountShows
      <3>3. QED
        BY <1>2, <1>3, <2>1, <3>2
    <2>3. ASSUME NEW status \in {"saved", "error"}, panel' = O!SavedBy(p, status)
          PROVE  /\ panel' \in O!Panel
                 /\ panel' # O!Nowhere => panel'.timers + Cardinality(patches') <= settingsActs
      <3>1. CASE panel.org # O!NoOrg /\ panel.id = p.panel
        <4>1. panel' = [panel EXCEPT !.status = status, !.timers = IF status = "saved" THEN @ + 1 ELSE @]
          BY <2>3, <3>1 DEF O!SavedBy
        <4>2. panel \in [org : Org, id : 0..SettingsActs, values : O!Values,
                         status : {"idle", "saving", "saved", "error"}, timers : 0..SettingsActs]
              /\ panel # O!Nowhere
          BY <3>1, PanelIsMounted
        <4>3. panel.timers + Cardinality(patches) <= settingsActs /\ panel.timers \in 0..SettingsActs
          BY <4>2 DEF Numbered
        <4>4. Cardinality(patches) >= 1
          BY <1>2, FS_EmptySet, FS_CardinalityType DEF Numbered, O!SaveAnswered
        <4>5. SettingsActs \in Nat
          BY SizeAssumption
        <4>6. (IF status = "saved" THEN panel.timers + 1 ELSE panel.timers) \in 0..SettingsActs
          BY <1>2, <1>3, <4>3, <4>4, <4>5
        <4>7. panel' \in O!Panel
          BY <4>1, <4>2, <4>6, <2>3 DEF O!Panel
        <4>8. panel'.timers \in {panel.timers, panel.timers + 1}
          BY <4>1, <4>2
        <4>9. QED
          BY <1>2, <1>3, <4>3, <4>7, <4>8
      <3>2. CASE ~(panel.org # O!NoOrg /\ panel.id = p.panel)
        <4>1. panel' = panel
          BY <2>3, <3>2 DEF O!SavedBy
        <4>2. QED
          BY <2>1, <4>1
      <3>3. QED
        BY <3>1, <3>2
    <2>4. QED
      BY <2>1, <2>2, <2>3, AnswerShows
  <1>5. O!TypeOK'
    BY <1>1, <1>4, AnswerShows DEF O!SaveAnswered, O!TypeOK
  <1>6. \A q \in patches' : q.n <= settingsActs'
    BY <1>1 DEF O!SaveAnswered, Numbered
  <1>7. Cardinality(patches') <= settingsActs'
    BY <1>1, <1>2, <1>3
  <1>8. QED
    BY <1>1, <1>2, <1>4, <1>5, <1>6, <1>7 DEF Numbered

LEMMA TimerTyped == O!TypeOK /\ Numbered /\ O!Timer => O!TypeOK' /\ Numbered' /\ panel # O!Nowhere
  <1> SUFFICES ASSUME O!TypeOK, Numbered, O!Timer
               PROVE  O!TypeOK' /\ Numbered' /\ panel # O!Nowhere
    OBVIOUS
  <1>1. /\ panel # O!Nowhere
        /\ panel \in [org : Org, id : 0..SettingsActs, values : O!Values,
                      status : {"idle", "saving", "saved", "error"}, timers : 0..SettingsActs]
    BY PanelIsMounted DEF O!Timer
  <1>2. panel' = [panel EXCEPT !.status = "idle", !.timers = @ - 1] /\ panel.timers > 0
    BY DEF O!Timer
  <1>3. panel.timers - 1 \in 0..SettingsActs
    BY <1>1, <1>2, SizeAssumption
  <1>4. panel' \in O!Panel /\ panel'.timers = panel.timers - 1
    BY <1>1, <1>2, <1>3 DEF O!Panel
  <1>5. O!TypeOK'
    BY <1>4 DEF O!Timer, O!TypeOK
  <1>6. Cardinality(patches) \in Nat /\ settingsActs \in 0..SettingsActs /\ panel.timers \in 0..SettingsActs
    BY <1>1, FS_CardinalityType DEF Numbered, O!TypeOK
  <1>7. UNCHANGED <<patches, settingsActs>>
    BY DEF O!Timer
  <1>8. QED
    BY <1>1, <1>4, <1>5, <1>6, <1>7 DEF Numbered

LEMMA SettingsTypes == O!TypeOK /\ Numbered /\ O!Next => O!TypeOK' /\ Numbered'
  BY LoadingTyped, ShowingTyped, SwitchingTyped, SlidingTyped, SavingTyped, OtherSavesTyped, GoingOnTyped, AnsweringTyped, TimerTyped
     DEF O!Next

-----------------------------------------------------------------------------
(* What is saved was chosen. *)

LEMMA MoreIsChosen ==
  ASSUME O!TypeOK, NEW u \in Org, NEW f \in O!Setting, NEW level \in Level,
         chosen' = [chosen EXCEPT ![u][f] = @ \cup {level}]
  PROVE  /\ level \in chosen'[u][f]
         /\ \A o \in Org, values \in O!Values : ChosenFor(o, values) => ChosenFor(o, values)'
  <1>1. chosen \in [Org -> [O!Setting -> SUBSET Level]]
    BY DEF O!TypeOK
  <1>2. chosen[u] \in [O!Setting -> SUBSET Level]
    BY <1>1
  <1>3. chosen'[u] = [chosen[u] EXCEPT ![f] = @ \cup {level}] /\ \A o \in Org : o # u => chosen'[o] = chosen[o]
    BY <1>1
  <1>4. chosen'[u][f] = chosen[u][f] \cup {level} /\ \A g \in O!Setting : g # f => chosen'[u][g] = chosen[u][g]
    BY <1>2, <1>3
  <1>5. \A o \in Org, g \in O!Setting : chosen[o][g] \subseteq chosen'[o][g]
    BY <1>3, <1>4
  <1>6. QED
    BY <1>4, <1>5 DEF ChosenFor

LEMMA OriginsShow ==
  ASSUME O!TypeOK, Origins, LoadIsOwn, O!SessionArrives \/ O!SignedIn
  PROVE  Origins'
  <1>1. UNCHANGED <<chosen, saved, patches, who, settingsActs, crossed>> /\ panel' = O!Mount(session')
    BY DEF O!SessionArrives, O!SignedIn
  <1> SUFFICES ASSUME ~crossed
               PROVE  Origins'
    BY <1>1 DEF Origins
  <1>2. PICK values \in O!Values : session' = [org |-> who, values |-> values] /\ ChosenFor(who, values)
    <2>1. CASE O!SessionArrives
      BY <2>1 DEF O!SessionArrives, O!TypeOK, O!Loading, LoadIsOwn
    <2>2. CASE O!SignedIn
      BY <2>2 DEF O!SignedIn, O!TypeOK, Origins
    <2>3. QED
      BY <2>1, <2>2
  <1>3. session' \in O!Session /\ session' # O!Nowhere
    BY <1>2, OrgAssumption DEF O!TypeOK, O!Session, O!Nowhere, O!NoOrg
  <1>4. \/ panel' = panel /\ panel # O!Nowhere
        \/ panel' # O!Nowhere /\ panel'.org = who /\ panel'.values = values
    BY <1>1, <1>2, <1>3, MountShows
  <1>5. panel' # O!Nowhere => panel'.org = who /\ ChosenFor(who, panel'.values)
    BY <1>2, <1>4 DEF Origins
  <1>6. QED
    BY <1>1, <1>2, <1>5 DEF Origins, ChosenFor

LEMMA OriginsLoad ==
  ASSUME O!TypeOK, Origins, O!LoadSession \/ O!ReadSession \/ O!LoadFails
  PROVE  Origins'
  BY DEF O!LoadSession, O!ReadSession, O!LoadFails, Origins, ChosenFor

LEMMA OriginsLeave ==
  ASSUME O!TypeOK, Origins, NEW o \in Org, O!SwitchTo(o)
  PROVE  Origins'
  BY DEF O!SwitchTo, Origins, ChosenFor, O!MineUnderWay

LEMMA OriginsSlide ==
  ASSUME O!TypeOK, Origins, NEW f \in O!Setting, NEW level \in Level, O!Slide(f, level)
  PROVE  Origins'
  <1>1. /\ panel # O!Nowhere
        /\ panel \in [org : Org, id : 0..SettingsActs, values : O!Values,
                      status : {"idle", "saving", "saved", "error"}, timers : 0..SettingsActs]
    BY PanelIsMounted DEF O!Slide
  <1>2. /\ panel' = [panel EXCEPT !.values[f] = level]
        /\ chosen' = [chosen EXCEPT ![panel.org][f] = @ \cup {level}]
        /\ UNCHANGED <<saved, who, session, patches, crossed>>
    BY DEF O!Slide
  <1>3. /\ level \in chosen'[panel.org][f]
        /\ \A o \in Org, values \in O!Values : ChosenFor(o, values) => ChosenFor(o, values)'
    BY <1>1, <1>2, MoreIsChosen
  <1>4. panel'.org = panel.org /\ panel'.values[f] = level
        /\ \A g \in O!Setting : g # f => panel'.values[g] = panel.values[g]
    BY <1>1, <1>2 DEF O!Values
  <1> SUFFICES ASSUME ~crossed
               PROVE  Origins'
    BY <1>2 DEF Origins
  <1>5. \A o \in Org : ChosenFor(o, saved[o])'
    BY <1>2, <1>3 DEF Origins, O!TypeOK
  <1>6. \A p \in patches : ChosenFor(p.org, p.values)' /\ (p.mine => p.org = who)
    BY <1>3 DEF Origins, O!TypeOK, O!Patch
  <1>7. session # O!Nowhere => session.org = who /\ ChosenFor(who, session.values)'
    BY <1>2, <1>3, PanelIsMounted DEF Origins, O!TypeOK
  <1>8. panel'.org = who /\ \A g \in O!Setting : panel'.values[g] \in chosen'[who][g]
    <2>1. panel.org = who /\ ChosenFor(who, panel.values)
      BY <1>1 DEF Origins
    <2>2. \A o \in Org, g \in O!Setting : chosen[o][g] \subseteq chosen'[o][g]
      BY <1>1, <1>2 DEF O!TypeOK
    <2>3. QED
      BY <1>3, <1>4, <2>1, <2>2 DEF ChosenFor, O!TypeOK
  <1>9. QED
    BY <1>2, <1>5, <1>6, <1>7, <1>8 DEF Origins, ChosenFor

LEMMA OriginsSave ==
  ASSUME O!TypeOK, Origins, O!Save
  PROVE  Origins'
  <1> SUFFICES ASSUME ~crossed
               PROVE  Origins'
    BY DEF Origins, O!Save
  <1>1. /\ panel # O!Nowhere
        /\ panel \in [org : Org, id : 0..SettingsActs, values : O!Values,
                      status : {"idle", "saving", "saved", "error"}, timers : 0..SettingsActs]
    BY PanelIsMounted DEF O!Save
  <1>2. panel.org = who /\ ChosenFor(who, panel.values)
    BY <1>1 DEF Origins
  <1>3. panel'.org = panel.org /\ panel'.values = panel.values
    BY <1>1 DEF O!Save
  <1>4. ASSUME NEW p \in patches'
        PROVE  p \in patches \/ (p.org = who /\ p.values = panel.values)
    BY DEF O!Save, O!Request
  <1>5. UNCHANGED <<saved, who, session, chosen, crossed>>
    BY DEF O!Save
  <1>6. \A p \in patches' : ChosenFor(p.org, p.values) /\ (p.mine => p.org = who)
    BY <1>2, <1>4 DEF Origins
  <1>7. QED
    BY <1>2, <1>3, <1>5, <1>6 DEF Origins, ChosenFor

LEMMA OriginsOther ==
  ASSUME O!TypeOK, Origins, NEW o \in Org, NEW f \in O!Setting, NEW level \in Level, O!OtherSaves(o, f, level)
  PROVE  Origins'
  <1> DEFINE values == [saved[o] EXCEPT ![f] = level]
  <1>1. /\ chosen' = [chosen EXCEPT ![o][f] = @ \cup {level}]
        /\ UNCHANGED <<saved, who, session, panel, crossed>>
        /\ O!Request(FALSE, o, values)
    BY DEF O!OtherSaves
  <1>2. /\ level \in chosen'[o][f]
        /\ \A u \in Org, v \in O!Values : ChosenFor(u, v) => ChosenFor(u, v)'
    BY <1>1, MoreIsChosen
  <1> SUFFICES ASSUME ~crossed
               PROVE  Origins'
    BY <1>1 DEF Origins
  <1>3. saved[o] \in O!Values /\ \A u \in Org, g \in O!Setting : chosen[u][g] \subseteq chosen'[u][g]
    BY <1>1 DEF O!TypeOK
  <1>4. \A u \in Org : ChosenFor(u, saved[u])'
    BY <1>1, <1>2 DEF Origins, O!TypeOK
  <1>5. ChosenFor(o, values)'
    <2>1. values[f] = level /\ \A g \in O!Setting : g # f => values[g] = saved[o][g]
      BY <1>3 DEF O!Values
    <2>2. ChosenFor(o, saved[o])
      BY DEF Origins
    <2>3. \A g \in O!Setting : values[g] \in chosen'[o][g]
      BY <1>2, <1>3, <2>1, <2>2 DEF ChosenFor
    <2>4. QED
      BY <1>1, <2>3 DEF ChosenFor
  <1>6. ASSUME NEW p \in patches'
        PROVE  p \in patches \/ (p.org = o /\ p.values = values /\ ~p.mine)
    BY <1>1 DEF O!Request
  <1>7. \A p \in patches : ChosenFor(p.org, p.values)' /\ (p.mine => p.org = who)
    BY <1>2 DEF Origins, O!TypeOK, O!Patch
  <1>8. \A p \in patches' : (\A g \in O!Setting : p.values[g] \in chosen'[p.org][g]) /\ (p.mine => p.org = who)
    <2> HIDE DEF values
    <2>1. \A g \in O!Setting : values[g] \in chosen'[o][g]
      BY <1>1, <1>5 DEF ChosenFor, values
    <2>2. QED
      BY <1>6, <1>7, <2>1 DEF ChosenFor
  <1>9. session # O!Nowhere => session.org = who /\ ChosenFor(who, session.values)'
    BY <1>1, <1>2, PanelIsMounted DEF Origins, O!TypeOK
  <1>10. panel # O!Nowhere => panel.org = who /\ ChosenFor(who, panel.values)'
    BY <1>1, <1>2, PanelIsMounted DEF Origins, O!TypeOK
  <1>11. QED
    BY <1>1, <1>4, <1>8, <1>9, <1>10 DEF Origins, ChosenFor

LEMMA OriginsGoOn ==
  ASSUME O!TypeOK, Origins, NEW p \in patches,
         O!FindBefore(p) \/ O!UpdateOrg(p) \/ O!Record(p) \/ O!SaveFails(p)
  PROVE  Origins'
  <1>1. UNCHANGED <<who, session, panel, chosen, crossed>>
    BY DEF O!FindBefore, O!UpdateOrg, O!Record, O!SaveFails
  <1> SUFFICES ASSUME ~crossed
               PROVE  Origins'
    BY <1>1 DEF Origins
  <1>2. \A q \in patches' : \E x \in patches : q.org = x.org /\ q.values = x.values /\ q.mine = x.mine
    <2>1. p \in O!Patch
      BY DEF O!TypeOK
    <2>2. ASSUME NEW at
          PROVE  /\ [p EXCEPT !.at = at].org = p.org /\ [p EXCEPT !.at = at].values = p.values
                 /\ [p EXCEPT !.at = at].mine = p.mine
      BY <2>1 DEF O!Patch
    <2>3. \A at : O!Step(p, at) =>
            \A q \in patches' : q \in patches \/ (q.org = p.org /\ q.values = p.values /\ q.mine = p.mine)
      BY <2>2 DEF O!Step
    <2>4. CASE O!FindBefore(p)
      <3> DEFINE next == [p EXCEPT !.at = "found", !.before = saved[p.org]]
      <3>1. next.org = p.org /\ next.values = p.values /\ next.mine = p.mine
        BY <2>1 DEF O!Patch
      <3>2. patches' = (patches \ {p}) \cup {next}
        BY <2>4 DEF O!FindBefore
      <3> HIDE DEF next
      <3>3. QED
        BY <3>1, <3>2
    <2>5. QED
      BY <2>3, <2>4 DEF O!UpdateOrg, O!Record, O!SaveFails
  <1>3. \A q \in patches' : ChosenFor(q.org, q.values) /\ (q.mine => q.org = who)
    BY <1>2 DEF Origins
  <1>4. \A o \in Org : saved'[o] = saved[o] \/ (o = p.org /\ saved'[o] = p.values)
    BY DEF O!FindBefore, O!UpdateOrg, O!Record, O!SaveFails, O!TypeOK
  <1>5. \A o \in Org : ChosenFor(o, saved'[o])
    BY <1>4 DEF Origins
  <1>6. QED
    BY <1>1, <1>3, <1>5 DEF Origins, ChosenFor

LEMMA OriginsAnswer ==
  ASSUME O!TypeOK, Origins, NEW p \in patches, O!SaveAnswered(p)
  PROVE  Origins'
  <1>1. UNCHANGED <<saved, who, chosen, crossed, settingsActs>> /\ patches' \subseteq patches
    BY DEF O!SaveAnswered
  <1> SUFFICES ASSUME ~crossed
               PROVE  Origins'
    BY <1>1 DEF Origins
  <1>2. session' # O!Nowhere => session'.org = who /\ ChosenFor(who, session'.values)
    BY AnswerShows DEF Origins
  <1>3. panel' # O!Nowhere => panel'.org = who /\ ChosenFor(who, panel'.values)
    <2>1. CASE panel' = panel
      BY <2>1 DEF Origins
    <2>2. CASE panel' = O!Mount(session') /\ session' # O!Nowhere
      <3>1. session' \in O!Session
        BY AnswerShows
      <3>2. QED
        BY <1>1, <1>2, <2>1, <2>2, <3>1, MountShows
    <2>3. ASSUME NEW status \in {"saved", "error"}, panel' = O!SavedBy(p, status)
          PROVE  panel' # O!Nowhere => panel'.org = who /\ ChosenFor(who, panel'.values)
      <3>1. CASE panel' = panel
        BY <2>1, <3>1
      <3>2. CASE panel' # panel
        <4>1. panel' = [panel EXCEPT !.status = status, !.timers = IF status = "saved" THEN @ + 1 ELSE @]
              /\ panel # O!Nowhere
          BY <2>3, <3>2, PanelIsMounted DEF O!SavedBy
        <4>2. panel'.org = panel.org /\ panel'.values = panel.values
          BY <4>1, PanelIsMounted
        <4>3. QED
          BY <4>1, <4>2 DEF Origins
      <3>3. QED
        BY <3>1, <3>2
    <2>4. QED
      BY <2>1, <2>2, <2>3, AnswerShows
  <1>4. QED
    BY <1>1, <1>2, <1>3 DEF Origins, ChosenFor

LEMMA OriginsTimer ==
  ASSUME O!TypeOK, Origins, O!Timer
  PROVE  Origins'
  <1>1. /\ panel # O!Nowhere
        /\ panel \in [org : Org, id : 0..SettingsActs, values : O!Values,
                      status : {"idle", "saving", "saved", "error"}, timers : 0..SettingsActs]
    BY PanelIsMounted DEF O!Timer
  <1>2. panel'.org = panel.org /\ panel'.values = panel.values
    BY <1>1 DEF O!Timer
  <1>3. QED
    BY <1>1, <1>2 DEF Origins, ChosenFor, O!Timer

LEMMA OriginsStep == O!TypeOK /\ Origins /\ LoadIsOwn /\ O!Next => Origins'
  BY OriginsLoad, OriginsShow, OriginsLeave, OriginsSlide, OriginsSave, OriginsOther, OriginsGoOn, OriginsAnswer, OriginsTimer
     DEF O!Next

LEMMA LoadIsOwnStep == O!TypeOK /\ Origins /\ LoadIsOwn /\ O!Next => LoadIsOwn'
  <1> SUFFICES ASSUME O!TypeOK, Origins, LoadIsOwn, O!Next, ~crossed'
               PROVE  LoadIsOwn'
    BY DEF LoadIsOwn
  <1>1. CASE O!LoadSession \/ O!ReadSession \/ O!LoadFails
    BY <1>1 DEF O!LoadSession, O!ReadSession, O!LoadFails, O!NotLoading, LoadIsOwn, Origins, ChosenFor, O!TypeOK
  <1>2. CASE O!SessionArrives \/ O!SignedIn
    BY <1>2 DEF O!SessionArrives, O!SignedIn, O!NotLoading, LoadIsOwn, ChosenFor
  <1>3. ASSUME NEW o \in Org, O!SwitchTo(o)
        PROVE  LoadIsOwn'
    BY <1>3 DEF O!SwitchTo, LoadIsOwn
  <1>4. ASSUME NEW u \in Org, NEW f \in O!Setting, NEW level \in Level,
               chosen' = [chosen EXCEPT ![u][f] = @ \cup {level}], UNCHANGED <<who, crossed>>,
               loading'.at = loading.at, loading.at # "none" => loading'.org = loading.org,
               loading.at = "read" => loading'.values = loading.values
        PROVE  LoadIsOwn'
    <2>1. \A o \in Org, values \in O!Values : ChosenFor(o, values) => ChosenFor(o, values)'
      BY <1>4, MoreIsChosen
    <2>2. loading.at = "read" => loading.org \in Org /\ loading.values \in O!Values
      BY DEF O!TypeOK, O!Loading
    <2>3. ~crossed /\ loading.at = "read" => \A g \in O!Setting : loading.values[g] \in chosen'[loading.org][g]
      BY <2>1, <2>2 DEF LoadIsOwn, ChosenFor
    <2>4. QED
      BY <1>4, <2>3 DEF LoadIsOwn, ChosenFor
  <1>5. ASSUME NEW f \in O!Setting, NEW level \in Level, O!Slide(f, level)
        PROVE  LoadIsOwn'
    <2>1. panel.org \in Org
      BY <1>5, PanelIsMounted DEF O!Slide
    <2>2. QED
      BY <1>4, <1>5, <2>1 DEF O!Slide
  <1>6. ASSUME NEW f \in O!Setting, NEW level \in Level, NEW o \in Org, O!OtherSaves(o, f, level)
        PROVE  LoadIsOwn'
    <2>1. /\ loading'.at = loading.at /\ (loading.at # "none" => loading'.org = loading.org)
          /\ loading.at = "read" => loading'.values = loading.values
      BY <1>6 DEF O!OtherSaves, O!TypeOK, O!Loading
    <2>2. QED
      BY <1>4, <1>6, <2>1 DEF O!OtherSaves
  <1>7. CASE O!Save \/ O!Timer \/ \E p \in patches : O!FindBefore(p) \/ O!UpdateOrg(p) \/ O!Record(p) \/ O!SaveFails(p) \/ O!SaveAnswered(p)
    BY <1>7 DEF O!Save, O!Timer, O!FindBefore, O!UpdateOrg, O!Record, O!SaveFails, O!SaveAnswered, LoadIsOwn, ChosenFor
  <1>8. QED
    BY <1>1, <1>2, <1>3, <1>5, <1>6, <1>7 DEF O!Next

-----------------------------------------------------------------------------
(* Saves that take turns are seen. *)

LEMMA StaleStep == O!TypeOK /\ LoadTurns /\ OthersMakeItStale /\ O!Next => OthersMakeItStale'
  <1> SUFFICES ASSUME O!TypeOK, LoadTurns, OthersMakeItStale, O!Next, settingsFresh'
               PROVE  \A p \in patches' : p.mine
    BY DEF OthersMakeItStale
  <1>1. CASE O!LoadSession \/ O!ReadSession \/ O!LoadFails \/ O!SessionArrives \/ O!SignedIn
    BY <1>1 DEF O!LoadSession, O!ReadSession, O!LoadFails, O!SessionArrives, O!SignedIn, OthersMakeItStale, LoadTurns
  <1>2. CASE O!Save
    BY <1>2 DEF O!Save, O!Request, OthersMakeItStale
  <1>3. ASSUME NEW o \in Org, O!SwitchTo(o)
        PROVE  \A p \in patches' : p.mine
    BY <1>3 DEF O!SwitchTo, OthersMakeItStale
  <1>4. ASSUME NEW f \in O!Setting, NEW level \in Level, O!Slide(f, level) \/ \E o \in Org : O!OtherSaves(o, f, level)
        PROVE  \A p \in patches' : p.mine
    BY <1>4 DEF O!Slide, O!OtherSaves, OthersMakeItStale
  <1>5. ASSUME NEW p \in patches,
               O!FindBefore(p) \/ O!UpdateOrg(p) \/ O!Record(p) \/ O!SaveFails(p)
        PROVE  \A q \in patches' : q.mine
    <2>1. p \in O!Patch /\ p.mine /\ settingsFresh
      BY <1>5 DEF O!TypeOK, OthersMakeItStale, O!FindBefore, O!UpdateOrg, O!Record, O!SaveFails
    <2>2. \A at : O!Step(p, at) => \A q \in patches' : q.mine
      BY <2>1 DEF O!Step, O!Patch, OthersMakeItStale
    <2>3. CASE O!FindBefore(p)
      BY <2>1, <2>3 DEF O!FindBefore, O!Patch, OthersMakeItStale
    <2>4. QED
      BY <1>5, <2>2, <2>3 DEF O!UpdateOrg, O!Record, O!SaveFails
  <1>6. ASSUME NEW p \in patches, O!SaveAnswered(p)
        PROVE  \A q \in patches' : q.mine
    BY <1>6 DEF O!SaveAnswered, OthersMakeItStale
  <1>7. CASE O!Timer
    BY <1>7 DEF O!Timer, OthersMakeItStale
  <1>8. QED
    BY <1>1, <1>2, <1>3, <1>4, <1>5, <1>6, <1>7 DEF O!Next

LEMMA TurnsLoad ==
  ASSUME O!TypeOK, Turns, O!LoadSession \/ O!ReadSession \/ O!LoadFails
  PROVE  Turns'
  BY DEF O!LoadSession, O!ReadSession, O!LoadFails, Turns, TakesItsTurn

LEMMA TurnsShow ==
  ASSUME O!TypeOK, Turns, LoadTurns, O!SessionArrives \/ O!SignedIn
  PROVE  Turns'
  <1>1. UNCHANGED <<saved, audited, who, patches, apart>>
    BY DEF O!SessionArrives, O!SignedIn
  <1>2. ASSUME apart, settingsFresh'
        PROVE  session'.org = who /\ session'.values = saved[who]
    <2>1. CASE O!SessionArrives
      <3>1. loading.at = "read" /\ loading.fresh /\ session' = [org |-> loading.org, values |-> loading.values]
        BY <1>2, <2>1 DEF O!SessionArrives
      <3>2. QED
        BY <1>2, <3>1 DEF LoadTurns
    <2>2. CASE O!SignedIn
      BY <2>2 DEF O!SignedIn
    <2>3. QED
      BY <2>1, <2>2
  <1>3. QED
    BY <1>1, <1>2 DEF Turns, TakesItsTurn

LEMMA TurnsBegin ==
  ASSUME O!TypeOK, Turns, NEW mine \in BOOLEAN, NEW o \in Org, NEW values, mine => o = who,
         O!Request(mine, o, values), UNCHANGED <<saved, audited, who, session>>,
         settingsFresh' => settingsFresh
  PROVE  Turns'
  <1> SUFFICES ASSUME apart'
               PROVE  Turns'
    BY DEF Turns
  <1>1. patches = {} /\ apart
    BY DEF O!Request
  <1>2. PICK new : new.at = "sent" /\ new.mine = mine /\ new.org = o /\ patches' = {new}
    BY <1>1 DEF O!Request
  <1>3. TakesItsTurn(new)'
    BY <1>1, <1>2 DEF Turns, TakesItsTurn
  <1>4. QED
    BY <1>1, <1>2, <1>3 DEF Turns

LEMMA TurnsGoOn ==
  ASSUME O!TypeOK, Turns, OthersMakeItStale, NEW p \in patches,
         O!FindBefore(p) \/ O!UpdateOrg(p) \/ O!Record(p) \/ O!SaveFails(p)
  PROVE  Turns'
  <1> SUFFICES ASSUME apart'
               PROVE  Turns'
    BY DEF Turns
  <1>0. p \in O!Patch /\ UNCHANGED <<who, session, settingsFresh>> /\ ~O!SaveFails(p) /\ apart
    BY DEF O!TypeOK, O!FindBefore, O!UpdateOrg, O!Record, O!SaveFails
  <1>1. patches = {p} /\ TakesItsTurn(p)
    BY <1>0 DEF Turns
  <1>2. saved \in [Org -> O!Values] /\ audited \in [Org -> O!Values]
    BY DEF O!TypeOK
  <1>3. CASE O!FindBefore(p)
    <2> DEFINE next == [p EXCEPT !.at = "found", !.before = saved[p.org]]
    <2>1. next.org = p.org /\ next.mine = p.mine /\ next.at = "found"
      BY <1>0 DEF O!Patch
    <2>2. patches' = {next} /\ p.at = "sent"
      BY <1>1, <1>3 DEF O!FindBefore
    <2>3. UNCHANGED <<saved, audited>>
      BY <1>3 DEF O!FindBefore
    <2> HIDE DEF next
    <2>4. QED
      BY <1>0, <1>1, <2>1, <2>2, <2>3 DEF Turns, TakesItsTurn
  <1>4. ASSUME NEW at, O!Step(p, at)
        PROVE  \E next : /\ patches' = {next} /\ next.at = at
                         /\ next.org = p.org /\ next.mine = p.mine /\ next.values = p.values
    <2> DEFINE next == [p EXCEPT !.at = at]
    <2>1. next.at = at /\ next.org = p.org /\ next.mine = p.mine /\ next.values = p.values
      BY <1>0 DEF O!Patch
    <2>2. patches' = {next}
      BY <1>1, <1>4 DEF O!Step
    <2> HIDE DEF next
    <2>3. QED
      BY <2>1, <2>2
  <1>5. CASE O!UpdateOrg(p)
    <2>1. PICK next : /\ patches' = {next} /\ next.at = "updated"
                      /\ next.org = p.org /\ next.mine = p.mine /\ next.values = p.values
      BY <1>4, <1>5 DEF O!UpdateOrg
    <2>2. p.at = "found" /\ saved' = [saved EXCEPT ![p.org] = p.values] /\ audited' = audited
      BY <1>5 DEF O!UpdateOrg
    <2>3. TakesItsTurn(next)'
      BY <1>0, <1>1, <1>2, <2>1, <2>2 DEF TakesItsTurn, O!Patch
    <2>4. QED
      BY <1>0, <2>1, <2>3 DEF Turns
  <1>6. CASE O!Record(p)
    <2>1. PICK next : /\ patches' = {next} /\ next.at = "done"
                      /\ next.org = p.org /\ next.mine = p.mine /\ next.values = p.values
      BY <1>4, <1>6 DEF O!Record
    <2>2. p.at = "updated" /\ audited' = [audited EXCEPT ![p.org] = p.values] /\ saved' = saved
      BY <1>6 DEF O!Record
    <2>3. saved = [audited EXCEPT ![p.org] = p.values]
      BY <1>1, <2>2 DEF TakesItsTurn
    <2>4. TakesItsTurn(next)'
      BY <1>0, <1>1, <2>1, <2>2, <2>3 DEF TakesItsTurn
    <2>5. QED
      BY <1>0, <2>1, <2>4 DEF Turns
  <1>7. QED
    BY <1>0, <1>3, <1>5, <1>6

LEMMA TurnsAnswer ==
  ASSUME O!TypeOK, Turns, OthersMakeItStale, NEW p \in patches, O!SaveAnswered(p)
  PROVE  Turns'
  <1> SUFFICES ASSUME apart'
               PROVE  Turns'
    BY DEF Turns
  <1>1. UNCHANGED <<saved, audited, who, apart, settingsFresh>> /\ patches' = patches \ {p}
        /\ p.at \in {"done", "failed"}
    BY DEF O!SaveAnswered
  <1>2. patches = {p} /\ TakesItsTurn(p)
    BY <1>1 DEF Turns
  <1>3. p.at = "done" /\ saved[p.org] = p.values /\ audited = saved /\ (p.mine => p.org = who)
    BY <1>1, <1>2 DEF TakesItsTurn
  <1>4. patches' = {}
    BY <1>1, <1>2
  <1>5. settingsFresh => p.mine
    BY DEF OthersMakeItStale
  <1>6. settingsFresh /\ session' # O!Nowhere => session'.org = who /\ session'.values = saved[who]
    BY <1>3, <1>5 DEF O!SaveAnswered, O!FoldIn
  <1>7. QED
    BY <1>1, <1>3, <1>4, <1>6 DEF Turns

LEMMA TurnsStep == O!TypeOK /\ Turns /\ LoadTurns /\ OthersMakeItStale /\ O!Next => Turns'
  <1> SUFFICES ASSUME O!TypeOK, Turns, LoadTurns, OthersMakeItStale, O!Next
               PROVE  Turns'
    OBVIOUS
  <1>1. CASE O!LoadSession \/ O!ReadSession \/ O!LoadFails \/ O!SessionArrives \/ O!SignedIn
    BY <1>1, TurnsLoad, TurnsShow
  <1>2. CASE O!Save
    BY <1>2, TurnsBegin DEF O!Save, O!TypeOK
  <1>3. ASSUME NEW o \in Org, O!SwitchTo(o)
        PROVE  Turns'
    BY <1>3 DEF O!SwitchTo, Turns
  <1>4. ASSUME NEW f \in O!Setting, NEW level \in Level, O!Slide(f, level)
        PROVE  Turns'
    BY <1>4 DEF O!Slide, Turns, TakesItsTurn
  <1>5. ASSUME NEW f \in O!Setting, NEW level \in Level, NEW o \in Org, O!OtherSaves(o, f, level)
        PROVE  Turns'
    BY <1>5, TurnsBegin DEF O!OtherSaves
  <1>6. ASSUME NEW p \in patches,
               O!FindBefore(p) \/ O!UpdateOrg(p) \/ O!Record(p) \/ O!SaveFails(p) \/ O!SaveAnswered(p)
        PROVE  Turns'
    BY <1>6, TurnsGoOn, TurnsAnswer
  <1>7. CASE O!Timer
    BY <1>7 DEF O!Timer, Turns, TakesItsTurn
  <1>8. QED
    BY <1>1, <1>2, <1>3, <1>4, <1>5, <1>6, <1>7 DEF O!Next

LEMMA LoadTurnsStep == O!TypeOK /\ LoadTurns /\ O!Next => LoadTurns'
  <1> SUFFICES ASSUME O!TypeOK, LoadTurns, O!Next
               PROVE  LoadTurns'
    OBVIOUS
  <1>0. apart \in BOOLEAN
    BY DEF O!TypeOK
  <1>1. CASE O!LoadSession \/ O!LoadFails
    <2>1. CASE O!LoadSession
      <3>1. loading'.at = "sent" /\ loading'.org = who /\ UNCHANGED <<who, patches>>
        BY <2>1 DEF O!LoadSession
      <3>2. apart' => \A p \in patches : ~p.mine
        BY <1>0, <2>1 DEF O!LoadSession, O!MineUnderWay
      <3>3. QED
        BY <3>1, <3>2 DEF LoadTurns
    <2>2. CASE O!LoadFails
      BY <2>2 DEF O!LoadFails, O!NotLoading, LoadTurns
    <2>3. QED
      BY <1>1, <2>1, <2>2
  <1>2. CASE O!ReadSession
    BY <1>2 DEF O!ReadSession, LoadTurns
  <1>3. CASE O!SessionArrives \/ O!SignedIn
    BY <1>3 DEF O!SessionArrives, O!SignedIn, O!NotLoading, LoadTurns
  <1>4. ASSUME NEW o \in Org, O!SwitchTo(o)
        PROVE  LoadTurns'
    BY <1>4 DEF O!SwitchTo, LoadTurns
  <1>5. CASE O!Save
    <2>1. (apart' => loading.at = "none") /\ UNCHANGED <<who, loading>>
      BY <1>0, <1>5 DEF O!Save, O!Request
    <2>2. \A p \in patches' : p \in patches \/ p.mine
      BY <1>5 DEF O!Save, O!Request
    <2>3. QED
      BY <2>1, <2>2 DEF LoadTurns
  <1>6. ASSUME NEW f \in O!Setting, NEW level \in Level, NEW o \in Org, O!OtherSaves(o, f, level)
        PROVE  LoadTurns'
    <2>1. /\ loading'.at = loading.at /\ (loading.at # "none" => loading'.org = loading.org)
          /\ loading.at = "read" => ~loading'.fresh
      BY <1>6 DEF O!OtherSaves, O!TypeOK, O!Loading
    <2>2. (apart' => apart) /\ \A p \in patches' : p \in patches \/ ~p.mine
      BY <1>0, <1>6 DEF O!OtherSaves, O!Request
    <2>3. who' = who
      BY <1>6 DEF O!OtherSaves
    <2>4. QED
      BY <2>1, <2>2, <2>3 DEF LoadTurns
  <1>7. CASE O!Timer \/ \E f \in O!Setting, level \in Level : O!Slide(f, level)
    <2>1. UNCHANGED <<who, loading, patches, apart, saved>>
      BY <1>7 DEF O!Timer, O!Slide
    <2>2. QED
      BY <2>1 DEF LoadTurns
  <1>8. ASSUME NEW p \in patches,
               O!FindBefore(p) \/ O!UpdateOrg(p) \/ O!Record(p) \/ O!SaveFails(p) \/ O!SaveAnswered(p)
        PROVE  LoadTurns'
    <2>1. p \in O!Patch
      BY DEF O!TypeOK
    <2>2. \A q \in patches' : q \in patches \/ q.mine = p.mine
      <3>1. CASE O!FindBefore(p)
        BY <2>1, <3>1 DEF O!FindBefore, O!Patch
      <3>2. CASE O!UpdateOrg(p) \/ O!Record(p) \/ O!SaveFails(p)
        BY <2>1, <3>2 DEF O!UpdateOrg, O!Record, O!SaveFails, O!Step, O!Patch
      <3>3. CASE O!SaveAnswered(p)
        BY <3>3 DEF O!SaveAnswered
      <3>4. QED
        BY <1>8, <3>1, <3>2, <3>3
    <2>3. UNCHANGED <<who, loading>> /\ (apart' => apart)
      BY <1>8 DEF O!FindBefore, O!UpdateOrg, O!Record, O!SaveFails, O!SaveAnswered
    <2>4. apart => ~(loading.at = "read" /\ loading.fresh)
      BY DEF LoadTurns
    <2>5. QED
      BY <2>2, <2>3, <2>4 DEF LoadTurns
  <1>9. QED
    BY <1>1, <1>2, <1>3, <1>4, <1>5, <1>6, <1>7, <1>8 DEF O!Next

LEMMA SettingsStep == SettingsInv /\ O!Next => SettingsInv'
  BY SettingsTypes, OriginsStep, LoadIsOwnStep, StaleStep, TurnsStep, LoadTurnsStep DEF SettingsInv

LEMMA SettingsAreHeld == SettingsInv => O!SettingsHold
  <1> SUFFICES ASSUME SettingsInv
               PROVE  O!SettingsHold
    OBVIOUS
  <1>1. O!SavesOnlyWhatWasChosen
    BY DEF SettingsInv, Origins, ChosenFor, O!SavesOnlyWhatWasChosen
  <1>2. O!SavesAreSeen
    <2>1. ASSUME apart, patches = {}, settingsFresh, session # O!Nowhere
          PROVE  session = [org |-> who, values |-> saved[who]]
      <3>1. session.org = who /\ session.values = saved[who]
        BY <2>1 DEF SettingsInv, Turns
      <3>2. session \in [org : Org, values : O!Values]
        BY <2>1, PanelIsMounted DEF SettingsInv
      <3>3. QED
        BY <3>1, <3>2
    <2>2. QED
      BY <2>1 DEF SettingsInv, Turns, O!SavesAreSeen
  <1>3. QED
    BY <1>1, <1>2 DEF O!SettingsHold

-----------------------------------------------------------------------------
(* The catalog page: its types. *)

(* No pager reaches further than one page for each product. *)
FewPages ==
  /\ table.totalPages <= Cardinality(Product)
  /\ \A t \in cache : t.totalPages <= Cardinality(Product)
  /\ request.at = "read" => request.answer.totalPages <= Cardinality(Product) /\ request.answer.of = filters

ShopTyped == S!TypeOK /\ FewPages

LEMMA ProductsAreFinite == Cardinality(Product) \in Nat /\ IsFiniteSet(Product) /\ S!NoOne \notin Product
  BY ProductAssumption, FS_CardinalityType DEF S!NoOne

(* A list without repetition is no longer than what it lists.              *)
LEMMA FoundAreFew ==
  ASSUME NEW rows \in Seq(Product), S!IsInjective(rows), NEW found \in SUBSET DOMAIN rows
  PROVE  IsFiniteSet(found) /\ Cardinality(found) \in Nat /\ Cardinality(found) <= Cardinality(Product)
  <1> DEFINE f == [i \in found |-> rows[i]]
  <1>1. f \in [found -> Product]
    OBVIOUS
  <1>2. \A a, b \in found : f[a] = f[b] => a = b
    BY DEF S!IsInjective
  <1> HIDE DEF f
  <1>3. f \in Injection(found, Product)
    BY <1>1, <1>2 DEF Injection, IsInjective
  <1>4. QED
    BY <1>3, ProductsAreFinite, FS_Injection, FS_CardinalityType

LEMMA AnswerTyped ==
  ASSUME shelf \in Seq(Product), S!IsInjective(shelf), value \in [Product -> S!Values], NEW f \in S!Filters
  PROVE  /\ S!Answer(f) \in S!Table /\ S!Answer(f).of = f
         /\ S!Answer(f).totalPages <= Cardinality(Product)
  <1> DEFINE found == {i \in DOMAIN shelf : f.search => shelf[i] \in Narrow}
             rank(i) == S!Cardinality({j \in found : j <= i})
             shown == {i \in found : rank(i) \in (f.page - 1) * ShopPageSize + 1 .. f.page * ShopPageSize}
             rows == {<<shelf[i], value[shelf[i]]>> : i \in shown}
             total == (S!Cardinality(found) + ShopPageSize - 1) \div ShopPageSize
  <1>1. S!Answer(f) = [of |-> f, rows |-> rows, totalPages |-> total]
    BY DEF S!Answer, S!FindMany
  <1>2. found \in SUBSET DOMAIN shelf /\ shown \in SUBSET DOMAIN shelf
    OBVIOUS
  <1> HIDE DEF found, shown
  <1>3. rows \in SUBSET (Product \X S!Values)
    BY <1>2
  <1>4. Cardinality(found) \in Nat /\ Cardinality(found) <= Cardinality(Product)
    BY <1>2, FoundAreFew
  <1>5. total = (Cardinality(found) + ShopPageSize - 1) \div ShopPageSize
    BY SameCardinality
  <1>6. ShopPageSize \in Nat \ {0}
    BY SizeAssumption
  <1>7. \A n \in Nat : (n + ShopPageSize - 1) \div ShopPageSize \in Nat /\ (n + ShopPageSize - 1) \div ShopPageSize <= n
    BY <1>6
  <1>8. total \in Nat /\ total <= Cardinality(found)
    BY <1>4, <1>5, <1>7
  <1> HIDE DEF rows, total
  <1>9. S!Answer(f).totalPages = total /\ S!Answer(f).of = f /\ S!Answer(f) \in S!Table
    BY <1>1, <1>3, <1>8 DEF S!Table
  <1>10. QED
    BY <1>4, <1>8, <1>9, ProductsAreFinite

LEMMA ShelfBegins == S!SetToSeq(Product) \in Seq(Product) /\ S!IsInjective(S!SetToSeq(Product))
  <1> DEFINE n == Cardinality(Product)
             Orders == {f \in [1..n -> Product] : S!IsInjective(f)}
  <1>1. \E f \in [1..n -> Product] : S!IsInjective(f)
    <2>1. PICK f \in Bijection(1..n, Product) : TRUE
      BY ProductsAreFinite, FS_CardinalityType DEF ExistsBijection
    <2>2. f \in [1..n -> Product] /\ \A a, b \in 1..n : f[a] = f[b] => a = b
      BY <2>1 DEF Bijection, Injection, IsInjective
    <2>3. S!IsInjective(f)
      BY <2>2 DEF S!IsInjective
    <2>4. QED
      BY <2>2, <2>3
  <1>2. S!SetToSeq(Product) = CHOOSE f \in [1..n -> Product] : S!IsInjective(f)
    BY SameCardinality DEF S!SetToSeq
  <1>3. S!SetToSeq(Product) \in [1..n -> Product] /\ S!IsInjective(S!SetToSeq(Product))
    BY <1>1, <1>2
  <1>4. \A f \in [1..n -> Product] : f \in Seq(Product)
    BY ProductsAreFinite
  <1>5. QED
    BY <1>3, <1>4

(* What the server does to the shelf. *)
LEMMA RemovalTyped ==
  ASSUME NEW rows \in Seq(Product), S!IsInjective(rows), NEW p
  PROVE  /\ S!RemoveFirst(rows, p) \in Seq(Product) /\ S!IsInjective(S!RemoveFirst(rows, p))
         /\ \A i \in DOMAIN S!RemoveFirst(rows, p) : S!RemoveFirst(rows, p)[i] # p
  <1>1. CASE \A i \in DOMAIN rows : rows[i] # p
    <2>1. ~\E i \in 1..Len(rows) : rows[i] = p
      BY <1>1
    <2>2. S!RemoveFirst(rows, p) = rows
      BY <2>1 DEF S!RemoveFirst
    <2>3. QED
      BY <1>1, <2>2
  <1>2. CASE \E i \in DOMAIN rows : rows[i] = p
    <2> DEFINE at == S!Min({i \in 1..Len(rows) : rows[i] = p})
               rest == S!RemoveFirst(rows, p)
               left == SubSeq(rows, 1, at - 1) \o SubSeq(rows, at + 1, Len(rows))
    <2>1. at \in DOMAIN rows /\ rows[at] = p
      <3> DEFINE places == {i \in 1..Len(rows) : rows[i] = p}
      <3>1. places \in SUBSET Nat /\ places # {}
        BY <1>2
      <3>2. S!Min(places) = D!Min(places)
        BY DEF S!Min, D!Min
      <3>3. S!Min(places) \in places
        <4> HIDE DEF places
        <4>1. QED
          BY <3>1, <3>2, MinExists
      <3>4. QED
        BY <3>3
    <2>2. rest = left
      <3>1. {i \in 1..Len(rows) : rows[i] = p} # {}
        BY <1>2
      <3>2. QED
        BY <1>2, <3>1 DEF S!RemoveFirst, S!RemoveAt, S!SelectInSeq
    <2> HIDE DEF at, rest
    <2>3. /\ left \in Seq(Product) /\ Len(left) = Len(rows) - 1
          /\ \A i \in 1..(Len(rows) - 1) : left[i] = IF i < at THEN rows[i] ELSE rows[i + 1]
      <3> DEFINE above == SubSeq(rows, 1, at - 1)
                 below == SubSeq(rows, at + 1, Len(rows))
      <3>1. at \in 1..Len(rows) /\ Len(rows) \in Nat
        BY <2>1
      <3>2. above \in Seq(Product) /\ Len(above) = at - 1 /\ \A i \in 1..(at - 1) : above[i] = rows[i]
        BY <3>1
      <3>3. below \in Seq(Product) /\ Len(below) = Len(rows) - at /\ \A i \in 1..(Len(rows) - at) : below[i] = rows[at + i]
        BY <3>1
      <3> HIDE DEF above, below
      <3>4. above \o below \in Seq(Product) /\ Len(above \o below) = Len(rows) - 1
        <4>1. above \o below \in Seq(Product)
          BY <3>2, <3>3
        <4>2. Len(above \o below) = Len(above) + Len(below)
          BY <3>2, <3>3
        <4>3. QED
          BY <3>1, <3>2, <3>3, <4>1, <4>2
      <3>5. \A i \in 1..(Len(rows) - 1) : (above \o below)[i] = IF i < at THEN above[i] ELSE below[i - (at - 1)]
        BY <3>1, <3>2, <3>3
      <3>6. \A i \in 1..(Len(rows) - 1) : (above \o below)[i] = IF i < at THEN rows[i] ELSE rows[i + 1]
        <4> SUFFICES ASSUME NEW i \in 1..(Len(rows) - 1)
                     PROVE  (above \o below)[i] = IF i < at THEN rows[i] ELSE rows[i + 1]
          OBVIOUS
        <4>1. CASE i < at
          BY <3>1, <3>2, <3>5, <4>1
        <4>2. CASE ~(i < at)
          <5>1. i - (at - 1) \in 1..(Len(rows) - at) /\ at + (i - (at - 1)) = i + 1
            BY <3>1, <4>2
          <5>2. QED
            BY <3>3, <3>5, <4>2, <5>1
        <4>3. QED
          BY <4>1, <4>2
      <3>7. QED
        BY <3>4, <3>6 DEF above, below
    <2> HIDE DEF left
    <2>4. DOMAIN left = 1..(Len(rows) - 1)
      BY <2>3
    <2>5. \A a, b \in DOMAIN left : left[a] = left[b] => a = b
      BY <2>1, <2>3, <2>4 DEF S!IsInjective
    <2>6. \A i \in DOMAIN left : left[i] # p
      BY <2>1, <2>3, <2>4 DEF S!IsInjective
    <2>7. S!IsInjective(left)
      BY <2>5 DEF S!IsInjective
    <2>8. QED
      BY <2>2, <2>3, <2>6, <2>7 DEF rest
  <1>3. QED
    BY <1>1, <1>2

LEMMA FirstTyped ==
  ASSUME shelf \in Seq(Product), S!IsInjective(shelf), NEW p \in Product
  PROVE  S!First(p) \in Seq(Product) /\ S!IsInjective(S!First(p))
  <1> DEFINE rest == S!RemoveFirst(shelf, p)
             first == <<p>> \o rest
  <1>1. rest \in Seq(Product) /\ S!IsInjective(rest) /\ \A i \in DOMAIN rest : rest[i] # p
    BY RemovalTyped
  <1>2. S!First(p) = first
    BY DEF S!First
  <1> HIDE DEF rest
  <1>3. /\ first \in Seq(Product) /\ Len(first) = Len(rest) + 1 /\ first[1] = p
        /\ \A i \in 2..(Len(rest) + 1) : first[i] = rest[i - 1]
    BY <1>1
  <1> HIDE DEF first
  <1>4. DOMAIN first = 1..(Len(rest) + 1) /\ DOMAIN rest = 1..Len(rest) /\ Len(rest) \in Nat
    BY <1>1, <1>3
  <1>5. \A a, b \in DOMAIN first : first[a] = first[b] => a = b
    <2> SUFFICES ASSUME NEW a \in DOMAIN first, NEW b \in DOMAIN first, first[a] = first[b]
                 PROVE  a = b
      OBVIOUS
    <2>1. \A i \in DOMAIN first : i = 1 \/ (i \in 2..(Len(rest) + 1) /\ i - 1 \in DOMAIN rest)
      BY <1>4
    <2>2. CASE a = 1 \/ b = 1
      BY <1>1, <1>3, <2>1, <2>2
    <2>3. CASE a # 1 /\ b # 1
      <3>1. rest[a - 1] = rest[b - 1] /\ a - 1 \in DOMAIN rest /\ b - 1 \in DOMAIN rest
        BY <1>3, <2>1, <2>3
      <3>2. a - 1 = b - 1
        BY <1>1, <3>1 DEF S!IsInjective
      <3>3. QED
        BY <1>4, <3>2
    <2>4. QED
      BY <2>2, <2>3
  <1>6. QED
    BY <1>2, <1>3, <1>5 DEF S!IsInjective

ServerTyped ==
  /\ shelf \in Seq(Product) /\ S!IsInjective(shelf)
  /\ value \in [Product -> S!Values]

ShopRequest == [at : {"none"}] \cup [at : {"sent"}, awaited : S!Awaiting]
               \cup [at : {"read"}, awaited : S!Awaiting, answer : S!Table, fresh : BOOLEAN]

(* One answer is kept for each filters at most. *)
CacheTyped ==
  /\ cache \in SUBSET S!Table /\ \A t, u \in cache : t.of = u.of => t = u
  /\ stale \in SUBSET S!Filters /\ failed \in SUBSET S!Filters /\ overtaken \in SUBSET S!Filters

ViewTyped == filters \in S!Filters /\ table \in S!Table /\ request \in ShopRequest /\ CacheTyped /\ FewPages

ShopForm == [open : BOOLEAN, for : Product \cup {S!NoOne}, base : S!Values, draft : S!Values,
             typed : SUBSET S!Field]
ShopSave == [at : S!At, ok : BOOLEAN, for : Product \cup {S!NoOne}, values : S!Values,
             patch : SUBSET S!Field, typed : SUBSET S!Field]
ShopRemoval == [at : S!At, ok : BOOLEAN, for : Product]

DialogsTyped ==
  /\ form \in ShopForm /\ deleting \in Product \cup {S!NoOne}
  /\ saving \in [at : {"none"}] \cup ShopSave
  /\ removing \in [at : {"none"}] \cup ShopRemoval

LEMMA ShopTypesAre ==
  ShopTyped <=> ServerTyped /\ ViewTyped /\ DialogsTyped /\ shopActs \in 0..ShopActs
  BY DEF ShopTyped, S!TypeOK, ServerTyped, ViewTyped, CacheTyped, DialogsTyped, ShopRequest, ShopForm, ShopSave, ShopRemoval

LEMMA PlainTyped == S!Plain \in S!Values /\ S!Default \in S!Filters /\ S!NoRequest \in [at : {"none"}]
  BY ProductsAreFinite, SameCardinality DEF S!Plain, S!Values, S!Version, S!Default, S!Filters, S!NoRequest

LEMMA ShopTypesBegin == S!Init => ShopTyped
  <1> SUFFICES ASSUME S!Init
               PROVE  ShopTyped
    OBVIOUS
  <1>1. ServerTyped
    BY PlainTyped, ShelfBegins DEF S!Init, ServerTyped
  <1>2. S!Answer(S!Default) \in S!Table /\ S!Answer(S!Default).totalPages <= Cardinality(Product)
    BY <1>1, PlainTyped, AnswerTyped DEF ServerTyped
  <1>3. ViewTyped
    BY <1>2, PlainTyped DEF S!Init, ViewTyped, CacheTyped, FewPages, ShopRequest, S!NoRequest
  <1>4. DialogsTyped
    BY PlainTyped DEF S!Init, DialogsTyped, ShopForm
  <1>5. shopActs \in 0..ShopActs
    BY SizeAssumption DEF S!Init
  <1>6. QED
    BY <1>1, <1>3, <1>4, <1>5, ShopTypesAre

LEMMA ShopActTyped == shopActs \in 0..ShopActs /\ S!Act => shopActs' \in 0..ShopActs
  BY SizeAssumption DEF S!Act

LEMMA ShownTyped ==
  ASSUME ViewTyped
  PROVE  S!Shown \in S!Table /\ S!Shown.totalPages <= Cardinality(Product)
  <1> DEFINE blank == [of |-> filters, rows |-> {}, totalPages |-> 0]
  <1>1. blank \in S!Table /\ blank.totalPages <= Cardinality(Product)
    BY ProductsAreFinite DEF ViewTyped, S!Table
  <1>2. table \in S!Table /\ table.totalPages <= Cardinality(Product)
    BY DEF ViewTyped, FewPages
  <1>3. S!Shown \in {blank, table}
    BY DEF S!Shown
  <1> HIDE DEF blank
  <1>4. QED
    BY <1>1, <1>2, <1>3

LEMMA SentIsRequest ==
  ASSUME NEW awaited \in S!Awaiting
  PROVE  S!Sent(awaited) \in ShopRequest /\ S!Sent(awaited).at = "sent"
  BY DEF S!Sent, ShopRequest

LEMMA TableTyped ==
  ASSUME ServerTyped, ViewTyped, shopActs \in 0..ShopActs,
         S!Update \/ S!Previous \/ S!NextPage \/ S!Refetch \/ S!Reads \/ S!Arrives \/ S!Fails
  PROVE  ViewTyped' /\ shopActs' \in 0..ShopActs /\ UNCHANGED <<S!server, S!dialogs>>
  <1>0. /\ S!Sent({}) \in ShopRequest /\ S!Sent({}).at = "sent"
        /\ S!NoRequest \in ShopRequest /\ S!NoRequest.at = "none"
    BY SentIsRequest, PlainTyped DEF S!Awaiting, ShopRequest, S!NoRequest
  <1>1. ASSUME NEW f \in S!Filters, S!SetFilters(f)
        PROVE  ViewTyped' /\ shopActs' \in 0..ShopActs /\ UNCHANGED <<S!server, S!dialogs>>
    <2>1. filters' = f /\ request' \in {S!NoRequest, S!Sent({})} /\ table' \in cache \cup {table}
          /\ UNCHANGED <<cache, stale, failed, overtaken, S!server, S!dialogs>>
      BY <1>1 DEF S!SetFilters, S!Cached, S!answers
    <2>2. request' \in ShopRequest /\ request'.at # "read"
      BY <1>0, <2>1
    <2>3. table' \in S!Table /\ table'.totalPages <= Cardinality(Product)
      BY <2>1 DEF ViewTyped, CacheTyped, FewPages
    <2>4. ViewTyped'
      BY <2>1, <2>2, <2>3 DEF ViewTyped, CacheTyped, FewPages
    <2>5. QED
      BY <1>1, <2>1, <2>4, ShopActTyped DEF S!SetFilters
  <1>2. filters \in [page : 1..(Cardinality(Product) + 1), search : BOOLEAN] /\ Cardinality(Product) \in Nat
        /\ S!Filters = [page : 1..(Cardinality(Product) + 1), search : BOOLEAN]
    BY SameCardinality, ProductsAreFinite DEF ViewTyped, S!Filters
  <1>3. CASE S!Update
    <2>1. [S!Default EXCEPT !.search = ~filters.search] \in S!Filters
      <3>1. (~filters.search) \in BOOLEAN /\ 1 \in 1..(Cardinality(Product) + 1)
        BY <1>2
      <3>2. [S!Default EXCEPT !.search = ~filters.search] = [page |-> 1, search |-> ~filters.search]
        BY DEF S!Default
      <3>3. QED
        BY <1>2, <3>1, <3>2
    <2>2. QED
      BY <1>1, <1>3, <2>1 DEF S!Update
  <1>4. CASE S!Previous
    <2>1. [filters EXCEPT !.page = @ - 1] \in S!Filters
      BY <1>2, <1>4 DEF S!Previous
    <2>2. QED
      BY <1>1, <1>4, <2>1 DEF S!Previous
  <1>5. CASE S!NextPage
    <2>1. filters.page < S!Shown.totalPages /\ S!Shown.totalPages \in Nat /\ S!Shown.totalPages <= Cardinality(Product)
      BY <1>5, ShownTyped DEF S!NextPage, S!Table
    <2>2. [filters EXCEPT !.page = @ + 1] \in S!Filters
      BY <1>2, <2>1
    <2>3. QED
      BY <1>1, <1>5, <2>2 DEF S!NextPage
  <1>6. CASE S!Refetch
    BY <1>0, <1>6 DEF S!Refetch, S!answers, ViewTyped, CacheTyped, FewPages
  <1>7. CASE S!Reads
    <2> DEFINE next == [at |-> "read", awaited |-> request.awaited, answer |-> S!Answer(filters), fresh |-> TRUE]
    <2>1. /\ S!Answer(filters) \in S!Table /\ S!Answer(filters).of = filters
          /\ S!Answer(filters).totalPages <= Cardinality(Product)
      BY AnswerTyped DEF ServerTyped, ViewTyped
    <2>2. request.awaited \in S!Awaiting
      BY <1>7 DEF S!Reads, ViewTyped, ShopRequest
    <2>3. next \in ShopRequest /\ next.at = "read" /\ next.answer = S!Answer(filters)
      BY <2>1, <2>2 DEF ShopRequest
    <2>4. request' = next
          /\ UNCHANGED <<S!server, S!dialogs, filters, table, cache, stale, failed, overtaken, shopActs>>
      BY <1>7 DEF S!Reads, S!answers
    <2> HIDE DEF next
    <2>5. request'.answer.totalPages <= Cardinality(Product) /\ request'.answer.of = filters
      BY <2>1, <2>3, <2>4
    <2>6. QED
      BY <2>3, <2>4, <2>5 DEF ViewTyped, CacheTyped, FewPages
  <1>8. CASE S!Arrives
    <2>1. /\ request.at = "read" /\ table' = request.answer /\ request' = S!NoRequest
          /\ cache' = (cache \ S!Cached(filters)) \cup {request.answer}
          /\ stale' \in SUBSET stale /\ failed' \in SUBSET failed /\ overtaken' \in SUBSET (overtaken \cup {filters})
          /\ UNCHANGED <<S!server, S!dialogs, filters, shopActs>>
      BY <1>8 DEF S!Arrives
    <2>2. /\ request.answer \in S!Table /\ request.answer.totalPages <= Cardinality(Product)
          /\ request.answer.of = filters
      BY <2>1 DEF ViewTyped, ShopRequest, FewPages
    <2>3. \A t \in cache' : t = request.answer \/ (t \in cache /\ t.of # filters)
      BY <2>1 DEF S!Cached
    <2>4. CacheTyped'
      BY <2>1, <2>2, <2>3 DEF ViewTyped, CacheTyped
    <2>5. QED
      BY <1>0, <2>1, <2>2, <2>3, <2>4 DEF ViewTyped, FewPages
  <1>9. CASE S!Fails
    BY <1>0, <1>9 DEF S!Fails, ViewTyped, CacheTyped, FewPages
  <1>10. QED
    BY <1>3, <1>4, <1>5, <1>6, <1>7, <1>8, <1>9

LEMMA FormTyped ==
  ASSUME ViewTyped, DialogsTyped, shopActs \in 0..ShopActs,
         \/ S!Open \/ S!Cancel \/ S!Submit \/ S!KeepIt \/ S!Confirm
         \/ \E f \in S!Field : S!Type(f)
         \/ \E p \in Product : S!AskDelete(p)
  PROVE  DialogsTyped' /\ shopActs' \in 0..ShopActs /\ UNCHANGED <<S!server, S!view>>
  <1>1. ASSUME NEW p \in Product \cup {S!NoOne}, NEW values \in S!Values, S!OpenForm(p, values)
        PROVE  DialogsTyped' /\ shopActs' \in 0..ShopActs /\ UNCHANGED <<S!server, S!view>>
    <2> DEFINE kept == p = form.for /\ values = form.base
               draft == IF kept THEN form.draft ELSE values
               entered == IF kept THEN form.typed ELSE {}
    <2>0. draft \in S!Values /\ entered \in SUBSET S!Field
      BY DEF DialogsTyped, ShopForm
    <2>1. form' \in ShopForm
      <3>1. form' = [open |-> TRUE, for |-> p, base |-> values, draft |-> draft, typed |-> entered]
        BY <1>1 DEF S!OpenForm
      <3> HIDE DEF draft, entered
      <3>2. QED
        BY <2>0, <3>1 DEF ShopForm
    <2>2. QED
      BY <1>1, <2>1, ShopActTyped DEF S!OpenForm, DialogsTyped
  <1>2. CASE S!Open
    <2>1. \A row \in S!Shown.rows : row[1] \in Product /\ row[2] \in S!Values
      BY ShownTyped DEF S!Table
    <2>2. QED
      BY <1>1, <1>2, <2>1, PlainTyped DEF S!Open
  <1>3. CASE S!Cancel
    <2>1. form' \in ShopForm
      BY <1>3 DEF S!Cancel, DialogsTyped, ShopForm
    <2>2. QED
      BY <1>3, <2>1 DEF S!Cancel, DialogsTyped
  <1>4. CASE S!Submit
    <2> DEFINE next == [at |-> "sent", ok |-> FALSE, for |-> form.for, values |-> form.draft, patch |-> S!Patch,
                        typed |-> form.typed]
    <2>1. S!Dirty \in SUBSET S!Field /\ S!Patch \in SUBSET S!Field
      BY DEF S!Dirty, S!Patch
    <2>2. next \in ShopSave
      BY <2>1 DEF ShopSave, DialogsTyped, ShopForm, S!At
    <2>3. saving' = next
      BY <1>4 DEF S!Submit
    <2> HIDE DEF next
    <2>4. QED
      BY <1>4, <2>2, <2>3, ShopActTyped DEF S!Submit, DialogsTyped
  <1>5. CASE S!KeepIt
    BY <1>5 DEF S!KeepIt, DialogsTyped
  <1>6. CASE S!Confirm
    <2>1. removing' \in ShopRemoval
      BY <1>6 DEF S!Confirm, DialogsTyped, ShopRemoval, S!At
    <2>2. QED
      BY <1>6, <2>1, ShopActTyped DEF S!Confirm, DialogsTyped
  <1>7. ASSUME NEW f \in S!Field, S!Type(f)
        PROVE  DialogsTyped' /\ shopActs' \in 0..ShopActs /\ UNCHANGED <<S!server, S!view>>
    <2>1. form \in ShopForm /\ form' = [form EXCEPT !.draft = [form.draft EXCEPT ![f] = 1], !.typed = form.typed \cup {f}]
      BY <1>7 DEF S!Type, DialogsTyped
    <2>2. [form.draft EXCEPT ![f] = 1] \in S!Values
      BY <2>1 DEF ShopForm, S!Values, S!Version
    <2>3. form' \in ShopForm
      BY <2>1, <2>2 DEF ShopForm
    <2>4. QED
      BY <1>7, <2>3, ShopActTyped DEF S!Type, DialogsTyped
  <1>8. ASSUME NEW p \in Product, S!AskDelete(p)
        PROVE  DialogsTyped' /\ shopActs' \in 0..ShopActs /\ UNCHANGED <<S!server, S!view>>
    BY <1>8, ShopActTyped DEF S!AskDelete, DialogsTyped
  <1>9. QED
    BY <1>2, <1>3, <1>4, <1>5, <1>6, <1>7, <1>8

LEMMA WriteTyped ==
  ASSUME ServerTyped, ViewTyped, DialogsTyped, shopActs \in 0..ShopActs,
         S!Handle \/ S!HandleDelete \/ (\E p \in Product : S!Other(p))
  PROVE  ServerTyped' /\ ViewTyped' /\ DialogsTyped' /\ shopActs' \in 0..ShopActs
  <1>0. UNCHANGED S!view => ViewTyped'
    BY DEF ViewTyped, CacheTyped, FewPages, S!view, S!answers
  <1>1. \A p \in Product : S!First(p) \in Seq(Product) /\ S!IsInjective(S!First(p))
    BY FirstTyped DEF ServerTyped
  <1>2. \A p : S!RemoveFirst(shelf, p) \in Seq(Product) /\ S!IsInjective(S!RemoveFirst(shelf, p))
    BY RemovalTyped DEF ServerTyped
  <1>3. CASE S!Handle
    <2>1. saving \in ShopSave
      BY <1>3 DEF S!Handle, DialogsTyped
    <2>2. saving' \in ShopSave
      BY <1>3, <2>1 DEF S!Handle, ShopSave, S!At
    <2>3. \A values \in S!Values : \A fields : S!With(values, fields) \in S!Values
      BY <2>1 DEF S!With, ShopSave, S!Values
    <2>4. ServerTyped'
      <3>1. CASE UNCHANGED S!server
        BY <3>1 DEF S!server, ServerTyped
      <3>2. ASSUME NEW p \in Product, shelf' = S!First(p),
                   value' = [value EXCEPT ![p] = S!With(@, saving.patch)]
            PROVE  ServerTyped'
        <4>1. value' \in [Product -> S!Values]
          BY <2>3, <3>2 DEF ServerTyped
        <4>2. QED
          BY <1>1, <3>2, <4>1 DEF ServerTyped
      <3>3. QED
        BY <1>3, <3>1, <3>2 DEF S!Handle
    <2>5. QED
      BY <1>0, <1>3, <2>2, <2>4 DEF S!Handle, DialogsTyped
  <1>4. CASE S!HandleDelete
    <2>1. removing \in ShopRemoval
      BY <1>4 DEF S!HandleDelete, DialogsTyped
    <2>2. removing' \in ShopRemoval
      BY <1>4, <2>1 DEF S!HandleDelete, ShopRemoval, S!At
    <2>3. ServerTyped'
      BY <1>2, <1>4 DEF S!HandleDelete, ServerTyped
    <2>4. QED
      BY <1>0, <1>4, <2>2, <2>3 DEF S!HandleDelete, DialogsTyped
  <1>5. ASSUME NEW p \in Product, S!Other(p)
        PROVE  ServerTyped' /\ ViewTyped' /\ DialogsTyped' /\ shopActs' \in 0..ShopActs
    <2>1. ServerTyped'
      <3>1. CASE shelf' = S!RemoveFirst(shelf, p) /\ UNCHANGED value
        BY <1>2, <3>1 DEF ServerTyped
      <3>2. ASSUME NEW f \in S!Field, value' = [value EXCEPT ![p][f] = 2], shelf' = S!First(p)
            PROVE  ServerTyped'
        <4>1. \A values \in S!Values : [values EXCEPT ![f] = 2] \in S!Values
          BY DEF S!Values, S!Version
        <4>2. value' = [value EXCEPT ![p] = [value[p] EXCEPT ![f] = 2]]
          BY <3>2
        <4>3. value' \in [Product -> S!Values]
          BY <4>1, <4>2 DEF ServerTyped
        <4>4. QED
          BY <1>1, <3>2, <4>3 DEF ServerTyped
      <3>3. QED
        BY <1>5, <3>1, <3>2 DEF S!Other
    <2>2. /\ overtaken' = {t.of : t \in cache} /\ UNCHANGED <<filters, table, cache, stale, failed, S!dialogs>>
          /\ request' = IF request.at = "read" THEN [request EXCEPT !.fresh = FALSE] ELSE request
          /\ shopActs' \in 0..ShopActs
      BY <1>5, ShopActTyped DEF S!Other
    <2>3. overtaken' \in SUBSET S!Filters
      BY <2>2 DEF ViewTyped, CacheTyped, S!Table
    <2>4. /\ request' \in ShopRequest
          /\ request'.at = "read" => request.at = "read" /\ request'.answer = request.answer
      BY <2>2 DEF ViewTyped, ShopRequest
    <2>5. ViewTyped'
      BY <2>2, <2>3, <2>4 DEF ViewTyped, CacheTyped, FewPages
    <2>6. QED
      BY <2>1, <2>2, <2>5 DEF DialogsTyped, S!dialogs
  <1>6. QED
    BY <1>3, <1>4, <1>5

LEMMA AnswersTyped ==
  ASSUME ViewTyped, DialogsTyped,
         S!Answered \/ S!DeleteAnswered \/ S!Settle \/ S!SettleDelete
  PROVE  ViewTyped' /\ DialogsTyped' /\ UNCHANGED <<S!server, shopActs>>
  <1>1. ASSUME NEW write \in {"save", "delete"}, S!Invalidate(write),
               UNCHANGED <<filters, table, cache, failed, overtaken>>
        PROVE  ViewTyped'
    <2>1. {write} \in S!Awaiting
      BY DEF S!Awaiting
    <2>2. request' \in ShopRequest /\ request'.at = "sent"
      BY <1>1, <2>1, SentIsRequest DEF S!Invalidate
    <2>3. stale' \in SUBSET S!Filters
      BY <1>1 DEF S!Invalidate, ViewTyped, CacheTyped, S!Table
    <2>4. QED
      BY <1>1, <2>2, <2>3 DEF ViewTyped, CacheTyped, FewPages
  <1>2. CASE S!Answered
    <2>1. saving' \in ShopSave
      BY <1>2 DEF S!Answered, DialogsTyped, ShopSave, S!At
    <2>2. ViewTyped'
      BY <1>1, <1>2 DEF S!Answered
    <2>3. QED
      BY <1>2, <2>1, <2>2 DEF S!Answered, DialogsTyped
  <1>3. CASE S!DeleteAnswered
    <2>1. removing' \in ShopRemoval
      BY <1>3 DEF S!DeleteAnswered, DialogsTyped, ShopRemoval, S!At
    <2>2. ViewTyped'
      BY <1>1, <1>3 DEF S!DeleteAnswered
    <2>3. QED
      BY <1>3, <2>1, <2>2 DEF S!DeleteAnswered, DialogsTyped
  <1>4. CASE S!Settle
    <2>1. saving \in ShopSave
      BY <1>4 DEF S!Settle, DialogsTyped
    <2>2. form' \in ShopForm
      BY <1>4, <2>1 DEF S!Settle, DialogsTyped, ShopForm, ShopSave
    <2>3. saving' = S!NoRequest /\ UNCHANGED <<S!server, S!view, deleting, removing, shopActs>>
      BY <1>4 DEF S!Settle
    <2>4. QED
      BY <2>2, <2>3, PlainTyped DEF DialogsTyped, ViewTyped, CacheTyped, FewPages, S!view, S!answers
  <1>5. CASE S!SettleDelete
    <2>1. deleting' \in Product \cup {S!NoOne}
      BY <1>5 DEF S!SettleDelete, DialogsTyped
    <2>2. removing' = S!NoRequest /\ UNCHANGED <<S!server, S!view, form, saving, shopActs>>
      BY <1>5 DEF S!SettleDelete
    <2>3. QED
      BY <2>1, <2>2, PlainTyped DEF DialogsTyped, ViewTyped, CacheTyped, FewPages, S!view, S!answers
  <1>6. QED
    BY <1>2, <1>3, <1>4, <1>5

LEMMA ShopTypesStep == ShopTyped /\ S!Next => ShopTyped'
  <1> SUFFICES ASSUME ShopTyped, S!Next
               PROVE  ShopTyped'
    OBVIOUS
  <1>1. ServerTyped /\ ViewTyped /\ DialogsTyped /\ shopActs \in 0..ShopActs
    BY ShopTypesAre
  <1>2. ServerTyped' /\ ViewTyped' /\ DialogsTyped' /\ shopActs' \in 0..ShopActs
    <2>1. UNCHANGED S!server => ServerTyped'
      BY <1>1 DEF ServerTyped, S!server
    <2>2. UNCHANGED S!view => ViewTyped'
      BY <1>1 DEF ViewTyped, CacheTyped, FewPages, S!view, S!answers
    <2>3. UNCHANGED S!dialogs => DialogsTyped'
      BY <1>1 DEF DialogsTyped, S!dialogs
    <2>4. CASE S!Update \/ S!Previous \/ S!NextPage \/ S!Refetch \/ S!Reads \/ S!Arrives \/ S!Fails
      BY <1>1, <2>1, <2>3, <2>4, TableTyped
    <2>5. CASE \/ S!Open \/ S!Cancel \/ S!Submit \/ S!KeepIt \/ S!Confirm
               \/ \E f \in S!Field : S!Type(f)
               \/ \E p \in Product : S!AskDelete(p)
      BY <1>1, <2>1, <2>2, <2>5, FormTyped
    <2>6. CASE S!Handle \/ S!HandleDelete \/ (\E p \in Product : S!Other(p))
      BY <1>1, <2>6, WriteTyped
    <2>7. CASE S!Answered \/ S!DeleteAnswered \/ S!Settle \/ S!SettleDelete
      BY <1>1, <2>1, <2>7, AnswersTyped
    <2>8. QED
      BY <2>4, <2>5, <2>6, <2>7 DEF S!Next
  <1>3. QED
    BY <1>2 DEF ShopTyped, FewPages, S!TypeOK, ServerTyped, ViewTyped, CacheTyped, DialogsTyped, ShopRequest, ShopForm, ShopSave, ShopRemoval

(* A table at rest without an error shows the answer kept for its filters, *)
(* which is not known to be out of date.                                   *)
ShowsCached ==
  /\ S!Cached(filters) # {} => table \in S!Cached(filters)
  /\ request.at = "none" /\ filters \notin failed => S!Cached(filters) # {} /\ filters \notin stale

(* An answer kept, or on its way, is the server's page, but for what       *)
(* others wrote, unless it is known to be out of date or a write was       *)
(* handled that is yet to make it known.                                   *)
CacheFollows ==
  saving.at # "handled" /\ removing.at # "handled" =>
    /\ \A t \in cache : t.of \notin stale /\ t.of \notin overtaken => t = S!Answer(t.of)
    /\ request.at = "read" /\ request.fresh => request.answer = S!Answer(filters)

(* What differs from the row in a form was typed into it. *)
DirtIsTyped ==
  /\ S!Dirty \subseteq form.typed
  /\ S!OnlyTypedFieldsAreSent

ShopInv == ShowsCached /\ CacheFollows /\ DirtIsTyped

LEMMA SameAnswer == UNCHANGED <<shelf, value>> => \A f : S!Answer(f)' = S!Answer(f)
  BY DEF S!Answer

LEMMA ShopBegins == S!Init => ShopInv
  <1> SUFFICES ASSUME S!Init PROVE ShopInv
    OBVIOUS
  <1>1. table.of = S!Default
    BY DEF S!Init, S!Answer, S!FindMany
  <1>2. ShowsCached /\ CacheFollows
    BY <1>1 DEF S!Init, ShowsCached, CacheFollows, S!Cached, S!NoRequest
  <1>3. DirtIsTyped
    BY DEF S!Init, DirtIsTyped, S!Dirty, S!OnlyTypedFieldsAreSent, S!NoRequest
  <1>4. QED
    BY <1>2, <1>3 DEF ShopInv

LEMMA ShowsStep ==
  ASSUME ShopTyped, ShowsCached, S!Next
  PROVE  ShowsCached'
  <1>1. ViewTyped
    BY ShopTypesAre
  <1> USE DEF S!answers, S!view
  <1>2. CASE UNCHANGED <<filters, cache, stale, failed, table>> /\ (request'.at = "none" => request.at = "none")
    BY <1>2 DEF ShowsCached, S!Cached
  <1>3. ASSUME NEW f, S!SetFilters(f)
        PROVE  ShowsCached'
    <2>1. filters' = f /\ UNCHANGED <<cache, stale, failed>> /\ S!Cached(f)' = S!Cached(f)
      BY <1>3 DEF S!SetFilters, S!Cached
    <2>2. S!Cached(f) # {} => table' \in S!Cached(f)
      BY <1>3 DEF S!SetFilters
    <2>3. request'.at = "none" => S!Cached(f) # {} /\ f \notin stale
      BY <1>3 DEF S!SetFilters, S!Sent
    <2>4. QED
      BY <2>1, <2>2, <2>3 DEF ShowsCached
  <1>4. CASE S!Arrives
    <2>1. request.answer.of = filters
      BY <1>1, <1>4 DEF S!Arrives, ViewTyped, FewPages
    <2>2. S!Cached(filters)' = {request.answer}
      BY <1>4, <2>1 DEF S!Arrives, S!Cached
    <2>3. QED
      BY <1>4, <2>2 DEF S!Arrives, ShowsCached
  <1>5. CASE S!Fails
    BY <1>5 DEF S!Fails, ShowsCached, S!Cached
  <1>6. ASSUME NEW write, S!Invalidate(write), UNCHANGED <<filters, table, cache, failed>>
        PROVE  ShowsCached'
    BY <1>6 DEF S!Invalidate, S!Sent, ShowsCached, S!Cached
  <1>7. CASE S!Update \/ S!Previous \/ S!NextPage
    BY <1>3, <1>7 DEF S!Update, S!Previous, S!NextPage
  <1>8. CASE S!Answered \/ S!DeleteAnswered
    BY <1>6, <1>8 DEF S!Answered, S!DeleteAnswered
  <1>9. CASE S!Refetch \/ S!Reads
    BY <1>2, <1>9 DEF S!Refetch, S!Reads, S!Sent
  <1>10. CASE \E p \in Product : S!Other(p)
    <2>1. request'.at = request.at
      BY <1>1, <1>10 DEF S!Other, ViewTyped, ShopRequest
    <2>2. QED
      BY <1>2, <1>10, <2>1 DEF S!Other
  <1>11. CASE \/ S!Open \/ S!Cancel \/ S!Submit \/ S!KeepIt \/ S!Confirm
              \/ \E f \in S!Field : S!Type(f)
              \/ \E p \in Product : S!AskDelete(p)
              \/ S!Handle \/ S!HandleDelete \/ S!Settle \/ S!SettleDelete
    <2>1. UNCHANGED <<filters, cache, stale, failed, table, request>>
      BY <1>11 DEF S!Open, S!OpenForm, S!Cancel, S!Submit, S!KeepIt, S!Confirm, S!Type, S!AskDelete,
                   S!Handle, S!HandleDelete, S!Settle, S!SettleDelete
    <2>2. QED
      BY <1>2, <2>1
  <1>12. QED
    BY <1>4, <1>5, <1>7, <1>8, <1>9, <1>10, <1>11 DEF S!Next

LEMMA FollowsStep ==
  ASSUME ShopTyped, CacheFollows, S!Next
  PROVE  CacheFollows'
  <1>1. ViewTyped /\ DialogsTyped
    BY ShopTypesAre
  <1> USE DEF S!answers, S!view, S!server, S!dialogs
  <1>2. ASSUME UNCHANGED <<shelf, value, filters, cache, stale, overtaken>>, request' = request \/ request'.at # "read",
               saving.at = "handled" => saving'.at = "handled",
               removing.at = "handled" => removing'.at = "handled"
        PROVE  CacheFollows'
    BY <1>2, SameAnswer DEF CacheFollows
  <1>3. ASSUME NEW f, S!SetFilters(f)
        PROVE  CacheFollows'
    <2>1. request'.at # "read" /\ UNCHANGED <<shelf, value, cache, stale, overtaken, saving, removing>>
      BY <1>3 DEF S!SetFilters, S!Sent, S!NoRequest
    <2>2. QED
      BY <2>1, SameAnswer DEF CacheFollows
  <1>4. CASE S!Reads
    <2>1. request'.answer = S!Answer(filters) /\ UNCHANGED <<shelf, value, filters, cache, stale, overtaken, saving, removing>>
      BY <1>4 DEF S!Reads
    <2>2. QED
      BY <2>1, SameAnswer DEF CacheFollows
  <1>5. CASE S!Arrives
    <2>1. /\ request.at = "read" /\ request.answer.of = filters
          /\ request'.at = "none" /\ UNCHANGED <<shelf, value, filters, saving, removing>>
          /\ stale' = stale \ {filters}
          /\ overtaken' = IF request.fresh THEN overtaken \ {filters} ELSE overtaken \cup {filters}
      BY <1>1, <1>5 DEF S!Arrives, S!NoRequest, ViewTyped, FewPages
    <2>2. \A t \in cache' : t = request.answer \/ (t \in cache /\ t.of # filters)
      BY <1>5 DEF S!Arrives, S!Cached
    <2>3. SUFFICES ASSUME saving.at # "handled", removing.at # "handled", NEW t \in cache',
                          t.of \notin stale', t.of \notin overtaken'
                   PROVE  t = S!Answer(t.of)
      BY <2>1, SameAnswer DEF CacheFollows
    <2>4. CASE t = request.answer
      <3>1. request.fresh
        BY <2>1, <2>3, <2>4
      <3>2. QED
        BY <2>1, <2>3, <2>4, <3>1 DEF CacheFollows
    <2>5. CASE t \in cache /\ t.of # filters
      BY <2>1, <2>3, <2>5 DEF CacheFollows
    <2>6. QED
      BY <2>2, <2>4, <2>5
  <1>6. CASE S!Refetch \/ S!Fails
    BY <1>2, <1>6 DEF S!Refetch, S!Fails, S!Sent, S!NoRequest
  <1>7. CASE S!Handle
    <2>1. saving'.at = "handled"
      BY <1>1, <1>7 DEF S!Handle, DialogsTyped, ShopSave
    <2>2. QED
      BY <2>1 DEF CacheFollows
  <1>8. CASE S!HandleDelete
    <2>1. removing'.at = "handled"
      BY <1>1, <1>8 DEF S!HandleDelete, DialogsTyped, ShopRemoval
    <2>2. QED
      BY <2>1 DEF CacheFollows
  <1>9. CASE \E p \in Product : S!Other(p)
    <2>1. overtaken' = {t.of : t \in cache'} /\ (request'.at = "read" => request'.fresh = FALSE)
      BY <1>1, <1>9 DEF S!Other, ViewTyped, ShopRequest
    <2>2. QED
      BY <2>1 DEF CacheFollows
  <1>10. CASE S!Answered \/ S!DeleteAnswered
    <2>1. stale' = {t.of : t \in cache'} /\ request'.at = "sent"
      BY <1>10 DEF S!Answered, S!DeleteAnswered, S!Invalidate, S!Sent
    <2>2. QED
      BY <2>1 DEF CacheFollows
  <1>11. CASE \/ S!Open \/ S!Cancel \/ S!Submit \/ S!KeepIt \/ S!Confirm
              \/ \E f \in S!Field : S!Type(f)
              \/ \E p \in Product : S!AskDelete(p)
              \/ S!Settle \/ S!SettleDelete
    <2>1. UNCHANGED <<shelf, value, filters, cache, stale, overtaken, request>>
      BY <1>11 DEF S!Open, S!OpenForm, S!Cancel, S!Submit, S!KeepIt, S!Confirm, S!Type, S!AskDelete,
                   S!Settle, S!SettleDelete
    <2>2. (saving.at = "handled" => saving'.at = "handled") /\ (removing.at = "handled" => removing'.at = "handled")
      BY <1>11 DEF S!Open, S!OpenForm, S!Cancel, S!Submit, S!KeepIt, S!Confirm, S!Type, S!AskDelete,
                   S!Settle, S!SettleDelete
    <2>3. QED
      BY <1>2, <2>1, <2>2
  <1>12. QED
    BY <1>3, <1>4, <1>5, <1>6, <1>7, <1>8, <1>9, <1>10, <1>11
       DEF S!Next, S!Update, S!Previous, S!NextPage

LEMMA TypedStep ==
  ASSUME ShopTyped, DirtIsTyped, S!Next
  PROVE  DirtIsTyped'
  <1>1. /\ form \in ShopForm /\ saving \in [at : {"none"}] \cup ShopSave
        /\ \A f \in S!Field : form.draft[f] # form.base[f] => f \in form.typed
        /\ saving.at # "none" /\ saving.for # S!NoOne => saving.patch \subseteq saving.typed
    BY ShopTypesAre DEF DialogsTyped, DirtIsTyped, S!Dirty, S!OnlyTypedFieldsAreSent
  <1> USE DEF S!dialogs
  <1>2. SUFFICES /\ \A f \in S!Field : form'.draft[f] # form'.base[f] => f \in form'.typed
                 /\ saving'.at # "none" /\ saving'.for # S!NoOne => saving'.patch \subseteq saving'.typed
    BY DEF DirtIsTyped, S!Dirty, S!OnlyTypedFieldsAreSent
  <1>3. ASSUME NEW p, NEW values, S!OpenForm(p, values)
        PROVE  /\ UNCHANGED saving
               /\ \A f \in S!Field : form'.draft[f] # form'.base[f] => f \in form'.typed
    <2>1. form'.base = values /\ UNCHANGED saving
      BY <1>3 DEF S!OpenForm
    <2>2. \/ values = form.base /\ form'.draft = form.draft /\ form'.typed = form.typed
          \/ form'.draft = values
      BY <1>3 DEF S!OpenForm
    <2>3. QED
      BY <1>1, <2>1, <2>2
  <1>4. ASSUME NEW g \in S!Field, S!Type(g)
        PROVE  /\ UNCHANGED saving
               /\ \A f \in S!Field : form'.draft[f] # form'.base[f] => f \in form'.typed
    <2>1. form' = [form EXCEPT !.draft = [form.draft EXCEPT ![g] = 1], !.typed = form.typed \cup {g}] /\ UNCHANGED saving
      BY <1>4 DEF S!Type
    <2>2. /\ form'.base = form.base /\ form'.typed = form.typed \cup {g}
          /\ \A f \in S!Field : f # g => form'.draft[f] = form.draft[f]
      BY <1>1, <2>1 DEF ShopForm, S!Values
    <2>3. QED
      BY <1>1, <2>1, <2>2
  <1>5. CASE S!Submit
    <2>1. /\ UNCHANGED form /\ saving'.for = form.for /\ saving'.typed = form.typed
          /\ saving'.patch = IF form.for = S!NoOne THEN S!Field ELSE S!Dirty
      BY <1>5 DEF S!Submit, S!Patch
    <2>2. QED
      BY <1>1, <2>1 DEF S!Dirty
  <1>6. CASE S!Handle \/ S!Answered
    <2>1. /\ UNCHANGED form /\ saving.at # "none" /\ saving'.for = saving.for
          /\ saving'.patch = saving.patch /\ saving'.typed = saving.typed
      BY <1>1, <1>6 DEF S!Handle, S!Answered, ShopSave
    <2>2. QED
      BY <1>1, <2>1
  <1>7. CASE S!Cancel \/ S!Settle
    <2>1. /\ form'.draft = form.draft /\ form'.base = form.base /\ form'.typed = form.typed
          /\ saving' = saving \/ saving'.at = "none"
      BY <1>1, <1>7 DEF S!Cancel, S!Settle, S!NoRequest, ShopForm
    <2>2. QED
      BY <1>1, <2>1
  <1>8. CASE UNCHANGED <<form, saving>>
    BY <1>1, <1>8
  <1>9. CASE S!Open
    BY <1>1, <1>3, <1>9 DEF S!Open
  <1>10. CASE \E f \in S!Field : S!Type(f)
    BY <1>1, <1>4, <1>10
  <1>11. CASE \/ S!Update \/ S!Previous \/ S!NextPage \/ S!Refetch \/ S!Reads \/ S!Arrives \/ S!Fails
              \/ S!KeepIt \/ S!Confirm \/ (\E p \in Product : S!AskDelete(p) \/ S!Other(p))
              \/ S!HandleDelete \/ S!DeleteAnswered \/ S!SettleDelete
    <2>1. UNCHANGED <<form, saving>>
      BY <1>11 DEF S!Update, S!Previous, S!NextPage, S!SetFilters, S!Refetch, S!Reads, S!Arrives, S!Fails,
                   S!KeepIt, S!Confirm, S!AskDelete, S!Other, S!HandleDelete, S!DeleteAnswered, S!SettleDelete
    <2>2. QED
      BY <1>8, <2>1
  <1>12. QED
    BY <1>5, <1>6, <1>7, <1>9, <1>10, <1>11 DEF S!Next

LEMMA ShopStep == ShopTyped /\ ShopInv /\ S!Next => ShopInv'
  BY ShowsStep, FollowsStep, TypedStep DEF ShopInv

LEMMA ShopIsHeld == ShopInv => S!ShopHolds
  <1> SUFFICES ASSUME ShopInv PROVE S!ShopHolds
    OBVIOUS
  <1>1. S!QuietTableIsCurrent
    <2> SUFFICES ASSUME request.at = "none", filters \notin failed, filters \notin overtaken,
                        saving.at # "handled", removing.at # "handled"
                 PROVE  table = S!Answer(filters)
      BY DEF S!QuietTableIsCurrent
    <2>1. table \in cache /\ table.of = filters /\ filters \notin stale
      BY DEF ShopInv, ShowsCached, S!Cached
    <2>2. QED
      BY <2>1 DEF ShopInv, CacheFollows
  <1>2. QED
    BY <1>1 DEF ShopInv, DirtIsTyped, S!ShopHolds

-----------------------------------------------------------------------------
(* The decision page. *)

(* A lone analyst has one request at a time, and its callbacks run.        *)
OneCall ==
  calm => /\ \A c, d \in calls : c = d
          /\ \A c \in calls : c.followed /\ c.kind # "batch"

CallsNumbered == \A c \in calls : c.n <= deskActs

(* The toast is about an own decision, until its undo is sent.             *)
ToastIsOwn ==
  calm =>
    /\ \A c \in calls : c.kind = "undo" => c.ids = {deskToast} /\ deskToast # D!Nothing
    /\ \A c \in calls : c.kind \in D!Decision /\ c.at = "done" => c.ids \subseteq own
    /\ deskToast # D!Nothing /\ (\A c \in calls : c.kind # "undo") => deskToast \in own

(* What a decision under way has taken from the queue.                     *)
Taken(c) == IF c.kind \in D!Decision /\ c.at = "done" THEN c.ids ELSE {}

Beside(u, rows) == (rows = {} /\ u = D!Nothing) \/ u \in rows

(* The list is the queue, or not yet there, when nothing is under way; and *)
(* while a request is, no row and no selection is from outside the queue   *)
(* it was sent from.                                                       *)
PaneFollows ==
  calm /\ wide /\ tab = "PENDING" =>
    /\ calls = {} => (items = queue /\ Beside(url, queue)) \/ (items = {} /\ url = D!Nothing)
    /\ \A c \in calls :
         /\ items \subseteq queue \cup Taken(c)
         /\ url \in queue \cup Taken(c) \cup {D!Nothing}
         /\ Taken(c) \cap queue = {}
         /\ c.kind \in D!Decision => c.rows = {} \/ c.rows = queue \cup Taken(c)
         /\ c.kind = "undo" /\ c.at = "done" => c.ids \subseteq queue


DeskPane == [modifying : BOOLEAN, for : D!Some]
DeskDialog == [open : BOOLEAN, for : D!Some]

LEMMA NotNothing == D!Nothing \notin DeskRec /\ D!Nothing \in D!Some /\ DeskRec \subseteq D!Some
  BY RankAssumption DEF D!Nothing, D!Some

LEMMA GreatestListed ==
  ASSUME NEW rows \in SUBSET DeskRec, rows # {}
  PROVE  D!Max(rows) \in rows /\ D!Min(rows) \in rows
  <1>1. rows \in SUBSET Nat /\ IsFiniteSet(rows)
    BY RankAssumption, FS_Subset
  <1>2. QED
    BY <1>1, MaxExists, MinExists

LEMMA PinnedShows ==
  ASSUME NEW u \in D!Some, NEW rows \in SUBSET DeskRec
  PROVE  /\ D!Pinned(u, rows) \in D!Some
         /\ u # D!Nothing => D!Pinned(u, rows) = u
         /\ rows = {} => D!Pinned(u, rows) = u
         /\ wide /\ rows # {} /\ u = D!Nothing => D!Pinned(u, rows) \in rows
  BY GreatestListed, NotNothing DEF D!Pinned

LEMMA AdvanceShows ==
  ASSUME NEW rows \in SUBSET DeskRec, NEW r \in DeskRec
  PROVE  /\ D!Advance(rows, r) \in (rows \ {r}) \cup {D!Nothing}
         /\ rows = {} => D!Advance(rows, r) = D!Nothing
  <1> DEFINE below == {x \in rows : x < r}
             above == {x \in rows : x > r}
  <1>1. below \in SUBSET DeskRec /\ above \in SUBSET DeskRec /\ below \subseteq rows \ {r} /\ above \subseteq rows \ {r}
    <2>1. r \in Nat /\ \A x \in rows : x \in Nat
      BY RankAssumption
    <2>2. r \notin below /\ r \notin above
      BY <2>1
    <2>3. QED
      BY <2>2
  <1>2. D!Advance(rows, r) = CASE r \notin rows /\ rows # {} -> D!Max(rows)
                               [] r \in rows /\ below # {} -> D!Max(below)
                               [] r \in rows /\ below = {} /\ above # {} -> D!Min(above)
                               [] OTHER -> D!Nothing
    BY DEF D!Advance
  <1> HIDE DEF below, above
  <1>3. CASE r \notin rows /\ rows # {}
    <2>1. D!Advance(rows, r) = D!Max(rows)
      BY <1>2, <1>3
    <2>2. QED
      BY <1>3, <2>1, GreatestListed
  <1>4. CASE r \in rows /\ below # {}
    <2>1. D!Advance(rows, r) = D!Max(below)
      BY <1>2, <1>4
    <2>2. QED
      BY <1>1, <1>4, <2>1, GreatestListed
  <1>5. CASE r \in rows /\ below = {} /\ above # {}
    <2>1. D!Advance(rows, r) = D!Min(above)
      BY <1>2, <1>5
    <2>2. QED
      BY <1>1, <1>5, <2>1, GreatestListed
  <1>6. CASE ~(r \notin rows /\ rows # {}) /\ ~(r \in rows /\ below # {}) /\ ~(r \in rows /\ below = {} /\ above # {})
    <2>1. D!Advance(rows, r) = D!Nothing
      BY <1>2, <1>6
    <2>2. QED
      BY <2>1
  <1>7. QED
    BY <1>3, <1>4, <1>5, <1>6

-----------------------------------------------------------------------------
(* Types. *)

(* What is not about the requests. *)
DeskTyped ==
  /\ queue \subseteq DeskRec /\ items \subseteq DeskRec /\ checked \subseteq DeskRec /\ own \subseteq DeskRec
  /\ wide \in BOOLEAN /\ calm \in BOOLEAN
  /\ tab \in {"PENDING", "past"}
  /\ url \in D!Some /\ deskToast \in D!Some
  /\ details \in [DeskRec -> {"none", "PENDING", "decided"}]
  /\ pane \in DeskPane /\ dialog \in DeskDialog
  /\ deskActs \in 0..DeskActs

CallsTyped ==
  /\ calls \subseteq D!Call
  /\ \A c, d \in calls : c.n = d.n => c = d
  /\ CallsNumbered
  /\ \A c \in calls : c.kind # "batch" => \E r \in DeskRec : c.ids = {r}

LEMMA EmptyTyped == \A open \in BOOLEAN : D!Empty(open) \in DeskDialog
  BY NotNothing DEF D!Empty, DeskDialog

LEMMA MoveTyped ==
  ASSUME pane \in DeskPane, dialog \in DeskDialog, NEW u \in D!Some
  PROVE  D!PaneFor(u) \in DeskPane /\ D!DialogFor(u) \in DeskDialog
  BY NotNothing DEF D!PaneFor, D!DialogFor, D!Empty, DeskPane, DeskDialog

LEMMA MovingTyped ==
  ASSUME DeskTyped, NEW u \in D!Some, D!Move(u)
  PROVE  url' \in D!Some /\ pane' \in DeskPane /\ dialog' \in DeskDialog
  BY MoveTyped DEF D!Move, DeskTyped

LEMMA ListedTyped == DeskTyped => D!Listed(tab, queue) \in SUBSET DeskRec
  BY DEF DeskTyped, D!Listed

LEMMA DeskTypes == DeskTyped /\ CallsTyped => D!TypeOK
  BY DEF D!TypeOK, DeskTyped, CallsTyped, DeskPane, DeskDialog

DeskInv == DeskTyped /\ CallsTyped /\ OneCall /\ ToastIsOwn /\ PaneFollows

LEMMA DeskBegins == D!Init => DeskInv
  <1> SUFFICES ASSUME D!Init
               PROVE  DeskInv
    OBVIOUS
  <1>1. D!Pinned(D!Nothing, DeskRec) \in D!Some
        /\ (wide /\ DeskRec # {} => D!Pinned(D!Nothing, DeskRec) \in DeskRec)
        /\ (DeskRec = {} => D!Pinned(D!Nothing, DeskRec) = D!Nothing)
    BY PinnedShows, NotNothing
  <1>2. DeskTyped
    BY <1>1, NotNothing, SizeAssumption DEF D!Init, DeskTyped, DeskPane, DeskDialog, D!Empty
  <1>3. CallsTyped
    BY DEF D!Init, CallsTyped, CallsNumbered
  <1>4. OneCall /\ ToastIsOwn
    BY DEF D!Init, OneCall, ToastIsOwn
  <1>5. PaneFollows
    BY <1>1 DEF D!Init, PaneFollows, Beside
  <1>6. QED
    BY <1>2, <1>3, <1>4, <1>5, DeskTypes DEF DeskInv

LEMMA SendTyped ==
  ASSUME DeskTyped, CallsTyped, NEW kind \in D!Kind, NEW ids \in SUBSET DeskRec, NEW written \in D!Some,
         kind # "batch" => \E r \in DeskRec : ids = {r}, D!Send(kind, ids, written)
  PROVE  CallsTyped' /\ deskActs' \in 0..DeskActs /\ calm' \in BOOLEAN
  <1> DEFINE new == [n |-> deskActs', kind |-> kind, ids |-> ids, for |-> written, rows |-> items,
                     at |-> "sent", followed |-> TRUE]
             less(c) == [c EXCEPT !.followed = @ /\ c.kind # kind]
  <1>1. deskActs \in 0..DeskActs /\ deskActs' = deskActs + 1 /\ deskActs' \in 1..DeskActs
    BY SizeAssumption DEF DeskTyped, D!Send, D!Act
  <1>2. new \in D!Call /\ new.n = deskActs' /\ new.kind = kind /\ new.ids = ids
    BY <1>1 DEF D!Call, DeskTyped
  <1>3. \A c \in calls : c \in D!Call /\ less(c) \in D!Call /\ less(c).n = c.n /\ less(c).kind = c.kind /\ less(c).ids = c.ids
    BY DEF CallsTyped, D!Call
  <1>4. calls' = {less(c) : c \in calls} \cup {new}
    BY DEF D!Send
  <1>5. \A c \in calls : c.n <= deskActs /\ c.n \in 1..DeskActs
    BY <1>3 DEF CallsTyped, CallsNumbered, D!Call
  <1> HIDE DEF new, less
  <1>6. calls' \subseteq D!Call
    BY <1>2, <1>3, <1>4
  <1>7. \A c \in calls' : c = new \/ \E x \in calls : c = less(x)
    BY <1>4
  <1>8. \A c, d \in calls' : c.n = d.n => c = d
    <2>1. \A x \in calls : less(x).n # new.n
      BY <1>1, <1>2, <1>3, <1>5
    <2>2. \A x, y \in calls : less(x).n = less(y).n => x = y
      BY <1>3 DEF CallsTyped
    <2>3. QED
      BY <1>7, <2>1, <2>2
  <1>9. \A c \in calls' : c.n <= deskActs'
    BY <1>1, <1>2, <1>3, <1>5, <1>7
  <1>10. calm' \in BOOLEAN
    BY DEF D!Send, DeskTyped
  <1>11. \A c \in calls' : c.kind # "batch" => \E r \in DeskRec : c.ids = {r}
    BY <1>2, <1>3, <1>7 DEF CallsTyped
  <1>12. QED
    BY <1>1, <1>6, <1>8, <1>9, <1>10, <1>11 DEF CallsTyped, CallsNumbered

LEMMA DeskBecomesTyped ==
  ASSUME CallsTyped, NEW c \in calls, NEW at \in {"done", "failed"}, D!Becomes(c, at), UNCHANGED deskActs
  PROVE  CallsTyped'
  <1> DEFINE next == [c EXCEPT !.at = at]
  <1>1. c \in D!Call
    BY DEF CallsTyped
  <1>2. next \in D!Call /\ next.n = c.n /\ next.kind = c.kind /\ next.ids = c.ids
    BY <1>1 DEF D!Call
  <1>3. calls' = (calls \ {c}) \cup {next}
    BY DEF D!Becomes
  <1> HIDE DEF next
  <1>4. QED
    BY <1>2, <1>3 DEF CallsTyped, CallsNumbered

LEMMA ActTyped == DeskTyped /\ D!Act => deskActs' \in 0..DeskActs /\ deskActs' = deskActs + 1 /\ deskActs \in Nat
  BY SizeAssumption DEF DeskTyped, D!Act

(* Acts that leave the requests alone. *)
LEMMA CallsKept == DeskTyped /\ CallsTyped /\ calls' = calls /\ (deskActs' = deskActs \/ D!Act) => CallsTyped'
  <1> SUFFICES ASSUME DeskTyped, CallsTyped, calls' = calls, deskActs' = deskActs \/ D!Act
               PROVE  CallsTyped'
    OBVIOUS
  <1>1. \A c \in calls : c.n \in Nat /\ c.n <= deskActs
    BY DEF CallsTyped, CallsNumbered, D!Call
  <1>2. \A c \in calls : c.n <= deskActs'
    BY <1>1, ActTyped
  <1>3. QED
    BY <1>2 DEF CallsTyped, CallsNumbered

LEMMA LookingTyped ==
  ASSUME DeskTyped, CallsTyped,
         \/ D!ListArrives \/ D!DetailArrives \/ D!Back \/ D!ClearChecks
         \/ \E r \in DeskRec : D!Select(r) \/ D!ToggleCheck(r) \/ D!Other(r)
         \/ \E t \in {"PENDING", "past"} : D!FilterChange(t)
  PROVE  DeskTyped' /\ CallsTyped'
  <1>1. CASE D!ListArrives
    <2>1. D!Pinned(url, D!Listed(tab, queue)) \in D!Some
      BY ListedTyped, PinnedShows DEF DeskTyped
    <2>2. url' \in D!Some /\ pane' \in DeskPane /\ dialog' \in DeskDialog /\ items' \subseteq DeskRec
      BY <1>1, <2>1, MovingTyped, ListedTyped DEF D!ListArrives, D!Fetched
    <2>3. DeskTyped' /\ CallsTyped'
      BY <1>1, <2>2 DEF D!ListArrives, DeskTyped, CallsTyped, CallsNumbered
    <2>4. QED
      BY <2>3
  <1>2. CASE D!DetailArrives
    <2>1. pane' \in DeskPane
      BY <1>2 DEF D!DetailArrives, DeskTyped, DeskPane
    <2>2. details' \in [DeskRec -> {"none", "PENDING", "decided"}]
      BY <1>2 DEF D!DetailArrives, DeskTyped
    <2>3. DeskTyped' /\ CallsTyped'
      BY <1>2, <2>1, <2>2 DEF D!DetailArrives, DeskTyped, CallsTyped, CallsNumbered
    <2>4. QED
      BY <2>3
  <1>3. CASE D!Back
    <2>1. url' \in D!Some /\ pane' \in DeskPane /\ dialog' \in DeskDialog
      BY <1>3, MovingTyped, NotNothing DEF D!Back
    <2>2. DeskTyped'
      BY <1>3, <2>1, ActTyped DEF D!Back, DeskTyped
    <2>3. CallsTyped'
      BY <1>3, CallsKept DEF D!Back
    <2>4. QED
      BY <2>2, <2>3
  <1>4. CASE D!ClearChecks
    <2>1. DeskTyped'
      BY <1>4, ActTyped DEF D!ClearChecks, DeskTyped
    <2>2. CallsTyped'
      BY <1>4, CallsKept DEF D!ClearChecks
    <2>3. QED
      BY <2>1, <2>2
  <1>5. ASSUME NEW r \in DeskRec, D!Select(r)
        PROVE  DeskTyped' /\ CallsTyped'
    <2>1. url' \in D!Some /\ pane' \in DeskPane /\ dialog' \in DeskDialog
      BY <1>5, MovingTyped, NotNothing DEF D!Select
    <2>2. DeskTyped'
      BY <1>5, <2>1, ActTyped DEF D!Select, DeskTyped
    <2>3. CallsTyped'
      BY <1>5, CallsKept DEF D!Select
    <2>4. QED
      BY <2>2, <2>3
  <1>6. ASSUME NEW r \in DeskRec, D!ToggleCheck(r)
        PROVE  DeskTyped' /\ CallsTyped'
    <2>1. DeskTyped'
      BY <1>6, ActTyped DEF D!ToggleCheck, DeskTyped
    <2>2. CallsTyped'
      BY <1>6, CallsKept DEF D!ToggleCheck
    <2>3. QED
      BY <2>1, <2>2
  <1>7. ASSUME NEW r \in DeskRec, D!Other(r)
        PROVE  DeskTyped' /\ CallsTyped'
    <2>1. DeskTyped'
      BY <1>7, ActTyped DEF D!Other, DeskTyped
    <2>2. CallsTyped'
      BY <1>7, CallsKept DEF D!Other
    <2>3. QED
      BY <2>1, <2>2
  <1>8. ASSUME NEW t \in {"PENDING", "past"}, D!FilterChange(t)
        PROVE  DeskTyped' /\ CallsTyped'
    <2>1. items' \in SUBSET DeskRec
      BY <1>8 DEF D!FilterChange, DeskTyped
    <2>2. url' \in D!Some /\ pane' \in DeskPane /\ dialog' \in DeskDialog
      BY <1>8, <2>1, MovingTyped, PinnedShows, NotNothing DEF D!FilterChange
    <2>3. DeskTyped'
      BY <1>8, <2>1, <2>2, ActTyped DEF D!FilterChange, DeskTyped
    <2>4. CallsTyped'
      BY <1>8, CallsKept DEF D!FilterChange
    <2>5. QED
      BY <2>3, <2>4
  <1>9. QED
    BY <1>1, <1>2, <1>3, <1>4, <1>5, <1>6, <1>7, <1>8

LEMMA WritingTyped ==
  ASSUME DeskTyped, CallsTyped,
         D!ToggleModify \/ D!EnterPrice \/ D!OpenReject \/ D!EnterReason \/ D!CloseReject \/ D!Dismiss
  PROVE  DeskTyped' /\ CallsTyped'
  <1>1. CASE D!Dismiss
    <2>1. DeskTyped' /\ CallsTyped'
      BY <1>1, NotNothing DEF D!Dismiss, DeskTyped, CallsTyped, CallsNumbered
    <2>2. QED
      BY <2>1
  <1>2. CASE D!ToggleModify \/ D!EnterPrice
    <2>1. pane' \in DeskPane
      BY <1>2 DEF D!ToggleModify, D!EnterPrice, DeskTyped, DeskPane
    <2>2. DeskTyped'
      BY <1>2, <2>1, ActTyped DEF D!ToggleModify, D!EnterPrice, DeskTyped
    <2>3. CallsTyped'
      BY <1>2, CallsKept DEF D!ToggleModify, D!EnterPrice
    <2>4. QED
      BY <2>2, <2>3
  <1>3. CASE D!OpenReject \/ D!EnterReason \/ D!CloseReject
    <2>1. dialog' \in DeskDialog
      <3>1. CASE D!EnterReason
        BY <3>1 DEF D!EnterReason, DeskTyped, DeskDialog
      <3>2. CASE D!OpenReject \/ D!CloseReject
        BY <3>2, EmptyTyped DEF D!OpenReject, D!CloseReject
      <3>3. QED
        BY <1>3, <3>1, <3>2
    <2>2. DeskTyped'
      BY <1>3, <2>1, ActTyped DEF D!OpenReject, D!EnterReason, D!CloseReject, DeskTyped
    <2>3. CallsTyped'
      BY <1>3, CallsKept DEF D!OpenReject, D!EnterReason, D!CloseReject
    <2>4. QED
      BY <2>2, <2>3
  <1>4. QED
    BY <1>1, <1>2, <1>3

LEMMA SendingTyped ==
  ASSUME DeskTyped, CallsTyped,
         D!HandleApprove \/ D!HandleModify \/ D!HandleReject \/ D!HandleBatch \/ D!HandleUndo
  PROVE  DeskTyped' /\ CallsTyped'
  <1>1. D!Decidable \/ (dialog.open /\ D!Mounted(url)) => url \in DeskRec
    BY DEF D!Decidable, D!Mounted, DeskTyped, D!Some
  <1>2. PICK kind \in D!Kind, ids \in SUBSET DeskRec, written \in D!Some :
          D!Send(kind, ids, written) /\ (kind # "batch" => \E r \in DeskRec : ids = {r})
    <2>1. CASE D!HandleApprove
      BY <1>1, <2>1, NotNothing DEF D!HandleApprove, D!Kind, D!Decision
    <2>2. CASE D!HandleModify
      <3>1. pane.for \in D!Some /\ url \in DeskRec /\ D!Send("modify", {url}, pane.for)
        BY <1>1, <2>2 DEF D!HandleModify, DeskTyped, DeskPane
      <3>2. QED
        BY <3>1 DEF D!Kind, D!Decision
    <2>3. CASE D!HandleReject
      <3>1. dialog.for \in D!Some /\ url \in DeskRec /\ D!Send("reject", {url}, dialog.for)
        BY <1>1, <2>3 DEF D!HandleReject, DeskTyped, DeskDialog
      <3>2. QED
        BY <3>1 DEF D!Kind, D!Decision
    <2>4. CASE D!HandleBatch
      BY <2>4, NotNothing DEF D!HandleBatch, D!Kind, DeskTyped
    <2>5. CASE D!HandleUndo
      BY <2>5, NotNothing DEF D!HandleUndo, D!Kind, DeskTyped, D!Some
    <2>6. QED
      BY <2>1, <2>2, <2>3, <2>4, <2>5
  <1>3. CallsTyped' /\ deskActs' \in 0..DeskActs /\ calm' \in BOOLEAN
    BY <1>2, SendTyped
  <1>4. items' \subseteq DeskRec /\ url' = url /\ dialog' = dialog
    BY DEF D!HandleApprove, D!HandleModify, D!HandleReject, D!HandleBatch, D!HandleUndo, DeskTyped
  <1>5. UNCHANGED <<queue, wide, tab, details, pane, checked, deskToast, own>>
    BY <1>2 DEF D!Send
  <1>6. QED
    BY <1>3, <1>4, <1>5 DEF DeskTyped

LEMMA DeskAnswerTyped ==
  ASSUME DeskTyped, CallsTyped, NEW c \in calls, D!Answer(c)
  PROVE  DeskTyped' /\ CallsTyped'
  <1>1. UNCHANGED <<wide, tab, items, url, details, pane, dialog, checked, deskToast, deskActs, calm>>
    BY DEF D!Answer
  <1>2. D!Becomes(c, "done") \/ D!Becomes(c, "failed")
    BY DEF D!Answer
  <1>3. CallsTyped'
    BY <1>1, <1>2, DeskBecomesTyped
  <1>4. queue' \subseteq DeskRec /\ own' \subseteq DeskRec
    BY DEF D!Answer, DeskTyped
  <1>5. QED
    BY <1>1, <1>3, <1>4 DEF DeskTyped

(* Where the end of a request leads to, and what the toast is about then.  *)
Ends(c, rows, u) ==
  /\ c.at = "done" /\ c.kind = "undo" => c.ids = {u} /\ deskToast' = D!Nothing
  /\ c.at = "done" /\ c.kind \in D!Decision /\ c.followed =>
       \E r \in DeskRec : /\ c.ids = {r} /\ deskToast' = r
                          /\ u = D!Pinned(D!Advance(c.rows, r), rows)
  /\ c.at = "failed" => u = D!Pinned(url, rows) /\ deskToast' = IF c.kind = "undo" THEN D!Nothing ELSE deskToast

LEMMA SettleShows ==
  ASSUME DeskTyped, CallsTyped, NEW c \in calls, D!Settle(c)
  PROVE  \E rows \in {D!Listed(tab, queue), items}, u \in D!Some :
           /\ items' = rows /\ calm' = (calm /\ rows = D!Listed(tab, queue))
           /\ url' = u /\ pane' \in DeskPane /\ dialog' \in DeskDialog
           /\ checked' \in {checked, {}} /\ deskToast' \in D!Some
           /\ Ends(c, rows, u)
  <1>1. PICK rows \in {D!Listed(tab, queue), items} :
          /\ items' = rows /\ calm' = (calm /\ rows = D!Listed(tab, queue))
          /\ CASE c.at = "done" /\ c.kind = "undo" ->
                    D!Move(CHOOSE r \in c.ids : TRUE) /\ deskToast' = D!Nothing /\ UNCHANGED checked
               [] c.at = "done" /\ c.kind = "batch" /\ c.followed ->
                    D!Move(D!Pinned(url, rows)) /\ deskToast' = D!Nothing /\ checked' = {}
               [] c.at = "done" /\ c.kind \in D!Decision /\ c.followed ->
                    LET r == CHOOSE x \in c.ids : TRUE
                        to == D!Pinned(D!Advance(c.rows, r), rows)
                    IN /\ url' = to
                       /\ pane' = D!PaneFor(to)
                       /\ dialog' = IF c.kind = "reject" THEN D!Empty(FALSE) ELSE D!DialogFor(to)
                       /\ deskToast' = r /\ UNCHANGED checked
               [] OTHER ->
                    D!Move(D!Pinned(url, rows)) /\ UNCHANGED checked
                    /\ deskToast' = IF c.kind = "undo" THEN D!Nothing ELSE deskToast
    BY DEF D!Settle
  <1>2. c \in D!Call /\ (c.kind # "batch" => \E r \in DeskRec : c.ids = {r})
    BY DEF CallsTyped
  <1>3. rows \in SUBSET DeskRec /\ url \in D!Some
    BY ListedTyped DEF DeskTyped
  <1>4. D!Pinned(url, rows) \in D!Some
    BY <1>3, PinnedShows
  <1>5. c.kind # "batch" => c.ids = {CHOOSE r \in c.ids : TRUE} /\ (CHOOSE r \in c.ids : TRUE) \in DeskRec
    BY <1>2
  <1>6. CASE c.at = "done" /\ c.kind = "undo"
    <2> DEFINE u == CHOOSE r \in c.ids : TRUE
    <2>1. D!Move(u) /\ deskToast' = D!Nothing /\ UNCHANGED checked
      BY <1>1, <1>6 DEF D!Decision
    <2>2. u \in DeskRec /\ c.ids = {u}
      BY <1>5, <1>6
    <2> HIDE DEF u
    <2>3. u \in D!Some /\ url' = u /\ pane' \in DeskPane /\ dialog' \in DeskDialog
      BY <2>1, <2>2, MovingTyped, NotNothing DEF D!Move
    <2>4. Ends(c, rows, u)
      BY <1>6, <2>1, <2>2 DEF Ends, D!Decision
    <2>5. QED
      BY <1>1, <2>1, <2>3, <2>4, NotNothing
  <1>7. CASE c.at = "done" /\ c.kind = "batch" /\ c.followed
    <2>1. D!Move(D!Pinned(url, rows)) /\ deskToast' = D!Nothing /\ checked' = {}
      BY <1>1, <1>7 DEF D!Decision
    <2>2. url' = D!Pinned(url, rows) /\ pane' \in DeskPane /\ dialog' \in DeskDialog
      BY <1>4, <2>1, MovingTyped DEF D!Move
    <2>3. Ends(c, rows, D!Pinned(url, rows))
      BY <1>7 DEF Ends, D!Decision
    <2>4. QED
      BY <1>1, <1>4, <2>1, <2>2, <2>3, NotNothing
  <1>8. CASE c.at = "done" /\ c.kind \in D!Decision /\ c.followed
    <2> DEFINE r == CHOOSE x \in c.ids : TRUE
               u == D!Pinned(D!Advance(c.rows, r), rows)
    <2>1. /\ url' = u /\ pane' = D!PaneFor(u)
          /\ dialog' = IF c.kind = "reject" THEN D!Empty(FALSE) ELSE D!DialogFor(u)
          /\ deskToast' = r /\ UNCHANGED checked
      BY <1>1, <1>8 DEF D!Decision
    <2>2. r \in DeskRec /\ c.ids = {r}
      BY <1>5, <1>8 DEF D!Decision
    <2>3. u \in D!Some
      <3>1. c.rows \in SUBSET DeskRec
        BY <1>2 DEF D!Call
      <3>2. D!Advance(c.rows, r) \in D!Some
        BY <2>2, <3>1, AdvanceShows, NotNothing
      <3>3. QED
        BY <1>3, <3>2, PinnedShows
    <2>4. Ends(c, rows, u)
      BY <1>8, <2>1, <2>2 DEF Ends, D!Decision
    <2> HIDE DEF u, r
    <2>5. pane' \in DeskPane /\ dialog' \in DeskDialog
      BY <2>1, <2>3, MoveTyped, EmptyTyped DEF DeskTyped
    <2>6. QED
      BY <1>1, <2>1, <2>2, <2>3, <2>4, <2>5, NotNothing
  <1>9. CASE ~(c.at = "done" /\ c.kind = "undo") /\ ~(c.at = "done" /\ c.kind = "batch" /\ c.followed)
             /\ ~(c.at = "done" /\ c.kind \in D!Decision /\ c.followed)
    <2>1. D!Move(D!Pinned(url, rows)) /\ UNCHANGED checked
          /\ deskToast' = IF c.kind = "undo" THEN D!Nothing ELSE deskToast
      BY <1>1, <1>9
    <2>2. url' = D!Pinned(url, rows) /\ pane' \in DeskPane /\ dialog' \in DeskDialog
      BY <1>4, <2>1, MovingTyped DEF D!Move
    <2>3. Ends(c, rows, D!Pinned(url, rows))
      BY <1>9, <2>1 DEF Ends
    <2>4. deskToast' \in D!Some
      BY <2>1, NotNothing DEF DeskTyped
    <2>5. QED
      BY <1>1, <1>4, <2>1, <2>2, <2>3, <2>4
  <1>10. QED
    BY <1>6, <1>7, <1>8, <1>9

LEMMA DeskSettleTyped ==
  ASSUME DeskTyped, CallsTyped, NEW c \in calls, D!Settle(c)
  PROVE  DeskTyped' /\ CallsTyped'
  <1>1. /\ items' \subseteq DeskRec /\ calm' \in BOOLEAN /\ url' \in D!Some /\ pane' \in DeskPane
        /\ dialog' \in DeskDialog /\ checked' \subseteq DeskRec /\ deskToast' \in D!Some
    BY SettleShows, ListedTyped DEF DeskTyped
  <1>2. UNCHANGED <<queue, wide, tab, details, deskActs, own>> /\ calls' = calls \ {c}
    BY DEF D!Settle
  <1>3. QED
    BY <1>1, <1>2 DEF DeskTyped, CallsTyped, CallsNumbered

LEMMA DeskTypesStep == DeskTyped /\ CallsTyped /\ D!Next => DeskTyped' /\ CallsTyped'
  BY LookingTyped, WritingTyped, SendingTyped, DeskAnswerTyped, DeskSettleTyped DEF D!Next

-----------------------------------------------------------------------------
(* A lone analyst. *)

LEMMA SendAlone ==
  ASSUME OneCall, NEW kind, NEW ids, NEW written, D!Send(kind, ids, written), calm'
  PROVE  /\ calm /\ calls = {} /\ kind # "batch" /\ (kind = "undo" => tab = "PENDING")
         /\ \E new : /\ calls' = {new} /\ new.kind = kind /\ new.ids = ids /\ new.rows = items
                     /\ new.at = "sent" /\ new.followed
         /\ UNCHANGED <<queue, wide, tab, deskToast, own>>
  <1> DEFINE new == [n |-> deskActs', kind |-> kind, ids |-> ids, for |-> written, rows |-> items,
                     at |-> "sent", followed |-> TRUE]
  <1>1. calm /\ calls = {} /\ kind # "batch" /\ (kind = "undo" => tab = "PENDING")
    BY DEF D!Send
  <1>2. calls' = {new}
    BY <1>1 DEF D!Send
  <1>3. new.kind = kind /\ new.ids = ids /\ new.rows = items /\ new.at = "sent" /\ new.followed
    OBVIOUS
  <1>4. UNCHANGED <<queue, wide, tab, deskToast, own>>
    BY DEF D!Send
  <1> HIDE DEF new
  <1>5. \E x : /\ calls' = {x} /\ x.kind = kind /\ x.ids = ids /\ x.rows = items
               /\ x.at = "sent" /\ x.followed
    BY <1>2, <1>3
  <1>6. QED
    BY <1>1, <1>4, <1>5

LEMMA AnswerAlone ==
  ASSUME CallsTyped, OneCall, NEW c \in calls, D!Answer(c), calm
  PROVE  /\ calls = {c} /\ c.followed /\ c.kind # "batch"
         /\ \E at \in {"done", "failed"} : D!Becomes(c, at) /\ calls' = {[c EXCEPT !.at = at]}
         /\ \E next : /\ calls' = {next} /\ next.kind = c.kind /\ next.ids = c.ids /\ next.rows = c.rows
                      /\ next.followed
                      /\ \/ next.at = "failed" /\ UNCHANGED <<queue, own>>
                         \/ /\ next.at = "done" /\ c.ids \cap (IF c.kind = "undo" THEN DeskRec \ queue ELSE queue) # {}
                            /\ queue' = IF c.kind = "undo" THEN queue \cup (c.ids \cap (DeskRec \ queue))
                                                           ELSE queue \ (c.ids \cap queue)
                            /\ own' = IF c.kind = "undo" THEN own \ (c.ids \cap (DeskRec \ queue))
                                                         ELSE own \cup (c.ids \cap queue)
  <1>1. calls = {c} /\ c.followed /\ c.kind # "batch" /\ c \in D!Call
    BY DEF OneCall, CallsTyped
  <1>2. \A at : [c EXCEPT !.at = at].kind = c.kind /\ [c EXCEPT !.at = at].ids = c.ids
               /\ [c EXCEPT !.at = at].rows = c.rows /\ [c EXCEPT !.at = at].followed = c.followed
               /\ [c EXCEPT !.at = at].at = at
    BY <1>1 DEF D!Call
  <1>3. \A at : D!Becomes(c, at) => calls' = {[c EXCEPT !.at = at]}
    BY <1>1 DEF D!Becomes
  <1>4. \/ D!Becomes(c, "failed") /\ UNCHANGED <<queue, own>>
        \/ /\ D!Becomes(c, "done") /\ c.ids \cap (IF c.kind = "undo" THEN DeskRec \ queue ELSE queue) # {}
           /\ queue' = IF c.kind = "undo" THEN queue \cup (c.ids \cap (DeskRec \ queue))
                                          ELSE queue \ (c.ids \cap queue)
           /\ own' = IF c.kind = "undo" THEN own \ (c.ids \cap (DeskRec \ queue))
                                        ELSE own \cup (c.ids \cap queue)
    BY <1>1 DEF D!Answer
  <1>5. QED
    BY <1>1, <1>2, <1>3, <1>4

LEMMA OneCallStep == CallsTyped /\ OneCall /\ D!Next => OneCall'
  <1> SUFFICES ASSUME CallsTyped, OneCall, D!Next, calm'
               PROVE  OneCall'
    BY DEF OneCall
  <1>1. CASE UNCHANGED calls /\ calm
    BY <1>1 DEF OneCall
  <1>2. ASSUME NEW kind, NEW ids, NEW written, D!Send(kind, ids, written)
        PROVE  OneCall'
    <2>1. /\ kind # "batch"
          /\ \E new : calls' = {new} /\ new.kind = kind /\ new.followed
      BY <1>2, SendAlone
    <2>2. QED
      BY <2>1 DEF OneCall
  <1>3. ASSUME NEW c \in calls, D!Answer(c)
        PROVE  OneCall'
    <2>1. calm
      BY <1>3 DEF D!Answer
    <2>2. QED
      BY <1>3, <2>1, AnswerAlone DEF OneCall
  <1>4. ASSUME NEW c \in calls, D!Settle(c)
        PROVE  OneCall'
    <2>1. calm /\ calls' = calls \ {c}
      BY <1>4 DEF D!Settle
    <2>2. QED
      BY <2>1 DEF OneCall
  <1>5. CASE \/ D!ListArrives \/ D!DetailArrives \/ D!Back \/ D!ClearChecks \/ D!Dismiss
             \/ \E r \in DeskRec : D!Select(r) \/ D!ToggleCheck(r)
             \/ D!ToggleModify \/ D!EnterPrice \/ D!OpenReject \/ D!EnterReason \/ D!CloseReject
    BY <1>1, <1>5 DEF D!ListArrives, D!DetailArrives, D!Back, D!ClearChecks, D!Dismiss, D!Select, D!ToggleCheck,
                      D!ToggleModify, D!EnterPrice, D!OpenReject, D!EnterReason, D!CloseReject
  <1>6. CASE \/ \E r \in DeskRec : D!Other(r)
             \/ \E t \in {"PENDING", "past"} : D!FilterChange(t)
    BY <1>1, <1>6 DEF D!Other, D!FilterChange
  <1>7. CASE D!HandleApprove \/ D!HandleModify \/ D!HandleReject \/ D!HandleBatch \/ D!HandleUndo
    BY <1>2, <1>7 DEF D!HandleApprove, D!HandleModify, D!HandleReject, D!HandleBatch, D!HandleUndo
  <1>8. QED
    BY <1>3, <1>4, <1>5, <1>6, <1>7 DEF D!Next

LEMMA ToastStep == DeskTyped /\ CallsTyped /\ OneCall /\ ToastIsOwn /\ D!Next => ToastIsOwn'
  <1> SUFFICES ASSUME DeskTyped, CallsTyped, OneCall, ToastIsOwn, D!Next, calm'
               PROVE  ToastIsOwn'
    BY DEF ToastIsOwn
  <1>1. CASE UNCHANGED <<calls, own, deskToast>> /\ calm
    BY <1>1 DEF ToastIsOwn
  <1>2. CASE \/ D!ListArrives \/ D!DetailArrives \/ D!Back \/ D!ClearChecks
             \/ \E r \in DeskRec : D!Select(r) \/ D!ToggleCheck(r)
             \/ D!ToggleModify \/ D!EnterPrice \/ D!OpenReject \/ D!EnterReason \/ D!CloseReject
    BY <1>1, <1>2 DEF D!ListArrives, D!DetailArrives, D!Back, D!ClearChecks, D!Select, D!ToggleCheck,
                      D!ToggleModify, D!EnterPrice, D!OpenReject, D!EnterReason, D!CloseReject
  <1>3. CASE \/ \E r \in DeskRec : D!Other(r)
             \/ \E t \in {"PENDING", "past"} : D!FilterChange(t)
    BY <1>1, <1>3 DEF D!Other, D!FilterChange
  <1>4. CASE D!Dismiss
    <2>1. /\ deskToast' = D!Nothing /\ UNCHANGED <<calls, own>> /\ calm
          /\ ~\E c \in calls : c.kind = "undo" /\ c.ids = {deskToast}
      BY <1>4 DEF D!Dismiss
    <2>2. \A c \in calls : c.kind # "undo"
      BY <2>1 DEF ToastIsOwn
    <2>3. QED
      BY <2>1, <2>2 DEF ToastIsOwn
  <1>5. ASSUME NEW kind, NEW ids, NEW written, D!Send(kind, ids, written),
               kind = "undo" => ids = {deskToast} /\ deskToast # D!Nothing
        PROVE  ToastIsOwn'
    <2>1. /\ calm /\ calls = {} /\ UNCHANGED <<own, deskToast>>
          /\ \E new : calls' = {new} /\ new.kind = kind /\ new.ids = ids /\ new.at = "sent"
      BY <1>5, SendAlone
    <2>2. deskToast # D!Nothing => deskToast \in own
      BY <2>1 DEF ToastIsOwn
    <2>3. QED
      BY <1>5, <2>1, <2>2 DEF ToastIsOwn
  <1>6. CASE D!HandleApprove \/ D!HandleModify \/ D!HandleReject \/ D!HandleBatch \/ D!HandleUndo
    BY <1>5, <1>6 DEF D!HandleApprove, D!HandleModify, D!HandleReject, D!HandleBatch, D!HandleUndo
  <1>7. ASSUME NEW c \in calls, D!Answer(c)
        PROVE  ToastIsOwn'
    <2>1. calm /\ deskToast' = deskToast
      BY <1>7 DEF D!Answer
    <2>2. PICK next :
             /\ calls' = {next} /\ next.kind = c.kind /\ next.ids = c.ids
             /\ \/ next.at = "failed" /\ UNCHANGED <<queue, own>>
                \/ /\ next.at = "done" /\ c.ids \cap (IF c.kind = "undo" THEN DeskRec \ queue ELSE queue) # {}
                   /\ own' = IF c.kind = "undo" THEN own \ (c.ids \cap (DeskRec \ queue))
                                                ELSE own \cup (c.ids \cap queue)
      BY <1>7, <2>1, AnswerAlone
    <2>3. calls = {c} /\ c.kind # "batch" /\ \E r \in DeskRec : c.ids = {r}
      BY <1>7, <2>1, AnswerAlone DEF CallsTyped
    <2>4. next.kind = "undo" => next.ids = {deskToast} /\ deskToast # D!Nothing
      BY <2>1, <2>2 DEF ToastIsOwn
    <2>5. next.kind \in D!Decision /\ next.at = "done" => next.ids \subseteq own'
      BY <2>2, <2>3 DEF D!Decision
    <2>6. deskToast # D!Nothing /\ next.kind # "undo" => deskToast \in own'
      BY <2>1, <2>2, <2>3 DEF ToastIsOwn
    <2>7. QED
      BY <2>1, <2>2, <2>4, <2>5, <2>6 DEF ToastIsOwn
  <1>8. ASSUME NEW c \in calls, D!Settle(c)
        PROVE  ToastIsOwn'
    <2>1. calm /\ calls' = calls \ {c} /\ own' = own /\ c.at # "sent"
      BY <1>8 DEF D!Settle
    <2>2. calls = {c} /\ calls' = {} /\ c.followed /\ c.kind # "batch" /\ c \in D!Call
      BY <2>1 DEF OneCall, CallsTyped
    <2>3. PICK rows, u : Ends(c, rows, u)
      BY <1>8, SettleShows
    <2>4. deskToast' # D!Nothing => deskToast' \in own
      <3>1. CASE c.kind = "undo"
        BY <2>1, <2>2, <2>3, <3>1 DEF Ends, D!Call
      <3>2. CASE c.at = "done" /\ c.kind \in D!Decision
        BY <2>1, <2>2, <2>3, <3>2 DEF Ends, ToastIsOwn
      <3>3. CASE c.at = "failed" /\ c.kind # "undo"
        BY <2>1, <2>2, <2>3, <3>3 DEF Ends, ToastIsOwn
      <3>4. QED
        BY <2>1, <2>2, <3>1, <3>2, <3>3 DEF D!Call, D!Kind
    <2>5. QED
      BY <2>1, <2>2, <2>4 DEF ToastIsOwn
  <1>9. QED
    BY <1>2, <1>3, <1>4, <1>6, <1>7, <1>8 DEF D!Next

LEMMA PinnedBeside ==
  ASSUME wide, NEW u \in D!Some, NEW rows \in SUBSET DeskRec, u \in rows \cup {D!Nothing}
  PROVE  Beside(D!Pinned(u, rows), rows)
  BY PinnedShows, NotNothing DEF Beside

LEMMA PaneSends ==
  ASSUME DeskTyped, OneCall, PaneFollows, NEW kind, NEW ids, NEW written, D!Send(kind, ids, written),
         items' \subseteq items, url' = url
  PROVE  PaneFollows'
  <1> SUFFICES ASSUME calm', wide', tab' = "PENDING"
               PROVE  PaneFollows'
    BY DEF PaneFollows
  <1>1. PICK new : /\ calls' = {new} /\ new.kind = kind /\ new.rows = items /\ new.at = "sent"
                   /\ calm /\ calls = {} /\ UNCHANGED <<queue, wide, tab>>
    BY SendAlone
  <1>2. Taken(new) = {}
    BY <1>1 DEF Taken
  <1>3. items \in {queue, {}} /\ url \in queue \cup {D!Nothing}
    BY <1>1 DEF PaneFollows, Beside
  <1>4. QED
    BY <1>1, <1>2, <1>3 DEF PaneFollows

LEMMA PaneAnswers ==
  ASSUME DeskTyped, CallsTyped, OneCall, PaneFollows, NEW c \in calls, D!Answer(c)
  PROVE  PaneFollows'
  <1> SUFFICES ASSUME calm', wide', tab' = "PENDING"
               PROVE  PaneFollows'
    BY DEF PaneFollows
  <1>1. calm /\ wide /\ tab = "PENDING" /\ c.at = "sent" /\ UNCHANGED <<items, url, wide, tab, calm>>
    BY DEF D!Answer
  <1>2. PICK next :
           /\ calls' = {next} /\ next.kind = c.kind /\ next.ids = c.ids /\ next.rows = c.rows
           /\ \/ next.at = "failed" /\ UNCHANGED queue
              \/ /\ next.at = "done" /\ c.ids \cap (IF c.kind = "undo" THEN DeskRec \ queue ELSE queue) # {}
                 /\ queue' = IF c.kind = "undo" THEN queue \cup (c.ids \cap (DeskRec \ queue))
                                                ELSE queue \ (c.ids \cap queue)
    BY <1>1, AnswerAlone
  <1>3. PICK r \in DeskRec : c.ids = {r}
    BY <1>1, AnswerAlone DEF CallsTyped
  <1>4. /\ items \subseteq queue /\ url \in queue \cup {D!Nothing}
        /\ c.kind \in D!Decision => c.rows = {} \/ c.rows = queue
    BY <1>1 DEF PaneFollows, Taken
  <1>5. c.kind \in D!Decision => c.kind # "undo"
    BY DEF D!Decision
  <1>6. CASE next.at = "failed"
    <2>1. Taken(next) = {} /\ queue' = queue
      BY <1>2, <1>6 DEF Taken
    <2>2. QED
      BY <1>1, <1>2, <1>4, <1>6, <2>1 DEF PaneFollows
  <1>7. CASE next.at = "done" /\ c.kind = "undo"
    <2>1. Taken(next) = {}
      BY <1>2, <1>5, <1>7 DEF Taken
    <2>2. queue' = queue \cup {r}
      BY <1>2, <1>3, <1>7
    <2>3. QED
      BY <1>1, <1>2, <1>3, <1>4, <1>5, <1>7, <2>1, <2>2 DEF PaneFollows
  <1>8. CASE next.at = "done" /\ c.kind \in D!Decision
    <2>1. Taken(next) = {r}
      BY <1>2, <1>3, <1>8 DEF Taken
    <2>2. queue' = queue \ {r} /\ r \in queue
      BY <1>2, <1>3, <1>5, <1>8
    <2>3. QED
      BY <1>1, <1>2, <1>3, <1>4, <1>5, <1>8, <2>1, <2>2 DEF PaneFollows
  <1>9. QED
    <2>1. c \in D!Call /\ c.kind # "batch"
      BY <1>1, AnswerAlone DEF CallsTyped
    <2>2. c.kind \in D!Decision \cup {"undo"}
      BY <2>1 DEF D!Call, D!Kind
    <2>3. QED
      BY <1>2, <1>6, <1>7, <1>8, <2>2

LEMMA PaneSettles ==
  ASSUME DeskTyped, CallsTyped, OneCall, PaneFollows, NEW c \in calls, D!Settle(c)
  PROVE  PaneFollows'
  <1> SUFFICES ASSUME calm', wide', tab' = "PENDING"
               PROVE  PaneFollows'
    BY DEF PaneFollows
  <1>1. calm /\ wide /\ tab = "PENDING" /\ c.at # "sent" /\ calls' = calls \ {c} /\ UNCHANGED <<queue, wide, tab>>
    BY DEF D!Settle
  <1>2. calls = {c} /\ calls' = {} /\ c.followed /\ c.kind # "batch" /\ c \in D!Call
    BY <1>1 DEF OneCall, CallsTyped
  <1>3. PICK u \in D!Some : items' = queue /\ url' = u /\ Ends(c, queue, u)
    BY <1>1, SettleShows DEF D!Listed
  <1>4. /\ url \in queue \cup Taken(c) \cup {D!Nothing}
        /\ Taken(c) \cap queue = {}
        /\ c.kind \in D!Decision => c.rows = {} \/ c.rows = queue \cup Taken(c)
        /\ c.kind = "undo" /\ c.at = "done" => c.ids \subseteq queue
    BY <1>1 DEF PaneFollows
  <1>5. queue \in SUBSET DeskRec /\ url \in D!Some
    BY DEF DeskTyped
  <1>6. Beside(u, queue)
    <2>1. CASE c.at = "done" /\ c.kind = "undo"
      BY <1>3, <1>4, <2>1 DEF Ends, Beside
    <2>2. CASE c.at = "done" /\ c.kind \in D!Decision
      <3>1. PICK r \in DeskRec : c.ids = {r} /\ u = D!Pinned(D!Advance(c.rows, r), queue)
        BY <1>2, <1>3, <2>2 DEF Ends
      <3>2. Taken(c) = {r} /\ r \notin queue /\ (c.rows = {} \/ c.rows = queue \cup {r})
        BY <1>4, <2>2, <3>1 DEF Taken
      <3>3. D!Advance(c.rows, r) \in queue \cup {D!Nothing}
        <4>1. c.rows \in SUBSET DeskRec
          BY <1>5, <3>2
        <4>2. D!Advance(c.rows, r) \in (c.rows \ {r}) \cup {D!Nothing}
          BY <4>1, AdvanceShows
        <4>3. QED
          BY <3>2, <4>2
      <3>4. D!Advance(c.rows, r) \in D!Some
        BY <1>5, <3>3, NotNothing
      <3>5. QED
        BY <1>1, <1>5, <3>1, <3>3, <3>4, PinnedBeside
    <2>3. CASE c.at = "failed"
      <3>1. Taken(c) = {} /\ u = D!Pinned(url, queue)
        BY <1>3, <2>3 DEF Taken, Ends
      <3>2. url \in queue \cup {D!Nothing}
        BY <1>4, <3>1
      <3>3. QED
        BY <1>1, <1>5, <3>1, <3>2, PinnedBeside
    <2>4. QED
      BY <1>1, <1>2, <2>1, <2>2, <2>3 DEF D!Call, D!Kind
  <1>7. QED
    BY <1>1, <1>2, <1>3, <1>6 DEF PaneFollows

LEMMA PaneStep == DeskTyped /\ CallsTyped /\ OneCall /\ PaneFollows /\ D!Next => PaneFollows'
  <1> SUFFICES ASSUME DeskTyped, CallsTyped, OneCall, PaneFollows, D!Next
               PROVE  PaneFollows'
    OBVIOUS
  <1>0. queue \in SUBSET DeskRec /\ items \in SUBSET DeskRec /\ url \in D!Some
    BY DEF DeskTyped
  <1>1. CASE UNCHANGED <<queue, wide, tab, items, url, calls, calm>>
    BY <1>1 DEF PaneFollows
  <1>2. CASE D!DetailArrives \/ D!ClearChecks \/ D!Dismiss \/ (\E r \in DeskRec : D!ToggleCheck(r))
    BY <1>1, <1>2 DEF D!DetailArrives, D!ClearChecks, D!Dismiss, D!ToggleCheck
  <1>3. CASE D!ToggleModify \/ D!EnterPrice \/ D!OpenReject \/ D!EnterReason \/ D!CloseReject
    BY <1>1, <1>3 DEF D!ToggleModify, D!EnterPrice, D!OpenReject, D!EnterReason, D!CloseReject
  <1>4. CASE D!Back
    BY <1>4 DEF D!Back, PaneFollows
  <1>5. CASE \E r \in DeskRec : D!Other(r)
    BY <1>5 DEF D!Other, PaneFollows
  <1>6. CASE D!ListArrives
    <2> SUFFICES ASSUME calm', wide', tab' = "PENDING"
                 PROVE  PaneFollows'
      BY DEF PaneFollows
    <2>1. /\ calm /\ wide /\ tab = "PENDING" /\ items' = queue /\ url' = D!Pinned(url, queue)
          /\ UNCHANGED <<queue, wide, tab, calls, calm>>
      BY <1>6 DEF D!ListArrives, D!Fetched, D!Move, D!Listed
    <2>2. calls = {} => Beside(url', queue)
      <3> SUFFICES ASSUME calls = {}
                   PROVE  Beside(url', queue)
        OBVIOUS
      <3>1. url \in queue \cup {D!Nothing}
        BY <2>1 DEF PaneFollows, Beside
      <3>2. QED
        BY <1>0, <2>1, <3>1, PinnedBeside
    <2>3. url' \in queue \cup {url}
      BY <1>0, <2>1, PinnedShows, NotNothing
    <2>4. QED
      BY <2>1, <2>2, <2>3 DEF PaneFollows
  <1>7. ASSUME NEW r \in DeskRec, D!Select(r)
        PROVE  PaneFollows'
    <2>1. r \in items /\ url' = r /\ UNCHANGED <<queue, wide, tab, items, calls, calm>>
      BY <1>7 DEF D!Select, D!Move
    <2>2. QED
      BY <2>1 DEF PaneFollows, Beside
  <1>8. ASSUME NEW t \in {"PENDING", "past"}, D!FilterChange(t)
        PROVE  PaneFollows'
    <2> SUFFICES ASSUME calm', wide', tab' = "PENDING"
                 PROVE  PaneFollows'
      BY DEF PaneFollows
    <2>1. /\ calm /\ wide /\ calls = {} /\ UNCHANGED <<queue, wide, calls>>
          /\ tab' = t /\ items' = (IF t = tab THEN items ELSE {}) /\ url' = D!Pinned(D!Nothing, items')
      BY <1>8 DEF D!FilterChange, D!Move
    <2>2. items' = queue \/ items' = {}
      BY <2>1 DEF PaneFollows
    <2>3. Beside(url', items')
      BY <1>0, <2>1, <2>2, PinnedBeside, NotNothing
    <2>4. items' = {} => url' = D!Nothing
      BY <2>3 DEF Beside
    <2>5. QED
      BY <2>1, <2>2, <2>3, <2>4 DEF PaneFollows, Beside
  <1>9. CASE D!HandleApprove \/ D!HandleModify \/ D!HandleReject \/ D!HandleBatch \/ D!HandleUndo
    <2>1. items' \subseteq items /\ url' = url
      BY <1>9 DEF D!HandleApprove, D!HandleModify, D!HandleReject, D!HandleBatch, D!HandleUndo
    <2>2. \E kind, ids, written : D!Send(kind, ids, written)
      BY <1>9, Zenon DEF D!HandleApprove, D!HandleModify, D!HandleReject, D!HandleBatch, D!HandleUndo
    <2>3. QED
      BY <2>1, <2>2, PaneSends
  <1>10. QED
    BY <1>2, <1>3, <1>4, <1>5, <1>6, <1>7, <1>8, <1>9, PaneAnswers, PaneSettles DEF D!Next

LEMMA DeskStep == DeskInv /\ D!Next => DeskInv'
  BY DeskTypesStep, OneCallStep, ToastStep, PaneStep DEF DeskInv

LEMMA DeskIsHeld == DeskInv => D!DeskIsCoherent
  <1> SUFFICES ASSUME DeskInv
               PROVE  D!DeskIsCoherent
    OBVIOUS
  <1>1. D!PaneIsReal
    BY DEF DeskInv, PaneFollows, Beside, D!PaneIsReal
  <1>2. D!UndoIsForOwnDecision
    BY DEF DeskInv, ToastIsOwn, D!UndoIsForOwnDecision
  <1>3. QED
    BY <1>1, <1>2 DEF D!DeskIsCoherent

-----------------------------------------------------------------------------
(* Reading by cursor. *)

Above(rows, r) == {s \in rows : s > r}

(* What is newest of a finite list: all that is newer than one of it, all  *)
(* if there is room, and as many as there is room for if there is not.     *)
LEMMA NewestIs == \A rows, k : T!Newest(rows, k) = {r \in rows : Cardinality(Above(rows, r)) < k}
  BY SameCardinality, Zenon DEF T!Newest, Above

LEMMA NewestShows ==
  ASSUME NEW rows \in SUBSET Nat, IsFiniteSet(rows), NEW k \in Nat
  PROVE  /\ T!Newest(rows, k) \in SUBSET rows
         /\ \A r \in T!Newest(rows, k), s \in rows : s > r => s \in T!Newest(rows, k)
         /\ Cardinality(rows) <= k => T!Newest(rows, k) = rows
         /\ Cardinality(rows) >= k => Cardinality(T!Newest(rows, k)) >= k
         /\ Cardinality(T!Newest(rows, k)) <= k
         /\ k # 0 /\ rows # {} => T!Newest(rows, k) # {}
  <1> DEFINE N == T!Newest(rows, k)
  <1>1. N = {r \in rows : Cardinality(Above(rows, r)) < k}
    BY NewestIs
  <1>2. \A r \in rows : /\ Above(rows, r) \in SUBSET rows /\ r \notin Above(rows, r)
                        /\ IsFiniteSet(Above(rows, r)) /\ Cardinality(Above(rows, r)) \in Nat
    <2>1. \A r \in rows : Above(rows, r) \in SUBSET rows /\ r \notin Above(rows, r)
      BY DEF Above
    <2>2. QED
      BY <2>1, FS_Subset, FS_CardinalityType
  <1>3. \A r, s \in rows : s > r => Cardinality(Above(rows, s)) <= Cardinality(Above(rows, r))
    <2> SUFFICES ASSUME NEW r \in rows, NEW s \in rows, s > r
                 PROVE  Cardinality(Above(rows, s)) <= Cardinality(Above(rows, r))
      OBVIOUS
    <2>1. \A x \in rows : x > s => x > r
      OBVIOUS
    <2>2. Above(rows, s) \in SUBSET Above(rows, r)
      BY <2>1 DEF Above
    <2>3. QED
      BY <1>2, <2>2, FS_Subset
  <1>4. Cardinality(rows) \in Nat
    BY FS_CardinalityType
  <1>5. \A r \in rows : Cardinality(Above(rows, r)) < Cardinality(rows)
    <2> SUFFICES ASSUME NEW r \in rows
                 PROVE  Cardinality(Above(rows, r)) < Cardinality(rows)
      OBVIOUS
    <2>1. Above(rows, r) \in SUBSET rows /\ Above(rows, r) # rows
      BY <1>2
    <2>2. QED
      BY <1>2, <1>4, <2>1, FS_Subset
  <1>6. IsFiniteSet(N) /\ Cardinality(N) \in Nat
    BY <1>1, FS_Subset, FS_CardinalityType
  <1> HIDE DEF N
  <1>7. \A r \in N, s \in rows : s > r => s \in N
    BY <1>1, <1>2, <1>3
  <1>8. Cardinality(rows) <= k => N = rows
    <2> SUFFICES ASSUME Cardinality(rows) <= k
                 PROVE  N = rows
      OBVIOUS
    <2>1. \A r \in rows : Cardinality(Above(rows, r)) < k
      BY <1>2, <1>4, <1>5
    <2>2. QED
      BY <1>1, <2>1
  <1>9. Cardinality(rows) >= k => Cardinality(N) >= k
    <2> SUFFICES ASSUME Cardinality(rows) >= k, Cardinality(N) < k
                 PROVE  FALSE
      BY <1>6
    <2> DEFINE rest == rows \ N
    <2>1. rest \in SUBSET Nat /\ rest # {} /\ IsFiniteSet(rest)
      <3>1. N # rows
        BY <1>4, <1>6
      <3>2. QED
        BY <1>1, <3>1, FS_Subset
    <2> DEFINE m == D!Max(rest)
    <2>2. m \in rest /\ \A y \in rest : m >= y
      <3> HIDE DEF rest
      <3>1. QED
        BY <2>1, MaxExists
    <2> HIDE DEF m
    <2>3. \A s \in rows : s > m => s \in N
      BY <2>2
    <2>4. Above(rows, m) \in SUBSET N
      BY <2>3 DEF Above
    <2>5. Cardinality(Above(rows, m)) <= Cardinality(N)
      BY <1>6, <2>4, FS_Subset
    <2>6. QED
      BY <1>1, <1>2, <1>6, <2>2, <2>5
  <1>10. k # 0 /\ rows # {} => N # {}
    <2> SUFFICES ASSUME k # 0, rows # {}
                 PROVE  N # {}
      OBVIOUS
    <2> DEFINE m == D!Max(rows)
    <2>1. m \in rows /\ \A y \in rows : m >= y
      BY MaxExists
    <2> HIDE DEF m
    <2>2. \A s \in rows : ~(s > m)
      BY <2>1
    <2>2a. Above(rows, m) = {}
      BY <2>2 DEF Above
    <2>3. Cardinality(Above(rows, m)) = 0
      BY <2>2a, FS_EmptySet
    <2>4. QED
      BY <1>1, <2>1, <2>3
  <1>11. Cardinality(N) <= k
    <2> SUFFICES ASSUME Cardinality(N) > k
                 PROVE  FALSE
      BY <1>6
    <2> DEFINE m == D!Min(N)
    <2>0. N = {} => Cardinality(N) = 0
      BY FS_EmptySet
    <2>1. N \in SUBSET Nat /\ N # {}
      <3>1. N \in SUBSET Nat
        BY <1>1, <1>6
      <3>2. Cardinality(N) # 0
        BY <1>2, <1>6
      <3>3. QED
        BY <2>0, <3>1, <3>2
    <2>2. m \in N /\ \A y \in N : m <= y
      BY <2>1, MinExists
    <2> HIDE DEF m
    <2>3. \A s \in N \ {m} : s \in rows /\ s > m
      BY <1>1, <2>1, <2>2
    <2>4. N \ {m} \in SUBSET Above(rows, m)
      BY <2>3 DEF Above
    <2>5. Cardinality(N \ {m}) = Cardinality(N) - 1
      BY <1>6, <2>2, FS_RemoveElement
    <2>6. m \in rows /\ Cardinality(Above(rows, m)) < k
      BY <1>1, <2>2
    <2>7. Cardinality(N \ {m}) <= Cardinality(Above(rows, m))
      BY <1>2, <2>4, <2>6, FS_Subset
    <2>8. QED
      BY <1>2, <1>6, <2>5, <2>6, <2>7
  <1>12. QED
    BY <1>1, <1>7, <1>8, <1>9, <1>10, <1>11 DEF N

(* What is left after a row that still matches is what is older than it.   *)
LEMMA AfterShows ==
  ASSUME NEW rows \in SUBSET Nat, IsFiniteSet(rows), NEW cursor \in rows, cursor # T!Start
  PROVE  T!After(rows, cursor) = {r \in rows : r < cursor}
  <1> DEFINE rest == {r \in rows : r <= cursor}
             N == T!Newest(rest, 1)
  <1>1. rest \in SUBSET Nat /\ IsFiniteSet(rest) /\ cursor \in rest
    <2>1. rest \in SUBSET rows
      OBVIOUS
    <2>2. cursor \in Nat /\ cursor <= cursor
      OBVIOUS
    <2>3. QED
      BY <2>1, <2>2, FS_Subset
  <1>2. N = {r \in rest : Cardinality(Above(rest, r)) < 1}
    BY NewestIs
  <1>3. \A r \in rest : Cardinality(Above(rest, r)) < 1 <=> Above(rest, r) = {}
    <2>1. \A r \in rest : IsFiniteSet(Above(rest, r))
      BY <1>1, FS_Subset DEF Above
    <2>2. \A r \in rest : Cardinality(Above(rest, r)) \in Nat
      BY <2>1, FS_CardinalityType
    <2>3. \A r \in rest : Cardinality(Above(rest, r)) = 0 <=> Above(rest, r) = {}
      BY <2>1, FS_EmptySet
    <2>4. QED
      BY <2>2, <2>3
  <1>4. \A r \in rest : Above(rest, r) = {} <=> r = cursor
    <2>1. \A r \in rest : r = cursor \/ cursor > r
      OBVIOUS
    <2>2. \A s \in rest : ~(s > cursor)
      OBVIOUS
    <2> HIDE DEF rest
    <2>3. QED
      BY <1>1, <2>1, <2>2 DEF Above
  <1>5. N = {cursor}
    <2> HIDE DEF rest, N
    <2>1. QED
      BY <1>1, <1>2, <1>3, <1>4
  <1>6. T!After(rows, cursor) = rest \ {cursor}
    BY <1>5 DEF T!After
  <1>7. \A r \in rows : r <= cursor /\ r # cursor <=> r < cursor
    OBVIOUS
  <1>8. QED
    BY <1>6, <1>7

(* What is asked for after a cursor.                                       *)
Sought(rows, cursor) == IF cursor = T!Start THEN rows ELSE {r \in rows : r < cursor}

(* A page has the newest of what is asked for, and its cursor is its       *)
(* oldest, or none when there is nothing more.                             *)
PageIs(page_, sought) ==
  /\ page_.items \in SUBSET sought
  /\ page_.next = T!Start => page_.items = sought
  /\ page_.next # T!Start =>
       /\ page_.next \in page_.items
       /\ \A e \in page_.items : e >= page_.next
       /\ \A e \in sought \ page_.items : e < page_.next
       /\ page_.items # sought

LEMMA PageShows ==
  ASSUME NEW rows \in SUBSET (Nat \ {0}), IsFiniteSet(rows), NEW existing, rows \subseteq existing,
         NEW cursor \in rows \cup {T!Start}, NEW limit \in Nat \ {0}
  PROVE  PageIs(T!PageOf(rows, existing, cursor, limit), Sought(rows, cursor))
  <1> DEFINE found == Sought(rows, cursor)
             N == T!Newest(found, limit)
             result == T!PageOf(rows, existing, cursor, limit)
  <1>1. found \in SUBSET Nat /\ found \in SUBSET rows /\ IsFiniteSet(found)
    <2>1. found \in SUBSET rows
      BY DEF Sought
    <2>2. QED
      BY <2>1, FS_Subset
  <1>2. (IF cursor \in existing \cup {T!Start} THEN T!After(rows, cursor) ELSE {}) = found
    <2>1. CASE cursor = T!Start
      BY <2>1 DEF T!After, Sought
    <2>2. CASE cursor # T!Start
      BY <2>2, AfterShows DEF Sought
    <2>3. QED
      BY <2>1, <2>2
  <1>3. result = [items |-> N, next |-> T!NextCursor(found, limit)]
    BY <1>2 DEF T!PageOf
  <1>4. result.items = N /\ result.next = IF Cardinality(found) <= limit THEN T!Start ELSE T!Min(N)
    BY <1>3, SameCardinality DEF T!NextCursor
  <1> SUFFICES PageIs(result, found)
    OBVIOUS
  <1> HIDE DEF found, result
  <1>5. /\ N \in SUBSET found
        /\ \A r \in N, s \in found : s > r => s \in N
        /\ Cardinality(found) <= limit => N = found
        /\ found # {} => N # {}
        /\ Cardinality(N) <= limit
    BY <1>1, NewestShows
  <1> HIDE DEF N
  <1>6. Cardinality(found) \in Nat /\ (found = {} => Cardinality(found) = 0)
    BY <1>1, FS_CardinalityType, FS_EmptySet
  <1>7. CASE Cardinality(found) <= limit
    BY <1>4, <1>5, <1>7 DEF PageIs
  <1>8. CASE Cardinality(found) > limit
    <2>1. N # {} /\ N \in SUBSET Nat
      BY <1>1, <1>5, <1>6, <1>8
    <2>2. T!Min(N) = D!Min(N)
      BY DEF T!Min, D!Min
    <2>3. result.next \in N /\ \A e \in N : e >= result.next
      BY <1>4, <1>6, <1>8, <2>1, <2>2, MinExists
    <2>4. \A e \in found \ N : e < result.next
      <3>1. result.next \in Nat /\ \A e \in found : e \in Nat
        BY <1>1, <1>5, <2>3
      <3>2. QED
        BY <1>5, <2>3, <3>1
    <2>5. result.next # T!Start
      BY <1>1, <1>5, <2>3 DEF T!Start
    <2>6. N # found
      BY <1>5, <1>6, <1>8
    <2>7. QED
      BY <1>4, <1>5, <2>3, <2>4, <2>5, <2>6 DEF PageIs
  <1>9. QED
    BY <1>6, <1>7, <1>8

-----------------------------------------------------------------------------
(* AuditPage. *)

(* Each page but the last has a cursor below the one before, so there are  *)
(* no more pages than entries.                                             *)
FewRead(got) ==
  got # <<>> =>
    /\ Len(got) <= MaxEntries
    /\ got[Len(got)].next # T!Start => got[Len(got)].next >= 2 /\ Len(got) + got[Len(got)].next <= MaxEntries + 1

(* Pages read by cursor from a log, of which base was committed when the   *)
(* first was read and seen is now: each follows the one before, and what   *)
(* of base they do not have is older than the last cursor.                 *)
Reads(got, base, seen, f) ==
  /\ got \in Seq(T!Page) /\ base \in SUBSET seen
  /\ \A i \in DOMAIN got :
       /\ got[i].items \in SUBSET (seen \cap f)
       /\ got[i].next # T!Start => got[i].next \in got[i].items /\ \A a \in got[i].items : a >= got[i].next
  /\ \A i, j \in DOMAIN got : i < j => \A a \in got[i].items, b \in got[j].items : a > b
  /\ got # <<>> =>
       \A e \in base \cap f :
         \/ \E i \in DOMAIN got : e \in got[i].items
         \/ got[Len(got)].next # T!Start /\ e < got[Len(got)].next
  /\ FewRead(got)

LEMMA NothingRead == ASSUME NEW seen, NEW f PROVE Reads(<<>>, {}, seen, f)
  BY DEF Reads, FewRead

LEMMA ReadsGrow ==
  ASSUME NEW got, NEW base, NEW seen, NEW more, seen \in SUBSET more, NEW f, Reads(got, base, seen, f)
  PROVE  Reads(got, base, more, f)
  BY DEF Reads

LEMMA EntriesAreFinite == /\ T!Entry \in SUBSET (Nat \ {0}) /\ T!Start \notin T!Entry
                          /\ \A e \in SUBSET T!Entry : IsFiniteSet(e)
  <1>1. MaxEntries \in Nat
    BY SizeAssumption
  <1>2. IsFiniteSet(1..MaxEntries)
    BY <1>1, FS_Interval
  <1>3. \A e \in SUBSET (1..MaxEntries) : IsFiniteSet(e)
    BY <1>2, FS_Subset
  <1>4. QED
    BY <1>1, <1>3 DEF T!Entry, T!Start

LEMMA PageRead ==
  ASSUME NEW seen \in SUBSET T!Entry, NEW f \in SUBSET T!Entry, NEW cursor \in (seen \cap f) \cup {T!Start}
  PROVE  /\ T!PageOf(seen \cap f, seen, cursor, Limit) \in T!Page
         /\ PageIs(T!PageOf(seen \cap f, seen, cursor, Limit), Sought(seen \cap f, cursor))
  <1> DEFINE p == T!PageOf(seen \cap f, seen, cursor, Limit)
             rows == seen \cap f
  <1>1. rows \in SUBSET (Nat \ {0}) /\ IsFiniteSet(rows) /\ rows \subseteq seen /\ rows \in SUBSET T!Entry
    BY EntriesAreFinite
  <1>2. Limit \in Nat \ {0}
    BY SizeAssumption
  <1>3. PageIs(p, Sought(rows, cursor))
    <2> HIDE DEF rows
    <2>1. PageIs(T!PageOf(rows, seen, cursor, Limit), Sought(rows, cursor))
      BY <1>1, <1>2, PageShows DEF rows
    <2>2. QED
      BY <2>1 DEF rows
  <1>4. p = [items |-> p.items, next |-> p.next]
    BY DEF T!PageOf
  <1>5. p.items \in SUBSET T!Entry /\ p.next \in T!Entry \cup {T!Start}
    <2>1. Sought(rows, cursor) \in SUBSET T!Entry
      BY <1>1 DEF Sought
    <2> HIDE DEF p, rows
    <2>2. QED
      BY <1>3, <2>1 DEF PageIs
  <1>6. p \in T!Page
    <2> HIDE DEF p
    <2>1. QED
      BY <1>4, <1>5 DEF T!Page
  <1>7. QED
    BY <1>3, <1>6

(* A cursor has something older than it. *)
LEMMA CursorIsNotLast ==
  ASSUME NEW p \in T!Page, NEW sought \in SUBSET T!Entry, PageIs(p, sought), p.next # T!Start
  PROVE  p.next \in Nat /\ p.next >= 2 /\ p.next <= MaxEntries /\ p.next \in sought
  <1>1. PICK e \in sought : e \notin p.items
    BY DEF PageIs
  <1>2. e < p.next /\ p.next \in sought
    BY <1>1 DEF PageIs
  <1>3. MaxEntries \in Nat /\ e \in 1..MaxEntries /\ p.next \in 1..MaxEntries
    BY <1>2, SizeAssumption DEF T!Entry
  <1>4. QED
    BY <1>2, <1>3

LEMMA ReadsFirst ==
  ASSUME NEW seen \in SUBSET T!Entry, NEW f \in SUBSET T!Entry
  PROVE  Reads(Append(<<>>, T!PageOf(seen \cap f, seen, T!Start, Limit)), seen, seen, f)
  <1> DEFINE p == T!PageOf(seen \cap f, seen, T!Start, Limit)
  <1>1. p \in T!Page /\ PageIs(p, seen \cap f)
    BY PageRead DEF Sought
  <1> HIDE DEF p
  <1> DEFINE got == Append(<<>>, p)
  <1>2. got \in Seq(T!Page) /\ DOMAIN got = {1} /\ Len(got) = 1 /\ got[1] = p /\ got # <<>>
    BY <1>1
  <1> HIDE DEF got
  <1>2a. FewRead(got)
    <2>1. MaxEntries \in Nat \ {0} /\ (seen \cap f) \in SUBSET T!Entry
      BY SizeAssumption
    <2>2. QED
      BY <1>1, <1>2, <2>1, CursorIsNotLast DEF FewRead
  <1>3. Reads(got, seen, seen, f)
    BY <1>1, <1>2, <1>2a DEF Reads, PageIs
  <1>4. QED
    BY <1>3 DEF got, p

LEMMA ReadsOn ==
  ASSUME NEW seen \in SUBSET T!Entry, NEW f \in SUBSET T!Entry, NEW got, NEW base,
         Reads(got, base, seen, f), got # <<>>, got[Len(got)].next # T!Start
  PROVE  Reads(Append(got, T!PageOf(seen \cap f, seen, got[Len(got)].next, Limit)), base, seen, f)
  <1> DEFINE n == Len(got)
             last == got[n].next
             p == T!PageOf(seen \cap f, seen, last, Limit)
             next == Append(got, p)
  <1>1. got \in Seq(T!Page) /\ n \in Nat \ {0} /\ DOMAIN got = 1..n /\ n \in DOMAIN got
    BY DEF Reads
  <1>2. last # T!Start /\ last \in got[n].items /\ last \in seen \cap f
    BY <1>1 DEF Reads
  <1>3. \A i \in DOMAIN got : \A a \in got[i].items : a \in Nat /\ a >= last
    <2> SUFFICES ASSUME NEW i \in DOMAIN got, NEW a \in got[i].items
                 PROVE  a \in Nat /\ a >= last
      OBVIOUS
    <2>1. a \in Nat /\ last \in Nat
      BY <1>2, EntriesAreFinite DEF Reads
    <2>2. CASE i = n
      BY <1>1, <1>2, <2>1, <2>2 DEF Reads
    <2>3. CASE i < n
      BY <1>1, <1>2, <2>1, <2>3 DEF Reads
    <2>4. QED
      BY <1>1, <2>2, <2>3
  <1>4. p \in T!Page /\ PageIs(p, Sought(seen \cap f, last))
    BY <1>2, PageRead
  <1>5. PageIs(p, {e \in seen \cap f : e < last})
    BY <1>2, <1>4 DEF Sought
  <1> HIDE DEF p
  <1>6. /\ next \in Seq(T!Page) /\ Len(next) = n + 1 /\ DOMAIN next = 1..(n + 1) /\ next[n + 1] = p /\ next # <<>>
        /\ \A i \in DOMAIN got : i \in DOMAIN next /\ next[i] = got[i]
        /\ \A i \in DOMAIN next : i \in DOMAIN got \/ i = n + 1
    BY <1>1, <1>4
  <1> HIDE DEF next, last
  <1>7. \A i \in DOMAIN next :
          /\ next[i].items \in SUBSET (seen \cap f)
          /\ next[i].next # T!Start => next[i].next \in next[i].items /\ \A a \in next[i].items : a >= next[i].next
    <2> SUFFICES ASSUME NEW i \in DOMAIN next
                 PROVE  /\ next[i].items \in SUBSET (seen \cap f)
                        /\ next[i].next # T!Start => /\ next[i].next \in next[i].items
                                                    /\ \A a \in next[i].items : a >= next[i].next
      OBVIOUS
    <2>1. CASE i \in DOMAIN got
      BY <1>6, <2>1 DEF Reads
    <2>2. CASE i = n + 1
      BY <1>5, <1>6, <2>2 DEF PageIs
    <2>3. QED
      BY <1>6, <2>1, <2>2
  <1>8. \A i, j \in DOMAIN next : i < j => \A a \in next[i].items, b \in next[j].items : a > b
    <2> SUFFICES ASSUME NEW i \in DOMAIN next, NEW j \in DOMAIN next, i < j,
                        NEW a \in next[i].items, NEW b \in next[j].items
                 PROVE  a > b
      OBVIOUS
    <2>1. i \in DOMAIN got
      BY <1>1, <1>6
    <2>2. CASE j \in DOMAIN got
      BY <1>6, <2>1, <2>2 DEF Reads
    <2>3. CASE j = n + 1
      <3>1. a \in Nat /\ a >= last
        BY <1>3, <1>6, <2>1
      <3>2. b \in Nat /\ b < last /\ last \in Nat
        BY <1>2, <1>5, <1>6, <2>3, EntriesAreFinite DEF PageIs
      <3>3. QED
        BY <3>1, <3>2
    <2>4. QED
      BY <1>6, <2>2, <2>3
  <1>9. \A e \in base \cap f :
          \/ \E i \in DOMAIN next : e \in next[i].items
          \/ next[Len(next)].next # T!Start /\ e < next[Len(next)].next
    <2> SUFFICES ASSUME NEW e \in base \cap f
                 PROVE  \/ \E i \in DOMAIN next : e \in next[i].items
                        \/ p.next # T!Start /\ e < p.next
      BY <1>6
    <2>1. CASE \E i \in DOMAIN got : e \in got[i].items
      BY <1>6, <2>1
    <2>2. CASE e < last
      <3>1. e \in {x \in seen \cap f : x < last}
        BY <2>2 DEF Reads
      <3>2. e \in p.items \/ (p.next # T!Start /\ e < p.next)
        BY <1>5, <3>1 DEF PageIs
      <3>3. n + 1 \in DOMAIN next
        BY <1>1, <1>6
      <3>4. QED
        BY <1>6, <3>2, <3>3
    <2>3. QED
      BY <2>1, <2>2 DEF Reads, last
  <1>9a. FewRead(next)
    <2>1. {e \in seen \cap f : e < last} \in SUBSET T!Entry
      OBVIOUS
    <2>2. p.next # T!Start => p.next \in Nat /\ p.next >= 2 /\ p.next < last
      BY <1>4, <1>5, <2>1, CursorIsNotLast
    <2>3. last \in Nat /\ last >= 2 /\ n + last <= MaxEntries + 1 /\ MaxEntries \in Nat
      BY <1>2, SizeAssumption, EntriesAreFinite DEF Reads, FewRead, last
    <2>4. QED
      BY <1>1, <1>6, <2>2, <2>3 DEF FewRead
  <1>10. Reads(next, base, seen, f)
    BY <1>6, <1>7, <1>8, <1>9, <1>9a DEF Reads
  <1>11. QED
    BY <1>10 DEF next, last, p

WalkType == [goal : 1..MaxEntries, got : Seq(T!Page), basis : SUBSET T!Entry, more : BOOLEAN]

TrailInv ==
  /\ begun \in 0..MaxEntries /\ visible \subseteq 1..begun
  /\ typed \in Filter /\ settled \in Filter
  /\ inputs \in 0..MaxInputs
  /\ Reads(pages, basis, visible, settled)
  /\ walk # T!Idle => walk \in WalkType /\ Reads(walk.got, walk.basis, visible, settled)

LEMMA StartsOver ==
  ASSUME NEW goal \in 1..MaxEntries, NEW seen, NEW f
  PROVE  /\ T!FromFirst(goal) \in WalkType
         /\ Reads(T!FromFirst(goal).got, T!FromFirst(goal).basis, seen, f)
  BY NothingRead DEF T!FromFirst, WalkType

LEMMA TrailBegins == T!Init => TrailInv
  <1> SUFFICES ASSUME T!Init
               PROVE  TrailInv
    OBVIOUS
  <1>1. /\ begun = 0 /\ visible = {} /\ typed = T!Entry /\ settled = T!Entry
        /\ pages = <<>> /\ walk = T!FromFirst(1) /\ basis = {} /\ inputs = 0
    BY DEF T!Init
  <1>2. T!Entry \in Filter /\ 0 \in 0..MaxEntries /\ 1 \in 1..MaxEntries /\ 0 \in 0..MaxInputs
    BY FilterAssumption, SizeAssumption DEF T!Entry
  <1>3. QED
    BY <1>1, <1>2, NothingRead, StartsOver DEF TrailInv

LEMMA TrailStep == TrailInv /\ T!Next => TrailInv'
  <1> SUFFICES ASSUME TrailInv, T!Next
               PROVE  TrailInv'
    OBVIOUS
  <1>1. MaxEntries \in Nat /\ visible \in SUBSET T!Entry /\ settled \in SUBSET T!Entry /\ begun \in 0..MaxEntries
        /\ inputs \in 0..MaxInputs /\ (T!Input => inputs' \in 0..MaxInputs) /\ 1 \in 1..MaxEntries
    BY SizeAssumption, FilterAssumption DEF TrailInv, T!Entry, T!Input
  <1>2. CASE T!Begin
    <2>1. begun' \in 0..MaxEntries /\ 1..begun \subseteq 1..begun'
      BY <1>1, <1>2 DEF T!Begin
    <2>2. UNCHANGED <<visible, typed, settled, pages, walk, inputs, basis>>
      BY <1>2 DEF T!Begin
    <2>3. QED
      BY <2>1, <2>2 DEF TrailInv
  <1>3. ASSUME NEW e \in T!Entry, T!Commit(e)
        PROVE  TrailInv'
    <2>1. e \in 1..begun /\ visible' = visible \cup {e} /\ UNCHANGED <<begun, typed, settled, pages, walk, inputs, basis>>
      BY <1>3 DEF T!Commit
    <2>2. Reads(pages, basis, visible \cup {e}, settled)
      BY ReadsGrow DEF TrailInv
    <2>3. walk # T!Idle => Reads(walk.got, walk.basis, visible \cup {e}, settled)
      BY ReadsGrow DEF TrailInv
    <2>4. QED
      BY <2>1, <2>2, <2>3 DEF TrailInv
  <1>4. ASSUME NEW f \in Filter, T!TypeFilter(f)
        PROVE  TrailInv'
    BY <1>1, <1>4 DEF T!TypeFilter, T!log, TrailInv
  <1>5. CASE T!Settles
    <2>1. /\ settled' = typed /\ pages' = <<>> /\ walk' = T!FromFirst(1) /\ basis' = {}
          /\ UNCHANGED <<begun, visible, typed, inputs>>
      BY <1>5 DEF T!Settles, T!log
    <2>2. QED
      BY <1>1, <2>1, NothingRead, StartsOver DEF TrailInv
  <1>6. CASE T!LoadMore
    <2> DEFINE asked == [goal |-> Len(pages) + 1, got |-> pages, basis |-> basis, more |-> TRUE]
    <2>1. /\ walk' = asked /\ inputs' \in 0..MaxInputs /\ pages # <<>> /\ pages[Len(pages)].next # T!Start
          /\ UNCHANGED <<begun, visible, typed, settled, pages, basis>>
      BY <1>1, <1>6 DEF T!LoadMore, T!log
    <2>2. pages \in Seq(T!Page) /\ basis \in SUBSET T!Entry
      BY <1>1 DEF TrailInv, Reads
    <2>3. Len(pages) \in Nat /\ Len(pages) + 1 <= MaxEntries
      <3>1. Reads(pages, basis, visible, settled)
        BY DEF TrailInv
      <3>1a. Len(pages) \in 1..Len(pages) /\ Len(pages) \in Nat
        BY <2>1, <2>2
      <3>1b. pages[Len(pages)] \in T!Page
        BY <2>2, <3>1a
      <3>2. pages[Len(pages)].next \in T!Entry
        BY <2>1, <3>1b DEF T!Page
      <3>3. FewRead(pages) /\ pages[Len(pages)].next \in Nat
        BY <3>1, <3>2, EntriesAreFinite DEF Reads
      <3>4. QED
        BY <1>1, <2>1, <2>2, <3>3 DEF FewRead
    <2>3a. asked \in WalkType /\ asked.got = pages /\ asked.basis = basis
      BY <1>1, <2>2, <2>3 DEF WalkType
    <2> HIDE DEF asked
    <2>4. QED
      BY <2>1, <2>3a DEF TrailInv
  <1>7. CASE T!Refetch
    <2> DEFINE goal == IF pages = <<>> THEN 1 ELSE Len(pages)
    <2>1. /\ walk' = T!FromFirst(goal) /\ inputs' \in 0..MaxInputs
          /\ UNCHANGED <<begun, visible, typed, settled, pages, basis>>
      BY <1>1, <1>7 DEF T!Refetch, T!log
    <2>2. goal \in 1..MaxEntries
      BY <1>1 DEF TrailInv, Reads, FewRead
    <2> HIDE DEF goal
    <2>3. QED
      BY <2>1, <2>2, StartsOver DEF TrailInv
  <1>8. CASE T!ReadPage
    <2> DEFINE got == Append(walk.got, T!NextOf(walk.got))
               base == IF walk.got = <<>> THEN visible ELSE walk.basis
    <2>1. /\ walk # T!Idle /\ walk \in WalkType /\ Reads(walk.got, walk.basis, visible, settled)
          /\ walk.got # <<>> => walk.got[Len(walk.got)].next # T!Start
          /\ walk' = [walk EXCEPT !.got = got, !.basis = base]
          /\ UNCHANGED <<begun, visible, typed, settled, pages, inputs, basis>>
      BY <1>8 DEF T!ReadPage, T!log, TrailInv
    <2>2. Reads(got, base, visible, settled)
      <3>1. CASE walk.got = <<>>
        BY <1>1, <3>1, ReadsFirst DEF T!NextOf, T!Matching
      <3>2. CASE walk.got # <<>>
        BY <1>1, <2>1, <3>2, ReadsOn DEF T!NextOf, T!Matching
      <3>3. QED
        BY <3>1, <3>2
    <2> HIDE DEF got, base
    <2>3. got \in Seq(T!Page) /\ base \in SUBSET T!Entry
      BY <1>1, <2>2 DEF Reads
    <2>4. walk' \in WalkType /\ walk'.got = got /\ walk'.basis = base
      BY <2>1, <2>3 DEF WalkType
    <2>5. QED
      BY <2>1, <2>2, <2>4 DEF TrailInv
  <1>9. CASE T!Show
    <2>1. /\ walk # T!Idle /\ pages' = walk.got /\ basis' = walk.basis /\ walk' = T!Idle
          /\ UNCHANGED <<begun, visible, typed, settled, inputs>>
      BY <1>9 DEF T!Show, T!log
    <2>2. QED
      BY <2>1 DEF TrailInv
  <1>10. CASE T!Fails
    BY <1>1, <1>10 DEF T!Fails, T!log, TrailInv
  <1>11. QED
    BY <1>2, <1>3, <1>4, <1>5, <1>6, <1>7, <1>8, <1>9, <1>10 DEF T!Next

LEMMA TrailTypes == TrailInv => T!TypeOK
  <1> SUFFICES ASSUME TrailInv
               PROVE  T!TypeOK
    OBVIOUS
  <1>1. pages \in Seq(T!Page) /\ basis \subseteq visible
    BY DEF TrailInv, Reads
  <1>2. walk = T!Idle \/ walk \in T!Walk
    BY DEF TrailInv, WalkType, T!Walk
  <1>3. QED
    BY <1>1, <1>2 DEF TrailInv, T!TypeOK

(* What is shown reaches down to the last cursor, and no further.          *)
LEMMA TrailIsRead == TrailInv => T!TrailHasNoHoles
  <1> SUFFICES ASSUME TrailInv
               PROVE  T!TrailHasNoHoles
    OBVIOUS
  <1> DEFINE shown == UNION {pages[i].items : i \in DOMAIN pages}
             n == Len(pages)
  <1>1. Reads(pages, basis, visible, settled) /\ visible \in SUBSET T!Entry
    BY SizeAssumption DEF TrailInv, T!Entry
  <1>2. pages \in Seq(T!Page) /\ n \in Nat /\ DOMAIN pages = 1..n /\ (pages # <<>> => n \in DOMAIN pages)
    BY <1>1 DEF Reads
  <1>3. \A i \in DOMAIN pages : pages[i].items \in SUBSET shown /\ pages[i].items \in SUBSET Nat
    BY <1>1, EntriesAreFinite DEF Reads
  <1>4. shown \in SUBSET Nat
    BY <1>3
  <1>5. \A e \in shown : \E i \in DOMAIN pages : e \in pages[i].items
    OBVIOUS
  <1>6. pages # <<>> => \A e \in basis \cap settled : e \in shown \/ (pages[n].next # T!Start /\ e < pages[n].next)
    BY <1>1, <1>3 DEF Reads
  <1> HIDE DEF shown
  <1>7. ASSUME pages # <<>>, pages[n].next # T!Start
        PROVE  pages[n].next \in shown /\ \A e \in shown : e >= pages[n].next
    <2>1. n \in DOMAIN pages /\ pages[n].next \in pages[n].items /\ pages[n].next \in shown
      BY <1>1, <1>2, <1>3, <1>7 DEF Reads
    <2>2. ASSUME NEW i \in DOMAIN pages, NEW a \in pages[i].items
          PROVE  a >= pages[n].next
      <3>1. CASE i = n
        BY <1>1, <1>7, <2>2, <3>1 DEF Reads
      <3>2. CASE i < n
        <4>1. a > pages[n].next
          BY <1>1, <2>1, <2>2, <3>2 DEF Reads
        <4>2. a \in Nat /\ pages[n].next \in Nat
          BY <1>3, <1>4, <2>1, <2>2
        <4>3. QED
          BY <4>1, <4>2
      <3>3. QED
        BY <1>2, <2>2, <3>1, <3>2
    <2>3. QED
      BY <1>5, <2>1, <2>2
  <1>8. ASSUME shown # {}, NEW e \in basis \cap settled, e >= T!Min(shown)
        PROVE  e \in shown
    <2>1. T!Min(shown) \in shown
      <3>1. T!Min(shown) = D!Min(shown)
        BY DEF T!Min, D!Min
      <3>2. QED
        BY <1>4, <1>8, <3>1, MinExists
    <2>2. pages # <<>>
      BY <1>2, <1>5, <1>8
    <2>3. SUFFICES ASSUME pages[n].next # T!Start, e < pages[n].next
                   PROVE  FALSE
      BY <1>6, <2>2
    <2>4. T!Min(shown) >= pages[n].next /\ T!Min(shown) \in Nat /\ pages[n].next \in Nat
      BY <1>4, <1>7, <2>1, <2>2, <2>3
    <2>5. e \in Nat
      BY <1>1, EntriesAreFinite DEF Reads
    <2>6. QED
      BY <1>8, <2>3, <2>4, <2>5
  <1>9. \A i, j \in DOMAIN pages : i < j => \A a \in pages[i].items, b \in pages[j].items : a > b
    BY <1>1 DEF Reads
  <1>10. shown # {} => {e \in basis \cap settled : e >= T!Min(shown)} \subseteq shown
    BY <1>8
  <1>11. pages # <<>> /\ pages[n].next = T!Start => basis \cap settled \subseteq shown
    BY <1>6
  <1>12. QED
    BY <1>9, <1>10, <1>11 DEF T!TrailHasNoHoles, shown

-----------------------------------------------------------------------------
(* ExportButton. *)

(* The rows of the file so far are the newest, down to the cursor: those   *)
(* that kept the status are in it or below.                                *)
FileFollows ==
  file.at = "walking" /\ ~slipped =>
    /\ file.cursor = X!Start => file.rows = {}
    /\ file.cursor # X!Start =>
         /\ \A r \in file.rows : r >= file.cursor
         /\ \A r \in stayed \ file.rows : r < file.cursor

ExportInv ==
  /\ made \in 0..MaxRecs /\ alive \subseteq 1..made /\ wanted \subseteq alive
  /\ stayed \subseteq wanted
  /\ slipped \in BOOLEAN
  /\ file \in [at : {"idle", "walking", "done", "error"}, rows : SUBSET X!RecId, count : Nat,
               cursor : X!RecId \cup {X!Start}]
  /\ file.count = Cardinality(file.rows) /\ file.count <= MaxRows
  /\ decisions \in 0..MaxDecisions
  /\ FileFollows
  /\ file.at = "done" /\ ~slipped => X!Complete

LEMMA RecsAreFinite == /\ MaxRecs \in Nat
                       /\ X!RecId \in SUBSET (Nat \ {0}) /\ X!Start \notin X!RecId
                       /\ \A r \in SUBSET X!RecId : IsFiniteSet(r) /\ Cardinality(r) \in Nat
  <1>1. MaxRecs \in Nat
    BY SizeAssumption
  <1>2. IsFiniteSet(1..MaxRecs)
    BY <1>1, FS_Interval
  <1>3. \A r \in SUBSET (1..MaxRecs) : IsFiniteSet(r) /\ Cardinality(r) \in Nat
    BY <1>2, FS_Subset, FS_CardinalityType
  <1>4. QED
    BY <1>1, <1>3 DEF X!RecId, X!Start

LEMMA ExportTypes == ExportInv => X!TypeOK
  <1> SUFFICES ASSUME ExportInv
               PROVE  X!TypeOK
    OBVIOUS
  <1>1. stayed \subseteq X!RecId
    BY RecsAreFinite DEF ExportInv, X!RecId
  <1>2. file.count \in 0..MaxRows
    BY SizeAssumption DEF ExportInv
  <1>3. QED
    BY <1>1, <1>2 DEF ExportInv, X!TypeOK

LEMMA MadeAreRecs == ExportInv => /\ wanted \in SUBSET X!RecId /\ alive \in SUBSET X!RecId
                                  /\ stayed \in SUBSET X!RecId
  BY RecsAreFinite DEF ExportInv, X!RecId

(* The same cursor is read as the audit log's. *)
LEMMA SamePages ==
  /\ \A rows, k : X!Newest(rows, k) = T!Newest(rows, k)
  /\ \A rows, existing, cursor, limit : X!PageOf(rows, existing, cursor, limit) = T!PageOf(rows, existing, cursor, limit)
  <1>1. X!Start = T!Start
    BY DEF X!Start, T!Start
  <1>2. \A rows, k : X!Newest(rows, k) = T!Newest(rows, k)
    BY SameCardinality, Zenon DEF X!Newest, T!Newest
  <1>3. \A rows, cursor : X!After(rows, cursor) = T!After(rows, cursor)
    BY <1>1, <1>2, Zenon DEF X!After, T!After
  <1>4. \A rows : X!Min(rows) = T!Min(rows)
    BY DEF X!Min, T!Min
  <1>5. \A found, limit : X!NextCursor(found, limit) = T!NextCursor(found, limit)
    BY <1>1, <1>2, <1>4, SameCardinality, Zenon DEF X!NextCursor, T!NextCursor
  <1>6. \A rows, existing, cursor, limit : X!PageOf(rows, existing, cursor, limit) = T!PageOf(rows, existing, cursor, limit)
    BY <1>1, <1>2, <1>3, <1>5, Zenon DEF X!PageOf, T!PageOf
  <1>7. QED
    BY <1>2, <1>6

(* Whatever the cursor, a page is rows of the status and a cursor of them. *)
LEMMA AnyPage ==
  ASSUME NEW rows \in SUBSET X!RecId, NEW existing, NEW cursor
  PROVE  /\ X!PageOf(rows, existing, cursor, ExportPageSize).items \in SUBSET rows
         /\ X!PageOf(rows, existing, cursor, ExportPageSize).next \in rows \cup {X!Start}
  <1> DEFINE found == IF cursor \in existing \cup {T!Start} THEN T!After(rows, cursor) ELSE {}
             N == T!Newest(found, ExportPageSize)
  <1>1. found \in SUBSET rows
    <2>1. T!After(rows, cursor) \in SUBSET rows
      BY DEF T!After
    <2>2. QED
      BY <2>1
  <1>2. found \in SUBSET Nat /\ found \in SUBSET X!RecId /\ IsFiniteSet(found) /\ Cardinality(found) \in Nat
    <2> HIDE DEF found
    <2>1. QED
      BY <1>1, RecsAreFinite
  <1>3. X!PageOf(rows, existing, cursor, ExportPageSize) = [items |-> N, next |-> T!NextCursor(found, ExportPageSize)]
    BY SamePages DEF T!PageOf
  <1>4. T!NextCursor(found, ExportPageSize) = IF Cardinality(found) <= ExportPageSize THEN T!Start ELSE T!Min(N)
    BY SameCardinality DEF T!NextCursor
  <1> HIDE DEF found
  <1>5. ExportPageSize \in Nat /\ ExportPageSize # 0
    BY SizeAssumption
  <1>6. N \in SUBSET found /\ (found # {} => N # {})
    BY <1>2, <1>5, NewestShows
  <1> HIDE DEF N
  <1>7. found = {} => Cardinality(found) = 0
    BY FS_EmptySet
  <1>8. N # {} => T!Min(N) \in N
    <2>1. T!Min(N) = D!Min(N)
      BY DEF T!Min, D!Min
    <2>2. QED
      BY <1>2, <1>6, <2>1, MinExists
  <1>9. X!Start = T!Start
    BY DEF X!Start, T!Start
  <1> DEFINE p == X!PageOf(rows, existing, cursor, ExportPageSize)
             next == T!NextCursor(found, ExportPageSize)
  <1>10. p.items = N /\ p.next = next
    BY <1>3
  <1>11. next = T!Start \/ (Cardinality(found) > ExportPageSize /\ next = T!Min(N))
    BY <1>2, <1>4, <1>5
  <1> HIDE DEF p, next
  <1>12. next \in rows \cup {X!Start}
    <2>1. CASE next = T!Start
      BY <1>9, <2>1
    <2>2. CASE Cardinality(found) > ExportPageSize /\ next = T!Min(N)
      <3>1. found # {}
        BY <1>5, <1>7, <2>2
      <3>2. QED
        BY <1>1, <1>6, <1>8, <2>2, <3>1
    <2>3. QED
      BY <1>11, <2>1, <2>2
  <1>13. p.items \in SUBSET rows /\ p.next \in rows \cup {X!Start}
    BY <1>1, <1>6, <1>10, <1>12
  <1>14. QED
    BY <1>13 DEF p

LEMMA ExportBegins == X!Init => ExportInv
  <1> SUFFICES ASSUME X!Init
               PROVE  ExportInv
    OBVIOUS
  <1>1. /\ made \in 0..MaxRecs /\ alive = 1..made /\ wanted \subseteq alive /\ stayed = {} /\ slipped = FALSE
        /\ file = [at |-> "idle", rows |-> {}, count |-> 0, cursor |-> X!Start]
    BY DEF X!Init, X!NoFile
  <1>2. Cardinality({}) = 0
    BY FS_EmptySet
  <1>3. decisions = 0 /\ 0 \in 0..MaxDecisions /\ 0 <= MaxRows
    BY SizeAssumption DEF X!Init
  <1>4. /\ file.at = "idle" /\ file.rows = {} /\ file.count = 0 /\ file.cursor = X!Start
        /\ file \in [at : {"idle", "walking", "done", "error"}, rows : SUBSET X!RecId, count : Nat,
                    cursor : X!RecId \cup {X!Start}]
    BY <1>1
  <1>5. QED
    BY <1>1, <1>2, <1>3, <1>4 DEF ExportInv, FileFollows

(* One turn of the loop.                                                   *)
LEMMA Walks ==
  ASSUME ExportInv, X!Walk
  PROVE  ExportInv'
  <1> DEFINE page_ == X!PageOf(wanted, alive, file.cursor, ExportPageSize)
             over == page_.next = X!Start \/ file.count + X!Cardinality(page_.items) >= MaxRows
             rows_ == file.rows \cup page_.items
             kept == IF over THEN X!Newest(rows_, MaxRows) ELSE rows_
             next == [at |-> IF over THEN "done" ELSE "walking", rows |-> kept, count |-> X!Cardinality(kept),
                      cursor |-> IF over THEN X!Start ELSE page_.next]
  <1>1. /\ file.at = "walking" /\ file' = next
        /\ slipped' = (slipped \/ file.cursor \notin wanted \cup {X!Start})
        /\ UNCHANGED <<made, alive, wanted, decisions, stayed>>
    BY DEF X!Walk
  <1>2. /\ wanted \in SUBSET X!RecId /\ stayed \in SUBSET wanted /\ wanted \subseteq alive
        /\ file.rows \in SUBSET X!RecId /\ file.count = Cardinality(file.rows)
    BY MadeAreRecs DEF ExportInv
  <1>3. page_.items \in SUBSET wanted /\ page_.next \in wanted \cup {X!Start}
    BY <1>2, AnyPage
  <1>4. ASSUME ~slipped'
        PROVE  PageIs(page_, Sought(wanted, file.cursor))
    <2>1. file.cursor \in wanted \cup {T!Start}
      BY <1>1, <1>4 DEF T!Start, X!Start
    <2>2. wanted \in SUBSET (Nat \ {0}) /\ IsFiniteSet(wanted) /\ ExportPageSize \in Nat \ {0}
      BY <1>2, RecsAreFinite, SizeAssumption
    <2>3. PageIs(T!PageOf(wanted, alive, file.cursor, ExportPageSize), Sought(wanted, file.cursor))
      BY <1>2, <2>1, <2>2, PageShows
    <2>4. QED
      BY <2>3, SamePages
  <1> HIDE DEF page_
  <1>5. /\ rows_ \in SUBSET X!RecId /\ rows_ \in SUBSET Nat /\ IsFiniteSet(rows_) /\ Cardinality(rows_) \in Nat
        /\ IsFiniteSet(file.rows) /\ IsFiniteSet(page_.items)
        /\ Cardinality(file.rows) \in Nat /\ Cardinality(page_.items) \in Nat /\ MaxRows \in Nat
    <2>1. rows_ \in SUBSET X!RecId /\ page_.items \in SUBSET X!RecId
      BY <1>2, <1>3
    <2> HIDE DEF rows_
    <2>2. QED
      BY <1>2, <2>1, RecsAreFinite, SizeAssumption
  <1> HIDE DEF rows_
  <1>6. over <=> page_.next = X!Start \/ file.count + Cardinality(page_.items) >= MaxRows
    BY SameCardinality
  <1> HIDE DEF over
  <1>7. /\ X!Newest(rows_, MaxRows) \in SUBSET rows_
        /\ Cardinality(rows_) <= MaxRows => X!Newest(rows_, MaxRows) = rows_
        /\ Cardinality(rows_) >= MaxRows => Cardinality(X!Newest(rows_, MaxRows)) >= MaxRows
        /\ Cardinality(X!Newest(rows_, MaxRows)) <= MaxRows
    BY <1>5, NewestShows, SamePages
  <1>8. kept \in SUBSET rows_ /\ kept \in SUBSET X!RecId /\ Cardinality(kept) \in Nat /\ X!Cardinality(kept) = Cardinality(kept)
    <2>1. kept \in SUBSET rows_
      BY <1>7
    <2> HIDE DEF kept
    <2>2. kept \in SUBSET X!RecId
      BY <1>5, <2>1
    <2>3. QED
      BY <2>1, <2>2, RecsAreFinite, SameCardinality
  <1>9. kept = IF over THEN X!Newest(rows_, MaxRows) ELSE rows_
    OBVIOUS
  <1> HIDE DEF kept
  <1>10. /\ file'.at = (IF over THEN "done" ELSE "walking") /\ file'.rows = kept /\ file'.count = Cardinality(kept)
         /\ file'.cursor = IF over THEN X!Start ELSE page_.next
    BY <1>1, <1>8
  <1>11. file' \in [at : {"idle", "walking", "done", "error"}, rows : SUBSET X!RecId, count : Nat,
                    cursor : X!RecId \cup {X!Start}]
    <2>1. page_.next \in X!RecId \cup {X!Start}
      BY <1>2, <1>3
    <2>2. QED
      BY <1>1, <1>8, <2>1
  <1> HIDE DEF next
  <1>12. ASSUME ~slipped'
         PROVE  /\ ~slipped
                /\ file.cursor = X!Start => file.rows = {}
                /\ file.cursor # X!Start =>
                     /\ \A r \in file.rows : r >= file.cursor
                     /\ \A r \in stayed \ file.rows : r < file.cursor
                /\ file.cursor \in wanted \cup {X!Start}
    BY <1>1, <1>12 DEF ExportInv, FileFollows
  <1>13. X!Start = T!Start
    BY DEF X!Start, T!Start
  <1>14. ASSUME ~slipped'
         PROVE  /\ stayed \ file.rows \in SUBSET Sought(wanted, file.cursor)
                /\ file.rows \cap page_.items = {}
                /\ \A r \in file.rows : page_.next # X!Start => r >= page_.next
    <2>1. CASE file.cursor = X!Start
      BY <1>2, <1>12, <1>13, <1>14, <2>1 DEF Sought
    <2>2. CASE file.cursor # X!Start
      <3>1. Sought(wanted, file.cursor) = {r \in wanted : r < file.cursor}
        BY <1>13, <2>2 DEF Sought
      <3>2. stayed \ file.rows \in SUBSET Sought(wanted, file.cursor)
        BY <1>2, <1>12, <1>14, <2>2, <3>1
      <3>3. file.cursor \in Nat /\ (\A r \in wanted : r \in Nat) /\ (\A r \in file.rows : r \in Nat)
        BY <1>2, <1>12, <1>14, <2>2, RecsAreFinite
      <3>4. \A r \in page_.items : r < file.cursor
        BY <1>4, <1>14, <3>1 DEF PageIs
      <3>5. file.rows \cap page_.items = {}
        <4>1. \A r \in file.rows : ~(r < file.cursor)
          BY <1>12, <1>14, <2>2, <3>3
        <4>2. QED
          BY <3>4, <4>1
      <3>6. ASSUME page_.next # X!Start
            PROVE  page_.next \in Nat /\ page_.next < file.cursor
        BY <1>3, <1>4, <1>13, <1>14, <3>3, <3>4, <3>6 DEF PageIs
      <3>7. \A r \in file.rows : page_.next # X!Start => r >= page_.next
        BY <1>12, <1>14, <2>2, <3>3, <3>6
      <3>8. QED
        BY <3>2, <3>5, <3>7
    <2>3. QED
      BY <2>1, <2>2
  <1>15. FileFollows'
    <2> SUFFICES ASSUME file'.at = "walking", ~slipped'
                 PROVE  /\ file'.cursor = X!Start => file'.rows = {}
                        /\ file'.cursor # X!Start =>
                             /\ \A r \in file'.rows : r >= file'.cursor
                             /\ \A r \in stayed' \ file'.rows : r < file'.cursor
      BY DEF FileFollows, X!Start
    <2>1. ~over /\ kept = rows_ /\ file'.cursor = page_.next /\ file'.rows = rows_ /\ page_.next # X!Start
      BY <1>6, <1>9, <1>10
    <2>2. \A r \in rows_ : r >= page_.next
      BY <1>4, <1>13, <1>14, <2>1 DEF PageIs, rows_
    <2>3. \A r \in stayed \ rows_ : r < page_.next
      BY <1>4, <1>13, <1>14, <2>1 DEF PageIs, rows_
    <2>4. QED
      BY <1>1, <2>1, <2>2, <2>3
  <1>16. ASSUME file'.at = "done", ~slipped'
         PROVE  file'.count >= MaxRows \/ stayed' \subseteq file'.rows
    <2>1. over /\ kept = X!Newest(rows_, MaxRows)
      BY <1>9, <1>10, <1>16
    <2>2. CASE Cardinality(rows_) >= MaxRows
      BY <1>7, <1>10, <2>1, <2>2
    <2>3. CASE Cardinality(rows_) < MaxRows
      <3>1. kept = rows_
        BY <1>5, <1>7, <2>1, <2>3
      <3>2. Cardinality(rows_) = Cardinality(file.rows) + Cardinality(page_.items)
        <4>1. file.rows \cap page_.items = {} /\ Cardinality({}) = 0
          BY <1>14, <1>16, FS_EmptySet
        <4>2. Cardinality(rows_) = Cardinality(file.rows) + Cardinality(page_.items) - Cardinality(file.rows \cap page_.items)
          BY <1>5, FS_Union DEF rows_
        <4>3. Cardinality(file.rows \cap page_.items) = 0
          BY <4>1
        <4>4. QED
          BY <1>5, <4>2, <4>3
      <3>3. page_.next = X!Start
        BY <1>2, <1>5, <1>6, <2>1, <2>3, <3>2
      <3>4. page_.items = Sought(wanted, file.cursor)
        BY <1>4, <1>13, <1>16, <3>3 DEF PageIs
      <3>5. stayed \subseteq rows_
        BY <1>14, <1>16, <3>4 DEF rows_
      <3>6. QED
        BY <1>1, <1>10, <3>1, <3>5
    <2>4. QED
      BY <1>5, <2>2, <2>3
  <1>17. (file.at = "done" /\ ~slipped => X!Complete)'
    BY <1>16 DEF X!Complete
  <1>18. Cardinality(kept) <= MaxRows
    <2>1. CASE over
      BY <1>7, <1>9, <2>1
    <2>2. CASE ~over
      <3>1. file.count + Cardinality(page_.items) < MaxRows
        BY <1>2, <1>5, <1>6, <2>2
      <3>2. Cardinality(rows_) = Cardinality(file.rows) + Cardinality(page_.items) - Cardinality(file.rows \cap page_.items)
        BY <1>5, FS_Union DEF rows_
      <3>3. Cardinality(file.rows \cap page_.items) \in Nat
        <4>1. file.rows \cap page_.items \in SUBSET X!RecId
          BY <1>2
        <4>2. QED
          BY <4>1, RecsAreFinite
      <3>4. Cardinality(rows_) <= MaxRows
        BY <1>2, <1>5, <3>1, <3>2, <3>3
      <3>5. QED
        BY <1>9, <2>2, <3>4
    <2>3. QED
      BY <2>1, <2>2
  <1>19. file'.count = Cardinality(file'.rows) /\ file'.count <= MaxRows
    BY <1>10, <1>18
  <1>20. QED
    BY <1>1, <1>11, <1>15, <1>17, <1>19 DEF ExportInv

LEMMA ExportStep == ExportInv /\ X!Next => ExportInv'
  <1> SUFFICES ASSUME ExportInv, X!Next
               PROVE  ExportInv'
    OBVIOUS
  <1>0. decisions' \in 0..MaxDecisions
    <2>1. decisions' \in {decisions, decisions + 1} /\ (decisions' = decisions \/ decisions < MaxDecisions)
      BY DEF X!Next, X!Make, X!Run, X!Walk, X!Fail, X!Resolve, X!Delete, X!Decided
    <2>2. QED
      BY <2>1, SizeAssumption DEF ExportInv
  <1>1. CASE X!Make
    <2>1. /\ made' = made + 1 /\ made' \in 0..MaxRecs /\ alive' = alive \cup {made'} /\ wanted' = wanted \cup {made'}
          /\ UNCHANGED <<file, stayed, slipped>>
      BY <1>1, RecsAreFinite DEF X!Make, ExportInv
    <2>2. 1..made \subseteq 1..made' /\ made' \in 1..made'
      BY <2>1, RecsAreFinite DEF ExportInv
    <2>3. QED
      BY <1>0, <2>1, <2>2 DEF ExportInv, FileFollows, X!Complete
  <1>2. ASSUME NEW r \in X!RecId, X!Resolve(r) \/ X!Delete(r)
        PROVE  ExportInv'
    <2>1. /\ UNCHANGED <<made, file, slipped>> /\ stayed' = stayed \ {r}
          /\ alive' \in {alive, alive \ {r}} /\ wanted' \in {wanted \ {r}, wanted \cup {r}}
          /\ alive' \subseteq alive /\ wanted' \subseteq alive' /\ stayed' \subseteq wanted'
      BY <1>2 DEF X!Resolve, X!Delete, ExportInv
    <2>2. FileFollows'
      BY <2>1 DEF ExportInv, FileFollows
    <2>3. (file.at = "done" /\ ~slipped => X!Complete)'
      BY <2>1 DEF ExportInv, X!Complete
    <2>4. QED
      BY <1>0, <2>1, <2>2, <2>3 DEF ExportInv
  <1>3. CASE X!Run
    <2>1. /\ file' = [at |-> "walking", rows |-> {}, count |-> 0, cursor |-> X!Start] /\ stayed' = wanted /\ slipped' = FALSE
          /\ UNCHANGED <<made, alive, wanted>>
      BY <1>3 DEF X!Run, X!NoFile
    <2>2. Cardinality({}) = 0
      BY FS_EmptySet
    <2>2a. /\ file'.at = "walking" /\ file'.rows = {} /\ file'.count = 0 /\ file'.cursor = X!Start
          /\ file' \in [at : {"idle", "walking", "done", "error"}, rows : SUBSET X!RecId, count : Nat,
                       cursor : X!RecId \cup {X!Start}]
      BY <2>1
    <2>3. FileFollows'
      BY <2>2a DEF FileFollows
    <2>4. file'.count = Cardinality(file'.rows) /\ file'.count <= MaxRows
      BY <2>2, <2>2a, SizeAssumption
    <2>5. QED
      BY <1>0, <2>1, <2>2a, <2>3, <2>4 DEF ExportInv
  <1>4. CASE X!Fail
    <2>1. /\ file' = [at |-> "error", rows |-> {}, count |-> 0, cursor |-> X!Start]
          /\ UNCHANGED <<made, alive, wanted, stayed, slipped>>
      BY <1>4 DEF X!Fail, X!NoFile
    <2>2. Cardinality({}) = 0
      BY FS_EmptySet
    <2>3. /\ file'.at = "error" /\ file'.rows = {} /\ file'.count = 0 /\ file'.cursor = X!Start
          /\ file' \in [at : {"idle", "walking", "done", "error"}, rows : SUBSET X!RecId, count : Nat,
                       cursor : X!RecId \cup {X!Start}]
      BY <2>1
    <2>4. file'.count = Cardinality(file'.rows) /\ file'.count <= MaxRows
      BY <2>2, <2>3, SizeAssumption
    <2>5. QED
      BY <1>0, <2>1, <2>3, <2>4 DEF ExportInv, FileFollows
  <1>5. QED
    BY <1>1, <1>2, <1>3, <1>4, Walks DEF X!Next

LEMMA ExportIsHeld == ExportInv => X!ExportIsComplete
  BY DEF ExportInv, X!ExportIsComplete

-----------------------------------------------------------------------------
(* The pages together. *)

LEMMA DeskRests == DeskInv /\ UNCHANGED deskVars => DeskInv'
  BY DEF deskVars, DeskInv, DeskTyped, CallsTyped, CallsNumbered, OneCall, ToastIsOwn, PaneFollows, Taken

LEMMA ShopIsLeft == ShopInv /\ UNCHANGED shopVars => ShopInv'
  BY SameAnswer DEF shopVars, ShopInv, ShowsCached, CacheFollows, DirtIsTyped, S!Cached, S!Dirty,
                    S!OnlyTypedFieldsAreSent

LEMMA ShopTypesRest == ShopTyped /\ UNCHANGED shopVars => ShopTyped'
  BY DEF shopVars, ShopTyped, FewPages, S!TypeOK

LEMMA SettingsRest == SettingsInv /\ UNCHANGED settingsVars => SettingsInv'
  BY DEF settingsVars, SettingsInv, O!TypeOK, Numbered, Origins, ChosenFor, LoadIsOwn, Turns, TakesItsTurn, LoadTurns,
         OthersMakeItStale

LEMMA ListsRest == ListsInv /\ UNCHANGED listsVars => ListsInv'
  BY DEF listsVars, ListsInv, ListsTyped, ListFollows, WillFetch, L!FetchedAfter

LEMMA TrailRests == TrailInv /\ UNCHANGED trailVars => TrailInv'
  BY DEF trailVars, TrailInv

LEMMA ExportRests == ExportInv /\ UNCHANGED exportVars => ExportInv'
  BY DEF exportVars, ExportInv, FileFollows, X!Complete

PagesInv == place \in Place /\ QueueInv /\ DeskInv /\ ShopTyped /\ ShopInv /\ SettingsInv /\ ListsInv /\ TrailInv /\ ExportInv

LEMMA PagesBegin == PagesInit => PagesInv
  BY InitSettled, DeskBegins, ShopTypesBegin, ShopBegins, SettingsBegin, ListsBegin, TrailBegins, ExportBegins DEF PagesInit, PagesInv

LEMMA PagesStep == PagesInv /\ [PagesNext]_allVars => PagesInv'
  <1> SUFFICES ASSUME PagesInv, [PagesNext]_allVars
               PROVE  PagesInv'
    OBVIOUS
  <1> USE DEF queueOnly, deskOnly, shopOnly, settingsOnly, listsOnly, trailOnly, exportOnly
  <1>1. QueueInv'
    <2>1. Next \/ UNCHANGED vars
      BY DEF PagesNext, allVars
    <2>2. QED
      BY <2>1, QueueStep DEF PagesInv
  <1>2. DeskInv'
    <2>1. D!Next \/ UNCHANGED deskVars
      BY DEF PagesNext, allVars
    <2>2. QED
      BY <2>1, DeskStep, DeskRests DEF PagesInv
  <1>3. ShopInv'
    <2>1. S!Next \/ UNCHANGED shopVars
      BY DEF PagesNext, allVars
    <2>2. QED
      BY <2>1, ShopStep, ShopIsLeft DEF PagesInv
  <1>4. SettingsInv'
    <2>1. O!Next \/ UNCHANGED settingsVars
      BY DEF PagesNext, allVars
    <2>2. QED
      BY <2>1, SettingsStep, SettingsRest DEF PagesInv
  <1>5. ListsInv'
    <2>1. L!Next \/ UNCHANGED listsVars
      BY DEF PagesNext, allVars
    <2>2. QED
      BY <2>1, ListsStep, ListsRest DEF PagesInv
  <1>6. TrailInv'
    <2>1. T!Next \/ UNCHANGED trailVars
      BY DEF PagesNext, allVars
    <2>2. QED
      BY <2>1, TrailStep, TrailRests DEF PagesInv
  <1>7. ExportInv'
    <2>1. X!Next \/ UNCHANGED exportVars
      BY DEF PagesNext, allVars
    <2>2. QED
      BY <2>1, ExportStep, ExportRests DEF PagesInv
  <1>8. ShopTyped'
    <2>1. S!Next \/ UNCHANGED shopVars
      BY DEF PagesNext, allVars
    <2>2. QED
      BY <2>1, ShopTypesStep, ShopTypesRest DEF PagesInv
  <1>9. place' \in Place
    BY DEF PagesNext, allVars, PagesInv
  <1>10. QED
    BY <1>1, <1>2, <1>3, <1>4, <1>5, <1>6, <1>7, <1>8, <1>9 DEF PagesInv

(* The invariants of the parts hold together: only one part moves in a    *)
(* behaviour, and the others stay as they began.                           *)
THEOREM PagesInvariant == PagesSpec => []PagesInv
  BY PagesBegin, PagesStep, PTL DEF PagesSpec

(* Whatever page is open, what it holds has its type: a pager is never     *)
(* past its pages, a request never without the page it was sent from.      *)
THEOREM PagesTypeCorrect == PagesSpec => []PagesTypeOK
  <1>1. PagesInv => PagesTypeOK
    <2>1. PagesInv => /\ place \in Place /\ TypeOK /\ D!TypeOK /\ S!TypeOK
                      /\ O!TypeOK /\ L!TypeOK /\ T!TypeOK /\ X!TypeOK
      BY DeskTypes, ListsTypeFollows, TrailTypes, ExportTypes
         DEF PagesInv, QueueInv, DeskInv, ShopTyped, SettingsInv
    <2>2. QED
      BY <2>1 DEF PagesTypeOK, Place
  <1>2. QED
    BY PagesInvariant, <1>1, PTL

(* Snapshots put back, optimistic removals and late answers of the queue's *)
(* request never outlast the decisions they belong to: for any number of   *)
(* decisions at a time, the queue at rest shows the newest page of what is *)
(* pending, but for what others changed since it was read.                 *)
THEOREM QueueComesToRest == PagesSpec => []QuietQueueIsCurrent
  <1>1. PagesInv => QuietQueueIsCurrent
    BY DEF PagesInv, QueueInv, Settled, Agrees, Undecided, QuietQueueIsCurrent
  <1>2. QED
    BY PagesInvariant, <1>1, PTL

(* However many recommendations are pending and wherever a lone analyst    *)
(* moves while answers come: both panes showing, no recommendation stands  *)
(* beside a queue it is not in, and the toast offers to undo only what     *)
(* this page decided.                                                      *)
THEOREM DeskStaysCoherent == PagesSpec => []DeskIsCoherent
  <1>1. PagesInv => DeskIsCoherent
    BY DeskIsHeld DEF PagesInv, DeskIsCoherent
  <1>2. QED
    BY PagesInvariant, <1>1, PTL

(* Whatever answers are cached and fetches fail: a catalog table at rest,  *)
(* with no error and no write of one's own unanswered, is the server's     *)
(* page for the filters on the screen, unless others wrote after it was    *)
(* read; and an edit sends only fields that were entered into it.          *)
THEOREM ShopStaysCurrent == PagesSpec => []ShopHolds
  <1>1. PagesInv => ShopHolds
    BY ShopIsHeld DEF PagesInv, ShopHolds
  <1>2. QED
    BY PagesInvariant, <1>1, PTL

(* Whatever saves overlap and whoever else saves: the settings of every    *)
(* organization are values that were chosen for it, unless somebody signed *)
(* out with a save or a load under way.  After saves that took turns and   *)
(* succeeded, the trail and the session follow.  And a list at rest is     *)
(* the server's unless its fetch failed, or a change failed that was made. *)
THEOREM SettingsStayChosen == PagesSpec => []SettingsHold
  <1>1. PagesInv => SettingsHold
    BY SettingsAreHeld, ListsFollow DEF PagesInv, SettingsHold
  <1>2. QED
    BY PagesInvariant, <1>1, PTL

(* However the log grows between the reads, the audit pages shown follow   *)
(* each other without a hole or a repetition; and as long as no page was   *)
(* read from a row that had lost its status, a finished file has every row *)
(* that kept its own, up to the cap.                                       *)
THEOREM CursorsSkipNothing == PagesSpec => []NothingIsSkipped
  <1>1. PagesInv => NothingIsSkipped
    BY TrailIsRead, ExportIsHeld DEF PagesInv, NothingIsSkipped
  <1>2. QED
    BY PagesInvariant, <1>1, PTL
=============================================================================

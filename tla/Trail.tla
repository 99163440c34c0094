---------------------------------- MODULE Trail ---------------------------------
(***************************************************************************)
(* AuditPage: the audit log read page by page while it grows.              *)
(*                                                                         *)
(* An entry is its place in the order of createdAt and id.  Entries become *)
(* visible when their transactions commit, in any order.  A filter (the    *)
(* event, the days, the search) is the set of the entries it matches.      *)
(***************************************************************************)
EXTENDS Paging

CONSTANTS
  MaxEntries,   \* bound: entries ever written
  Filter,       \* the sets of entries that a filter may match
  Limit,        \* 25
  MaxInputs     \* bound: how often the user changes the filter or asks for more

VARIABLES
  begun, visible,   \* the log: how many entries were begun, which are committed
  typed, settled,   \* the filter in the fields, and the one of the query's key
  pages,            \* what is shown: the pages of the settled filter
  walk,             \* the query's request under way
  inputs,
  basis             \* history: what was committed when the first page shown was read

trailVars == <<begun, visible, typed, settled, pages, walk, inputs, basis>>

Entry == 1..MaxEntries
Page == [items : SUBSET Entry, next : Entry \cup {Start}]

(* goal: how many pages the walk reads; what it has read so far; more:     *)
(* whether it adds a page.                                                 *)
Walk == [goal : 1..MaxEntries, got : Seq(Page), basis : SUBSET Entry, more : BOOLEAN]
Idle == [goal |-> 0]

TypeOK ==
  /\ begun \in 0..MaxEntries /\ visible \subseteq 1..begun
  /\ typed \in Filter /\ settled \in Filter
  /\ pages \in Seq(Page) /\ basis \subseteq visible
  /\ walk = Idle \/ walk \in Walk
  /\ inputs \in 0..MaxInputs

(* The first page of a filter is fetched when its query is mounted.        *)
FromFirst(goal) == [goal |-> goal, got |-> <<>>, basis |-> {}, more |-> FALSE]

Init ==
  /\ begun = 0 /\ visible = {}
  /\ typed = Entry /\ settled = Entry
  /\ pages = <<>> /\ walk = FromFirst(1)
  /\ inputs = 0 /\ basis = {}

log == <<begun, visible>>
Input == inputs < MaxInputs /\ inputs' = inputs + 1

Begin ==
  /\ begun < MaxEntries /\ begun' = begun + 1
  /\ UNCHANGED <<visible, typed, settled, pages, walk, inputs, basis>>

Commit(e) ==
  /\ e \in 1..begun \ visible
  /\ visible' = visible \cup {e}
  /\ UNCHANGED <<begun, typed, settled, pages, walk, inputs, basis>>

(* The settled copy of the search trails the field; the other fields are   *)
(* settled at once, which is a delay of zero.                              *)
TypeFilter(f) ==
  /\ Input /\ f # typed /\ typed' = f
  /\ UNCHANGED <<log, settled, pages, walk, basis>>

Settles ==
  /\ settled # typed /\ settled' = typed
  /\ pages' = <<>> /\ walk' = FromFirst(1) /\ basis' = {}
  /\ UNCHANGED <<log, typed, inputs>>

(* hasNextPage, isFetchingNextPage: the next page, on top of those shown;  *)
(* a refetch under way is cancelled.                                       *)
LoadMore ==
  /\ Input
  /\ walk # Idle => ~walk.more
  /\ pages # <<>> /\ pages[Len(pages)].next # Start
  /\ walk' = [goal |-> Len(pages) + 1, got |-> pages, basis |-> basis, more |-> TRUE]
  /\ UNCHANGED <<log, typed, settled, pages, basis>>

(* At focus, at an invalidation, or Retry: all the pages, from the first.  *)
Refetch ==
  /\ Input /\ (walk = Idle \/ pages # <<>>)
  /\ walk' = FromFirst(IF pages = <<>> THEN 1 ELSE Len(pages))
  /\ UNCHANGED <<log, typed, settled, pages, basis>>

Matching == visible \cap settled

NextOf(got) == PageOf(Matching, visible, IF got = <<>> THEN Start ELSE got[Len(got)].next, Limit)

(* findMany, for the page after those read.                                *)
ReadPage ==
  /\ walk # Idle /\ Len(walk.got) < walk.goal
  /\ walk.got # <<>> => walk.got[Len(walk.got)].next # Start
  /\ walk' = [walk EXCEPT !.got = Append(@, NextOf(@)), !.basis = IF walk.got = <<>> THEN visible ELSE @]
  /\ UNCHANGED <<log, typed, settled, pages, inputs, basis>>

(* The pages are shown together, when there is none left to read.          *)
Show ==
  /\ walk # Idle /\ walk.got # <<>>
  /\ Len(walk.got) = walk.goal \/ walk.got[Len(walk.got)].next = Start
  /\ pages' = walk.got /\ basis' = walk.basis /\ walk' = Idle
  /\ UNCHANGED <<log, typed, settled, inputs>>

Fails ==
  /\ Input /\ walk # Idle /\ walk' = Idle
  /\ UNCHANGED <<log, typed, settled, pages, basis>>

Next ==
  \/ Begin \/ \E e \in Entry : Commit(e)
  \/ \E f \in Filter : TypeFilter(f)
  \/ Settles \/ LoadMore \/ Refetch \/ ReadPage \/ Show \/ Fails

Spec == Init /\ [][Next]_trailVars

-----------------------------------------------------------------------------
(* However the log grows between the reads, the pages shown follow each    *)
(* other without an entry twice, and leave out no entry, between the       *)
(* newest and the oldest shown, that was there when the first was read.    *)
TrailHasNoHoles ==
  LET shown == UNION {pages[i].items : i \in DOMAIN pages}
  IN /\ \A i, j \in DOMAIN pages : i < j => \A a \in pages[i].items, b \in pages[j].items : a > b
     /\ shown # {} => {e \in basis \cap settled : e >= Min(shown)} \subseteq shown
     /\ pages # <<>> /\ pages[Len(pages)].next = Start => basis \cap settled \subseteq shown
=============================================================================

--------------------------------- MODULE Lists ---------------------------------
(***************************************************************************)
(* The lists at the foot of SettingsPage: the category limits              *)
(* (CategoryRulesSection) and the invites (InviteSection), each with its   *)
(* query, its changes and their fetches.  Modules Pipeline and Invites     *)
(* have what the limits and the codes are for.                             *)
(***************************************************************************)
EXTENDS Integers

CONSTANTS
  Key,        \* the categories that may have a limit, the emails that may be invited
  MaxChanges  \* bound: changes asked for

VARIABLES
  section,   \* the two lists
  changes    \* how many changes were asked for

listsVars == <<section, changes>>

Section == {"rules", "invites"}
Row == Key \X (1..MaxChanges)     \* a limit or an invite, and the change that made it
Write == [op : {"put", "delete"}, row : Row, at : {"sent", "expired", "done", "failed"}]

(* behind: history, whether the last fetch failed, or a change was made    *)
(* that the page was told had failed.                                      *)
TypeOK ==
  /\ changes \in 0..MaxChanges
  /\ \A s \in Section :
       LET l == section[s]
       IN /\ l.server \subseteq Row /\ l.shown \subseteq Row /\ l.writes \subseteq Write
          /\ l.fetch \in [at : {"none", "sent"}] \cup [at : {"read"}, rows : SUBSET Row]
          /\ l.behind \in BOOLEAN

NoFetch == [at |-> "none"]
Sent == [at |-> "sent"]

Init ==
  /\ section = [s \in Section |->
       [server |-> {}, shown |-> {}, fetch |-> NoFetch, writes |-> {}, behind |-> FALSE]]
  /\ changes = 0

In(s, list) == section' = [section EXCEPT ![s] = list]

Asked(s, op, row) ==
  /\ changes < MaxChanges /\ changes' = changes + 1
  /\ In(s, [section[s] EXCEPT !.writes = @ \cup {[op |-> op, row |-> row, at |-> "sent"]}])

Under(s, op) == {w \in section[s].writes : w.op = op}

(* "Set limit" and "Create invite", for what the form has. *)
Put(s, k) ==
  /\ Under(s, "put") = {}
  /\ Asked(s, "put", <<k, changes'>>)

(* A limit's removal waits for the one before; a revocation does not.      *)
Delete(s, row) ==
  /\ row \in section[s].shown
  /\ s = "rules" => Under(s, "delete") = {}
  /\ s = "invites" => \A w \in Under(s, "delete") : w.row # row
  /\ Asked(s, "delete", row)

-----------------------------------------------------------------------------
(* The server's part. *)

Others(s, row) == {r \in section[s].server : r[1] # row[1]}

(* A limit is set and removed by its category, an invite revoked by its id. *)
Made(s, w) ==
  IF w.op = "put" THEN Others(s, w.row) \cup {w.row}
  ELSE IF s = "rules" THEN Others(s, w.row)
  ELSE section[s].server \ {w.row}

After(s, w, at) == (section[s].writes \ {w}) \cup {[w EXCEPT !.at = at]}

(* createInvite expires the outstanding invite in a statement of its own.  *)
Expire(w) ==
  /\ w.op = "put" /\ w.at = "sent"
  /\ In("invites", [section["invites"] EXCEPT !.server = Others("invites", w.row),
                                              !.writes = After("invites", w, "expired")])
  /\ UNCHANGED changes

Ready(s, w) == w.at = IF s = "invites" /\ w.op = "put" THEN "expired" ELSE "sent"

Succeed(s, w) ==
  /\ Ready(s, w)
  /\ In(s, [section[s] EXCEPT !.server = Made(s, w), !.writes = After(s, w, "done")])
  /\ UNCHANGED changes

(* Refused, failed, or made and the answer lost. *)
Fail(s, w) ==
  /\ w.at \in {"sent", "expired"}
  /\ \/ In(s, [section[s] EXCEPT !.writes = After(s, w, "failed"), !.behind = @ \/ w.at = "expired"])
     \/ /\ Ready(s, w)
        /\ In(s, [section[s] EXCEPT !.server = Made(s, w), !.writes = After(s, w, "failed"),
                                    !.behind = @ \/ s = "invites"])
  /\ UNCHANGED changes

-----------------------------------------------------------------------------
(* The fetches. *)

(* A plausible bug: the limits, too, are fetched after a success only.     *)
FetchedAfterSuccess(s, t, w) ==
  \/ s = "rules" /\ w.at = "done"
  \/ s = "invites" /\ t = "invites" /\ w.at = "done"

(* onSettled of the limits invalidates everything under "org", and cancels *)
(* the fetches under way; onSuccess of the invites fetches their own list. *)
FetchedAfter(s, t, w) ==
  \/ s = "rules"
  \/ t = "invites" /\ w.at = "done"

Answered(s, w) ==
  LET rest(t) == IF t = s THEN [section[s] EXCEPT !.writes = @ \ {w}] ELSE section[t]
  IN /\ w.at \in {"done", "failed"}
     /\ section' = [t \in Section |-> IF FetchedAfter(s, t, w) THEN [rest(t) EXCEPT !.fetch = Sent] ELSE rest(t)]
     /\ UNCHANGED changes

(* Window focus, when the list is stale. *)
Refetch(s) ==
  /\ section[s].fetch.at = "none"
  /\ In(s, [section[s] EXCEPT !.fetch = Sent])
  /\ UNCHANGED changes

Reads(s) ==
  /\ section[s].fetch.at = "sent"
  /\ In(s, [section[s] EXCEPT !.fetch = [at |-> "read", rows |-> section[s].server], !.behind = FALSE])
  /\ UNCHANGED changes

Arrives(s) ==
  /\ section[s].fetch.at = "read"
  /\ In(s, [section[s] EXCEPT !.shown = section[s].fetch.rows, !.fetch = NoFetch])
  /\ UNCHANGED changes

(* After its retries: the rows there were stay, with no word of it.        *)
FetchFails(s) ==
  /\ section[s].fetch.at # "none"
  /\ In(s, [section[s] EXCEPT !.fetch = NoFetch, !.behind = TRUE])
  /\ UNCHANGED changes

Next ==
  \/ \E s \in Section :
       \/ \E k \in Key : Put(s, k)
       \/ \E row \in section[s].shown : Delete(s, row)
       \/ Refetch(s) \/ Reads(s) \/ Arrives(s) \/ FetchFails(s)
       \/ \E w \in section[s].writes : Succeed(s, w) \/ Fail(s, w) \/ Answered(s, w)
  \/ \E w \in section["invites"].writes : Expire(w)

Spec == Init /\ [][Next]_listsVars

-----------------------------------------------------------------------------
(* Once every change of this page is answered and fetched, the lists show  *)
(* the server's limits and invites, each as last set: no read from before  *)
(* a change stays, however writes and fetches overlap, unless a fetch      *)
(* failed or the page was told that a change had failed which was made, in *)
(* whole or, of an invite, in half.                                        *)
ListsAreCurrent ==
  \A s \in Section :
    LET l == section[s]
    IN l.fetch.at = "none" /\ ~l.behind /\ (\A w \in l.writes : w.at = "sent") => l.shown = l.server
=============================================================================

------------------------------- MODULE Sessions -------------------------------
(***************************************************************************)
(* services/auth.service.ts and its controller, the cookies, and the       *)
(* client's side of a session: lib/api.ts with its shared refresh,         *)
(* AuthProvider, sign-in and sign-out, in several tabs of one browser.     *)
(*                                                                         *)
(* A token is a pair issued together: an access half, which lapses, and a  *)
(* refresh half, which is revoked.  Refresh tokens are taken to outlive a  *)
(* behaviour (their seven days).                                           *)
(***************************************************************************)
EXTENDS Integers, FiniteSets

CONSTANTS
  User, Browser, Tab, Call,
  BrowserOf,     \* the browser of a tab
  TabOf,         \* the tab of a call
  None,
  MaxTokens,     \* bound: token pairs ever issued
  MaxFaults      \* bound: requests and responses lost, statements that fail

Token == 1..MaxTokens

ASSUME TopologyAssumption ==
  /\ BrowserOf \in [Tab -> Browser]
  /\ TabOf \in [Call -> Tab]

ASSUME NoneAssumption ==
  None \notin User /\ None \notin Token

ASSUME BoundAssumption == MaxTokens \in Nat /\ MaxFaults \in Nat

VARIABLES
  issued,     \* how many tokens exist
  owner,      \* whose a token is
  revoked,    \* the refresh tokens with a revokedAt
  lapsed,     \* the access tokens past their expiry
  jar,        \* a browser's cookies
  requests,   \* the /auth requests under way
  call,       \* ordinary requests: where each is and what access token it carries
  dropped,    \* calls whose query has been removed from the cache
  identity,   \* what a tab's session query holds
  rows,       \* whose data a tab's cache holds
  seen, faults   \* history: what happened (disturbed: /auth requests of a
                 \* browser overlapped, or something failed), how many faults

server  == <<issued, owner, revoked, lapsed>>
client  == <<call, dropped, identity, rows>>
history == <<seen, faults>>
vars == <<server, jar, requests, client, history>>

NoCookies == [access |-> None, refresh |-> None]

Request ==
  [tab : Tab, kind : {"refresh", "login", "logout"}, user : User \cup {None},
   presented : Token \cup {None}, next : Token \cup {None},
   at : {"sent", "found", "reused", "issued", "answered", "refused", "failed"}]

InFlight == {"sent", "waiting", "resent"}

TypeOK ==
  /\ issued \in 0..MaxTokens
  /\ owner \in [Token -> User \cup {None}]
  /\ revoked \subseteq Token /\ lapsed \subseteq Token
  /\ jar \in [Browser -> [access : Token \cup {None}, refresh : Token \cup {None}]]
  /\ requests \subseteq Request
  /\ call \in [Call -> [at : InFlight \cup {"idle", "failed"}, carried : Token \cup {None}]]
  /\ dropped \subseteq Call
  /\ identity \in [Tab -> User \cup {None}]
  /\ rows \in [Tab -> User \cup {None}]
  /\ seen \subseteq {"burned", "disturbed", "taken over", "bounced"}
  /\ faults \in 0..MaxFaults

Init ==
  /\ issued = 0
  /\ owner = [k \in Token |-> None]
  /\ revoked = {} /\ lapsed = {}
  /\ jar = [b \in Browser |-> NoCookies]
  /\ requests = {}
  /\ call = [c \in Call |-> [at |-> "idle", carried |-> None]]
  /\ dropped = {}
  /\ identity = [t \in Tab |-> None]
  /\ rows = [t \in Tab |-> None]
  /\ seen = {}
  /\ faults = 0

-----------------------------------------------------------------------------
(* The client's requests to /auth. *)

CookiesOf(t) == jar[BrowserOf[t]]

(* Two /auth requests of one browser at a time: the tabs know nothing of   *)
(* each other, and a tab shares only its refreshes.                        *)
Overlaps(t, kind) ==
  IF \E r \in requests : /\ BrowserOf[r.tab] = BrowserOf[t]
                         /\ r.tab # t \/ <<r.kind, kind>> # <<"refresh", "refresh">>
  THEN {"disturbed"} ELSE {}

Sent(t, kind, u) ==
  [tab |-> t, kind |-> kind, user |-> u, presented |-> CookiesOf(t).refresh, next |-> None, at |-> "sent"]

(* The sign-in, sign-up and invite pages; a signed-in tab redirects away.  *)
SignIn(t, u) ==
  /\ identity[t] = None
  /\ ~\E r \in requests : r.tab = t /\ r.kind = "login"
  /\ issued < MaxTokens
  /\ requests' = requests \cup {Sent(t, "login", u)}
  /\ seen' = seen \cup Overlaps(t, "login")
  /\ UNCHANGED <<server, jar, client, faults>>

(* useSignOut. *)
SignOut(t) ==
  /\ identity[t] \in User
  /\ ~\E r \in requests : r.tab = t /\ r.kind = "logout"
  /\ requests' = requests \cup {Sent(t, "logout", None)}
  /\ seen' = seen \cup Overlaps(t, "logout")
  /\ UNCHANGED <<server, jar, client, faults>>

(* A plausible bug: every call refreshes for itself. *)
AttemptRefreshUnshared(t) ==
  /\ requests' = requests \cup {Sent(t, "refresh", None)}
  /\ seen' = seen \cup Overlaps(t, "refresh")

(* A refresh in flight is shared by the calls of its tab. *)
AttemptRefresh(t) ==
  IF \E r \in requests : r.tab = t /\ r.kind = "refresh"
  THEN UNCHANGED <<requests, seen>>
  ELSE /\ requests' = requests \cup {Sent(t, "refresh", None)}
       /\ seen' = seen \cup Overlaps(t, "refresh")

-----------------------------------------------------------------------------
(* The server. *)

Becomes(r, next) == requests' = (requests \ {r}) \cup {next}

(* requireAuth: a token is checked by itself, never against the database.  *)
Accepted(k) == k # None /\ k \notin lapsed

FindToken(r) ==
  /\ r.kind = "refresh" /\ r.at = "sent"
  /\ Becomes(r, [r EXCEPT !.at = IF r.presented = None THEN "refused"
                                 ELSE IF r.presented \in revoked THEN "reused" ELSE "found"])
  /\ UNCHANGED <<server, jar, client, history>>

(* revokeAllForUser. *)
BurnChain(r) ==
  /\ r.at = "reused"
  /\ revoked' = revoked \cup {k \in Token : owner[k] = owner[r.presented]}
  /\ seen' = seen \cup {"burned"}
  /\ Becomes(r, [r EXCEPT !.at = "refused"])
  /\ UNCHANGED <<issued, owner, lapsed, jar, client, faults>>

IssueTokenPair(r) ==
  /\ issued < MaxTokens /\ issued' = issued + 1
  /\ \/ /\ r.kind = "refresh" /\ r.at = "found"
        /\ Becomes(r, [r EXCEPT !.at = "issued", !.next = issued'])
        /\ owner' = [owner EXCEPT ![issued'] = owner[r.presented]]
     \/ /\ r.kind = "login" /\ r.at = "sent"
        /\ Becomes(r, [r EXCEPT !.at = "answered", !.next = issued'])
        /\ owner' = [owner EXCEPT ![issued'] = r.user]
  /\ UNCHANGED <<revoked, lapsed, jar, client, seen, faults>>

(* A plausible bug: the replacement is revoked, the token presented stays. *)
MarkRotatedWrongRow(r) ==
  /\ r.at = "issued"
  /\ revoked' = revoked \cup {r.next}
  /\ Becomes(r, [r EXCEPT !.at = "answered"])
  /\ UNCHANGED <<issued, owner, lapsed, jar, client, history>>

MarkRotated(r) ==
  /\ r.at = "issued"
  /\ revoked' = revoked \cup {r.presented}
  /\ Becomes(r, [r EXCEPT !.at = "answered"])
  /\ UNCHANGED <<issued, owner, lapsed, jar, client, history>>

(* A plausible bug: the missing cookie is looked up like a token. *)
LogoutWithoutCookie(r) ==
  /\ r.kind = "logout" /\ r.at = "sent"
  /\ revoked' = revoked \cup {r.presented}
  /\ Becomes(r, [r EXCEPT !.at = "answered"])
  /\ UNCHANGED <<issued, owner, lapsed, jar, client, history>>

(* Idempotent: a token unknown or revoked already is no error. *)
Logout(r) ==
  /\ r.kind = "logout" /\ r.at = "sent"
  /\ revoked' = revoked \cup ({r.presented} \ {None})
  /\ Becomes(r, [r EXCEPT !.at = "answered"])
  /\ UNCHANGED <<issued, owner, lapsed, jar, client, history>>

(* A failed refresh clears the cookies; a failed login or logout does not. *)
(* At the bound on tokens the insert fails, so that no request waits for   *)
(* ever.                                                                   *)
StatementFails(r) ==
  /\ r.at \in {"sent", "found", "reused", "issued"}
  /\ \/ faults < MaxFaults /\ faults' = faults + 1
     \/ issued = MaxTokens /\ UNCHANGED faults
  /\ seen' = seen \cup {"disturbed"}
  /\ Becomes(r, [r EXCEPT !.at = IF r.kind = "refresh" THEN "refused" ELSE "failed"])
  /\ UNCHANGED <<server, jar, client>>

Serve(r) ==
  \/ FindToken(r) \/ BurnChain(r) \/ IssueTokenPair(r) \/ MarkRotated(r) \/ Logout(r)

-----------------------------------------------------------------------------
(* Responses, and what the client does with them. *)

CallsOf(t) == {c \in Call : TabOf[c] = t}

Idle    == [at |-> "idle", carried |-> None]
Waiting == [at |-> "waiting", carried |-> None]
Failed  == [at |-> "failed", carried |-> None]

(* The calls that awaited the refresh replay once, or answer their 401. *)
Resume(t, ok, cookies) ==
  call' = [c \in Call |->
             IF c \in CallsOf(t) /\ call[c].at = "waiting"
             THEN IF ok THEN [at |-> "resent", carried |-> cookies.access] ELSE Failed
             ELSE call[c]]

(* A plausible bug: the cache of the last session is kept on sign-in. *)
EnterKeepsRows(t, u) ==
  /\ identity' = [identity EXCEPT ![t] = u]
  /\ UNCHANGED <<rows, dropped>>

(* useAuthEntry and useSignOut: removeQueries, then write the identity.    *)
Enter(t, u) ==
  /\ identity' = [identity EXCEPT ![t] = u]
  /\ rows' = [rows EXCEPT ![t] = None]
  /\ dropped' = dropped \cup {c \in CallsOf(t) : call[c].at \in InFlight}

(* A sign-in over a session of its browser that another tab still shows,   *)
(* whose cookies it replaces, or whose refresh is yet to answer.           *)
TakesOver(t) ==
  \/ CookiesOf(t).refresh # None
  \/ \E r \in requests : r.kind = "refresh" /\ BrowserOf[r.tab] = BrowserOf[t]
  \/ \E other \in Tab \ {t} : BrowserOf[other] = BrowserOf[t] /\ identity[other] \in User

Deliver(r) ==
  LET b  == BrowserOf[r.tab]
      ok == r.at = "answered"
      cookies == IF ok /\ r.kind # "logout" THEN [access |-> r.next, refresh |-> r.next]
                 ELSE IF ok \/ r.at = "refused" THEN NoCookies ELSE jar[b]
  IN /\ r.at \in {"answered", "refused", "failed"}
     /\ requests' = requests \ {r}
     /\ jar' = [jar EXCEPT ![b] = cookies]
     /\ \/ /\ r.kind = "refresh"
           /\ Resume(r.tab, ok, cookies)
           /\ UNCHANGED <<dropped, identity, rows, seen>>
        \/ /\ r.kind = "login" /\ ok
           /\ Enter(r.tab, r.user)
           /\ seen' = IF TakesOver(r.tab) THEN seen \cup {"taken over"} ELSE seen
           /\ UNCHANGED call
        \/ /\ r.kind = "login" /\ ~ok
           /\ UNCHANGED <<client, seen>>
        \/ /\ r.kind = "logout"
           /\ Enter(r.tab, None)
           /\ UNCHANGED <<call, seen>>
     /\ UNCHANGED <<server, faults>>

(* The request never arrives, or its response does not: fetch throws.  A   *)
(* sign-out ends the session in the tab all the same (its finally block).  *)
Lose(r) ==
  /\ r.at \in {"sent", "answered", "refused", "failed"}
  /\ faults < MaxFaults /\ faults' = faults + 1
  /\ seen' = seen \cup {"disturbed"}
  /\ requests' = requests \ {r}
  /\ \/ /\ r.kind = "refresh"
        /\ Resume(r.tab, FALSE, NoCookies)
        /\ UNCHANGED <<dropped, identity, rows>>
     \/ /\ r.kind = "login"
        /\ UNCHANGED client
     \/ /\ r.kind = "logout"
        /\ Enter(r.tab, None)
        /\ UNCHANGED call
  /\ UNCHANGED <<server, jar>>

-----------------------------------------------------------------------------
(* Ordinary calls. *)

(* A tab is loaded or reloaded: all it held in memory is gone, and its     *)
(* identity is what /auth/me answers, on which request() never refreshes.  *)
Load(t) ==
  /\ \A c \in CallsOf(t) : call[c].at \notin InFlight
  /\ \A r \in requests : r.tab # t
  /\ LET me == IF Accepted(CookiesOf(t).access) THEN owner[CookiesOf(t).access] ELSE None
     IN /\ identity' = [identity EXCEPT ![t] = me]
        /\ seen' = IF me = None /\ CookiesOf(t).refresh # None THEN seen \cup {"bounced"} ELSE seen
  /\ rows' = [rows EXCEPT ![t] = None]
  /\ UNCHANGED <<server, jar, requests, call, dropped, faults>>

Fetch(c) ==
  /\ identity[TabOf[c]] \in User
  /\ call[c].at \notin InFlight
  /\ call' = [call EXCEPT ![c] = [at |-> "sent", carried |-> CookiesOf(TabOf[c]).access]]
  /\ dropped' = dropped \ {c}
  /\ UNCHANGED <<server, jar, requests, identity, rows, history>>

Answered(c) ==
  /\ call[c].at \in {"sent", "resent"} /\ Accepted(call[c].carried)
  /\ call' = [call EXCEPT ![c] = Idle]
  /\ rows' = IF c \in dropped THEN rows ELSE [rows EXCEPT ![TabOf[c]] = owner[call[c].carried]]
  /\ dropped' = dropped \ {c}
  /\ UNCHANGED <<server, jar, requests, identity, history>>

(* A 401: one refresh and one replay. *)
Unauthorized(c) ==
  /\ call[c].at \in {"sent", "resent"} /\ ~Accepted(call[c].carried)
  /\ \/ /\ call[c].at = "sent"
        /\ call' = [call EXCEPT ![c] = Waiting]
        /\ AttemptRefresh(TabOf[c])
     \/ /\ call[c].at = "resent"
        /\ call' = [call EXCEPT ![c] = Failed]
        /\ UNCHANGED <<requests, seen>>
  /\ UNCHANGED <<server, jar, dropped, identity, rows, faults>>

(* The access token's expiry is its cookie's, too.  (The expiry of a token *)
(* nobody holds makes no difference, and is no step.)                      *)
Lapse(k) ==
  /\ k \in {jar[b].access : b \in Browser} \cup {call[c].carried : c \in Call}
  /\ k \notin lapsed
  /\ lapsed' = lapsed \cup {k}
  /\ jar' = [b \in Browser |-> [jar[b] EXCEPT !.access = IF @ = k THEN None ELSE @]]
  /\ UNCHANGED <<issued, owner, revoked, requests, client, history>>

Settle(c) == Answered(c) \/ Unauthorized(c)

Next ==
  \/ \E t \in Tab : \/ \E u \in User : SignIn(t, u)
                    \/ SignOut(t) \/ Load(t)
  \/ \E c \in Call : Fetch(c) \/ Settle(c)
  \/ \E r \in requests : Serve(r) \/ Deliver(r) \/ Lose(r) \/ StatementFails(r)
  \/ \E k \in Token : Lapse(k)

Spec == Init /\ [][Next]_vars

-----------------------------------------------------------------------------
(* Properties. *)

Live(k) == k # None /\ k \notin revoked

(* Reuse detection never mistakes a busy screen for a theft: without a     *)
(* lost response, another tab or a sign-out in between, however many calls *)
(* of a tab find their token lapsed, no chain is burned.                   *)
BusyScreenIsNotTheft ==
  "burned" \in seen => "disturbed" \in seen

(* An expired access token is refreshed silently: the server never refuses *)
(* the refresh of a live session.  While nothing disturbs its browser, a   *)
(* call fails only when a sign-out had emptied the jar before, or when the *)
(* fresh token of its replay has lapsed in turn.                           *)
LiveSessionsAreServed ==
  [][\A c \in Call :
       call[c].at # "failed" /\ call'[c].at = "failed"
         => \/ jar[BrowserOf[TabOf[c]]].refresh = None
            \/ call[c].at = "resent" /\ call[c].carried \in lapsed
            \/ "disturbed" \in seen']_vars

(* Once every tab of a browser is signed out its session is over on the    *)
(* server too: nothing issued to it is left alive.                         *)
SignedOutMeansRevoked ==
  (\A t \in Tab : identity[t] = None) /\ requests = {} /\ seen = {} =>
    \A k \in 1..issued : ~Live(k)

(* What a tab shows is the signed-in user's own: no rows of an earlier     *)
(* session survive, in cache or in flight, unless another tab of the       *)
(* browser signed in as somebody else.                                     *)
RowsAreTheUsersOwn ==
  \A t \in Tab : "taken over" \notin seen /\ rows[t] # None => rows[t] = identity[t]

(* A session ends with its sign-out, on the server and on the screen.      *)
SessionsDoNotLinger == SignedOutMeansRevoked /\ RowsAreTheUsersOwn

(* "An expired access token is refreshed silently without the user         *)
(* noticing" (docs/PRD.md): a reloaded tab is signed out only when its     *)
(* session is over.                                                        *)
ReloadKeepsSession ==
  [][\A t \in Tab : Load(t) /\ identity'[t] = None => ~Live(jar[BrowserOf[t]].refresh)]_vars
=============================================================================

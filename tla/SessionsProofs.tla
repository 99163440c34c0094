---------------------------- MODULE SessionsProofs ----------------------------
(***************************************************************************)
(* Refresh never takes a busy screen for a theft, sessions end where they  *)
(* are ended, and an expired access token is no failure, for any number of *)
(* users, browsers, tabs, calls, tokens and faults.                        *)
(***************************************************************************)
EXTENDS Sessions, TLAPS

Of(r) == BrowserOf[r.tab]

(* A request at a statement has what the statements before it made. *)
Shaped(r) ==
  /\ r.at \in {"sent", "found", "reused"} => r.next = None
  /\ r.at \in {"found", "reused", "issued"} => r.kind = "refresh" /\ r.presented # None
  /\ r.at = "issued" => r.next # None
  /\ r.at = "answered" /\ r.kind # "logout" => r.next # None
  /\ r.at = "answered" /\ r.kind = "refresh" => r.presented \in revoked
  /\ r.at = "answered" /\ r.kind = "logout" => r.presented \in revoked \cup {None}
  /\ r.at = "answered" /\ r.kind = "login" => owner[r.next] = r.user
  /\ r.at = "refused" => r.kind = "refresh"
  /\ r.at = "failed" => r.kind # "refresh"
  /\ r.kind = "logout" => r.next = None
  /\ r.kind = "login" => r.user \in User
  /\ r.presented # None => r.presented <= issued
  /\ r.next # None => r.next <= issued

RequestsShaped == \A r \in requests : Shaped(r)

(* Nobody holds a token that was not issued, and an issued one is somebody's. *)
Held ==
  /\ \A k \in Token : IF k <= issued THEN owner[k] \in User ELSE owner[k] = None
  /\ \A k \in revoked : k <= issued
  /\ \A b \in Browser : /\ jar[b].refresh # None => jar[b].refresh <= issued
                        /\ jar[b].access \in {None, jar[b].refresh}
  /\ \A c \in Call : call[c].carried # None => call[c].carried <= issued

Base == TypeOK /\ RequestsShaped /\ Held

-----------------------------------------------------------------------------
LEMMA IssuedTyped == Base => issued \in Nat /\ issued <= MaxTokens
  <1>1. Base => issued \in 0..MaxTokens
    BY DEF Base, TypeOK
  <1>2. QED
    BY <1>1, BoundAssumption

LEMMA FaultsCounted ==
  ASSUME Base, UNCHANGED faults \/ (faults < MaxFaults /\ faults' = faults + 1)
  PROVE  faults' \in 0..MaxFaults
  <1>1. faults \in 0..MaxFaults
    BY DEF Base, TypeOK
  <1>2. QED
    BY <1>1, BoundAssumption

LEMMA NoToken == None \notin Token /\ None \notin User
  BY NoneAssumption

LEMMA OnlyIssuedAreOwned ==
  ASSUME Base, NEW k \in Token
  PROVE  k <= issued <=> owner[k] \in User
  BY NoToken DEF Base, Held

LEMMA SentTyped ==
  ASSUME Base, NEW t \in Tab, NEW kind \in {"refresh", "login", "logout"},
         NEW u \in User \cup {None}, kind = "login" => u \in User
  PROVE  Sent(t, kind, u) \in Request /\ Shaped(Sent(t, kind, u))
  <1> DEFINE s == Sent(t, kind, u)
  <1> SUFFICES s \in Request /\ Shaped(s)
    OBVIOUS
  <1>1. /\ CookiesOf(t).refresh \in Token \cup {None}
        /\ CookiesOf(t).refresh # None => CookiesOf(t).refresh <= issued
    BY TopologyAssumption DEF Base, TypeOK, Held, CookiesOf
  <1>2. /\ s.tab = t /\ s.kind = kind /\ s.user = u /\ s.at = "sent" /\ s.next = None
        /\ s.presented = CookiesOf(t).refresh
    BY DEF Sent
  <1>3. s \in Request
    BY <1>1 DEF Sent, Request
  <1> HIDE DEF s
  <1>4. QED
    BY <1>1, <1>2, <1>3 DEF Shaped

(* What a request holds stays true as tokens are issued and revoked. *)
LEMMA ShapesStay ==
  ASSUME Base, NEW r \in requests, revoked \subseteq revoked',
         issued' \in Nat, issued <= issued', \A k \in Token : k <= issued => owner'[k] = owner[k]
  PROVE  Shaped(r)'
  <1>1. r \in Request /\ Shaped(r) /\ issued \in Nat
    BY IssuedTyped DEF Base, TypeOK, RequestsShaped
  <1>2. /\ r.presented # None => r.presented \in Int
        /\ r.next # None => r.next \in Token /\ r.next \in Int
    BY <1>1 DEF Request, Token
  <1>3. /\ r.presented # None => r.presented <= issued'
        /\ r.next # None => r.next <= issued' /\ owner'[r.next] = owner[r.next]
    BY <1>1, <1>2 DEF Shaped
  <1>4. QED
    BY <1>1, <1>3 DEF Shaped

(* The request r, further on. *)
Moved(r, s, at, k) ==
  /\ s.tab = r.tab /\ s.kind = r.kind /\ s.user = r.user /\ s.presented = r.presented
  /\ s.at = at /\ s.next = k

LEMMA MovedTyped ==
  ASSUME NEW r \in Request,
         NEW at \in {"sent", "found", "reused", "issued", "answered", "refused", "failed"},
         NEW k \in Token \cup {None}
  PROVE  /\ [r EXCEPT !.at = at] \in Request
         /\ Moved(r, [r EXCEPT !.at = at], at, r.next)
         /\ [r EXCEPT !.at = at, !.next = k] \in Request
         /\ Moved(r, [r EXCEPT !.at = at, !.next = k], at, k)
  BY DEF Request, Moved

-----------------------------------------------------------------------------
(* The requests of the client: each is sent with the cookies of its tab.   *)
LEMMA AsksKeepBase ==
  ASSUME Base, NEW t \in Tab, NEW kind \in {"refresh", "login", "logout"},
         NEW u \in User \cup {None}, kind = "login" => u \in User,
         requests' = requests \cup {Sent(t, kind, u)},
         UNCHANGED <<server, jar>>
  PROVE  /\ requests' \subseteq Request /\ RequestsShaped'
         /\ seen' = seen \cup Overlaps(t, kind)
              => seen' \subseteq {"burned", "disturbed", "taken over", "bounced"}
  <1> USE DEF server
  <1>1. Sent(t, kind, u) \in Request /\ Shaped(Sent(t, kind, u))
    BY SentTyped
  <1>2. ASSUME NEW s, s = Sent(t, kind, u) PROVE Shaped(s)'
    BY <1>1, <1>2 DEF Shaped
  <1>3. \A r \in requests : Shaped(r)'
    BY ShapesStay, IssuedTyped
  <1>4. seen' = seen \cup Overlaps(t, kind)
          => seen' \subseteq {"burned", "disturbed", "taken over", "bounced"}
    BY DEF Overlaps, Base, TypeOK
  <1>5. QED
    BY <1>1, <1>2, <1>3, <1>4 DEF Base, TypeOK, RequestsShaped

LEMMA SignInBase ==
  ASSUME Base, NEW t \in Tab, NEW u \in User, SignIn(t, u)
  PROVE  Base'
  <1>1. requests' \subseteq Request /\ RequestsShaped'
        /\ seen' \subseteq {"burned", "disturbed", "taken over", "bounced"}
    BY AsksKeepBase DEF SignIn
  <1>2. Held'
    BY DEF Base, Held, SignIn, server, client
  <1>3. TypeOK'
    BY <1>1 DEF Base, TypeOK, SignIn, server, client
  <1>4. QED
    BY <1>1, <1>2, <1>3 DEF Base

LEMMA SignOutBase ==
  ASSUME Base, NEW t \in Tab, SignOut(t)
  PROVE  Base'
  <1>1. requests' \subseteq Request /\ RequestsShaped'
        /\ seen' \subseteq {"burned", "disturbed", "taken over", "bounced"}
    BY AsksKeepBase DEF SignOut
  <1>2. Held'
    BY DEF Base, Held, SignOut, server, client
  <1>3. TypeOK'
    BY <1>1 DEF Base, TypeOK, SignOut, server, client
  <1>4. QED
    BY <1>1, <1>2, <1>3 DEF Base

(* A call only changes where it is, what it carries, and the rows it brings. *)
LEMMA CallsKeepBase ==
  ASSUME Base, NEW c \in Call,
         NEW next \in [at : InFlight \cup {"idle", "failed"}, carried : Token \cup {None}],
         call' = [call EXCEPT ![c] = next], next.carried # None => next.carried <= issued,
         UNCHANGED <<server, jar, identity, faults>>,
         dropped' \subseteq Call, rows' \in [Tab -> User \cup {None}],
         \/ UNCHANGED <<requests, seen>>
         \/ AttemptRefresh(TabOf[c])
  PROVE  Base'
  <1> USE DEF server
  <1>1. TabOf[c] \in Tab
    BY TopologyAssumption
  <1>2. CASE UNCHANGED <<requests, seen>>
    <2>1. TypeOK'
      BY <1>2 DEF Base, TypeOK
    <2>2. RequestsShaped'
      BY <1>2 DEF Base, RequestsShaped, Shaped
    <2>3. Held'
      BY DEF Base, Held, TypeOK
    <2>4. QED
      BY <2>1, <2>2, <2>3 DEF Base
  <1>3. CASE /\ requests' = requests \cup {Sent(TabOf[c], "refresh", None)}
             /\ seen' = seen \cup Overlaps(TabOf[c], "refresh")
    <2>1. requests' \subseteq Request /\ RequestsShaped'
          /\ seen' \subseteq {"burned", "disturbed", "taken over", "bounced"}
      BY <1>1, <1>3, AsksKeepBase
    <2>2. TypeOK'
      BY <2>1 DEF Base, TypeOK
    <2>3. Held'
      BY DEF Base, Held, TypeOK
    <2>4. QED
      BY <2>1, <2>2, <2>3 DEF Base
  <1>4. QED
    BY <1>2, <1>3 DEF AttemptRefresh

LEMMA FetchBase ==
  ASSUME Base, NEW c \in Call, Fetch(c)
  PROVE  Base'
  <1> DEFINE k == CookiesOf(TabOf[c]).access
  <1>1. k \in Token \cup {None} /\ (k # None => k <= issued)
    BY TopologyAssumption DEF Base, TypeOK, Held, CookiesOf
  <1> HIDE DEF k
  <1>2. /\ [at |-> "sent", carried |-> k]
             \in [at : InFlight \cup {"idle", "failed"}, carried : Token \cup {None}]
        /\ [at |-> "sent", carried |-> k].carried = k
    BY <1>1 DEF InFlight
  <1>3. /\ call' = [call EXCEPT ![c] = [at |-> "sent", carried |-> k]]
        /\ UNCHANGED <<server, jar, identity, faults>> /\ UNCHANGED <<requests, seen>>
        /\ dropped' \subseteq Call /\ rows' \in [Tab -> User \cup {None}]
    BY DEF Fetch, k, history, Base, TypeOK
  <1>4. QED
    BY <1>1, <1>2, <1>3, CallsKeepBase

LEMMA SettledTyped ==
  /\ Idle.carried = None /\ Waiting.carried = None /\ Failed.carried = None
  /\ Idle.at = "idle" /\ Waiting.at = "waiting" /\ Failed.at = "failed"
  /\ {Idle, Waiting, Failed} \subseteq [at : InFlight \cup {"idle", "failed"}, carried : Token \cup {None}]
  BY DEF Idle, Waiting, Failed, InFlight

LEMMA SettleBase ==
  ASSUME Base, NEW c \in Call, Settle(c)
  PROVE  Base'
  <1>1. TabOf[c] \in Tab
    BY TopologyAssumption
  <1>2. CASE Answered(c)
    <2>1. call[c].carried \in Token /\ call[c].carried <= issued
      BY <1>2, NoToken DEF Answered, Accepted, Base, TypeOK, Held
    <2>2. owner[call[c].carried] \in User
      BY <2>1 DEF Base, Held
    <2>3. rows' \in [Tab -> User \cup {None}] /\ dropped' \subseteq Call
      BY <1>1, <1>2, <2>2 DEF Answered, Base, TypeOK
    <2>4. QED
      BY <1>2, <2>3, SettledTyped, CallsKeepBase DEF Answered, history
  <1>3. CASE Unauthorized(c)
    <2>1. dropped' \subseteq Call /\ rows' \in [Tab -> User \cup {None}]
      BY <1>3 DEF Unauthorized, Base, TypeOK
    <2>2. QED
      BY <1>3, <2>1, SettledTyped, CallsKeepBase DEF Unauthorized
  <1>4. QED
    BY <1>2, <1>3 DEF Settle

LEMMA LoadBase ==
  ASSUME Base, NEW t \in Tab, Load(t)
  PROVE  Base'
  <1> DEFINE k == CookiesOf(t).access
             me == IF Accepted(k) THEN owner[k] ELSE None
  <1> USE DEF server
  <1>1. k \in Token \cup {None}
    BY TopologyAssumption DEF Base, TypeOK, CookiesOf
  <1>2. me \in User \cup {None}
    BY <1>1 DEF Accepted, Base, TypeOK
  <1>3. identity' = [identity EXCEPT ![t] = me]
    BY DEF Load
  <1> HIDE DEF me
  <1>4. TypeOK'
    BY <1>2, <1>3 DEF Load, Base, TypeOK
  <1>5. RequestsShaped' /\ Held'
    BY DEF Load, Base, RequestsShaped, Shaped, Held
  <1>6. QED
    BY <1>4, <1>5 DEF Base

LEMMA LapseBase ==
  ASSUME Base, NEW k \in Token, Lapse(k)
  PROVE  Base'
  <1> USE DEF client, history
  <1>1. \A b \in Browser : /\ jar'[b].refresh = jar[b].refresh
                           /\ jar'[b].access \in {None, jar[b].access}
    BY DEF Lapse, Base, TypeOK
  <1>2. jar' \in [Browser -> [access : Token \cup {None}, refresh : Token \cup {None}]]
    BY DEF Lapse, Base, TypeOK
  <1>3. TypeOK'
    BY <1>2 DEF Lapse, Base, TypeOK
  <1>4. RequestsShaped'
    BY DEF Lapse, Base, RequestsShaped, Shaped
  <1>5. Held'
    BY <1>1 DEF Lapse, Base, Held
  <1>6. QED
    BY <1>3, <1>4, <1>5 DEF Base

-----------------------------------------------------------------------------
(* The server: a request moves on. *)
LEMMA BecomesKeeps ==
  ASSUME Base, NEW r \in requests, NEW s \in Request, Becomes(r, s), Shaped(s)',
         revoked \subseteq revoked',
         issued' \in Nat, issued <= issued', \A k \in Token : k <= issued => owner'[k] = owner[k]
  PROVE  requests' \subseteq Request /\ RequestsShaped'
  <1>1. \A q \in requests : Shaped(q)'
    BY ShapesStay
  <1>2. QED
    BY <1>1 DEF Base, TypeOK, RequestsShaped, Becomes

LEMMA FindTokenBase ==
  ASSUME Base, NEW r \in requests, FindToken(r)
  PROVE  Base'
  <1> USE DEF server, client, history
  <1>1. r \in Request /\ Shaped(r) /\ r.kind = "refresh" /\ r.at = "sent"
    BY DEF FindToken, Base, TypeOK, RequestsShaped
  <1>2. PICK at \in {"refused", "reused", "found"} :
          /\ at \in {"reused", "found"} => r.presented # None
          /\ Becomes(r, [r EXCEPT !.at = at])
    BY DEF FindToken
  <1>3. PICK s \in Request : Moved(r, s, at, r.next) /\ Becomes(r, s)
    BY <1>1, <1>2, MovedTyped
  <1>4. issued' = issued /\ owner' = owner /\ revoked' = revoked
    BY DEF FindToken
  <1>5. Shaped(s)'
    BY <1>1, <1>2, <1>3, <1>4 DEF Shaped, Moved
  <1>6. requests' \subseteq Request /\ RequestsShaped'
    BY <1>3, <1>4, <1>5, BecomesKeeps, IssuedTyped
  <1>7. TypeOK' /\ Held'
    BY <1>6 DEF FindToken, Base, TypeOK, Held
  <1>8. QED
    BY <1>6, <1>7 DEF Base

LEMMA BurnChainBase ==
  ASSUME Base, NEW r \in requests, BurnChain(r)
  PROVE  Base'
  <1> USE DEF client
  <1> DEFINE s == [r EXCEPT !.at = "refused"]
  <1>1. r \in Request /\ Shaped(r) /\ r.at = "reused" /\ r.kind = "refresh"
    BY DEF BurnChain, Base, TypeOK, RequestsShaped, Shaped
  <1>2. s \in Request /\ Moved(r, s, "refused", r.next)
    BY <1>1, MovedTyped
  <1>3. Becomes(r, s)
    BY DEF BurnChain
  <1> HIDE DEF s
  <1>4. Shaped(s)'
    BY <1>1, <1>2 DEF Shaped, Moved, BurnChain
  <1>5. requests' \subseteq Request /\ RequestsShaped'
    BY <1>2, <1>3, <1>4, BecomesKeeps, IssuedTyped DEF BurnChain
  <1>6. \A k \in revoked' : k \in Token /\ k <= issued
    <2> SUFFICES ASSUME NEW k \in Token, owner[k] = owner[r.presented] PROVE k <= issued
      BY DEF BurnChain, Base, TypeOK, Held
    <2>1. r.presented \in Token /\ r.presented <= issued
      BY <1>1 DEF Shaped, Request
    <2>2. owner[r.presented] \in User
      BY <2>1 DEF Base, Held
    <2>3. QED
      BY <2>2, OnlyIssuedAreOwned
  <1>7. TypeOK'
    BY <1>5, <1>6 DEF BurnChain, Base, TypeOK
  <1>8. Held'
    BY <1>6 DEF BurnChain, Base, Held
  <1>9. QED
    BY <1>5, <1>7, <1>8 DEF Base

LEMMA IssueBase ==
  ASSUME Base, NEW r \in requests, IssueTokenPair(r)
  PROVE  Base'
  <1> USE DEF client
  <1>1. r \in Request /\ Shaped(r)
    BY DEF Base, TypeOK, RequestsShaped
  <1>2. \/ r.kind = "refresh" /\ r.presented \in Token /\ r.presented <= issued /\ r.at = "found"
        \/ r.kind = "login" /\ r.user \in User /\ r.at = "sent"
    BY <1>1 DEF IssueTokenPair, Shaped, Request
  <1>3. PICK k \in Token :
          /\ k = issued + 1 /\ issued' = k /\ issued \in Nat /\ issued' \in 0..MaxTokens
          /\ \A j \in Token : j <= k => j <= issued \/ j = k
    BY IssuedTyped, BoundAssumption DEF IssueTokenPair, Token
  <1>4. PICK u \in User :
          /\ owner' = [owner EXCEPT ![k] = u]
          /\ r.kind = "login" => u = r.user
    BY <1>2, <1>3 DEF IssueTokenPair, Base, Held
  <1>5. PICK at \in {"issued", "answered"} :
          /\ at = "issued" <=> r.kind = "refresh"
          /\ Becomes(r, [r EXCEPT !.at = at, !.next = k])
    BY <1>2, <1>3 DEF IssueTokenPair
  <1>6. PICK s \in Request : Moved(r, s, at, k) /\ Becomes(r, s)
    BY <1>1, <1>5, MovedTyped
  <1>7. owner'[k] = u /\ \A j \in Token \ {k} : owner'[j] = owner[j]
    BY <1>4 DEF Base, TypeOK
  <1>8. Shaped(s)'
    <2>1. r.presented # None => r.presented <= issued'
      BY <1>1, <1>3 DEF Shaped, Request, Token
    <2>2. k # None /\ k <= issued'
      BY <1>3, NoToken DEF Token
    <2>3. r.kind # "logout" /\ (r.kind = "refresh" => r.presented # None)
      BY <1>2, NoToken
    <2>4. QED
      BY <1>4, <1>5, <1>6, <1>7, <2>1, <2>2, <2>3 DEF Shaped, Moved
  <1>9. \A j \in Token : j <= issued => owner'[j] = owner[j]
    BY <1>3, <1>7
  <1>10. requests' \subseteq Request /\ RequestsShaped'
    <2>1. revoked' = revoked /\ issued <= issued' /\ issued' \in Nat
      BY <1>3 DEF IssueTokenPair
    <2>2. QED
      BY <1>6, <1>8, <1>9, <2>1, BecomesKeeps
  <1>11. TypeOK'
    BY <1>3, <1>4, <1>5, <1>10 DEF IssueTokenPair, Base, TypeOK
  <1>12. Held'
    <2>1. ~(k <= issued) /\ k <= k /\ \A j \in Token : j <= issued => j <= issued'
      BY <1>3 DEF Token
    <2>2. \A j \in Token : IF j <= issued' THEN owner'[j] \in User ELSE owner'[j] = None
      BY <1>3, <1>4, <1>7, <2>1 DEF Base, Held
    <2>3. revoked' = revoked /\ jar' = jar /\ call' = call
      BY DEF IssueTokenPair
    <2>4. /\ revoked \subseteq Token
          /\ \A b \in Browser : jar[b].refresh \in Token \cup {None}
          /\ \A c \in Call : call[c].carried \in Token \cup {None}
      BY DEF Base, TypeOK
    <2>5. QED
      BY <2>1, <2>2, <2>3, <2>4 DEF Base, Held
  <1>13. QED
    BY <1>10, <1>11, <1>12 DEF Base

LEMMA MarkRotatedBase ==
  ASSUME Base, NEW r \in requests, MarkRotated(r) \/ Logout(r)
  PROVE  Base'
  <1> USE DEF client, history
  <1> DEFINE s == [r EXCEPT !.at = "answered"]
  <1>1. r \in Request /\ Shaped(r)
    BY DEF Base, TypeOK, RequestsShaped
  <1>2. s \in Request /\ Moved(r, s, "answered", r.next)
    BY <1>1, MovedTyped
  <1>3. Becomes(r, s) /\ UNCHANGED <<issued, owner, lapsed, jar, client, history>>
    BY DEF MarkRotated, Logout
  <1> HIDE DEF s
  <1>4. revoked' = revoked \cup ({r.presented} \ {None})
    BY <1>1 DEF MarkRotated, Logout, Shaped
  <1>5. /\ r.kind \in {"refresh", "logout"}
        /\ r.kind = "refresh" => r.next # None /\ r.presented # None
    BY <1>1 DEF MarkRotated, Logout, Shaped
  <1>6. Shaped(s)'
    BY <1>1, <1>2, <1>3, <1>4, <1>5 DEF Shaped, Moved
  <1>7. requests' \subseteq Request /\ RequestsShaped'
    BY <1>2, <1>3, <1>4, <1>6, BecomesKeeps, IssuedTyped
  <1>8. \A k \in revoked' : k \in Token /\ k <= issued
    BY <1>1, <1>4 DEF Base, TypeOK, Held, Shaped, Request
  <1>9. TypeOK'
    BY <1>3, <1>7, <1>8 DEF Base, TypeOK
  <1>10. Held'
    BY <1>3, <1>8 DEF Base, Held
  <1>11. QED
    BY <1>7, <1>9, <1>10 DEF Base

LEMMA FailsBase ==
  ASSUME Base, NEW r \in requests, StatementFails(r)
  PROVE  Base'
  <1> USE DEF server, client
  <1> DEFINE at == IF r.kind = "refresh" THEN "refused" ELSE "failed"
             s  == [r EXCEPT !.at = at]
  <1>1. r \in Request /\ Shaped(r)
    BY DEF Base, TypeOK, RequestsShaped
  <1>2. s \in Request /\ Moved(r, s, at, r.next)
    BY <1>1, MovedTyped
  <1>3. Becomes(r, s) /\ UNCHANGED <<server, jar, client>>
    BY DEF StatementFails
  <1> HIDE DEF s
  <1>4. Shaped(s)'
    BY <1>1, <1>2, <1>3 DEF Shaped, Moved
  <1>5. requests' \subseteq Request /\ RequestsShaped'
    BY <1>2, <1>3, <1>4, BecomesKeeps, IssuedTyped
  <1>6. faults' \in 0..MaxFaults
    BY FaultsCounted DEF StatementFails
  <1>7. TypeOK'
    BY <1>3, <1>5, <1>6 DEF StatementFails, Base, TypeOK
  <1>8. Held'
    BY <1>3 DEF Base, Held
  <1>9. QED
    BY <1>5, <1>7, <1>8 DEF Base

-----------------------------------------------------------------------------
(* The client: what a tab does with an answer. *)
LEMMA EnterTyped ==
  ASSUME Base, NEW t \in Tab, NEW u \in User \cup {None}, Enter(t, u)
  PROVE  /\ identity' \in [Tab -> User \cup {None}] /\ rows' \in [Tab -> User \cup {None}]
         /\ dropped' \subseteq Call
  BY DEF Enter, CallsOf, Base, TypeOK

LEMMA ResumeTyped ==
  ASSUME Base, NEW t \in Tab, NEW ok \in BOOLEAN,
         NEW cookies \in [access : Token \cup {None}, refresh : Token \cup {None}],
         cookies.access # None => cookies.access <= issued, Resume(t, ok, cookies)
  PROVE  /\ call' \in [Call -> [at : InFlight \cup {"idle", "failed"}, carried : Token \cup {None}]]
         /\ \A c \in Call : call'[c].carried # None => call'[c].carried <= issued
  <1> DEFINE resent == [at |-> "resent", carried |-> cookies.access]
  <1>1. /\ resent \in [at : InFlight \cup {"idle", "failed"}, carried : Token \cup {None}]
        /\ resent.carried = cookies.access
    BY DEF InFlight
  <1>2. \A c \in Call : call'[c] \in {resent, Failed, call[c]}
    BY DEF Resume
  <1>3. \A c \in Call : call[c] \in [at : InFlight \cup {"idle", "failed"}, carried : Token \cup {None}]
    BY DEF Base, TypeOK
  <1> HIDE DEF resent
  <1>4. \A c \in Call : call'[c] \in [at : InFlight \cup {"idle", "failed"}, carried : Token \cup {None}]
    BY <1>1, <1>2, <1>3, SettledTyped
  <1>5. call' = [c \in Call |-> call'[c]]
    BY DEF Resume
  <1>6. call' \in [Call -> [at : InFlight \cup {"idle", "failed"}, carried : Token \cup {None}]]
    BY <1>4, <1>5
  <1>7. \A c \in Call : call'[c].carried # None => call'[c].carried <= issued
    BY <1>1, <1>2, SettledTyped DEF Base, Held
  <1>8. QED
    BY <1>6, <1>7

(* The cookies that a response leaves in the jar. *)
Cookies(r) ==
  IF r.at = "answered" /\ r.kind # "logout" THEN [access |-> r.next, refresh |-> r.next]
  ELSE IF r.at \in {"answered", "refused"} THEN NoCookies ELSE jar[Of(r)]

LEMMA DeliverMeans ==
  ASSUME Base, NEW r \in requests, Deliver(r)
  PROVE  /\ r \in Request /\ Shaped(r) /\ Of(r) \in Browser
         /\ r.at \in {"answered", "refused", "failed"}
         /\ requests' = requests \ {r} /\ jar' = [jar EXCEPT ![Of(r)] = Cookies(r)]
         /\ UNCHANGED <<issued, owner, revoked, lapsed, faults>>
         /\ \/ /\ r.kind = "refresh" /\ Resume(r.tab, r.at = "answered", Cookies(r))
               /\ UNCHANGED <<dropped, identity, rows, seen>>
            \/ /\ r.kind = "login" /\ r.at = "answered" /\ Enter(r.tab, r.user)
               /\ seen' = IF TakesOver(r.tab) THEN seen \cup {"taken over"} ELSE seen
               /\ UNCHANGED call
            \/ r.kind = "login" /\ r.at # "answered" /\ UNCHANGED <<call, dropped, identity, rows, seen>>
            \/ r.kind = "logout" /\ Enter(r.tab, None) /\ UNCHANGED <<call, seen>>
  <1>1. r \in Request /\ Shaped(r) /\ Of(r) \in Browser
    BY TopologyAssumption DEF Base, TypeOK, RequestsShaped, Request, Of
  <1>2. QED
    BY <1>1 DEF Deliver, Cookies, Of, server, client

(* Only a sign-in and a sign-out change who a tab is. *)
LEMMA DeliverIdentity ==
  ASSUME Base, NEW r \in requests, Deliver(r)
  PROVE  /\ \A t \in Tab : t # r.tab \/ r.kind = "refresh" => identity'[t] = identity[t]
         /\ r.kind = "login" /\ r.at = "answered" => identity'[r.tab] = r.user
         /\ r.kind = "login" /\ r.at # "answered" => identity' = identity
         /\ r.kind = "logout" => identity'[r.tab] = None
  <1>1. r.tab \in Tab /\ identity \in [Tab -> User \cup {None}]
    BY DEF Base, TypeOK, Request
  <1>2. \A u : Enter(r.tab, u) => /\ identity'[r.tab] = u
                                 /\ \A t \in Tab : t # r.tab => identity'[t] = identity[t]
    BY <1>1 DEF Enter
  <1>3. QED
    BY <1>2, DeliverMeans

LEMMA CookiesTyped ==
  ASSUME Base, NEW r \in requests, r.at \in {"answered", "refused", "failed"}
  PROVE  /\ Cookies(r) \in [access : Token \cup {None}, refresh : Token \cup {None}]
         /\ Cookies(r).refresh # None => Cookies(r).refresh <= issued
         /\ Cookies(r).access \in {None, Cookies(r).refresh}
         /\ r.kind = "refresh" /\ r.at = "answered" => Cookies(r).access = r.next /\ r.next # None
  <1>1. r \in Request /\ Shaped(r) /\ Of(r) \in Browser
    BY TopologyAssumption DEF Base, TypeOK, RequestsShaped, Request, Of
  <1>2. CASE r.at = "answered" /\ r.kind # "logout"
    <2>1. r.next \in Token /\ r.next <= issued
      BY <1>1, <1>2 DEF Shaped, Request
    <2>2. QED
      BY <1>2, <2>1, NoToken DEF Cookies
  <1>3. CASE Cookies(r) = NoCookies
    BY <1>1, <1>2, <1>3 DEF NoCookies
  <1>4. CASE Cookies(r) = jar[Of(r)] /\ ~(r.at = "answered" /\ r.kind # "logout")
    BY <1>1, <1>4 DEF Base, TypeOK, Held
  <1>5. QED
    BY <1>2, <1>3, <1>4 DEF Cookies

LEMMA DeliverBase ==
  ASSUME Base, NEW r \in requests, Deliver(r)
  PROVE  Base'
  <1> DEFINE C == [access : Token \cup {None}, refresh : Token \cup {None}]
  <1>1. /\ r \in Request /\ Shaped(r) /\ Of(r) \in Browser /\ r.tab \in Tab
        /\ requests' = requests \ {r} /\ jar' = [jar EXCEPT ![Of(r)] = Cookies(r)]
        /\ UNCHANGED <<issued, owner, revoked, lapsed, faults>>
    BY DeliverMeans DEF Request
  <1>2. /\ Cookies(r) \in C
        /\ Cookies(r).refresh # None => Cookies(r).refresh <= issued
        /\ Cookies(r).access \in {None, Cookies(r).refresh}
    BY DeliverMeans, CookiesTyped
  <1>3. jar' \in [Browser -> C] /\ \A b \in Browser : jar'[b] \in {jar[b], Cookies(r)}
    BY <1>1, <1>2 DEF Base, TypeOK
  <1>4. r.user \in User \cup {None}
    BY <1>1 DEF Request
  <1>5. /\ call' \in [Call -> [at : InFlight \cup {"idle", "failed"}, carried : Token \cup {None}]]
        /\ \A c \in Call : call'[c].carried # None => call'[c].carried <= issued
    <2>1. CASE Resume(r.tab, r.at = "answered", Cookies(r))
      BY <1>1, <1>2, <2>1, ResumeTyped
    <2>2. CASE UNCHANGED call
      BY <2>2 DEF Base, TypeOK, Held
    <2>3. QED
      BY <2>1, <2>2, DeliverMeans
  <1>6. /\ identity' \in [Tab -> User \cup {None}] /\ rows' \in [Tab -> User \cup {None}]
        /\ dropped' \subseteq Call
    <2>1. CASE UNCHANGED <<dropped, identity, rows>>
      BY <2>1 DEF Base, TypeOK
    <2>2. CASE Enter(r.tab, None) \/ Enter(r.tab, r.user)
      BY <1>1, <1>4, <2>2, EnterTyped
    <2>3. QED
      BY <2>1, <2>2, DeliverMeans
  <1>7. seen' \subseteq {"burned", "disturbed", "taken over", "bounced"}
    BY DeliverMeans DEF Base, TypeOK
  <1>8. TypeOK'
    BY <1>1, <1>3, <1>5, <1>6, <1>7 DEF Base, TypeOK
  <1>9. RequestsShaped'
    BY <1>1 DEF Base, RequestsShaped, Shaped
  <1>10. Held'
    BY <1>1, <1>2, <1>3, <1>5 DEF Base, Held
  <1>11. QED
    BY <1>8, <1>9, <1>10 DEF Base

LEMMA LoseBase ==
  ASSUME Base, NEW r \in requests, Lose(r)
  PROVE  Base'
  <1> USE DEF server
  <1>1. r \in Request /\ r.tab \in Tab
    BY DEF Base, TypeOK, Request
  <1>2. /\ call' \in [Call -> [at : InFlight \cup {"idle", "failed"}, carried : Token \cup {None}]]
        /\ \A c \in Call : call'[c].carried # None => call'[c].carried <= issued
    <2>1. CASE Resume(r.tab, FALSE, NoCookies)
      BY <1>1, <2>1, ResumeTyped DEF NoCookies
    <2>2. CASE UNCHANGED call
      BY <2>2 DEF Base, TypeOK, Held
    <2>3. QED
      BY <2>1, <2>2 DEF Lose, client
  <1>3. /\ identity' \in [Tab -> User \cup {None}] /\ rows' \in [Tab -> User \cup {None}]
        /\ dropped' \subseteq Call
    <2>1. CASE UNCHANGED <<dropped, identity, rows>>
      BY <2>1 DEF Base, TypeOK
    <2>2. CASE Enter(r.tab, None)
      BY <1>1, <2>2, EnterTyped
    <2>3. QED
      BY <2>1, <2>2 DEF Lose, client
  <1>4. faults' \in 0..MaxFaults
    BY FaultsCounted DEF Lose
  <1>5. TypeOK'
    BY <1>2, <1>3, <1>4 DEF Lose, Base, TypeOK
  <1>6. RequestsShaped'
    BY DEF Lose, Base, RequestsShaped, Shaped
  <1>7. Held'
    BY <1>2 DEF Lose, Base, Held
  <1>8. QED
    BY <1>5, <1>6, <1>7 DEF Base

LEMMA BaseKept == Base /\ [Next]_vars => Base'
  <1> SUFFICES ASSUME Base, [Next]_vars PROVE Base'
    OBVIOUS
  <1>1. CASE UNCHANGED vars
    BY <1>1 DEF vars, server, client, history, Base, TypeOK, RequestsShaped, Shaped, Held
  <1>2. ASSUME NEW r \in requests, Serve(r)
        PROVE  Base'
    BY <1>2, FindTokenBase, BurnChainBase, IssueBase, MarkRotatedBase DEF Serve
  <1>3. QED
    BY <1>1, <1>2, SignInBase, SignOutBase, LoadBase, FetchBase, SettleBase, DeliverBase,
       LoseBase, FailsBase, LapseBase DEF Next

-----------------------------------------------------------------------------
(* While nothing disturbs it, a browser has one /auth request at a time,   *)
(* which presents what the jar holds, and the jar holds a rotated token    *)
(* only until the answer that replaces it is delivered.                    *)
OneRequest == \A r, s \in requests : Of(r) = Of(s) => r = s

Presenting ==
  \A r \in requests :
    /\ r.presented = jar[Of(r)].refresh
    /\ r.at \notin {"reused", "failed"}
    /\ r.at = "refused" => r.presented = None /\ r.next = None

Rotating ==
  \A b \in Browser : jar[b].refresh \in revoked => \E r \in requests : Of(r) = b /\ r.at = "answered"

(* Each token is in one place. *)
InOnePlace ==
  /\ \A b, d \in Browser : jar[b].refresh # None /\ jar[b].refresh = jar[d].refresh => b = d
  /\ \A b \in Browser, r \in requests : r.next # None => r.next # jar[b].refresh
  /\ \A r, s \in requests : r.next # None /\ r.next = s.next => r = s
  /\ \A r \in requests : r.next \notin revoked

Calm == OneRequest /\ Presenting /\ Rotating /\ InOnePlace /\ "burned" \notin seen

Undisturbed == "disturbed" \notin seen => Calm

(* A request is sent when its browser has no other. *)
LEMMA AskCalm ==
  ASSUME Base, Calm, NEW t \in Tab, NEW kind, NEW u,
         kind = "refresh" => ~\E r \in requests : r.tab = t /\ r.kind = "refresh",
         requests' = requests \cup {Sent(t, kind, u)}, seen' = seen \cup Overlaps(t, kind),
         "disturbed" \notin seen', UNCHANGED <<jar, revoked>>
  PROVE  Calm'
  <1>1. PICK s : s = Sent(t, kind, u)
    OBVIOUS
  <1>2. /\ s.tab = t /\ s.at = "sent" /\ s.next = None /\ Of(s) = BrowserOf[t]
        /\ s.presented = jar[BrowserOf[t]].refresh
    BY <1>1 DEF Sent, CookiesOf, Of
  <1>3. requests' = requests \cup {s}
    BY <1>1
  <1>4. \A r \in requests : Of(r) # BrowserOf[t]
    <2> SUFFICES ASSUME NEW r \in requests, Of(r) = BrowserOf[t] PROVE FALSE
      OBVIOUS
    <2>1. r.tab = t /\ <<r.kind, kind>> = <<"refresh", "refresh">>
      BY DEF Overlaps, Of
    <2>2. QED
      BY <2>1
  <1>5. OneRequest'
    BY <1>2, <1>3, <1>4 DEF Calm, OneRequest, Of
  <1>6. Presenting'
    BY <1>2, <1>3 DEF Calm, Presenting, Of
  <1>7. Rotating'
    BY <1>3 DEF Calm, Rotating, Of
  <1>8. InOnePlace'
    BY <1>2, <1>3, NoToken DEF Calm, InOnePlace, Base, TypeOK
  <1>9. "burned" \notin seen'
    BY DEF Calm, Overlaps
  <1>10. QED
    BY <1>5, <1>6, <1>7, <1>8, <1>9 DEF Calm

(* A request moves on; only what its browser's jar holds is revoked, and   *)
(* only as the request is answered.                                        *)
LEMMA MoveCalm ==
  ASSUME Base, Calm, NEW r \in requests, NEW s \in Request, Becomes(r, s),
         NEW at \in {"refused", "found", "issued", "answered"}, NEW k, Moved(r, s, at, k),
         at = "refused" => r.presented = None /\ k = None,
         k = r.next \/ ~(k <= issued) \/ k = None, k \in Token \cup {None},
         r.at # "answered",
         \/ revoked' = revoked
         \/ at = "answered" /\ k = r.next /\ revoked' = revoked \cup ({r.presented} \ {None}),
         UNCHANGED <<jar, seen>>
  PROVE  Calm'
  <1>1. /\ r \in Request /\ Of(r) \in Browser /\ r.presented = jar[Of(r)].refresh
        /\ r.presented # None => r.presented <= issued
    BY TopologyAssumption DEF Base, TypeOK, Request, Of, Calm, Presenting, RequestsShaped, Shaped
  <1>2. /\ s.tab = r.tab /\ s.presented = r.presented /\ s.at = at /\ s.next = k /\ Of(s) = Of(r)
        /\ requests' = (requests \ {r}) \cup {s}
    BY DEF Moved, Of, Becomes
  <1>3. /\ \A b \in Browser : jar[b].refresh # None => jar[b].refresh <= issued
        /\ \A q \in requests : q.next # None => q.next <= issued
        /\ \A j \in revoked : j <= issued
    BY DEF Base, Held, RequestsShaped, Shaped
  <1>4. OneRequest'
    BY <1>2 DEF Calm, OneRequest, Of
  <1>5. Presenting'
    BY <1>1, <1>2 DEF Calm, Presenting, Of
  <1>6. Rotating'
    <2> SUFFICES ASSUME NEW b \in Browser, jar[b].refresh \in revoked'
                 PROVE  \E q \in requests' : Of(q) = b /\ q.at = "answered"
      BY DEF Rotating, Of
    <2>1. CASE jar[b].refresh \in revoked
      BY <2>1, <1>2 DEF Calm, Rotating
    <2>2. CASE at = "answered" /\ jar[b].refresh = r.presented /\ r.presented # None
      BY <2>2, <1>1, <1>2 DEF Calm, InOnePlace
    <2>3. QED
      BY <2>1, <2>2
  <1>7. k # None => \A b \in Browser : jar[b].refresh # k
    BY <1>3 DEF Calm, InOnePlace
  <1>8. k # None => \A q \in requests : q.next = k => q = r
    BY <1>3 DEF Calm, InOnePlace
  <1>9. k \notin revoked' /\ \A q \in requests : q.next \notin revoked'
    <2>1. None \notin revoked /\ \A q \in requests : q.next \notin revoked
      BY NoToken DEF Calm, InOnePlace, Base, TypeOK
    <2>2. \A q \in requests : q.next \notin {r.presented} \ {None}
      BY <1>1 DEF Calm, InOnePlace
    <2>3. k \notin revoked
      BY <1>3, <2>1
    <2>4. QED
      BY <2>1, <2>2, <2>3
  <1>10. InOnePlace'
    BY <1>2, <1>7, <1>8, <1>9 DEF Calm, InOnePlace
  <1>11. QED
    BY <1>4, <1>5, <1>6, <1>10 DEF Calm

LEMMA ServeCalm ==
  ASSUME Base, Undisturbed, NEW r \in requests, Serve(r)
  PROVE  Undisturbed'
  <1> SUFFICES ASSUME Calm, "disturbed" \notin seen' PROVE Calm'
    BY DEF Undisturbed, Serve, FindToken, BurnChain, IssueTokenPair, MarkRotated, Logout, history
  <1>1. r \in Request /\ Shaped(r)
    BY DEF Base, TypeOK, RequestsShaped
  <1>2. r.next \in Token \cup {None}
    BY <1>1 DEF Request
  <1>3. CASE FindToken(r)
    <2>1. r.presented \notin revoked
      <3>1. r.presented = jar[Of(r)].refresh /\ Of(r) \in Browser /\ r.at = "sent"
        BY <1>1, <1>3, TopologyAssumption DEF FindToken, Calm, Presenting, Request, Of
      <3>2. QED
        BY <3>1 DEF Calm, Rotating, OneRequest
    <2>2. PICK at \in {"refused", "found"} :
            /\ at = "refused" => r.presented = None /\ r.next = None
            /\ Becomes(r, [r EXCEPT !.at = at])
      BY <1>1, <1>3, <2>1 DEF FindToken, Shaped
    <2>3. PICK s \in Request : Moved(r, s, at, r.next) /\ Becomes(r, s)
      BY <1>1, <2>2, MovedTyped
    <2>4. r.at # "answered" /\ revoked' = revoked /\ UNCHANGED <<jar, seen>>
      BY <1>3 DEF FindToken, server, history
    <2>5. QED
      BY <1>2, <2>2, <2>3, <2>4, MoveCalm
  <1>4. CASE BurnChain(r)
    BY <1>4 DEF BurnChain, Calm, Presenting
  <1>5. CASE IssueTokenPair(r)
    <2>1. issued + 1 \in Token /\ ~(issued + 1 <= issued)
      BY <1>5, IssuedTyped, BoundAssumption DEF IssueTokenPair, Token
    <2>2. PICK at \in {"issued", "answered"} : Becomes(r, [r EXCEPT !.at = at, !.next = issued + 1])
      BY <1>5 DEF IssueTokenPair
    <2>3. PICK s \in Request : Moved(r, s, at, issued + 1) /\ Becomes(r, s)
      BY <1>1, <2>1, <2>2, MovedTyped
    <2>4. r.at # "answered" /\ revoked' = revoked /\ UNCHANGED <<jar, seen>>
      BY <1>5 DEF IssueTokenPair
    <2>5. QED
      BY <2>1, <2>3, <2>4, MoveCalm
  <1>6. CASE MarkRotated(r) \/ Logout(r)
    <2>1. PICK s \in Request : Moved(r, s, "answered", r.next) /\ Becomes(r, s)
      BY <1>1, <1>6, MovedTyped DEF MarkRotated, Logout
    <2>2. revoked' = revoked \cup ({r.presented} \ {None}) /\ UNCHANGED <<jar, seen>>
          /\ r.at # "answered"
      BY <1>1, <1>6 DEF MarkRotated, Logout, Shaped, history
    <2>3. QED
      BY <1>2, <2>1, <2>2, MoveCalm
  <1>7. QED
    BY <1>3, <1>4, <1>5, <1>6 DEF Serve

(* The answer replaces what was presented, which nobody else holds. *)
LEMMA DeliverCalm ==
  ASSUME Base, Undisturbed, NEW r \in requests, Deliver(r)
  PROVE  Undisturbed'
  <1> SUFFICES ASSUME Calm, "disturbed" \notin seen' PROVE Calm'
    BY DeliverMeans DEF Undisturbed
  <1>1. /\ r \in Request /\ Shaped(r) /\ Of(r) \in Browser
        /\ requests' = requests \ {r} /\ jar' = [jar EXCEPT ![Of(r)] = Cookies(r)]
        /\ revoked' = revoked
    BY DeliverMeans
  <1>2. Cookies(r).refresh = None \/ (r.at = "answered" /\ Cookies(r).refresh = r.next /\ r.next # None)
    BY DeliverMeans DEF Cookies, NoCookies, Calm, Presenting, Shaped
  <1>3. /\ jar'[Of(r)].refresh = Cookies(r).refresh
        /\ \A b \in Browser \ {Of(r)} : jar'[b] = jar[b]
    BY <1>1 DEF Base, TypeOK
  <1>4. \A q \in requests' : q \in requests /\ q # r /\ Of(q) # Of(r)
    BY <1>1 DEF Calm, OneRequest
  <1>5. \A q \in requests' : Of(q) \in Browser
    BY <1>4, TopologyAssumption DEF Base, TypeOK, Request, Of
  <1>6. OneRequest'
    BY <1>4 DEF Calm, OneRequest, Of
  <1>7. Presenting'
    BY <1>3, <1>4, <1>5 DEF Calm, Presenting, Of
  <1>8. r.next \notin revoked /\ None \notin revoked
    BY NoToken DEF Calm, InOnePlace, Base, TypeOK
  <1>9. Rotating'
    <2> SUFFICES ASSUME NEW b \in Browser, jar'[b].refresh \in revoked
                 PROVE  \E q \in requests' : Of(q) = b /\ q.at = "answered"
      BY <1>1 DEF Rotating, Of
    <2>1. b # Of(r) /\ jar'[b] = jar[b]
      BY <1>2, <1>3, <1>8
    <2>2. PICK q \in requests : Of(q) = b /\ q.at = "answered"
      BY <2>1 DEF Calm, Rotating
    <2>3. QED
      BY <2>1, <2>2, <1>1
  <1>10. InOnePlace'
    <2>1. \A b \in Browser : jar'[b].refresh = jar[b].refresh
                               \/ (b = Of(r) /\ (jar'[b].refresh = None \/ jar'[b].refresh = r.next))
      BY <1>2, <1>3
    <2>2. \A b, d \in Browser : jar'[b].refresh # None /\ jar'[b].refresh = jar'[d].refresh => b = d
      BY <1>1, <2>1 DEF Calm, InOnePlace
    <2>3. \A b \in Browser, q \in requests' : q.next # None => q.next # jar'[b].refresh
      BY <1>1, <1>4, <2>1 DEF Calm, InOnePlace
    <2>4. QED
      BY <1>1, <1>4, <2>2, <2>3 DEF Calm, InOnePlace
  <1>11. "burned" \notin seen'
    BY DeliverMeans DEF Calm
  <1>12. QED
    BY <1>6, <1>7, <1>9, <1>10, <1>11 DEF Calm

LEMMA UndisturbedKept == Base /\ Undisturbed /\ [Next]_vars => Undisturbed'
  <1> SUFFICES ASSUME Base, Undisturbed, [Next]_vars PROVE Undisturbed'
    OBVIOUS
  <1> USE DEF server, client, history
  <1>1. ASSUME UNCHANGED <<jar, revoked, requests>>,
               seen' = seen \/ seen' = seen \cup {"bounced"}
        PROVE  Undisturbed'
    BY <1>1 DEF Undisturbed, Calm, OneRequest, Presenting, Rotating, InOnePlace, Of
  <1>2. ASSUME NEW t \in Tab, NEW kind, NEW u,
               kind = "refresh" => ~\E r \in requests : r.tab = t /\ r.kind = "refresh",
               requests' = requests \cup {Sent(t, kind, u)}, seen' = seen \cup Overlaps(t, kind),
               UNCHANGED <<jar, revoked>>
        PROVE  Undisturbed'
    BY <1>2, AskCalm DEF Undisturbed
  <1>3. ASSUME NEW t \in Tab, NEW u \in User, SignIn(t, u)
        PROVE  Undisturbed'
    BY <1>3, <1>2 DEF SignIn
  <1>4. ASSUME NEW t \in Tab, SignOut(t)
        PROVE  Undisturbed'
    BY <1>4, <1>2 DEF SignOut
  <1>5. ASSUME NEW t \in Tab, Load(t)
        PROVE  Undisturbed'
    BY <1>5, <1>1 DEF Load
  <1>6. ASSUME NEW c \in Call, Fetch(c) \/ Answered(c)
        PROVE  Undisturbed'
    BY <1>6, <1>1 DEF Fetch, Answered
  <1>7. ASSUME NEW c \in Call, Unauthorized(c)
        PROVE  Undisturbed'
    <2>1. TabOf[c] \in Tab
      BY TopologyAssumption
    <2>2. QED
      BY <1>7, <1>1, <1>2, <2>1 DEF Unauthorized, AttemptRefresh
  <1>8. ASSUME NEW r \in requests, Lose(r) \/ StatementFails(r)
        PROVE  Undisturbed'
    BY <1>8 DEF Lose, StatementFails, Undisturbed
  <1>9. ASSUME NEW k \in Token, Lapse(k)
        PROVE  Undisturbed'
    <2>1. \A b \in Browser : jar'[b].refresh = jar[b].refresh
      BY <1>9 DEF Lapse, Base, TypeOK
    <2>2. \A r \in requests : Of(r) \in Browser
      BY TopologyAssumption DEF Base, TypeOK, Request, Of
    <2>3. UNCHANGED <<revoked, requests, seen>>
      BY <1>9 DEF Lapse
    <2>4. QED
      BY <2>1, <2>2, <2>3 DEF Undisturbed, Calm, OneRequest, Presenting, Rotating, InOnePlace, Of
  <1>10. CASE UNCHANGED vars
    BY <1>10, <1>1 DEF vars
  <1>11. QED
    BY <1>3, <1>4, <1>5, <1>6, <1>7, <1>8, <1>9, <1>10, ServeCalm, DeliverCalm DEF Next, Settle

-----------------------------------------------------------------------------
(* As long as nothing happened at all, a live token is in a jar or on its  *)
(* way to one, and a jar with a token is a signed-in tab's.                *)
NothingStray ==
  seen = {} =>
    /\ \A k \in Token : k <= issued => \/ k \in revoked
                                       \/ \E b \in Browser : jar[b].refresh = k
                                       \/ \E r \in requests : r.next = k
    /\ \A b \in Browser : jar[b].refresh # None =>
         \E t \in Tab : BrowserOf[t] = b /\ identity[t] # None

LEMMA ServeStray ==
  ASSUME Base, NothingStray, NEW r \in requests, Serve(r)
  PROVE  NothingStray'
  <1> SUFFICES ASSUME seen' = {} PROVE NothingStray'
    BY DEF NothingStray
  <1> USE DEF server, client, history
  <1>1. r \in Request /\ Shaped(r)
    BY DEF Base, TypeOK, RequestsShaped
  <1>2. ~BurnChain(r) /\ seen = {} /\ jar' = jar /\ identity' = identity
    BY DEF Serve, FindToken, BurnChain, IssueTokenPair, MarkRotated, Logout
  <1>3. PICK s : /\ requests' = (requests \ {r}) \cup {s}
                 /\ \/ s.next = r.next /\ issued' = issued
                    \/ r.next = None /\ s.next = issued + 1 /\ issued' = issued + 1
    <2>1. CASE IssueTokenPair(r)
      <3>1. r.next = None
        BY <1>1, <2>1 DEF IssueTokenPair, Shaped
      <3>2. PICK at \in {"issued", "answered"} : Becomes(r, [r EXCEPT !.at = at, !.next = issued + 1])
        BY <2>1 DEF IssueTokenPair
      <3>3. issued + 1 \in Token /\ issued' = issued + 1
        BY <2>1, IssuedTyped, BoundAssumption DEF IssueTokenPair, Token
      <3>4. PICK s \in Request : Moved(r, s, at, issued + 1) /\ Becomes(r, s)
        BY <1>1, <3>2, <3>3, MovedTyped
      <3>5. QED
        BY <3>1, <3>3, <3>4 DEF Becomes, Moved
    <2>2. CASE FindToken(r) \/ MarkRotated(r) \/ Logout(r)
      <3>1. PICK at \in {"refused", "reused", "found", "answered"} : Becomes(r, [r EXCEPT !.at = at])
        BY <2>2 DEF FindToken, MarkRotated, Logout
      <3>2. issued' = issued
        BY <2>2 DEF FindToken, MarkRotated, Logout
      <3>3. r.next \in Token \cup {None}
        BY <1>1 DEF Request
      <3>4. PICK s \in Request : Moved(r, s, at, r.next) /\ Becomes(r, s)
        BY <1>1, <3>1, <3>3, MovedTyped
      <3>5. QED
        BY <3>2, <3>4 DEF Becomes, Moved
    <2>3. QED
      BY <1>2, <2>1, <2>2 DEF Serve
  <1>4. \A k \in Token : k <= issued' => k <= issued \/ (k = issued + 1 /\ issued' = issued + 1)
    BY <1>3, IssuedTyped DEF Token
  <1>5. revoked \subseteq revoked'
    BY <1>2 DEF Serve, FindToken, IssueTokenPair, MarkRotated, Logout
  <1>6. \A q \in requests : q.next # None => \E p \in requests' : p.next = q.next
    BY <1>3
  <1>7. \A k \in Token : k <= issued' => \/ k \in revoked'
                                         \/ \E b \in Browser : jar[b].refresh = k
                                         \/ \E q \in requests' : q.next = k
    <2> SUFFICES ASSUME NEW k \in Token, k <= issued'
                 PROVE  \/ k \in revoked'
                        \/ \E b \in Browser : jar[b].refresh = k
                        \/ \E q \in requests' : q.next = k
      OBVIOUS
    <2>1. CASE k <= issued
      BY <2>1, <1>2, <1>5, <1>6, NoToken DEF NothingStray
    <2>2. CASE k = issued + 1 /\ issued' = issued + 1
      <3>1. issued \in Nat /\ issued + 1 # issued
        BY IssuedTyped
      <3>2. QED
        BY <2>2, <3>1, <1>3
    <2>3. QED
      BY <1>4, <2>1, <2>2
  <1>8. QED
    BY <1>2, <1>7 DEF NothingStray

LEMMA DeliverStray ==
  ASSUME Base, Undisturbed, NothingStray, NEW r \in requests, Deliver(r)
  PROVE  NothingStray'
  <1> SUFFICES ASSUME seen' = {} PROVE NothingStray'
    BY DEF NothingStray
  <1>1. /\ r \in Request /\ Shaped(r) /\ Of(r) \in Browser /\ r.tab \in Tab
        /\ requests' = requests \ {r} /\ jar' = [jar EXCEPT ![Of(r)] = Cookies(r)]
        /\ revoked' = revoked /\ issued' = issued /\ r.at \in {"answered", "refused", "failed"}
        /\ r.kind \in {"refresh", "login", "logout"}
    BY DeliverMeans DEF Request
  <1>2. seen = {} /\ (r.kind = "login" /\ r.at = "answered" => ~TakesOver(r.tab))
    BY DeliverMeans
  <1>3. Calm
    BY <1>2 DEF Undisturbed
  <1>4. \/ r.at = "answered" /\ r.kind # "logout" /\ Cookies(r).refresh = r.next
        \/ Cookies(r).refresh = None /\ (r.at = "refused" \/ r.kind = "logout")
    BY <1>3, DeliverMeans DEF Cookies, NoCookies, Calm, Presenting, Shaped
  <1>5. r.next # None => Cookies(r).refresh = r.next
    BY <1>1, <1>3, <1>4 DEF Shaped, Calm, Presenting
  <1>6. /\ jar'[Of(r)].refresh = Cookies(r).refresh
        /\ \A b \in Browser \ {Of(r)} : jar'[b] = jar[b]
    BY <1>1 DEF Base, TypeOK
  <1>7. jar[Of(r)].refresh \in revoked \cup {None}
    <2>1. r.presented = jar[Of(r)].refresh
      BY <1>3 DEF Calm, Presenting
    <2>2. CASE r.kind = "login" /\ r.at = "answered"
      BY <1>2, <2>2 DEF TakesOver, CookiesOf, Of
    <2>3. CASE r.kind # "login" \/ r.at # "answered"
      BY <1>1, <1>4, <2>1, <2>3, <1>3 DEF Shaped, Calm, Presenting
    <2>4. QED
      BY <2>2, <2>3
  <1>8. \A k \in Token : k <= issued => \/ k \in revoked
                                        \/ \E b \in Browser : jar'[b].refresh = k
                                        \/ \E q \in requests' : q.next = k
    <2> SUFFICES ASSUME NEW k \in Token, k <= issued, k \notin revoked
                 PROVE  \/ \E b \in Browser : jar'[b].refresh = k
                        \/ \E q \in requests' : q.next = k
      OBVIOUS
    <2>1. CASE \E b \in Browser : jar[b].refresh = k
      BY <2>1, <1>6, <1>7, NoToken
    <2>2. CASE \E q \in requests : q.next = k
      BY <2>2, <1>1, <1>5, <1>6, NoToken
    <2>3. QED
      BY <1>2, <2>1, <2>2 DEF NothingStray
  <1>9. \A b \in Browser : jar'[b].refresh # None =>
          \E t \in Tab : BrowserOf[t] = b /\ identity'[t] # None
    <2> SUFFICES ASSUME NEW b \in Browser, jar'[b].refresh # None
                 PROVE  \E t \in Tab : BrowserOf[t] = b /\ identity'[t] # None
      OBVIOUS
    <2>1. \A t \in Tab : t # r.tab \/ r.kind = "refresh" => identity'[t] = identity[t]
      BY <1>1, DeliverIdentity
    <2>2. CASE b # Of(r)
      BY <2>1, <2>2, <1>2, <1>6 DEF NothingStray, Of
    <2>3. CASE b = Of(r) /\ r.kind = "refresh"
      <3>1. r.at = "answered"
        BY <2>3, <1>4, <1>6
      <3>2. jar[b].refresh # None
        <4>1. r.presented \in revoked /\ r.presented = jar[b].refresh
          BY <2>3, <3>1, <1>1, <1>3 DEF Shaped, Calm, Presenting
        <4>2. QED
          BY <4>1, NoToken DEF Base, TypeOK
      <3>3. QED
        BY <2>1, <2>3, <3>2, <1>2 DEF NothingStray
    <2>4. CASE b = Of(r) /\ r.kind # "refresh"
      <3>1. r.kind = "login" /\ r.at = "answered" /\ r.user \in User
        BY <2>4, <1>1, <1>4, <1>6 DEF Shaped, Request
      <3>2. identity'[r.tab] = r.user
        BY <3>1, DeliverIdentity
      <3>3. QED
        BY <2>4, <3>1, <3>2, <1>1, NoToken DEF Of
    <2>5. QED
      BY <2>2, <2>3, <2>4
  <1>10. QED
    BY <1>1, <1>8, <1>9 DEF NothingStray

LEMMA NothingStrayKept == Base /\ Undisturbed /\ NothingStray /\ [Next]_vars => NothingStray'
  <1> SUFFICES ASSUME Base, Undisturbed, NothingStray, [Next]_vars PROVE NothingStray'
    OBVIOUS
  <1> USE DEF server, client, history
  <1>1. ASSUME UNCHANGED <<issued, revoked, jar, identity>>, requests \subseteq requests', seen \subseteq seen'
        PROVE  NothingStray'
    BY <1>1 DEF NothingStray
  <1>2. ASSUME NEW t \in Tab, (\E u \in User : SignIn(t, u)) \/ SignOut(t)
        PROVE  NothingStray'
    BY <1>2, <1>1 DEF SignIn, SignOut
  <1>3. ASSUME NEW c \in Call, Fetch(c) \/ Settle(c)
        PROVE  NothingStray'
    BY <1>3, <1>1 DEF Fetch, Settle, Answered, Unauthorized, AttemptRefresh
  <1>4. ASSUME NEW t \in Tab, Load(t)
        PROVE  NothingStray'
    <2> SUFFICES ASSUME seen' = {} PROVE NothingStray'
      BY DEF NothingStray
    <2>1. /\ identity'[t] # None \/ jar[BrowserOf[t]].refresh = None
          /\ \A other \in Tab \ {t} : identity'[other] = identity[other]
          /\ seen = {} /\ UNCHANGED <<issued, revoked, jar, requests>>
      BY <1>4 DEF Load, CookiesOf, Base, TypeOK
    <2>2. QED
      BY <2>1 DEF NothingStray
  <1>5. ASSUME NEW r \in requests, Lose(r) \/ StatementFails(r)
        PROVE  NothingStray'
    BY <1>5 DEF Lose, StatementFails, NothingStray
  <1>6. ASSUME NEW k \in Token, Lapse(k)
        PROVE  NothingStray'
    <2>1. \A b \in Browser : jar'[b].refresh = jar[b].refresh
      BY <1>6 DEF Lapse, Base, TypeOK
    <2>2. UNCHANGED <<issued, revoked, requests, identity, seen>>
      BY <1>6 DEF Lapse
    <2>3. QED
      BY <2>1, <2>2 DEF NothingStray
  <1>7. CASE UNCHANGED vars
    BY <1>7, <1>1 DEF vars
  <1>8. QED
    BY <1>2, <1>3, <1>4, <1>5, <1>6, <1>7, ServeStray, DeliverStray DEF Next

-----------------------------------------------------------------------------
(* Until somebody signs in over a session, a browser's tokens, its tabs    *)
(* and the calls in flight are all one user's.                             *)
Whose(k, t) == k # None /\ identity[t] # None => owner[k] = identity[t]

SameOwner(j, k) == j # None /\ k # None => owner[j] = owner[k]

JarsOfTabs ==
  /\ \A t \in Tab : Whose(jar[BrowserOf[t]].refresh, t)
  /\ \A t, u \in Tab : /\ BrowserOf[t] = BrowserOf[u]
                       /\ identity[t] # None /\ identity[u] # None
                       => identity[t] = identity[u]

RefreshesOfTabs ==
  /\ \A r \in requests : r.kind = "refresh" =>
       /\ \A t \in Tab : BrowserOf[t] = Of(r) => Whose(r.presented, t)
       /\ SameOwner(r.presented, jar[Of(r)].refresh)
       /\ r.next # None => r.presented # None /\ SameOwner(r.presented, r.next)
  /\ \A r, s \in requests : Of(r) = Of(s) /\ r.kind = "refresh" /\ s.kind = "refresh"
                              => SameOwner(r.presented, s.presented)

CallsOfTabs ==
  \A c \in Call \ dropped : call[c].at \in InFlight =>
    identity[TabOf[c]] # None /\ Whose(call[c].carried, TabOf[c])

OneUser == JarsOfTabs /\ RefreshesOfTabs /\ CallsOfTabs
             /\ \A t \in Tab : rows[t] # None => rows[t] = identity[t]

NotTakenOver == "taken over" \notin seen => OneUser

(* A request is sent with what the jar holds. *)
LEMMA AskOneUser ==
  ASSUME Base, OneUser, NEW t \in Tab, NEW kind, NEW u,
         requests' = requests \cup {Sent(t, kind, u)}, UNCHANGED <<jar, owner, identity>>
  PROVE  JarsOfTabs' /\ RefreshesOfTabs'
  <1>1. PICK s : s = Sent(t, kind, u)
    OBVIOUS
  <1>2. /\ s.tab = t /\ s.next = None /\ Of(s) = BrowserOf[t]
        /\ s.presented = jar[BrowserOf[t]].refresh
    BY <1>1 DEF Sent, CookiesOf, Of
  <1>3. requests' = requests \cup {s}
    BY <1>1
  <1>4. JarsOfTabs'
    BY DEF OneUser, JarsOfTabs, Whose
  <1>5. \A r \in requests' : r.kind = "refresh" =>
          /\ \A tab \in Tab : BrowserOf[tab] = Of(r) => Whose(r.presented, tab)
          /\ SameOwner(r.presented, jar[Of(r)].refresh)
          /\ r.next # None => r.presented # None /\ SameOwner(r.presented, r.next)
    <2>1. \A tab \in Tab : BrowserOf[tab] = Of(s) => Whose(s.presented, tab)
      BY <1>2 DEF OneUser, JarsOfTabs
    <2>2. SameOwner(s.presented, jar[Of(s)].refresh)
      BY <1>2 DEF SameOwner
    <2>3. QED
      BY <1>2, <1>3, <2>1, <2>2 DEF OneUser, RefreshesOfTabs
  <1>6. \A r, q \in requests' : Of(r) = Of(q) /\ r.kind = "refresh" /\ q.kind = "refresh"
                                  => SameOwner(r.presented, q.presented)
    <2>1. \A r \in requests : Of(r) = Of(s) /\ r.kind = "refresh"
            => SameOwner(r.presented, s.presented) /\ SameOwner(s.presented, r.presented)
      BY <1>2 DEF OneUser, RefreshesOfTabs, SameOwner
    <2>2. SameOwner(s.presented, s.presented)
      BY DEF SameOwner
    <2>3. QED
      BY <1>3, <2>1, <2>2 DEF OneUser, RefreshesOfTabs
  <1>7. RefreshesOfTabs'
    BY <1>5, <1>6 DEF RefreshesOfTabs, Whose, SameOwner, Of
  <1>8. QED
    BY <1>4, <1>7

(* A request moves on: a refresh is issued a token of the one it presented.*)
LEMMA MoveOneUser ==
  ASSUME Base, OneUser, NEW r \in requests, NEW s, Becomes(r, s),
         s.tab = r.tab, s.kind = r.kind, s.presented = r.presented,
         r.kind = "refresh" => \/ s.next = r.next
                               \/ /\ r.presented # None /\ s.next # None
                                  /\ owner'[s.next] = owner[r.presented],
         \A k \in Token : k <= issued => owner'[k] = owner[k],
         UNCHANGED <<jar, identity, rows, call, dropped>>
  PROVE  OneUser'
  <1>1. /\ \A b \in Browser : jar[b].refresh # None => owner'[jar[b].refresh] = owner[jar[b].refresh]
        /\ \A q \in requests : /\ q.presented # None => owner'[q.presented] = owner[q.presented]
                               /\ q.next # None => owner'[q.next] = owner[q.next]
                               /\ Of(q) \in Browser
        /\ \A c \in Call : call[c].carried # None => owner'[call[c].carried] = owner[call[c].carried]
    <2>1. \A q \in requests : /\ q.presented # None => q.presented \in Token /\ q.presented <= issued
                              /\ q.next # None => q.next \in Token /\ q.next <= issued
                              /\ Of(q) \in Browser
      BY TopologyAssumption DEF Base, TypeOK, RequestsShaped, Shaped, Request, Of
    <2>2. /\ \A b \in Browser : jar[b].refresh # None => jar[b].refresh \in Token /\ jar[b].refresh <= issued
          /\ \A c \in Call : call[c].carried # None => call[c].carried \in Token /\ call[c].carried <= issued
      BY DEF Base, TypeOK, Held
    <2>3. QED
      BY <2>1, <2>2
  <1>2. Of(s) = Of(r) /\ requests' = (requests \ {r}) \cup {s}
    BY DEF Becomes, Of
  <1>3. JarsOfTabs'
    BY <1>1, TopologyAssumption DEF OneUser, JarsOfTabs, Whose
  <1>4. \A q \in requests' : q.kind = "refresh" =>
          /\ \A t \in Tab : BrowserOf[t] = Of(q) => Whose(q.presented, t)'
          /\ SameOwner(q.presented, jar[Of(q)].refresh)'
          /\ q.next # None => q.presented # None /\ SameOwner(q.presented, q.next)'
    <2>1. ASSUME NEW q \in requests, NEW p, p.tab = q.tab, p.presented = q.presented, q.kind = "refresh"
          PROVE  /\ \A t \in Tab : BrowserOf[t] = Of(p) => Whose(p.presented, t)'
                 /\ SameOwner(p.presented, jar[Of(p)].refresh)'
                 /\ q.next # None => q.presented # None /\ SameOwner(q.presented, q.next)'
      BY <1>1, <2>1 DEF OneUser, RefreshesOfTabs, Whose, SameOwner, Of
    <2>2. r.kind = "refresh" => (s.next # None => s.presented # None /\ SameOwner(s.presented, s.next)')
      BY <1>1, <2>1 DEF SameOwner
    <2>3. QED
      BY <1>2, <2>1, <2>2
  <1>5. \A p, q \in requests' : Of(p) = Of(q) /\ p.kind = "refresh" /\ q.kind = "refresh"
                                  => SameOwner(p.presented, q.presented)'
    BY <1>1, <1>2 DEF OneUser, RefreshesOfTabs, SameOwner
  <1>6. RefreshesOfTabs'
    BY <1>4, <1>5 DEF RefreshesOfTabs, Of
  <1>7. CallsOfTabs'
    BY <1>1 DEF OneUser, CallsOfTabs, Whose
  <1>8. QED
    BY <1>3, <1>6, <1>7 DEF OneUser

LEMMA ServeOneUser ==
  ASSUME Base, NotTakenOver, NEW r \in requests, Serve(r) \/ StatementFails(r)
  PROVE  NotTakenOver'
  <1> USE DEF server, client, history
  <1> SUFFICES ASSUME OneUser PROVE OneUser'
    BY DEF NotTakenOver, Serve, FindToken, BurnChain, IssueTokenPair, MarkRotated, Logout, StatementFails
  <1>1. r \in Request /\ Shaped(r)
    BY DEF Base, TypeOK, RequestsShaped
  <1>2. UNCHANGED <<jar, identity, rows, call, dropped>>
    BY DEF Serve, FindToken, BurnChain, IssueTokenPair, MarkRotated, Logout, StatementFails
  <1>3. CASE IssueTokenPair(r)
    <2>1. PICK k \in Token : k = issued + 1 /\ issued' = k /\ ~(k <= issued)
      BY <1>3, IssuedTyped, BoundAssumption DEF IssueTokenPair, Token
    <2>2. /\ \A j \in Token \ {k} : owner'[j] = owner[j]
          /\ r.kind = "refresh" => r.presented # None /\ owner'[k] = owner[r.presented]
      BY <1>1, <1>3, <2>1 DEF IssueTokenPair, Shaped, Base, TypeOK
    <2>3. PICK at \in {"issued", "answered"} : Becomes(r, [r EXCEPT !.at = at, !.next = k])
      BY <1>3, <2>1 DEF IssueTokenPair
    <2>4. PICK s \in Request : Moved(r, s, at, k) /\ Becomes(r, s)
      BY <1>1, <2>3, MovedTyped
    <2>5. k # None /\ \A j \in Token : j <= issued => owner'[j] = owner[j]
      BY <2>1, <2>2, NoToken
    <2>6. QED
      BY <1>2, <2>2, <2>4, <2>5, MoveOneUser DEF Moved
  <1>4. CASE ~IssueTokenPair(r)
    <2>1. PICK at \in {"refused", "reused", "found", "answered", "failed"} : Becomes(r, [r EXCEPT !.at = at])
      BY <1>4 DEF Serve, FindToken, BurnChain, MarkRotated, Logout, StatementFails
    <2>2. owner' = owner /\ r.next \in Token \cup {None}
      BY <1>1, <1>4 DEF Serve, FindToken, BurnChain, MarkRotated, Logout, StatementFails, Request
    <2>3. PICK s \in Request : Moved(r, s, at, r.next) /\ Becomes(r, s)
      BY <1>1, <2>1, <2>2, MovedTyped
    <2>4. QED
      BY <1>2, <2>2, <2>3, MoveOneUser DEF Moved
  <1>5. QED
    BY <1>3, <1>4

(* A tab enters a session, or leaves its own. *)
LEMMA EnterOneUser ==
  ASSUME Base, OneUser, NEW t \in Tab, NEW u \in User \cup {None}, Enter(t, u),
         UNCHANGED <<call, owner>>
  PROVE  CallsOfTabs' /\ \A x \in Tab : rows'[x] # None => rows'[x] = identity'[x]
  <1>1. /\ \A x \in Tab \ {t} : identity'[x] = identity[x] /\ rows'[x] = rows[x]
        /\ rows'[t] = None
    BY DEF Enter, Base, TypeOK
  <1>2. \A c \in Call \ dropped' : call[c].at \in InFlight => c \notin dropped /\ TabOf[c] # t
    BY DEF Enter, CallsOf
  <1>3. QED
    BY <1>1, <1>2, TopologyAssumption DEF OneUser, CallsOfTabs, Whose

(* The calls that waited go on with a token of the tab's user, or fail. *)
LEMMA ResumeOneUser ==
  ASSUME Base, OneUser, NEW t \in Tab, NEW ok \in BOOLEAN, NEW cookies, Resume(t, ok, cookies),
         ok => Whose(cookies.access, t),
         UNCHANGED <<dropped, identity, rows, owner>>
  PROVE  CallsOfTabs' /\ \A x \in Tab : rows'[x] # None => rows'[x] = identity'[x]
  <1>1. CallsOfTabs'
    <2> SUFFICES ASSUME NEW c \in Call \ dropped, call'[c].at \in InFlight
                 PROVE  /\ identity[TabOf[c]] # None
                        /\ call'[c].carried # None => owner[call'[c].carried] = identity[TabOf[c]]
      BY DEF CallsOfTabs, Whose
    <2>1. CASE TabOf[c] = t /\ call[c].at = "waiting"
      <3>1. identity[t] # None
        BY <2>1 DEF OneUser, CallsOfTabs, InFlight
      <3>2. ok /\ call'[c].carried = cookies.access
        BY <2>1 DEF Resume, CallsOf, Failed, InFlight
      <3>3. QED
        BY <2>1, <3>1, <3>2 DEF Whose
    <2>2. CASE ~(TabOf[c] = t /\ call[c].at = "waiting")
      <3>1. call'[c] = call[c]
        BY <2>2 DEF Resume, CallsOf
      <3>2. QED
        BY <3>1 DEF OneUser, CallsOfTabs, Whose
    <2>3. QED
      BY <2>1, <2>2
  <1>2. QED
    BY <1>1 DEF OneUser

(* A jar is left a token of the user who shows in its tabs. *)
LEMMA JarOneUser ==
  ASSUME Base, OneUser, NEW r \in requests, NEW k,
         requests' = requests \ {r}, owner' = owner,
         \A b \in Browser : jar'[b].refresh = IF b = Of(r) THEN k ELSE jar[b].refresh,
         \A t \in Tab : \/ identity'[t] \in {None, identity[t]}
                        \/ /\ BrowserOf[t] = Of(r)
                           /\ \A u \in Tab \ {t} : BrowserOf[u] = Of(r) => identity'[u] = None
                           /\ \A q \in requests : q.kind = "refresh" => Of(q) # Of(r),
         \A t \in Tab : BrowserOf[t] = Of(r) => Whose(k, t)',
         \A q \in requests : q.kind = "refresh" /\ Of(q) = Of(r) => SameOwner(q.presented, k)
  PROVE  JarsOfTabs' /\ RefreshesOfTabs'
  <1>1. \A t \in Tab : BrowserOf[t] \in Browser
    BY TopologyAssumption
  <1>2. \A q \in requests : Of(q) \in Browser
    BY TopologyAssumption DEF Base, TypeOK, Request, Of
  <1>3. \A t \in Tab : Whose(jar[BrowserOf[t]].refresh, t)'
    <2> SUFFICES ASSUME NEW t \in Tab, jar'[BrowserOf[t]].refresh # None, identity'[t] # None
                 PROVE  owner[jar'[BrowserOf[t]].refresh] = identity'[t]
      BY DEF Whose
    <2>1. CASE BrowserOf[t] = Of(r)
      BY <2>1, <1>1 DEF Whose
    <2>2. CASE BrowserOf[t] # Of(r)
      BY <2>2, <1>1 DEF OneUser, JarsOfTabs, Whose
    <2>3. QED
      BY <2>1, <2>2
  <1>4. \A t, u \in Tab : /\ BrowserOf[t] = BrowserOf[u]
                          /\ identity'[t] # None /\ identity'[u] # None
                          => identity'[t] = identity'[u]
    BY DEF OneUser, JarsOfTabs
  <1>5. JarsOfTabs'
    BY <1>3, <1>4 DEF JarsOfTabs
  <1>6. ASSUME NEW q \in requests', q.kind = "refresh"
        PROVE  /\ \A t \in Tab : BrowserOf[t] = Of(q) => Whose(q.presented, t)'
               /\ SameOwner(q.presented, jar[Of(q)].refresh)'
               /\ q.next # None => q.presented # None /\ SameOwner(q.presented, q.next)'
    <2>1. q \in requests
      OBVIOUS
    <2>2. \A t \in Tab : BrowserOf[t] = Of(q) => identity'[t] \in {None, identity[t]}
      BY <1>6, <2>1
    <2>3. \A t \in Tab : BrowserOf[t] = Of(q) => Whose(q.presented, t)'
      BY <1>6, <2>1, <2>2 DEF OneUser, RefreshesOfTabs, Whose
    <2>4. SameOwner(q.presented, jar[Of(q)].refresh)'
      BY <1>2, <1>6, <2>1 DEF OneUser, RefreshesOfTabs, SameOwner
    <2>5. q.next # None => q.presented # None /\ SameOwner(q.presented, q.next)'
      BY <1>6, <2>1 DEF OneUser, RefreshesOfTabs, SameOwner
    <2>6. QED
      BY <2>3, <2>4, <2>5
  <1>7. \A p, q \in requests' : Of(p) = Of(q) /\ p.kind = "refresh" /\ q.kind = "refresh"
                                  => SameOwner(p.presented, q.presented)'
    BY DEF OneUser, RefreshesOfTabs, SameOwner
  <1>8. RefreshesOfTabs'
    BY <1>6, <1>7 DEF RefreshesOfTabs, Of
  <1>9. QED
    BY <1>5, <1>8

(* The jar takes over what the request left it, of the same user. *)
LEMMA DeliverOneUser ==
  ASSUME Base, NotTakenOver, NEW r \in requests, Deliver(r)
  PROVE  NotTakenOver'
  <1> SUFFICES ASSUME OneUser, "taken over" \notin seen' PROVE OneUser'
    BY DeliverMeans DEF NotTakenOver
  <1>1. /\ r \in Request /\ Shaped(r) /\ Of(r) \in Browser /\ r.tab \in Tab
        /\ requests' = requests \ {r} /\ jar' = [jar EXCEPT ![Of(r)] = Cookies(r)]
        /\ owner' = owner
    BY DeliverMeans DEF Request
  <1>2. \A b \in Browser : jar'[b].refresh = IF b = Of(r) THEN Cookies(r).refresh ELSE jar[b].refresh
    BY <1>1 DEF Base, TypeOK
  <1>3. PICK k : k = Cookies(r).refresh
    OBVIOUS
  <1>4. \A t \in Tab : BrowserOf[t] = Of(r) => Whose(jar[Of(r)].refresh, t)
    BY DEF OneUser, JarsOfTabs
  <1>5. CASE r.kind = "refresh"
    <2>1. Resume(r.tab, r.at = "answered", Cookies(r)) /\ UNCHANGED <<dropped, identity, rows>>
      BY <1>5, DeliverMeans
    <2>2. \/ r.at # "answered" /\ k = None
          \/ /\ r.at = "answered" /\ k = r.next /\ Cookies(r).access = r.next
             /\ r.next # None /\ r.presented # None
      BY <1>1, <1>3, <1>5, DeliverMeans DEF Cookies, NoCookies, Shaped, OneUser, RefreshesOfTabs
    <2>3. /\ \A t \in Tab : BrowserOf[t] = Of(r) => Whose(k, t)
          /\ \A q \in requests : q.kind = "refresh" /\ Of(q) = Of(r) => SameOwner(q.presented, k)
      BY <1>5, <2>2 DEF OneUser, RefreshesOfTabs, SameOwner, Whose
    <2>4. \A t \in Tab : BrowserOf[t] = Of(r) => Whose(k, t)'
      BY <1>1, <2>1, <2>3 DEF Whose
    <2>5. JarsOfTabs' /\ RefreshesOfTabs'
      BY <1>1, <1>2, <1>3, <2>1, <2>3, <2>4, JarOneUser
    <2>6. r.at = "answered" => Whose(Cookies(r).access, r.tab)
      BY <1>1, <2>2, <2>3 DEF Of
    <2>7. QED
      BY <1>1, <2>1, <2>5, <2>6, ResumeOneUser DEF OneUser
  <1>6. CASE r.kind = "login" /\ r.at = "answered"
    <2>1. /\ Enter(r.tab, r.user) /\ UNCHANGED call /\ ~TakesOver(r.tab)
          /\ r.user \in User
      BY <1>1, <1>6, DeliverMeans DEF Shaped
    <2>2. /\ \A t \in Tab \ {r.tab} : BrowserOf[t] = Of(r) => identity[t] = None
          /\ \A q \in requests : q.kind = "refresh" => Of(q) # Of(r)
      BY <2>1 DEF TakesOver, Of, Base, TypeOK
    <2>3. /\ \A t \in Tab \ {r.tab} : identity'[t] = identity[t]
          /\ identity'[r.tab] = r.user
      BY <1>6, DeliverIdentity
    <2>4. k = r.next /\ owner'[k] = r.user
      BY <1>1, <1>3, <1>6 DEF Cookies, Shaped
    <2>5. \A t \in Tab : BrowserOf[t] = Of(r) => Whose(k, t)'
      BY <2>2, <2>3, <2>4 DEF Whose
    <2>6. \A t \in Tab : \/ identity'[t] \in {None, identity[t]}
                         \/ /\ BrowserOf[t] = Of(r)
                            /\ \A u \in Tab \ {t} : BrowserOf[u] = Of(r) => identity'[u] = None
                            /\ \A q \in requests : q.kind = "refresh" => Of(q) # Of(r)
      BY <2>2, <2>3 DEF Of
    <2>7. JarsOfTabs' /\ RefreshesOfTabs'
      BY <1>1, <1>2, <1>3, <2>2, <2>5, <2>6, JarOneUser
    <2>8. QED
      BY <1>1, <2>1, <2>7, EnterOneUser DEF OneUser
  <1>7. CASE r.kind = "logout" \/ (r.kind = "login" /\ r.at # "answered")
    <2>1. k = None \/ k = jar[Of(r)].refresh
      BY <1>1, <1>3, <1>7 DEF Cookies, NoCookies, Shaped
    <2>2. \A t \in Tab : identity'[t] \in {None, identity[t]}
      BY <1>7, DeliverIdentity
    <2>3. \A t \in Tab : BrowserOf[t] = Of(r) => Whose(k, t)'
      BY <1>1, <1>4, <2>1, <2>2 DEF Whose
    <2>4. \A q \in requests : q.kind = "refresh" /\ Of(q) = Of(r) => SameOwner(q.presented, k)
      BY <2>1 DEF OneUser, RefreshesOfTabs, SameOwner
    <2>5. JarsOfTabs' /\ RefreshesOfTabs'
      BY <1>1, <1>2, <1>3, <2>2, <2>3, <2>4, JarOneUser
    <2>6. CallsOfTabs' /\ \A x \in Tab : rows'[x] # None => rows'[x] = identity'[x]
      <3>1. CASE Enter(r.tab, None) /\ UNCHANGED call
        BY <1>1, <3>1, EnterOneUser
      <3>2. CASE UNCHANGED <<call, dropped, identity, rows>>
        BY <1>1, <3>2 DEF OneUser, CallsOfTabs, Whose
      <3>3. QED
        BY <1>7, <3>1, <3>2, DeliverMeans
    <2>7. QED
      BY <2>5, <2>6 DEF OneUser
  <1>8. QED
    BY <1>1, <1>5, <1>6, <1>7 DEF Request

LEMMA LoseOneUser ==
  ASSUME Base, NotTakenOver, NEW r \in requests, Lose(r)
  PROVE  NotTakenOver'
  <1> SUFFICES ASSUME OneUser PROVE OneUser'
    BY DEF NotTakenOver, Lose
  <1>1. r.tab \in Tab /\ requests' \subseteq requests /\ UNCHANGED <<jar, owner>>
    BY DEF Lose, Base, TypeOK, Request, server
  <1>2. \A t \in Tab : identity'[t] = identity[t] \/ identity'[t] = None
    BY <1>1 DEF Lose, Enter, client, Base, TypeOK
  <1>3. JarsOfTabs'
    BY <1>1, <1>2 DEF OneUser, JarsOfTabs, Whose
  <1>4. RefreshesOfTabs'
    BY <1>1, <1>2 DEF OneUser, RefreshesOfTabs, SameOwner, Whose, Of
  <1>5. CallsOfTabs' /\ \A t \in Tab : rows'[t] # None => rows'[t] = identity'[t]
    <2>1. CASE Resume(r.tab, FALSE, NoCookies) /\ UNCHANGED <<dropped, identity, rows>>
      BY <1>1, <2>1, ResumeOneUser
    <2>2. CASE UNCHANGED client
      BY <1>1, <2>2 DEF client, OneUser, CallsOfTabs, Whose
    <2>3. CASE Enter(r.tab, None) /\ UNCHANGED call
      BY <1>1, <2>3, EnterOneUser
    <2>4. QED
      BY <2>1, <2>2, <2>3 DEF Lose
  <1>6. QED
    BY <1>3, <1>4, <1>5 DEF OneUser

(* A reloaded tab is whoever the jar's token is. *)
LEMMA LoadOneUser ==
  ASSUME Base, NotTakenOver, NEW t \in Tab, Load(t)
  PROVE  NotTakenOver'
  <1> USE DEF server
  <1> SUFFICES ASSUME OneUser PROVE OneUser'
    BY DEF NotTakenOver, Load
  <1>1. UNCHANGED <<jar, owner, requests, call, dropped>>
    BY DEF Load
  <1>2. /\ \A x \in Tab \ {t} : identity'[x] = identity[x] /\ rows'[x] = rows[x]
        /\ rows'[t] = None
    BY DEF Load, Base, TypeOK
  <1>3. identity'[t] = None \/ /\ jar[BrowserOf[t]].refresh # None
                               /\ identity'[t] = owner[jar[BrowserOf[t]].refresh]
    BY TopologyAssumption DEF Load, Accepted, CookiesOf, Base, TypeOK, Held
  <1>4. JarsOfTabs'
    BY <1>1, <1>2, <1>3 DEF OneUser, JarsOfTabs, Whose
  <1>5. RefreshesOfTabs'
    BY <1>1, <1>2, <1>3 DEF OneUser, RefreshesOfTabs, SameOwner, Whose, Of
  <1>6. CallsOfTabs'
    <2>1. \A c \in Call : call[c].at \in InFlight => TabOf[c] # t
      BY DEF Load, CallsOf
    <2>2. QED
      BY <1>1, <1>2, <2>1, TopologyAssumption DEF OneUser, CallsOfTabs, Whose
  <1>7. \A x \in Tab : rows'[x] # None => rows'[x] = identity'[x]
    BY <1>2 DEF OneUser
  <1>8. QED
    BY <1>4, <1>5, <1>6, <1>7 DEF OneUser

(* A call carries the jar's token, and brings the rows of its user. *)
LEMMA CallsOneUser ==
  ASSUME Base, NotTakenOver, NEW c \in Call, Fetch(c) \/ Settle(c)
  PROVE  NotTakenOver'
  <1> USE DEF server, history
  <1> SUFFICES ASSUME OneUser PROVE OneUser'
    BY DEF NotTakenOver, Fetch, Settle, Answered, Unauthorized, AttemptRefresh
  <1>1. /\ UNCHANGED <<jar, owner, identity>> /\ TabOf[c] \in Tab
        /\ \A x \in Call \ {c} : call'[x] = call[x] /\ (x \in dropped' <=> x \in dropped)
    BY TopologyAssumption DEF Fetch, Settle, Answered, Unauthorized, Base, TypeOK
  <1>2. JarsOfTabs' /\ RefreshesOfTabs'
    <2>1. CASE UNCHANGED requests
      BY <1>1, <2>1 DEF OneUser, JarsOfTabs, RefreshesOfTabs, Whose, SameOwner, Of
    <2>2. CASE requests' = requests \cup {Sent(TabOf[c], "refresh", None)}
      BY <1>1, <2>2, AskOneUser
    <2>3. QED
      BY <2>1, <2>2 DEF Fetch, Settle, Answered, Unauthorized, AttemptRefresh
  <1>3. c \notin dropped' /\ call'[c].at \in InFlight =>
          identity[TabOf[c]] # None /\ Whose(call'[c].carried, TabOf[c])
    <2>1. CASE Fetch(c)
      <3>1. identity[TabOf[c]] \in User
        BY <2>1 DEF Fetch
      <3>2. call'[c].carried \in {None, jar[BrowserOf[TabOf[c]]].refresh}
        BY <1>1, <2>1, TopologyAssumption DEF Fetch, CookiesOf, Base, TypeOK, Held
      <3>3. QED
        BY <1>1, <3>1, <3>2, NoToken DEF OneUser, JarsOfTabs, Whose
    <2>2. CASE Answered(c)
      BY <2>2, SettledTyped DEF Answered, InFlight, Base, TypeOK
    <2>3. CASE Unauthorized(c)
      <3>1. call[c].at \in InFlight /\ dropped' = dropped
        BY <2>3 DEF Unauthorized, InFlight
      <3>2. call'[c].carried = None
        BY <2>3, SettledTyped DEF Unauthorized, Base, TypeOK
      <3>3. QED
        BY <3>1, <3>2 DEF OneUser, CallsOfTabs, Whose
    <2>4. QED
      BY <2>1, <2>2, <2>3 DEF Settle
  <1>4. CallsOfTabs'
    BY <1>1, <1>3 DEF OneUser, CallsOfTabs, Whose
  <1>5. \A t \in Tab : rows'[t] # None => rows'[t] = identity[t]
    <2>1. CASE UNCHANGED rows
      BY <2>1 DEF OneUser
    <2>2. CASE Answered(c) /\ c \notin dropped
      <3>1. call[c].at \in InFlight /\ call[c].carried # None
            /\ rows' = [rows EXCEPT ![TabOf[c]] = owner[call[c].carried]]
        BY <2>2 DEF Answered, Accepted, InFlight
      <3>2. owner[call[c].carried] = identity[TabOf[c]]
        BY <2>2, <3>1 DEF OneUser, CallsOfTabs, Whose
      <3>3. QED
        BY <1>1, <3>1, <3>2 DEF OneUser, Base, TypeOK
    <2>3. QED
      BY <2>1, <2>2 DEF Fetch, Settle, Answered, Unauthorized
  <1>6. QED
    BY <1>1, <1>2, <1>4, <1>5 DEF OneUser

LEMMA NotTakenOverKept == Base /\ NotTakenOver /\ [Next]_vars => NotTakenOver'
  <1> SUFFICES ASSUME Base, NotTakenOver, [Next]_vars PROVE NotTakenOver'
    OBVIOUS
  <1> USE DEF server, client, history
  <1>1. ASSUME NEW t \in Tab, (\E u \in User : SignIn(t, u)) \/ SignOut(t)
        PROVE  NotTakenOver'
    <2> SUFFICES ASSUME OneUser PROVE OneUser'
      BY <1>1 DEF NotTakenOver, SignIn, SignOut
    <2>1. JarsOfTabs' /\ RefreshesOfTabs'
      BY <1>1, AskOneUser DEF SignIn, SignOut
    <2>2. UNCHANGED <<identity, call, dropped, rows, owner>>
      BY <1>1 DEF SignIn, SignOut
    <2>3. QED
      BY <2>1, <2>2 DEF OneUser, CallsOfTabs, Whose
  <1>2. ASSUME NEW k \in Token, Lapse(k)
        PROVE  NotTakenOver'
    <2>1. \A b \in Browser : jar'[b].refresh = jar[b].refresh
      BY <1>2 DEF Lapse, Base, TypeOK
    <2>2. UNCHANGED <<owner, requests, call, dropped, identity, rows, seen>>
      BY <1>2 DEF Lapse
    <2>3. \A r \in requests : Of(r) \in Browser
      BY TopologyAssumption DEF Base, TypeOK, Request, Of
    <2>4. OneUser => JarsOfTabs'
      BY <2>1, <2>2, TopologyAssumption DEF OneUser, JarsOfTabs, Whose
    <2>5. OneUser => RefreshesOfTabs'
      BY <2>1, <2>2, <2>3 DEF OneUser, RefreshesOfTabs, Whose, SameOwner, Of
    <2>6. QED
      BY <2>2, <2>4, <2>5 DEF NotTakenOver, OneUser, CallsOfTabs, Whose
  <1>3. CASE UNCHANGED vars
    BY <1>3 DEF vars, NotTakenOver, OneUser, JarsOfTabs, RefreshesOfTabs, CallsOfTabs, Whose, SameOwner, Of
  <1>4. QED
    BY <1>1, <1>2, <1>3, ServeOneUser, DeliverOneUser, LoseOneUser, LoadOneUser, CallsOneUser DEF Next

-----------------------------------------------------------------------------
(* A replay carries the access token its refresh was answered with. *)
ReplaysCarry == \A c \in Call : call[c].at = "resent" => call[c].carried # None

LEMMA ReplaysCarryKept ==
  ASSUME Base, ReplaysCarry, [Next]_vars
  PROVE  ReplaysCarry'
  <1> USE DEF client
  <1>1. CASE UNCHANGED call
    BY <1>1 DEF ReplaysCarry
  <1>2. CASE \E d \in Call : Fetch(d) \/ Settle(d)
    <2>1. PICK d \in Call : Fetch(d) \/ Settle(d)
      BY <1>2
    <2>2. call \in [Call -> [at : InFlight \cup {"idle", "failed"}, carried : Token \cup {None}]]
      BY DEF Base, TypeOK
    <2>3. call'[d].at # "resent"
      BY <2>1, <2>2, SettledTyped DEF Fetch, Settle, Answered, Unauthorized
    <2>4. \A c \in Call \ {d} : call'[c] = call[c]
      BY <2>1, <2>2 DEF Fetch, Settle, Answered, Unauthorized
    <2>5. QED
      BY <2>3, <2>4 DEF ReplaysCarry
  <1>3. ASSUME NEW r \in requests, Deliver(r)
        PROVE  ReplaysCarry'
    <2>1. CASE UNCHANGED call
      BY <2>1 DEF ReplaysCarry
    <2>2. CASE r.kind = "refresh" /\ Resume(r.tab, r.at = "answered", Cookies(r))
      <3>1. r.at = "answered" => Cookies(r).access # None
        BY <2>2, <1>3, DeliverMeans, CookiesTyped
      <3>2. QED
        BY <2>2, <3>1, SettledTyped DEF ReplaysCarry, Resume
    <2>3. QED
      BY <1>3, <2>1, <2>2, DeliverMeans
  <1>4. ASSUME NEW r \in requests, Lose(r)
        PROVE  ReplaysCarry'
    <2>1. CASE UNCHANGED call
      BY <2>1 DEF ReplaysCarry
    <2>2. CASE Resume(r.tab, FALSE, NoCookies)
      BY <2>2, SettledTyped DEF ReplaysCarry, Resume
    <2>3. QED
      BY <1>4, <2>1, <2>2 DEF Lose
  <1>5. CASE UNCHANGED vars
    BY <1>1, <1>5 DEF vars
  <1>6. QED
    BY <1>1, <1>2, <1>3, <1>4, <1>5
       DEF Next, SignIn, SignOut, Load, Serve, FindToken, BurnChain, IssueTokenPair, MarkRotated,
           Logout, StatementFails, Lapse

IInv == Base /\ Undisturbed /\ NothingStray /\ NotTakenOver /\ ReplaysCarry

LEMMA InitHolds == Init => IInv
  <1> SUFFICES ASSUME Init PROVE IInv
    OBVIOUS
  <1> USE DEF Init
  <1>1. TypeOK
    BY BoundAssumption DEF TypeOK, NoCookies
  <1>2. RequestsShaped
    BY DEF RequestsShaped
  <1>3. Held
    BY DEF Held, NoCookies, Token
  <1>4. Undisturbed
    BY NoToken DEF Undisturbed, Calm, OneRequest, Presenting, Rotating, InOnePlace, NoCookies
  <1>5. NothingStray
    BY DEF NothingStray, Token, NoCookies
  <1>6. NotTakenOver
    BY TopologyAssumption
       DEF NotTakenOver, OneUser, JarsOfTabs, RefreshesOfTabs, CallsOfTabs, Whose, NoCookies, InFlight
  <1>7. ReplaysCarry
    BY DEF ReplaysCarry
  <1>8. QED
    BY <1>1, <1>2, <1>3, <1>4, <1>5, <1>6, <1>7 DEF IInv, Base

LEMMA Invariant == Spec => []IInv
  <1>1. IInv /\ [Next]_vars => IInv'
    BY BaseKept, UndisturbedKept, NothingStrayKept, NotTakenOverKept, ReplaysCarryKept DEF IInv
  <1>2. QED
    BY <1>1, InitHolds, PTL DEF Spec

(* Every request, call and cookie is one the handlers can have made.       *)
THEOREM SessionsTypeCorrect == Spec => []TypeOK
  <1>1. IInv => TypeOK
    BY DEF IInv, Base
  <1>2. QED
    BY <1>1, Invariant, PTL

(* rotateRefreshToken burns a user's chain only on a token presented twice *)
(* across a lost answer, a failure, another tab or a sign-out: the calls of *)
(* one screen share one refresh, and whatever it presents is live.         *)
THEOREM RefreshingIsNotTheft == Spec => []BusyScreenIsNotTheft
  <1>1. IInv => BusyScreenIsNotTheft
    BY DEF IInv, Undisturbed, Calm, BusyScreenIsNotTheft
  <1>2. QED
    BY <1>1, Invariant, PTL

(* After the sign-outs of all tabs no token issued to a browser is alive,  *)
(* and no tab shows rows that are not its user's.                          *)
THEOREM SessionsEnd == Spec => []SessionsDoNotLinger
  <1>1. IInv => SignedOutMeansRevoked
    <2> SUFFICES ASSUME IInv, \A t \in Tab : identity[t] = None, requests = {}, seen = {},
                        NEW k \in 1..issued
                 PROVE  k \in revoked
      BY DEF SignedOutMeansRevoked, Live
    <2>1. k \in Token /\ k <= issued /\ k # None
      BY IssuedTyped, BoundAssumption, NoToken DEF IInv, Token
    <2>2. \A b \in Browser : jar[b].refresh = None
      BY DEF IInv, NothingStray
    <2>3. QED
      BY <2>1, <2>2 DEF IInv, NothingStray
  <1>2. IInv => RowsAreTheUsersOwn
    BY DEF IInv, NotTakenOver, OneUser, RowsAreTheUsersOwn
  <1>3. IInv => SessionsDoNotLinger
    BY <1>1, <1>2 DEF SessionsDoNotLinger
  <1>4. QED
    BY <1>3, Invariant, PTL

(* While nothing disturbs it, a refresh presents what its browser's jar    *)
(* holds, and that is not revoked: the server refuses only an empty jar's. *)
(* So a call fails only when a sign-out had emptied the jar, or when the   *)
(* fresh token of its one replay has lapsed too.                           *)
THEOREM LiveSessionsKeepTheirCalls == Spec => LiveSessionsAreServed
  <1> DEFINE Served ==
        \A c \in Call :
          call[c].at # "failed" /\ call'[c].at = "failed"
            => \/ jar[BrowserOf[TabOf[c]]].refresh = None
               \/ call[c].at = "resent" /\ call[c].carried \in lapsed
               \/ "disturbed" \in seen'
  <1>1. IInv /\ [Next]_vars => [Served]_vars
    <2> SUFFICES ASSUME IInv, Next, NEW c \in Call, call[c].at # "failed",
                        call'[c].at = "failed", "disturbed" \notin seen'
                 PROVE  \/ jar[BrowserOf[TabOf[c]]].refresh = None
                        \/ call[c].at = "resent" /\ call[c].carried \in lapsed
      OBVIOUS
    <2> USE DEF client
    <2>1. Base /\ call \in [Call -> [at : InFlight \cup {"idle", "failed"}, carried : Token \cup {None}]]
      BY DEF IInv, Base, TypeOK
    <2>2. CASE UNCHANGED call
      BY <2>2
    <2>3. CASE \E d \in Call : Fetch(d) \/ Settle(d)
      <3>1. PICK d \in Call : Fetch(d) \/ Settle(d)
        BY <2>3
      <3>2. \A x \in Call \ {d} : call'[x] = call[x]
        BY <3>1, <2>1 DEF Fetch, Settle, Answered, Unauthorized
      <3>3. c = d
        BY <3>2
      <3>4. ~Fetch(d) /\ ~Answered(d)
        BY <3>3, <2>1, SettledTyped DEF Fetch, Answered
      <3>5. call[c].at = "resent" /\ ~Accepted(call[c].carried)
        BY <3>1, <3>3, <3>4, <2>1, SettledTyped DEF Settle, Unauthorized
      <3>6. QED
        BY <3>5 DEF IInv, ReplaysCarry, Accepted
    <2>4. ASSUME NEW r \in requests, Deliver(r)
          PROVE  jar[BrowserOf[TabOf[c]]].refresh = None
      <3>1. CASE UNCHANGED call
        BY <3>1
      <3>2. CASE r.kind = "refresh" /\ Resume(r.tab, r.at = "answered", Cookies(r)) /\ UNCHANGED seen
        <4>1. r.at # "answered" /\ TabOf[c] = r.tab
          BY <3>2 DEF Resume, CallsOf
        <4>2. Presenting /\ r.at \in {"answered", "refused", "failed"}
          BY <2>4, <2>1, <3>2, DeliverMeans DEF IInv, Undisturbed, Calm
        <4>3. r.presented = None /\ r.presented = jar[Of(r)].refresh
          BY <4>1, <4>2 DEF Presenting
        <4>4. QED
          BY <4>1, <4>3 DEF Of
      <3>3. QED
        BY <2>1, <2>4, <3>1, <3>2, DeliverMeans
    <2>5. ASSUME NEW r \in requests, Lose(r)
          PROVE  "disturbed" \in seen'
      BY <2>5 DEF Lose
    <2>6. QED
      BY <2>2, <2>3, <2>4, <2>5
         DEF Next, SignIn, SignOut, Load, Serve, FindToken, BurnChain, IssueTokenPair, MarkRotated,
             Logout, StatementFails, Lapse
  <1>2. QED
    BY <1>1, Invariant, PTL DEF Spec, LiveSessionsAreServed
=============================================================================

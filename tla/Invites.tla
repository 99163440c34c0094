-------------------------------- MODULE Invites --------------------------------
(***************************************************************************)
(* services/organization.service.ts (invites) and the sign-up of           *)
(* services/auth.service.ts, with their repositories: how an organization  *)
(* comes to be and how people join it.                                     *)
(*                                                                         *)
(* A request runs one database statement at a time and others run between  *)
(* them; the two repositories' transactions are single statements.  A code *)
(* is unique and stands for its invite.                                    *)
(***************************************************************************)
EXTENDS Integers, FiniteSets

CONSTANTS
  Actor,       \* the requests under way at a time
  Org, Email,
  None,
  MaxInvites,  \* bound: invites ever created
  MaxFailures  \* bound: statements that fail

Invite == 1..MaxInvites
Role   == {"ADMIN", "PRICING_ANALYST"}
User   == [org : Org, role : Role]

ASSUME NoneAssumption ==
  None \notin Org /\ None \notin Email /\ None \notin Invite /\ None \notin User

ASSUME BoundAssumption == MaxInvites \in Nat /\ MaxFailures \in Nat

VARIABLES
  founded,    \* the organizations
  users,      \* the user with an email address, which is unique
  count,      \* how many invites exist
  invites,    \* the invites' columns
  used,       \* those with a usedAt
  expired,    \* those whose expiresAt is past
  op,         \* the requests
  creators,   \* history: who founded each organization
  origin,     \* history: the invite a user joined by
  overlapped, \* history: the addresses two invitations were made to at once
  failures    \* history

rows    == <<founded, users, count, invites, used, expired>>
history == <<creators, origin, overlapped, failures>>
vars == <<rows, op, history>>

InviteRow == [org : Org, email : Email, role : Role]

Idle == [kind |-> "idle", at |-> "idle", org |-> None, email |-> None, role |-> None, invite |-> None]

Op ==
  [kind : {"idle", "invite", "revoke", "join", "signup"},
   at : {"idle", "arrived", "checked", "cleared", "found"},
   org : Org \cup {None}, email : Email \cup {None}, role : Role \cup {None},
   invite : Invite \cup {None}]

TypeOK ==
  /\ founded \subseteq Org
  /\ users \in [Email -> User \cup {None}]
  /\ count \in 0..MaxInvites
  /\ invites \in [Invite -> InviteRow \cup {None}]
  /\ used \subseteq Invite /\ expired \subseteq Invite
  /\ op \in [Actor -> Op]
  /\ creators \in [Org -> Email \cup {None}]
  /\ origin \in [Email -> Invite \cup {None}]
  /\ overlapped \subseteq Org \X Email
  /\ failures \in 0..MaxFailures

Init ==
  /\ founded = {}
  /\ users = [e \in Email |-> None]
  /\ count = 0
  /\ invites = [i \in Invite |-> None]
  /\ used = {} /\ expired = {}
  /\ op = [a \in Actor |-> Idle]
  /\ creators = [o \in Org |-> None]
  /\ origin = [e \in Email |-> None]
  /\ overlapped = {} /\ failures = 0

-----------------------------------------------------------------------------
Begin(a, o) ==
  /\ op[a] = Idle
  /\ op' = [op EXCEPT ![a] = o]
  /\ UNCHANGED rows

At(a, kind, at) == op[a].kind = kind /\ op[a].at = at

Goto(a, at) == op' = [op EXCEPT ![a].at = at]

(* The request is answered, by a success or an error. *)
Answer(a) == op' = [op EXCEPT ![a] = Idle]

-----------------------------------------------------------------------------
(* createInvite. *)

Inviting(o, e) == {a \in Actor : op[a].kind = "invite" /\ op[a].org = o /\ op[a].email = e}

BeginInvite(a, o, e, role) ==
  /\ o \in founded /\ count < MaxInvites
  /\ Begin(a, [Idle EXCEPT !.kind = "invite", !.at = "arrived", !.org = o, !.email = e, !.role = role])
  /\ overlapped' = IF Inviting(o, e) # {} THEN overlapped \cup {<<o, e>>} ELSE overlapped
  /\ UNCHANGED <<creators, origin, failures>>

CheckMember(a) ==
  /\ At(a, "invite", "arrived")
  /\ LET existing == users[op[a].email]
     IN IF existing # None /\ existing.org = op[a].org THEN Answer(a) ELSE Goto(a, "checked")
  /\ UNCHANGED <<rows, history>>

ExpireOutstanding(a) ==
  /\ At(a, "invite", "checked")
  /\ expired' = expired \cup {i \in 1..count : /\ invites[i].org = op[a].org
                                               /\ invites[i].email = op[a].email
                                               /\ i \notin used}
  /\ Goto(a, "cleared")
  /\ UNCHANGED <<founded, users, count, invites, used, history>>

CreateInvite(a) ==
  /\ At(a, "invite", "cleared") /\ count < MaxInvites
  /\ count' = count + 1
  /\ invites' = [invites EXCEPT ![count'] =
                   [org |-> op[a].org, email |-> op[a].email, role |-> op[a].role]]
  /\ Answer(a)
  /\ UNCHANGED <<founded, users, used, expired, history>>

-----------------------------------------------------------------------------
(* revokeInvite. *)

BeginRevoke(a, o, i) ==
  /\ o \in founded
  /\ Begin(a, [Idle EXCEPT !.kind = "revoke", !.at = "arrived", !.org = o, !.invite = i])
  /\ UNCHANGED history

Owned(a) == op[a].invite <= count /\ invites[op[a].invite].org = op[a].org

FindInvite(a) ==
  /\ At(a, "revoke", "arrived")
  /\ IF Owned(a) THEN Goto(a, "found") ELSE Answer(a)
  /\ UNCHANGED <<rows, history>>

Revoke(a) ==
  /\ At(a, "revoke", "found")
  /\ expired' = expired \cup ({op[a].invite} \ used)
  /\ Answer(a)
  /\ UNCHANGED <<founded, users, count, invites, used, history>>

-----------------------------------------------------------------------------
(* redeemInvite. *)

BeginJoin(a, i, e) ==
  /\ Begin(a, [Idle EXCEPT !.kind = "join", !.at = "arrived", !.invite = i, !.email = e])
  /\ UNCHANGED history

Redeemable(i, e) == i <= count /\ i \notin used /\ i \notin expired /\ invites[i].email = e

FindByCode(a) ==
  /\ At(a, "join", "arrived")
  /\ IF Redeemable(op[a].invite, op[a].email) THEN Goto(a, "found") ELSE Answer(a)
  /\ UNCHANGED <<rows, history>>

Taken(e) == users[e] # None

CheckEmail(a) ==
  /\ At(a, "join", "found") \/ At(a, "signup", "arrived")
  /\ IF Taken(op[a].email) THEN Answer(a) ELSE Goto(a, "checked")
  /\ UNCHANGED <<rows, history>>

(* A plausible bug: the new member has the role the request asked for.     *)
RedeemWithoutRole(a) ==
  /\ At(a, "join", "checked")
  /\ users' = [users EXCEPT ![op[a].email] = [org |-> invites[op[a].invite].org, role |-> op[a].role]]
  /\ used' = used \cup {op[a].invite}
  /\ origin' = [origin EXCEPT ![op[a].email] = op[a].invite]
  /\ Answer(a)
  /\ UNCHANGED <<founded, count, invites, expired, creators, overlapped, failures>>

(* A plausible bug: the invite is consumed outside the transaction, and    *)
(* stays consumed when the address turns out to be taken.                  *)
RedeemApart(a) ==
  /\ At(a, "join", "checked")
  /\ LET i == op[a].invite
         e == op[a].email
     IN /\ used' = used \cup {i}
        /\ IF Taken(e)
           THEN UNCHANGED <<users, origin>>
           ELSE /\ users' = [users EXCEPT ![e] = [org |-> invites[i].org, role |-> invites[i].role]]
                /\ origin' = [origin EXCEPT ![e] = i]
  /\ Answer(a)
  /\ UNCHANGED <<founded, count, invites, expired, creators, overlapped, failures>>

(* The transaction: the unique address undoes all of it. *)
Redeem(a) ==
  /\ At(a, "join", "checked")
  /\ LET i == op[a].invite
         e == op[a].email
     IN IF Taken(e)
        THEN UNCHANGED <<users, used, origin>>
        ELSE /\ users' = [users EXCEPT ![e] = [org |-> invites[i].org, role |-> invites[i].role]]
             /\ used' = used \cup {i}
             /\ origin' = [origin EXCEPT ![e] = i]
  /\ Answer(a)
  /\ UNCHANGED <<founded, count, invites, expired, creators, overlapped, failures>>

-----------------------------------------------------------------------------
(* signup. *)

BeginSignup(a, o, e) ==
  /\ o \notin founded
  /\ \A other \in Actor : op[other].kind = "signup" => op[other].org # o
  /\ Begin(a, [Idle EXCEPT !.kind = "signup", !.at = "arrived", !.org = o, !.email = e])
  /\ UNCHANGED history

(* A plausible bug: the organization outlives the failure of its admin. *)
CreateWithAdminApart(a) ==
  /\ At(a, "signup", "checked")
  /\ founded' = founded \cup {op[a].org}
  /\ IF Taken(op[a].email)
     THEN UNCHANGED <<users, creators>>
     ELSE /\ users' = [users EXCEPT ![op[a].email] = [org |-> op[a].org, role |-> "ADMIN"]]
          /\ creators' = [creators EXCEPT ![op[a].org] = op[a].email]
  /\ Answer(a)
  /\ UNCHANGED <<count, invites, used, expired, origin, overlapped, failures>>

CreateWithAdmin(a) ==
  /\ At(a, "signup", "checked")
  /\ IF Taken(op[a].email)
     THEN UNCHANGED <<founded, users, creators>>
     ELSE /\ founded' = founded \cup {op[a].org}
          /\ users' = [users EXCEPT ![op[a].email] = [org |-> op[a].org, role |-> "ADMIN"]]
          /\ creators' = [creators EXCEPT ![op[a].org] = op[a].email]
  /\ Answer(a)
  /\ UNCHANGED <<count, invites, used, expired, origin, overlapped, failures>>

-----------------------------------------------------------------------------
(* A statement fails, or the process exits: the request ends where it is.  *)
StatementFails(a) ==
  /\ op[a] # Idle
  /\ failures < MaxFailures /\ failures' = failures + 1
  /\ Answer(a)
  /\ UNCHANGED <<rows, creators, origin, overlapped>>

(* Seven days pass. *)
Expire(i) ==
  /\ i <= count
  /\ expired' = expired \cup {i}
  /\ UNCHANGED <<founded, users, count, invites, used, op, history>>

Arrive(a) ==
  \/ \E o \in Org, e \in Email : BeginSignup(a, o, e) \/ \E r \in Role : BeginInvite(a, o, e, r)
  \/ \E i \in Invite : \/ \E o \in Org : BeginRevoke(a, o, i)
                       \/ \E e \in Email : BeginJoin(a, i, e)

(* An insert at the bound of invites answers an error. *)
OutOfInvites(a) ==
  /\ At(a, "invite", "cleared") /\ count = MaxInvites
  /\ Answer(a)
  /\ UNCHANGED <<rows, history>>

Step(a) ==
  \/ CheckMember(a) \/ ExpireOutstanding(a) \/ CreateInvite(a) \/ OutOfInvites(a)
  \/ FindInvite(a) \/ Revoke(a)
  \/ FindByCode(a) \/ CheckEmail(a) \/ Redeem(a)
  \/ CreateWithAdmin(a)

Next ==
  \/ \E a \in Actor : Arrive(a) \/ Step(a) \/ StatementFails(a)
  \/ \E i \in Invite : Expire(i)

Spec == Init /\ [][Next]_vars

-----------------------------------------------------------------------------
(* Properties. *)

(* "A consumed invite with no user, or a user whose invite is still open,  *)
(* are both invalid states": a used invite made exactly the member it was  *)
(* issued for, in its organization and role, and nobody joined otherwise.  *)
InviteMakesItsMember ==
  /\ \A i \in used : /\ origin[invites[i].email] = i
                     /\ users[invites[i].email] = [org |-> invites[i].org, role |-> invites[i].role]
  /\ \A e \in Email : Taken(e) => origin[e] \in used \/ creators[users[e].org] = e

(* An organization without an admin, or an admin without an organization,  *)
(* is never observable, whichever requests race for an address.            *)
OrgHasAdmin ==
  /\ \A o \in founded : creators[o] # None /\ users[creators[o]] = [org |-> o, role |-> "ADMIN"]
  /\ \A e \in Email : Taken(e) => users[e].org \in founded

Outstanding == {i \in 1..count : i \notin used /\ i \notin expired}

(* "One person never holds several simultaneously-valid codes" of an       *)
(* organization, unless two invitations of that person overlapped.         *)
OneValidCode ==
  \A i, j \in Outstanding :
    /\ invites[i].org = invites[j].org /\ invites[i].email = invites[j].email
    /\ <<invites[i].org, invites[i].email>> \notin overlapped
    => i = j

(* A code admits the one person it was made for, once.                     *)
CodesMakeTheirMembers == InviteMakesItsMember /\ OneValidCode
=============================================================================

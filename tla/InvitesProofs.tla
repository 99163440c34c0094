----------------------------- MODULE InvitesProofs -----------------------------
(***************************************************************************)
(* Invites admit whom they were made for, and no organization is without   *)
(* its admin, for any number of requests, organizations, addresses,        *)
(* invites and failures.                                                   *)
(***************************************************************************)
EXTENDS Invites, TLAPS

(* What a request has read and holds against the tables.                   *)
OpHolds(o) ==
  /\ o.kind = "idle" => o = Idle
  /\ o.kind # "idle" => o.at # "idle"
  /\ o.kind = "invite" => o.org \in founded /\ o.email \in Email /\ o.role \in Role
  /\ o.kind = "revoke" =>
       /\ o.org \in founded /\ o.invite \in Invite
       /\ o.at = "found" => o.invite <= count
  /\ o.kind = "join" =>
       /\ o.invite \in Invite /\ o.email \in Email
       /\ o.at \in {"found", "checked"} =>
            o.invite <= count /\ invites[o.invite].email = o.email
  /\ o.kind = "signup" => o.org \in Org \ founded /\ o.email \in Email

OpsHold == \A a \in Actor : OpHolds(op[a])

RowsHold ==
  /\ \A i \in Invite : i <= count => invites[i] \in InviteRow /\ invites[i].org \in founded
  /\ \A i \in used \cup expired : i <= count

(* An organization has one sign-up that may found it.                      *)
OneFounder ==
  \A a, b \in Actor :
    op[a].kind = "signup" /\ op[b].kind = "signup" /\ op[a].org = op[b].org => a = b

(* Invitations of an address that never overlapped come one at a time.     *)
OneInvitation ==
  \A a, b \in Actor :
    /\ op[a].kind = "invite" /\ op[b].kind = "invite"
    /\ op[a].org = op[b].org /\ op[a].email = op[b].email
    /\ <<op[a].org, op[a].email>> \notin overlapped
    => a = b

(* Once the outstanding codes are expired, none appears before the new one.*)
Cleared ==
  \A a \in Actor :
    At(a, "invite", "cleared") /\ <<op[a].org, op[a].email>> \notin overlapped
      => ~\E i \in Outstanding : invites[i].org = op[a].org /\ invites[i].email = op[a].email

IInv ==
  /\ TypeOK /\ OpsHold /\ RowsHold
  /\ OneFounder /\ OrgHasAdmin /\ InviteMakesItsMember
  /\ OneInvitation /\ Cleared /\ OneValidCode

-----------------------------------------------------------------------------
LEMMA IdleTyped == Idle \in Op /\ OpHolds(Idle)
  BY DEF Idle, Op, OpHolds

(* A step that only moves a request on, or answers it. *)
LEMMA MovesKeep ==
  ASSUME IInv, NEW a \in Actor, NEW r \in Op, OpHolds(r),
         op' = [op EXCEPT ![a] = r],
         \/ r = Idle
         \/ /\ r.kind = op[a].kind /\ r.org = op[a].org /\ r.email = op[a].email
            /\ r.at # "cleared",
         UNCHANGED <<rows, creators, origin, overlapped>>,
         failures' \in 0..MaxFailures
  PROVE  IInv'
  <1> USE DEF rows
  <1>1. TypeOK'
    BY DEF IInv, TypeOK
  <1>2. op'[a] = r /\ \A b \in Actor \ {a} : op'[b] = op[b]
    BY DEF IInv, TypeOK
  <1>3. OpsHold'
    BY <1>2 DEF IInv, OpsHold, OpHolds
  <1>4. OneFounder'
    BY <1>2 DEF IInv, OneFounder, Idle
  <1>5. OneInvitation'
    BY <1>2 DEF IInv, OneInvitation, Idle
  <1>6. Cleared'
    BY <1>2 DEF IInv, Cleared, At, Outstanding, Idle
  <1>7. RowsHold' /\ OrgHasAdmin' /\ InviteMakesItsMember' /\ OneValidCode'
    BY DEF IInv, RowsHold, OrgHasAdmin, InviteMakesItsMember, Taken, OneValidCode, Outstanding
  <1>8. QED
    BY <1>1, <1>3, <1>4, <1>5, <1>6, <1>7 DEF IInv

LEMMA AnswersKeep ==
  ASSUME IInv, NEW a \in Actor, Answer(a), UNCHANGED <<rows, creators, origin, overlapped>>,
         failures' \in 0..MaxFailures
  PROVE  IInv'
  BY IdleTyped, MovesKeep DEF Answer

LEMMA GotoKeeps ==
  ASSUME IInv, NEW a \in Actor, NEW at \in {"checked", "found"}, Goto(a, at),
         OpHolds([op[a] EXCEPT !.at = at]),
         UNCHANGED <<rows, history>>
  PROVE  IInv'
  <1>1. op[a] \in Op
    BY DEF IInv, TypeOK
  <1>2. [op[a] EXCEPT !.at = at] \in Op
    BY <1>1 DEF Op
  <1>3. QED
    BY <1>1, <1>2, MovesKeep DEF Goto, history, IInv, TypeOK, Op

LEMMA ReadsKeep ==
  ASSUME IInv, NEW a \in Actor,
         CheckMember(a) \/ OutOfInvites(a) \/ FindInvite(a) \/ FindByCode(a) \/ CheckEmail(a)
  PROVE  IInv'
  <1>1. failures \in 0..MaxFailures /\ op[a] \in Op /\ OpHolds(op[a])
    BY DEF IInv, TypeOK, OpsHold
  <1>2. CASE CheckMember(a)
    <2>1. CASE Goto(a, "checked")
      <3>1. OpHolds([op[a] EXCEPT !.at = "checked"])
        BY <1>1, <1>2 DEF CheckMember, At, OpHolds, Op
      <3>2. QED
        BY <1>2, <2>1, <3>1, GotoKeeps DEF CheckMember
    <2>2. QED
      BY <1>1, <1>2, <2>1, AnswersKeep DEF CheckMember, history
  <1>3. CASE OutOfInvites(a)
    BY <1>1, <1>3, AnswersKeep DEF OutOfInvites, history
  <1>4. CASE FindInvite(a)
    <2>1. CASE Goto(a, "found") /\ Owned(a)
      <3>1. OpHolds([op[a] EXCEPT !.at = "found"])
        BY <1>1, <1>4, <2>1 DEF FindInvite, Owned, At, OpHolds, Op
      <3>2. QED
        BY <1>4, <2>1, <3>1, GotoKeeps DEF FindInvite
    <2>2. QED
      BY <1>1, <1>4, <2>1, AnswersKeep DEF FindInvite, history
  <1>5. CASE FindByCode(a)
    <2>1. CASE Goto(a, "found") /\ Redeemable(op[a].invite, op[a].email)
      <3>1. OpHolds([op[a] EXCEPT !.at = "found"])
        BY <1>1, <1>5, <2>1 DEF FindByCode, Redeemable, At, OpHolds, Op
      <3>2. QED
        BY <1>5, <2>1, <3>1, GotoKeeps DEF FindByCode
    <2>2. QED
      BY <1>1, <1>5, <2>1, AnswersKeep DEF FindByCode, history
  <1>6. CASE CheckEmail(a)
    <2>1. CASE Goto(a, "checked")
      <3>1. OpHolds([op[a] EXCEPT !.at = "checked"])
        BY <1>1, <1>6 DEF CheckEmail, At, OpHolds, Op
      <3>2. QED
        BY <1>6, <2>1, <3>1, GotoKeeps DEF CheckEmail
    <2>2. QED
      BY <1>1, <1>6, <2>1, AnswersKeep DEF CheckEmail, history
  <1>7. QED
    BY <1>2, <1>3, <1>4, <1>5, <1>6

LEMMA FailuresKeep ==
  ASSUME IInv, NEW a \in Actor, StatementFails(a)
  PROVE  IInv'
  <1>1. failures' \in 0..MaxFailures
    BY BoundAssumption DEF IInv, TypeOK, StatementFails
  <1>2. QED
    BY <1>1, AnswersKeep DEF StatementFails

-----------------------------------------------------------------------------
(* A request arrives: an invitation of an address with one under way marks *)
(* the address, and a sign-up has its organization to itself.              *)
LEMMA ArrivalsKeep ==
  ASSUME IInv, NEW a \in Actor, Arrive(a)
  PROVE  IInv'
  <1> USE DEF rows
  <1>1. ASSUME NEW r \in Op, Begin(a, r), OpHolds(r), r.at = "arrived",
               overlapped \subseteq overlapped', overlapped' \subseteq Org \X Email,
               UNCHANGED <<creators, origin, failures>>,
               r.kind = "signup" => \A b \in Actor : op[b].kind = "signup" => op[b].org # r.org,
               r.kind = "invite" => \/ Inviting(r.org, r.email) = {}
                                    \/ <<r.org, r.email>> \in overlapped'
        PROVE  IInv'
    <2>1. TypeOK'
      BY <1>1 DEF IInv, TypeOK, Begin
    <2>2. op'[a] = r /\ \A b \in Actor \ {a} : op'[b] = op[b]
      BY <1>1 DEF IInv, TypeOK, Begin
    <2>3. OpsHold'
      BY <1>1, <2>2 DEF IInv, OpsHold, OpHolds, Begin
    <2>4. OneFounder'
      BY <1>1, <2>2 DEF IInv, OneFounder
    <2>5. OneInvitation'
      BY <1>1, <2>2 DEF IInv, OneInvitation, Inviting
    <2>6. Cleared'
      BY <1>1, <2>2 DEF IInv, Cleared, At, Outstanding, Begin
    <2>7. RowsHold' /\ OrgHasAdmin' /\ InviteMakesItsMember'
      BY <1>1 DEF IInv, RowsHold, OrgHasAdmin, InviteMakesItsMember, Taken, Begin
    <2>8. OneValidCode'
      BY <1>1 DEF IInv, OneValidCode, Outstanding, Begin
    <2>9. QED
      BY <2>1, <2>3, <2>4, <2>5, <2>6, <2>7, <2>8 DEF IInv
  <1>2. overlapped \subseteq Org \X Email
    BY DEF IInv, TypeOK
  <1>3. ASSUME NEW o \in Org, NEW e \in Email, BeginSignup(a, o, e)
        PROVE  IInv'
    <2> DEFINE r == [Idle EXCEPT !.kind = "signup", !.at = "arrived", !.org = o, !.email = e]
    <2>1. r \in Op /\ OpHolds(r) /\ r.at = "arrived" /\ r.kind = "signup" /\ r.org = o
      BY <1>3 DEF BeginSignup, Idle, Op, OpHolds
    <2>2. QED
      BY <1>1, <1>2, <1>3, <2>1 DEF BeginSignup, history
  <1>4. ASSUME NEW o \in Org, NEW e \in Email, NEW role \in Role, BeginInvite(a, o, e, role)
        PROVE  IInv'
    <2> DEFINE r == [Idle EXCEPT !.kind = "invite", !.at = "arrived", !.org = o, !.email = e, !.role = role]
    <2>1. r \in Op /\ OpHolds(r) /\ r.at = "arrived" /\ r.kind = "invite"
          /\ r.org = o /\ r.email = e
      BY <1>4 DEF BeginInvite, Idle, Op, OpHolds
    <2>2. /\ Begin(a, r) /\ UNCHANGED <<creators, origin, failures>>
          /\ overlapped \subseteq overlapped' /\ overlapped' \subseteq Org \X Email
          /\ Inviting(o, e) = {} \/ <<o, e>> \in overlapped'
      BY <1>2, <1>4 DEF BeginInvite
    <2> HIDE DEF r
    <2>3. QED
      BY <1>1, <2>1, <2>2
  <1>5. ASSUME NEW i \in Invite, NEW o \in Org, BeginRevoke(a, o, i)
        PROVE  IInv'
    <2> DEFINE r == [Idle EXCEPT !.kind = "revoke", !.at = "arrived", !.org = o, !.invite = i]
    <2>1. r \in Op /\ OpHolds(r) /\ r.at = "arrived" /\ r.kind = "revoke"
      BY <1>5 DEF BeginRevoke, Idle, Op, OpHolds
    <2>2. QED
      BY <1>1, <1>2, <1>5, <2>1 DEF BeginRevoke, history
  <1>6. ASSUME NEW i \in Invite, NEW e \in Email, BeginJoin(a, i, e)
        PROVE  IInv'
    <2> DEFINE r == [Idle EXCEPT !.kind = "join", !.at = "arrived", !.invite = i, !.email = e]
    <2>1. r \in Op /\ OpHolds(r) /\ r.at = "arrived" /\ r.kind = "join"
      BY <1>6 DEF BeginJoin, Idle, Op, OpHolds
    <2>2. QED
      BY <1>1, <1>2, <1>6, <2>1 DEF BeginJoin, history
  <1>7. QED
    BY <1>3, <1>4, <1>5, <1>6 DEF Arrive

-----------------------------------------------------------------------------
(* Codes that expire: of the invitation that is about to make a new one, by *)
(* revocation, or with time.                                               *)
LEMMA ExpiriesKeep ==
  ASSUME IInv, expired \subseteq expired', \A i \in expired' \ expired : i \in Invite /\ i <= count,
         UNCHANGED <<founded, users, count, invites, used, history>>
  PROVE  /\ RowsHold' /\ OrgHasAdmin' /\ InviteMakesItsMember' /\ OneValidCode'
         /\ Outstanding' \subseteq Outstanding
         /\ op' \in [Actor -> Op] => TypeOK'
  <1> USE DEF history
  <1>1. Outstanding' \subseteq Outstanding
    BY DEF Outstanding
  <1>2. RowsHold'
    BY DEF IInv, RowsHold
  <1>3. OrgHasAdmin' /\ InviteMakesItsMember'
    BY DEF IInv, OrgHasAdmin, InviteMakesItsMember, Taken
  <1>4. OneValidCode'
    BY <1>1 DEF IInv, OneValidCode
  <1>5. op' \in [Actor -> Op] => TypeOK'
    BY DEF IInv, TypeOK
  <1>6. QED
    BY <1>1, <1>2, <1>3, <1>4, <1>5

LEMMA ExpireOutstandingKeeps ==
  ASSUME IInv, NEW a \in Actor, ExpireOutstanding(a)
  PROVE  IInv'
  <1> USE DEF history
  <1>1. op[a] \in Op /\ OpHolds(op[a]) /\ count \in Nat /\ count <= MaxInvites
    BY BoundAssumption DEF IInv, TypeOK, OpsHold
  <1>2. [op[a] EXCEPT !.at = "cleared"] \in Op
    BY <1>1 DEF Op
  <1>3. op' \in [Actor -> Op]
    BY <1>2 DEF ExpireOutstanding, Goto, IInv, TypeOK
  <1>4. \A b \in Actor \ {a} : op'[b] = op[b]
    BY DEF ExpireOutstanding, Goto, IInv, TypeOK
  <1>5. /\ op'[a].kind = "invite" /\ op'[a].at = "cleared"
        /\ op'[a].org = op[a].org /\ op'[a].email = op[a].email /\ op'[a].role = op[a].role
    <2>1. op'[a] = [op[a] EXCEPT !.at = "cleared"]
      BY DEF ExpireOutstanding, Goto, IInv, TypeOK
    <2>2. QED
      BY <1>1, <2>1 DEF ExpireOutstanding, At, Op
  <1>6. /\ expired \subseteq expired'
        /\ \A i \in expired' \ expired : i \in Invite /\ i <= count
    BY <1>1, BoundAssumption DEF ExpireOutstanding, Invite
  <1>7. /\ RowsHold' /\ OrgHasAdmin' /\ InviteMakesItsMember' /\ OneValidCode' /\ TypeOK'
        /\ Outstanding' \subseteq Outstanding
    BY <1>3, <1>6, ExpiriesKeep DEF ExpireOutstanding
  <1>8. OpHolds(op[a])'
    BY <1>1, <1>5 DEF OpHolds, ExpireOutstanding, At
  <1>9. OpsHold'
    BY <1>4, <1>8 DEF IInv, OpsHold, OpHolds, ExpireOutstanding
  <1>10. OneFounder'
    BY <1>4, <1>5 DEF IInv, OneFounder
  <1>11. OneInvitation'
    BY <1>4, <1>5 DEF IInv, OneInvitation, ExpireOutstanding, At
  <1>12. ~\E i \in Outstanding' : invites[i].org = op[a].org /\ invites[i].email = op[a].email
    BY DEF ExpireOutstanding, Outstanding
  <1>13. Cleared'
    BY <1>4, <1>5, <1>7, <1>12 DEF IInv, Cleared, At, ExpireOutstanding
  <1>14. QED
    BY <1>7, <1>9, <1>10, <1>11, <1>13 DEF IInv

LEMMA RevokeKeeps ==
  ASSUME IInv, NEW a \in Actor, Revoke(a)
  PROVE  IInv'
  <1> USE DEF history
  <1>1. op[a] \in Op /\ OpHolds(op[a])
    BY DEF IInv, TypeOK, OpsHold
  <1>2. op' \in [Actor -> Op] /\ op'[a] = Idle /\ \A b \in Actor \ {a} : op'[b] = op[b]
    BY IdleTyped DEF Revoke, Answer, IInv, TypeOK
  <1>3. \A i \in expired' \ expired : i \in Invite /\ i <= count
    BY <1>1 DEF Revoke, At, OpHolds
  <1>4. /\ RowsHold' /\ OrgHasAdmin' /\ InviteMakesItsMember' /\ OneValidCode' /\ TypeOK'
        /\ Outstanding' \subseteq Outstanding
    BY <1>2, <1>3, ExpiriesKeep DEF Revoke
  <1>5. OpsHold'
    BY <1>2, IdleTyped DEF IInv, OpsHold, OpHolds, Revoke, Idle
  <1>6. OneFounder' /\ OneInvitation'
    BY <1>2 DEF IInv, OneFounder, OneInvitation, Revoke, Idle
  <1>7. Cleared'
    BY <1>2, <1>4 DEF IInv, Cleared, At, Revoke, Idle
  <1>8. QED
    BY <1>4, <1>5, <1>6, <1>7 DEF IInv

LEMMA ExpireKeeps ==
  ASSUME IInv, NEW i \in Invite, Expire(i)
  PROVE  IInv'
  <1> USE DEF history
  <1>1. /\ RowsHold' /\ OrgHasAdmin' /\ InviteMakesItsMember' /\ OneValidCode' /\ TypeOK'
        /\ Outstanding' \subseteq Outstanding
    BY ExpiriesKeep DEF Expire, IInv, TypeOK
  <1>2. OpsHold' /\ OneFounder' /\ OneInvitation'
    BY DEF IInv, OpsHold, OpHolds, OneFounder, OneInvitation, Expire
  <1>3. Cleared'
    BY <1>1 DEF IInv, Cleared, At, Expire
  <1>4. QED
    BY <1>1, <1>2, <1>3 DEF IInv

(* The new code is the only one outstanding of its address, unless two     *)
(* invitations of it overlapped.                                           *)
LEMMA CreateInviteKeeps ==
  ASSUME IInv, NEW a \in Actor, CreateInvite(a)
  PROVE  IInv'
  <1> USE DEF history
  <1> DEFINE row == [org |-> op[a].org, email |-> op[a].email, role |-> op[a].role]
  <1>1. op[a] \in Op /\ OpHolds(op[a]) /\ op[a].kind = "invite" /\ op[a].at = "cleared"
    BY DEF IInv, TypeOK, OpsHold, CreateInvite, At
  <1>2. row \in InviteRow /\ row.org \in founded
    BY <1>1 DEF OpHolds, InviteRow, IInv, TypeOK
  <1>3. count \in Nat /\ count' = count + 1 /\ count' \in Invite
    BY BoundAssumption DEF IInv, TypeOK, CreateInvite, Invite
  <1>4. /\ op' \in [Actor -> Op] /\ op'[a] = Idle
        /\ \A b \in Actor \ {a} : op'[b] = op[b]
    BY IdleTyped DEF CreateInvite, Answer, IInv, TypeOK
  <1>5. /\ invites' \in [Invite -> InviteRow \cup {None}] /\ invites'[count'] = row
        /\ \A i \in Invite \ {count'} : invites'[i] = invites[i]
    BY <1>2, <1>3 DEF CreateInvite, IInv, TypeOK
  <1> HIDE DEF row
  <1>6. count' \in 0..MaxInvites
    BY <1>3 DEF Invite
  <1>7. TypeOK'
    BY <1>4, <1>5, <1>6 DEF IInv, TypeOK, CreateInvite
  <1>8. \A i \in Invite : i <= count' => i <= count \/ i = count'
    BY <1>3 DEF Invite
  <1>9. OpsHold'
    <2> SUFFICES ASSUME NEW b \in Actor PROVE OpHolds(op[b])'
      BY DEF OpsHold
    <2>1. CASE b = a
      BY <2>1, <1>4 DEF Idle, OpHolds
    <2>2. CASE b # a
      <3>1. op'[b] = op[b] /\ OpHolds(op[b])
        BY <2>2, <1>4 DEF IInv, OpsHold
      <3>2. op[b].kind = "join" /\ op[b].at \in {"found", "checked"}
              => invites'[op[b].invite].email = op[b].email
        BY <3>1, <1>3, <1>5 DEF OpHolds, Invite
      <3>3. \A i \in Invite : i <= count => i <= count'
        BY <1>3 DEF Invite
      <3>4. QED
        BY <3>1, <3>2, <3>3 DEF OpHolds, CreateInvite
    <2>3. QED
      BY <2>1, <2>2
  <1>10. RowsHold'
    <2>1. \A i \in Invite : i <= count' => invites'[i] \in InviteRow /\ invites'[i].org \in founded
      BY <1>2, <1>3, <1>5, <1>8 DEF IInv, RowsHold
    <2>2. \A i \in used \cup expired : i <= count'
      BY <1>3 DEF IInv, RowsHold, TypeOK, Invite
    <2>3. QED
      BY <2>1, <2>2 DEF RowsHold, CreateInvite
  <1>11. count' \notin used /\ count' \notin expired
    BY <1>3 DEF IInv, RowsHold, Invite
  <1>12. OneFounder' /\ OneInvitation'
    BY <1>4 DEF IInv, OneFounder, OneInvitation, CreateInvite, Idle
  <1>13. OrgHasAdmin'
    BY DEF IInv, OrgHasAdmin, CreateInvite, Taken
  <1>14. InviteMakesItsMember'
    BY <1>5, <1>11 DEF IInv, InviteMakesItsMember, CreateInvite, Taken, TypeOK
  <1>15. Outstanding' = Outstanding \cup {count'} /\ count' \notin Outstanding
    BY <1>3, <1>11 DEF Outstanding, CreateInvite
  <1>16. \A i \in Outstanding : invites'[i] = invites[i]
    <2>1. Outstanding \subseteq Invite \ {count'}
      BY <1>3, BoundAssumption DEF Outstanding, Invite
    <2>2. QED
      BY <1>5, <2>1
  <1>17. Cleared'
    <2> SUFFICES ASSUME NEW b \in Actor, At(b, "invite", "cleared")',
                        <<op'[b].org, op'[b].email>> \notin overlapped,
                        NEW i \in Outstanding', invites'[i].org = op'[b].org,
                        invites'[i].email = op'[b].email
                 PROVE  FALSE
      BY DEF Cleared, CreateInvite
    <2>1. b # a /\ op'[b] = op[b]
      BY <1>4 DEF At, Idle
    <2>2. i = count'
      BY <2>1, <1>15, <1>16 DEF IInv, Cleared, At
    <2>3. op[b].org = op[a].org /\ op[b].email = op[a].email
      BY <2>1, <2>2, <1>5 DEF row
    <2>4. QED
      BY <2>1, <2>3, <1>1 DEF IInv, OneInvitation, At
  <1>18. OneValidCode'
    <2>1. \A i \in Outstanding : invites[i].org = row.org /\ invites[i].email = row.email
            => <<row.org, row.email>> \in overlapped
      BY <1>1 DEF IInv, Cleared, At, row
    <2>2. QED
      BY <2>1, <1>5, <1>15, <1>16 DEF IInv, OneValidCode, CreateInvite
  <1>19. QED
    BY <1>7, <1>9, <1>10, <1>12, <1>13, <1>14, <1>17, <1>18 DEF IInv

-----------------------------------------------------------------------------
(* Nobody takes the address of an admin, or of a member an invite made.    *)
LEMMA AdminsAreUsers ==
  ASSUME IInv, NEW o \in founded
  PROVE  o \in Org /\ creators[o] \in Email /\ users[creators[o]] # None
  <1>1. o \in Org /\ creators[o] \in Email
    BY DEF IInv, TypeOK, OrgHasAdmin
  <1>2. [org |-> o, role |-> "ADMIN"] \in User
    BY <1>1 DEF User, Role
  <1>3. users[creators[o]] = [org |-> o, role |-> "ADMIN"]
    BY DEF IInv, OrgHasAdmin
  <1>4. QED
    BY <1>1, <1>2, <1>3, NoneAssumption

LEMMA MembersAreUsers ==
  ASSUME IInv, NEW i \in used
  PROVE  i \in Invite /\ invites[i].email \in Email /\ users[invites[i].email] # None
  <1>1. i \in Invite /\ invites[i] \in InviteRow
    BY DEF IInv, TypeOK, RowsHold
  <1>2. [org |-> invites[i].org, role |-> invites[i].role] \in User
    BY <1>1 DEF InviteRow, User
  <1>3. users[invites[i].email] = [org |-> invites[i].org, role |-> invites[i].role]
    BY DEF IInv, InviteMakesItsMember
  <1>4. QED
    BY <1>1, <1>2, <1>3, NoneAssumption DEF InviteRow

(* A code is redeemed: its address had no user, so no used code has it.    *)
LEMMA RedeemKeeps ==
  ASSUME IInv, NEW a \in Actor, Redeem(a)
  PROVE  IInv'
  <1> USE DEF history, rows
  <1> DEFINE i == op[a].invite
             e == op[a].email
             user == [org |-> invites[i].org, role |-> invites[i].role]
  <1>1. CASE Taken(e)
    BY <1>1, AnswersKeep DEF Redeem, IInv, TypeOK
  <1>2. CASE ~Taken(e)
    <2>1. op[a] \in Op /\ OpHolds(op[a]) /\ op[a].kind = "join" /\ op[a].at = "checked"
      BY DEF IInv, TypeOK, OpsHold, Redeem, At
    <2>2. i \in Invite /\ i <= count /\ e \in Email /\ invites[i].email = e
      BY <2>1 DEF OpHolds
    <2>3. invites[i] \in InviteRow /\ invites[i].org \in founded
      BY <2>2 DEF IInv, RowsHold
    <2>4. user \in User /\ user # None /\ user.org = invites[i].org
      BY <2>3, NoneAssumption DEF InviteRow, User
    <2>5. /\ op' \in [Actor -> Op] /\ op'[a] = Idle
          /\ \A b \in Actor \ {a} : op'[b] = op[b]
      BY IdleTyped DEF Redeem, Answer, IInv, TypeOK
    <2>6. /\ users'[e] = user /\ \A x \in Email \ {e} : users'[x] = users[x]
          /\ origin'[e] = i /\ \A x \in Email \ {e} : origin'[x] = origin[x]
          /\ used' = used \cup {i}
      BY <1>2, <2>2 DEF Redeem, IInv, TypeOK
    <2>7. TypeOK'
      BY <1>2, <2>2, <2>4, <2>5 DEF IInv, TypeOK, Redeem
    <2>8. users[e] = None
      BY <1>2 DEF Taken
    <2>9. OpsHold'
      BY <2>5 DEF IInv, OpsHold, OpHolds, Redeem, Idle
    <2>10. RowsHold'
      BY <2>2, <2>6 DEF IInv, RowsHold, Redeem
    <2>11. OneFounder' /\ OneInvitation'
      BY <2>5 DEF IInv, OneFounder, OneInvitation, Redeem, Idle
    <2> HIDE DEF i, e, user
    <2>12. OrgHasAdmin'
      <3>1. \A o \in founded : creators[o] \in Email \ {e}
        BY <2>8, AdminsAreUsers
      <3>2. \A x \in Email : users'[x] # None => users'[x].org \in founded
        BY <2>3, <2>4, <2>6 DEF IInv, OrgHasAdmin, Taken
      <3>3. \A o \in founded : users'[creators[o]] = users[creators[o]]
        BY <3>1, <2>6
      <3>4. QED
        BY <3>2, <3>3 DEF IInv, OrgHasAdmin, Taken, Redeem
    <2>13. \A j \in used : j \in Invite /\ invites[j].email \in Email \ {e}
      BY <2>8, MembersAreUsers
    <2>14. InviteMakesItsMember'
      <3>1. \A j \in used' : /\ origin'[invites[j].email] = j
                             /\ users'[invites[j].email] = [org |-> invites[j].org, role |-> invites[j].role]
        BY <2>2, <2>6, <2>13 DEF IInv, InviteMakesItsMember, user
      <3>2. \A x \in Email : users'[x] # None => origin'[x] \in used' \/ creators[users'[x].org] = x
        BY <2>6 DEF IInv, InviteMakesItsMember, Taken
      <3>3. QED
        BY <3>1, <3>2 DEF InviteMakesItsMember, Taken, Redeem
    <2>15. Outstanding' \subseteq Outstanding
      BY <2>6 DEF Outstanding, Redeem
    <2>16. Cleared'
      BY <2>5, <2>15 DEF IInv, Cleared, At, Redeem, Idle
    <2>17. OneValidCode'
      BY <2>15 DEF IInv, OneValidCode, Redeem
    <2>18. QED
      BY <2>7, <2>9, <2>10, <2>11, <2>12, <2>14, <2>16, <2>17 DEF IInv
  <1>3. QED
    BY <1>1, <1>2

(* An organization is founded with its admin, or not at all.               *)
LEMMA CreateWithAdminKeeps ==
  ASSUME IInv, NEW a \in Actor, CreateWithAdmin(a)
  PROVE  IInv'
  <1> USE DEF history, rows
  <1> DEFINE o == op[a].org
             e == op[a].email
             user == [org |-> o, role |-> "ADMIN"]
  <1>1. CASE Taken(e)
    BY <1>1, AnswersKeep DEF CreateWithAdmin, IInv, TypeOK
  <1>2. CASE ~Taken(e)
    <2>1. op[a] \in Op /\ OpHolds(op[a]) /\ op[a].kind = "signup"
      BY DEF IInv, TypeOK, OpsHold, CreateWithAdmin, At
    <2>2. o \in Org \ founded /\ e \in Email /\ user \in User /\ user # None /\ user.org = o
      BY <2>1, NoneAssumption DEF OpHolds, User, Role
    <2>3. /\ op' \in [Actor -> Op] /\ op'[a] = Idle
          /\ \A b \in Actor \ {a} : op'[b] = op[b]
      BY IdleTyped DEF CreateWithAdmin, Answer, IInv, TypeOK
    <2>4. /\ users'[e] = user /\ \A x \in Email \ {e} : users'[x] = users[x]
          /\ creators'[o] = e /\ \A x \in Org \ {o} : creators'[x] = creators[x]
          /\ founded' = founded \cup {o}
      BY <1>2, <2>2 DEF CreateWithAdmin, IInv, TypeOK
    <2>5. TypeOK'
      BY <1>2, <2>2, <2>3 DEF IInv, TypeOK, CreateWithAdmin
    <2>6. users[e] = None
      BY <1>2 DEF Taken
    <2>7. \A b \in Actor \ {a} : op[b].kind = "signup" => op[b].org # o
      BY <2>1 DEF IInv, OneFounder
    <2> HIDE DEF o, e, user
    <2>8. OpsHold'
      <3> SUFFICES ASSUME NEW b \in Actor PROVE OpHolds(op[b])'
        BY DEF OpsHold
      <3>1. CASE b = a
        BY <3>1, <2>3 DEF Idle, OpHolds
      <3>2. CASE b # a
        BY <3>2, <2>3, <2>4, <2>7 DEF OpHolds, IInv, OpsHold, CreateWithAdmin
      <3>3. QED
        BY <3>1, <3>2
    <2>9. RowsHold'
      BY <2>4 DEF IInv, RowsHold, CreateWithAdmin
    <2>10. OneFounder' /\ OneInvitation'
      BY <2>3 DEF IInv, OneFounder, OneInvitation, CreateWithAdmin, Idle
    <2>11. OrgHasAdmin'
      <3>1. \A x \in founded : creators[x] \in Email \ {e} /\ x \in Org \ {o}
        BY <2>2, <2>6, AdminsAreUsers
      <3>2. \A x \in Email : users'[x] # None => users'[x].org \in founded'
        BY <2>2, <2>4 DEF IInv, OrgHasAdmin, Taken
      <3>3. \A x \in founded' : creators'[x] # None /\ users'[creators'[x]] = [org |-> x, role |-> "ADMIN"]
        <4>1. creators'[o] # None /\ users'[creators'[o]] = [org |-> o, role |-> "ADMIN"]
          BY <2>2, <2>4, NoneAssumption DEF user
        <4>2. \A x \in founded : creators'[x] = creators[x] /\ users'[creators'[x]] = users[creators[x]]
          BY <3>1, <2>4
        <4>3. QED
          BY <4>1, <4>2, <2>4 DEF IInv, OrgHasAdmin
      <3>4. QED
        BY <3>2, <3>3 DEF OrgHasAdmin, Taken
    <2>12. \A j \in used : j \in Invite /\ invites[j].email \in Email \ {e}
      BY <2>6, MembersAreUsers
    <2>13. InviteMakesItsMember'
      <3>1. \A j \in used : /\ origin[invites[j].email] = j
                            /\ users'[invites[j].email] = [org |-> invites[j].org, role |-> invites[j].role]
        BY <2>4, <2>12 DEF IInv, InviteMakesItsMember
      <3>2. \A x \in Email \ {e} : users[x] # None => users[x].org \in Org \ {o}
        BY <2>2 DEF IInv, OrgHasAdmin, Taken, TypeOK
      <3>3. \A x \in Email : users'[x] # None => origin[x] \in used \/ creators'[users'[x].org] = x
        BY <3>2, <2>2, <2>4 DEF IInv, InviteMakesItsMember, Taken
      <3>4. QED
        BY <3>1, <3>3 DEF InviteMakesItsMember, Taken, CreateWithAdmin
    <2>14. Cleared'
      BY <2>3 DEF IInv, Cleared, At, Outstanding, CreateWithAdmin, Idle
    <2>15. OneValidCode'
      BY DEF IInv, OneValidCode, Outstanding, CreateWithAdmin
    <2>16. QED
      BY <2>5, <2>8, <2>9, <2>10, <2>11, <2>13, <2>14, <2>15 DEF IInv
  <1>3. QED
    BY <1>1, <1>2

-----------------------------------------------------------------------------
LEMMA InitHolds == Init => IInv
  <1> SUFFICES ASSUME Init PROVE IInv
    OBVIOUS
  <1> USE DEF Init
  <1>1. TypeOK
    BY IdleTyped, BoundAssumption DEF TypeOK
  <1>2. OpsHold /\ OneFounder /\ OneInvitation /\ Cleared
    BY IdleTyped DEF OpsHold, OneFounder, OneInvitation, Cleared, At, Idle
  <1>3. RowsHold
    BY DEF RowsHold, Invite
  <1>4. OrgHasAdmin /\ InviteMakesItsMember
    BY DEF OrgHasAdmin, InviteMakesItsMember, Taken
  <1>5. OneValidCode
    BY DEF OneValidCode, Outstanding
  <1>6. QED
    BY <1>1, <1>2, <1>3, <1>4, <1>5 DEF IInv

LEMMA StepsKeep == IInv /\ [Next]_vars => IInv'
  <1> SUFFICES ASSUME IInv, [Next]_vars PROVE IInv'
    OBVIOUS
  <1>1. ASSUME NEW a \in Actor, Step(a)
        PROVE  IInv'
    BY <1>1, ReadsKeep, ExpireOutstandingKeeps, CreateInviteKeeps, RevokeKeeps, RedeemKeeps,
       CreateWithAdminKeeps DEF Step
  <1>2. CASE UNCHANGED vars
    <2> USE <1>2 DEF vars, rows, history
    <2>1. TypeOK' /\ OpsHold' /\ RowsHold' /\ OneFounder' /\ OneInvitation'
      BY DEF IInv, TypeOK, OpsHold, OpHolds, RowsHold, OneFounder, OneInvitation
    <2>2. OrgHasAdmin' /\ InviteMakesItsMember' /\ Cleared' /\ OneValidCode'
      BY DEF IInv, OrgHasAdmin, InviteMakesItsMember, Taken, Cleared, At, OneValidCode, Outstanding
    <2>3. QED
      BY <2>1, <2>2 DEF IInv
  <1>3. QED
    BY <1>1, <1>2, ArrivalsKeep, FailuresKeep, ExpireKeeps DEF Next

LEMMA Invariant == Spec => []IInv
  BY InitHolds, StepsKeep, PTL DEF Spec

(* Every request is at a statement of its handler with what it has read,   *)
(* and the tables keep the shapes their columns allow.                     *)
THEOREM InvitesTypeCorrect == Spec => []TypeOK
  <1>1. IInv => TypeOK
    BY DEF IInv
  <1>2. QED
    BY <1>1, Invariant, PTL

(* createWithAdmin is one transaction: an organization is never seen       *)
(* without its admin, nor a user without an organization.                  *)
THEOREM OrganizationsHaveAdmins == Spec => []OrgHasAdmin
  <1>1. IInv => OrgHasAdmin
    BY DEF IInv
  <1>2. QED
    BY <1>1, Invariant, PTL

(* Whichever redemptions, invitations, revocations and failures race, a    *)
(* used code made the one member it was issued for, and an address has one *)
(* valid code of an organization unless two invitations of it overlapped.  *)
THEOREM CodesAdmitWhomTheyName == Spec => []CodesMakeTheirMembers
  <1>1. IInv => CodesMakeTheirMembers
    BY DEF IInv, CodesMakeTheirMembers
  <1>2. QED
    BY <1>1, Invariant, PTL
=============================================================================

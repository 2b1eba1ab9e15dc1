------------------------------- MODULE Identity -------------------------------
(***************************************************************************)
(* One organization: its members and their roles, its invitations, and the *)
(* sessions that are opened by a password, an OIDC callback, an accepted    *)
(* invitation or a switch of organization, and passed on by refreshing.     *)
(*                                                                         *)
(* A request runs several transactions and looks at nothing again in the    *)
(* next: it is authorized in one, reads in another, and writes what it has  *)
(* computed from that.                                                     *)
(***************************************************************************)
EXTENDS Integers, FiniteSets

CONSTANTS
  Person,
  Founder,     \* who created the organization
  Caller,      \* requests, each in a thread of its own
  Session,     \* session ids, never used twice
  Password,    \* sign-ins by password and switches of organization
  OIDCState,   \* OIDC authorizations
  Invitation,
  Bounds,      \* how much of each kind may happen in a behaviour
  None

Login == Password \cup OIDCState \cup Invitation
Event == {"login", "refresh", "logout", "update", "invite", "accept", "crash"}

Role == {"admin", "employee"}
Standing == {"active", "suspended"}
Member == [role : Role, status : Standing]
Invited == [person : Person, role : Role,
            status : {"pending", "overdue", "expired", "revoked", "accepted"}]
Opened == [person : Person, login : Login, status : {"live", "expired", "revoked"}]

ASSUME IdentityAssumption ==
  /\ Founder \in Person
  /\ Password \cap OIDCState = {}
  /\ Invitation \cap (Password \cup OIDCState) = {}
  /\ None \notin Person \cup Session \cup Login \cup Member \cup Invited \cup Opened
  /\ Bounds \subseteq [Event -> Nat]

VARIABLES
  member,      \* organization_memberships
  invitation,  \* organization_invitations
  session,     \* auth_sessions, by login: the row and what it was opened with
  login,       \* the passwords and OIDC states that were used or started
  call,        \* the locals of each request
  crossed,     \* a membership was written from a reading that was no longer true
  left         \* how much of each kind may still happen

identityVars == <<member, invitation, session, login, call, crossed, left>>

Phase == {"idle", "load", "create", "rotate", "logout", "verify", "authorized",
          "write", "inviting", "accept"}
Locals == [pc : Phase, who : Person \cup {None}, at : Person \cup Session \cup Login \cup {None},
           row : Member \cup {None}, stale : BOOLEAN, seen : SUBSET Invitation]
NoCall == [pc |-> "idle", who |-> None, at |-> None, row |-> None, stale |-> FALSE, seen |-> {}]

IdentityTypeOK ==
  /\ member \in [Person -> Member \cup {None}]
  /\ invitation \in [Invitation -> Invited \cup {None}]
  /\ session \in [Session -> Opened \cup {None}]
  /\ login \in [Password \cup OIDCState -> {"new", "open", "used"}]
  /\ call \in [Caller -> Locals]
  /\ \A c \in Caller :
       /\ call[c].pc \in {"load", "create"} => call[c].who \in Person /\ call[c].at \in Login
       /\ call[c].pc \in {"rotate", "logout"} => call[c].at \in Session /\ session[call[c].at] # None
       /\ call[c].pc = "verify" => call[c].at \in OIDCState
       /\ call[c].pc = "write" => call[c].who \in Person /\ call[c].row \in Member
       /\ call[c].pc = "inviting" =>
            /\ call[c].who \in Person
            /\ \A i \in call[c].seen : invitation[i] # None
       /\ call[c].pc = "accept" => call[c].at \in Invitation /\ invitation[call[c].at] # None
  /\ crossed \in BOOLEAN
  /\ left \in [Event -> Nat]

(* create_organization: its creator is its first admin. *)
IdentityInit ==
  /\ member = [p \in Person |-> IF p = Founder THEN [role |-> "admin", status |-> "active"] ELSE None]
  /\ invitation = [i \in Invitation |-> None]
  /\ session = [s \in Session |-> None]
  /\ login = [l \in Password \cup OIDCState |-> "new"]
  /\ call = [c \in Caller |-> NoCall]
  /\ crossed = FALSE
  /\ left \in Bounds

At(c, p) == call[c].pc = p
Enter(c, r) == At(c, "idle") /\ call' = [call EXCEPT ![c] = r]
Go(c, r) == call' = [call EXCEPT ![c] = r]
Return(c) == call' = [call EXCEPT ![c] = NoCall]
Spend(e) == left[e] > 0 /\ left' = [left EXCEPT ![e] = @ - 1]

Active(p) == member[p] # None /\ member[p].status = "active"
ActiveAdmins == {p \in Person : Active(p) /\ member[p].role = "admin"}

(* get_session_user: the session and the membership are looked up together, *)
(* at every request.                                                       *)
Usable(s) == session[s] # None /\ session[s].status = "live" /\ Active(session[s].person)

Opening(p, l) == [NoCall EXCEPT !.pc = "create", !.who = p, !.at = l]
Loading(p, l) == [Opening(p, l) EXCEPT !.pc = "load"]
-----------------------------------------------------------------------------
(* Signing in. *)

SignIn(c, p, l) ==
  /\ Spend("login")
  /\ login[l] = "new"
  /\ Active(p)
  /\ login' = [login EXCEPT ![l] = "used"]
  /\ Enter(c, Opening(p, l))
  /\ UNCHANGED <<member, invitation, session, crossed>>

(* switch_organization opens a session of its own beside the one in use. *)
Switch(c, s, l) ==
  /\ Spend("login")
  /\ login[l] = "new"
  /\ Usable(s)
  /\ login' = [login EXCEPT ![l] = "used"]
  /\ Enter(c, Loading(session[s].person, l))
  /\ UNCHANGED <<member, invitation, session, crossed>>

StartOIDC(l) ==
  /\ Spend("login")
  /\ login[l] = "new"
  /\ login' = [login EXCEPT ![l] = "open"]
  /\ UNCHANGED <<member, invitation, session, call, crossed>>

(* complete_authorization deletes the state before it awaits anything. *)
ConsumeState(c, l) ==
  /\ login[l] = "open"
  /\ login' = [login EXCEPT ![l] = "used"]
  /\ Enter(c, [NoCall EXCEPT !.pc = "verify", !.at = l])
  /\ UNCHANGED <<member, invitation, session, crossed, left>>

(* The provider vouches for an active member, or the callback is refused. *)
VerifyIdentity(c) ==
  /\ At(c, "verify")
  /\ \/ \E p \in Person : Active(p) /\ Go(c, Opening(p, call[c].at))
     \/ Return(c)
  /\ UNCHANGED <<member, invitation, session, login, crossed, left>>

(* get_by_id *)
LoadUser(c) ==
  /\ At(c, "load")
  /\ IF Active(call[c].who) THEN Go(c, Opening(call[c].who, call[c].at)) ELSE Return(c)
  /\ UNCHANGED <<member, invitation, session, login, crossed, left>>

CreateSession(c, s) ==
  /\ At(c, "create")
  /\ session[s] = None
  /\ session' = [session EXCEPT ![s] = [person |-> call[c].who, login |-> call[c].at, status |-> "live"]]
  /\ Return(c)
  /\ UNCHANGED <<member, invitation, login, crossed, left>>
-----------------------------------------------------------------------------
(* rotate_session and revoke_session *)

SessionExpires(s) ==
  /\ session[s] # None
  /\ session[s].status = "live"
  /\ session' = [session EXCEPT ![s].status = "expired"]
  /\ UNCHANGED <<member, invitation, login, call, crossed, left>>

BeginRefresh(c, s) ==
  /\ Spend("refresh")
  /\ session[s] # None
  /\ session[s].status = "live"
  /\ Enter(c, [NoCall EXCEPT !.pc = "rotate", !.at = s])
  /\ UNCHANGED <<member, invitation, session, login, crossed>>

Revoked(s) == session' = [session EXCEPT ![s].status = "revoked"]

(* With a fault: the row count of the update is not looked at. *)
RotateSessionFault(c) ==
  /\ At(c, "rotate")
  /\ LET s == call[c].at IN
       Revoked(s) /\ Go(c, Loading(session[s].person, session[s].login))
  /\ UNCHANGED <<member, invitation, login, crossed, left>>

(* The update holds for one request only: it counts the rows it changed. *)
RotateSession(c) ==
  /\ At(c, "rotate")
  /\ LET s == call[c].at IN
     \/ /\ session[s].status # "revoked"
        /\ Revoked(s)
        /\ Go(c, Loading(session[s].person, session[s].login))
     \/ /\ session[s].status = "revoked"
        /\ Return(c)
        /\ UNCHANGED session
  /\ UNCHANGED <<member, invitation, login, crossed, left>>

BeginLogout(c, s) ==
  /\ Spend("logout")
  /\ Usable(s)
  /\ Enter(c, [NoCall EXCEPT !.pc = "logout", !.at = s])
  /\ UNCHANGED <<member, invitation, session, login, crossed>>

Logout(c) ==
  /\ At(c, "logout")
  /\ Revoked(call[c].at)
  /\ Return(c)
  /\ UNCHANGED <<member, invitation, login, crossed, left>>
-----------------------------------------------------------------------------
(* update_membership *)

BeginUpdate(c, s) ==
  /\ Spend("update")
  /\ Usable(s)
  /\ member[session[s].person].role = "admin"
  /\ Enter(c, [NoCall EXCEPT !.pc = "authorized", !.at = session[s].person])
  /\ UNCHANGED <<member, invitation, session, login, crossed>>

(* With a fault: the count includes nobody but the one who is written. *)
CountAdminsFault(c, p, new) ==
  /\ At(c, "authorized")
  /\ member[p] # None
  /\ ActiveAdmins # {}
  /\ Go(c, [NoCall EXCEPT !.pc = "write", !.who = p, !.row = new])
  /\ UNCHANGED <<member, invitation, session, login, crossed, left>>

(* What the payload does not name is written back as it was read. *)
CountAdmins(c, p, new) ==
  LET row == member[p] IN
  /\ At(c, "authorized")
  /\ row # None
  /\ \/ /\ row.role = "admin" /\ new # [role |-> "admin", status |-> "active"]
        /\ Cardinality(ActiveAdmins) > 1
     \/ row.role # "admin" \/ new = [role |-> "admin", status |-> "active"]
  /\ p = call[c].at => new.status = "active"
  /\ Go(c, [NoCall EXCEPT !.pc = "write", !.who = p, !.row = new])
  /\ UNCHANGED <<member, invitation, session, login, crossed, left>>

(* The last admin, one's own suspension, an unknown member. *)
RefuseUpdate(c) ==
  /\ At(c, "authorized")
  /\ Return(c)
  /\ UNCHANGED <<member, invitation, session, login, crossed, left>>

WriteMember(c) ==
  /\ At(c, "write")
  /\ member' = [member EXCEPT ![call[c].who] = call[c].row]
  /\ call' = [x \in Caller |-> IF x = c THEN NoCall
                               ELSE IF At(x, "write") THEN [call[x] EXCEPT !.stale = TRUE] ELSE call[x]]
  /\ crossed' = (crossed \/ call[c].stale)
  /\ UNCHANGED <<invitation, session, login, left>>
-----------------------------------------------------------------------------
(* create_invitation, list_invitations and accept_invitation *)

Open(i) == invitation[i] # None /\ invitation[i].status \in {"pending", "overdue"}

BeginInvite(c, p) ==
  /\ Spend("invite")
  /\ member[p] = None
  /\ Enter(c, [NoCall EXCEPT !.pc = "inviting", !.who = p,
                             !.seen = {i \in Invitation : Open(i) /\ invitation[i].person = p}])
  /\ UNCHANGED <<member, invitation, session, login, crossed>>

InsertInvitation(c, i, r) ==
  /\ At(c, "inviting")
  /\ invitation[i] = None
  /\ invitation' = [j \in Invitation |->
       IF j = i THEN [person |-> call[c].who, role |-> r, status |-> "pending"]
       ELSE IF j \in call[c].seen /\ Open(j) THEN [invitation[j] EXCEPT !.status = "revoked"]
       ELSE invitation[j]]
  /\ Return(c)
  /\ UNCHANGED <<member, session, login, crossed, left>>

InvitationLapses(i) ==
  /\ invitation[i] # None
  /\ invitation[i].status = "pending"
  /\ invitation' = [invitation EXCEPT ![i].status = "overdue"]
  /\ UNCHANGED <<member, session, login, call, crossed, left>>

ListInvitations ==
  /\ \E i \in Invitation : invitation[i] # None /\ invitation[i].status = "overdue"
  /\ invitation' = [i \in Invitation |->
       IF invitation[i] # None /\ invitation[i].status = "overdue"
       THEN [invitation[i] EXCEPT !.status = "expired"] ELSE invitation[i]]
  /\ UNCHANGED <<member, session, login, call, crossed, left>>

(* An overdue one is refused; that it is marked expired is rolled back by   *)
(* the exception that says so.                                             *)
BeginAccept(c, i) ==
  /\ Spend("accept")
  /\ invitation[i] # None
  /\ invitation[i].status = "pending"
  /\ Enter(c, [NoCall EXCEPT !.pc = "accept", !.at = i])
  /\ UNCHANGED <<member, invitation, session, login, crossed>>

(* With a fault: a second membership is written over the first. *)
AcceptFault(c) ==
  /\ At(c, "accept")
  /\ LET i == call[c].at
         p == invitation[i].person
     IN /\ member' = [member EXCEPT ![p] = [role |-> invitation[i].role, status |-> "active"]]
        /\ invitation' = IF Open(i) THEN [invitation EXCEPT ![i].status = "accepted"] ELSE invitation
        /\ Go(c, Loading(p, i))
  /\ UNCHANGED <<session, login, crossed, left>>

(* The membership is inserted whatever has become of the invitation; a      *)
(* second membership of a person breaks uq_membership_organization_user and *)
(* takes the transaction back.                                             *)
Accept(c) ==
  /\ At(c, "accept")
  /\ LET i == call[c].at
         p == invitation[i].person
     IN \/ /\ member[p] = None
           /\ member' = [member EXCEPT ![p] = [role |-> invitation[i].role, status |-> "active"]]
           /\ invitation' = IF Open(i) THEN [invitation EXCEPT ![i].status = "accepted"] ELSE invitation
           /\ Go(c, Loading(p, i))
        \/ /\ Return(c)      \* already a member, a wrong password, a disabled user
           /\ UNCHANGED <<member, invitation>>
  /\ UNCHANGED <<session, login, crossed, left>>
-----------------------------------------------------------------------------
Crash ==
  /\ Spend("crash")
  /\ call' = [c \in Caller |-> NoCall]
  /\ UNCHANGED <<member, invitation, session, login, crossed>>

IdentityNext ==
  \/ \E c \in Caller :
       \/ \E p \in Person, l \in Password : SignIn(c, p, l)
       \/ \E s \in Session, l \in Password : Switch(c, s, l)
       \/ \E l \in OIDCState : ConsumeState(c, l)
       \/ \E s \in Session :
            CreateSession(c, s) \/ BeginRefresh(c, s) \/ BeginLogout(c, s) \/ BeginUpdate(c, s)
       \/ \E p \in Person : BeginInvite(c, p) \/ \E new \in Member : CountAdmins(c, p, new)
       \/ \E i \in Invitation : BeginAccept(c, i) \/ \E r \in Role : InsertInvitation(c, i, r)
       \/ VerifyIdentity(c) \/ LoadUser(c) \/ RotateSession(c) \/ Logout(c)
       \/ RefuseUpdate(c) \/ WriteMember(c) \/ Accept(c)
  \/ \E l \in OIDCState : StartOIDC(l)
  \/ \E s \in Session : SessionExpires(s)
  \/ \E i \in Invitation : InvitationLapses(i)
  \/ ListInvitations
  \/ Crash

IdentitySpec == IdentityInit /\ [][IdentityNext]_identityVars
-----------------------------------------------------------------------------
(* Of the sessions opened with one password entry, one OIDC state or one    *)
(* invitation, and passed on by refreshing, one at most is not revoked: a   *)
(* refresh token has one successor however many requests present it at the  *)
(* same time, and an OIDC state and an invitation sign in once.             *)
OneSessionPerLogin ==
  \A s, t \in Session :
    /\ session[s] # None /\ session[s].status # "revoked"
    /\ session[t] # None /\ session[t].status # "revoked"
    /\ session[s].login = session[t].login
    => s = t

(* A person joins by one invitation, and one that was used made a member of *)
(* the person it was for.                                                  *)
InvitationGrantsOnce ==
  \A i, j \in Invitation :
    /\ invitation[i] # None /\ invitation[i].status = "accepted"
    /\ invitation[j] # None /\ invitation[j].status = "accepted"
    => /\ member[invitation[i].person] # None
       /\ invitation[i].person = invitation[j].person => i = j

(* No sequence of updates, by whomever and in whatever order, leaves the    *)
(* organization without an active admin, as long as none writes what it     *)
(* computed before another wrote.                                          *)
AdminRetained == crossed \/ ActiveAdmins # {}

(* users.py:415: "An organization must retain at least one active admin.": *)
(* also where two updates have counted before either writes.               *)
AlwaysAnAdmin == ActiveAdmins # {}

(* users.py:526 refuses an invitation that is not pending ("Invitation is   *)
(* invalid or has already been used."): whoever joined has one that reads   *)
(* accepted.  Violated where it is revoked between that check and the        *)
(* INSERT of the membership.                                               *)
MembersInvited ==
  \A p \in Person \ {Founder} : member[p] # None =>
    \E i \in Invitation :
      invitation[i] # None /\ invitation[i].person = p /\ invitation[i].status = "accepted"
=============================================================================

---------------------------- MODULE IdentityProofs ----------------------------
(***************************************************************************)
(* Proofs about Identity: types, one session at most of each sign-in, one    *)
(* membership from one invitation, and an admin that stays.                  *)
(***************************************************************************)
EXTENDS Identity, FiniteSetTheorems, TLAPS

(* What the locals of a request say of the tables. *)
Fits(r) ==
  /\ r.pc \in {"load", "create"} => r.who \in Person /\ r.at \in Login
  /\ r.pc \in {"rotate", "logout"} => r.at \in Session /\ session[r.at] # None
  /\ r.pc = "verify" => r.at \in OIDCState
  /\ r.pc = "write" => r.who \in Person /\ r.row \in Member
  /\ r.pc = "inviting" => r.who \in Person /\ \A i \in r.seen : invitation[i] # None
  /\ r.pc = "accept" => r.at \in Invitation /\ invitation[r.at] # None

Tables ==
  /\ member \in [Person -> Member \cup {None}]
  /\ invitation \in [Invitation -> Invited \cup {None}]
  /\ session \in [Session -> Opened \cup {None}]
  /\ login \in [Password \cup OIDCState -> {"new", "open", "used"}]
  /\ crossed \in BOOLEAN
  /\ left \in [Event -> Nat]

(* No row of the three tables is deleted, sessions and invitations stay     *)
(* whose they were, and what is used up or revoked stays so.                *)
Grows ==
  /\ \A p \in Person : member[p] # None => member'[p] # None
  /\ \A s \in Session : session[s] # None =>
       /\ session'[s] # None /\ session'[s].login = session[s].login
       /\ session[s].status = "revoked" => session'[s].status = "revoked"
  /\ \A i \in Invitation : invitation[i] # None =>
       invitation'[i] # None /\ invitation'[i].person = invitation[i].person
  /\ \A l \in Password \cup OIDCState : login[l] = "used" => login'[l] = "used"

LEMMA TypeParts ==
  IdentityTypeOK <=> Tables /\ call \in [Caller -> Locals] /\ \A c \in Caller : Fits(call[c])
  BY DEF IdentityTypeOK, Tables, Fits

(* Locals that fit do so after any step. *)
LEMMA FitsKept ==
  ASSUME Grows, NEW r \in Locals, Fits(r)
  PROVE  Fits(r)'
  BY DEF Grows, Fits, Locals

(* A step in which c goes on with locals that fit, and the tables keep       *)
(* their types.                                                            *)
LEMMA TypeFrame ==
  ASSUME IdentityTypeOK, Tables', Grows,
         NEW c \in Caller, NEW r \in Locals, Fits(r)',
         call' = [call EXCEPT ![c] = r]
  PROVE  IdentityTypeOK'
  <1>1. call' \in [Caller -> Locals]
    BY TypeParts
  <1>2. ASSUME NEW x \in Caller PROVE Fits(call[x])'
    <2>1. CASE x = c
      BY <2>1, TypeParts
    <2>2. CASE x # c
      <3>1. call'[x] = call[x] /\ call[x] \in Locals /\ Fits(call[x])
        BY <2>2, TypeParts
      <3> DEFINE r2 == call[x]
      <3>2. \A q \in Locals : Fits(q) => Fits(q)'
        BY FitsKept
      <3> QED BY <3>1, <3>2 DEF Fits
    <2> QED BY <2>1, <2>2
  <1> QED BY <1>1, <1>2, TypeParts DEF IdentityTypeOK, Tables, Fits

LEMMA Spending ==
  ASSUME left \in [Event -> Nat], NEW e \in Event, Spend(e)
  PROVE  left' \in [Event -> Nat]
  BY DEF Spend

LEMMA SomeLocals ==
  /\ NoCall \in Locals /\ NoCall.pc = "idle"
  /\ \A p \in Person, l \in Login :
       /\ Opening(p, l) \in Locals /\ Loading(p, l) \in Locals
       /\ Opening(p, l).pc = "create" /\ Opening(p, l).who = p /\ Opening(p, l).at = l
       /\ Loading(p, l).pc = "load" /\ Loading(p, l).who = p /\ Loading(p, l).at = l
  BY DEF NoCall, Locals, Phase, Opening, Loading

LEMMA SomeFit ==
  /\ Fits(NoCall)
  /\ \A p \in Person, l \in Login : Fits(Opening(p, l)) /\ Fits(Loading(p, l))
  BY SomeLocals DEF Fits

LEMMA SomeFitAfter ==
  /\ Fits(NoCall)'
  /\ \A p \in Person, l \in Login : Fits(Opening(p, l))' /\ Fits(Loading(p, l))'
  BY SomeLocals DEF Fits

LEMMA LoginSets == Password \subseteq Login /\ OIDCState \subseteq Login /\ Invitation \subseteq Login
  BY DEF Login
-----------------------------------------------------------------------------
LEMMA SignInTypes ==
  ASSUME IdentityTypeOK, NEW c \in Caller, NEW l \in Password,
         \/ \E p \in Person : SignIn(c, p, l)
         \/ \E s \in Session : Switch(c, s, l)
  PROVE  IdentityTypeOK' /\ Grows
  <1>1. UNCHANGED <<member, invitation, session, crossed>> /\ Spend("login")
    BY DEF SignIn, Switch
  <1>2. login' = [login EXCEPT ![l] = "used"]
    BY DEF SignIn, Switch
  <1>3. Tables' /\ Grows
    BY <1>1, <1>2, TypeParts, Spending DEF Tables, Grows, Event
  <1>4. PICK p \in Person : call' = [call EXCEPT ![c] = Opening(p, l)] \/ call' = [call EXCEPT ![c] = Loading(p, l)]
    BY TypeParts DEF SignIn, Switch, Enter, Usable, Tables, Opened
  <1> QED BY <1>3, <1>4, TypeFrame, SomeLocals, SomeFitAfter, LoginSets

LEMMA OIDCTypes ==
  ASSUME IdentityTypeOK, NEW l \in OIDCState, StartOIDC(l) \/ \E c \in Caller : ConsumeState(c, l)
  PROVE  IdentityTypeOK' /\ Grows
  <1>1. CASE StartOIDC(l)
    <2>1. Tables' /\ Grows
      BY <1>1, TypeParts, Spending DEF StartOIDC, Tables, Grows, Event
    <2> QED BY <1>1, <2>1, TypeParts DEF StartOIDC, IdentityTypeOK, Tables
  <1>2. ASSUME NEW c \in Caller, ConsumeState(c, l) PROVE IdentityTypeOK' /\ Grows
    <2> DEFINE r == [NoCall EXCEPT !.pc = "verify", !.at = l]
    <2>1. Tables' /\ Grows
      BY <1>2, TypeParts DEF ConsumeState, Tables, Grows
    <2>2. r \in Locals /\ Fits(r)'
      BY LoginSets, SomeLocals DEF NoCall, Locals, Phase, Fits
    <2>3. call' = [call EXCEPT ![c] = r]
      BY <1>2 DEF ConsumeState, Enter
    <2> QED BY <2>1, <2>2, <2>3, TypeFrame
  <1> QED BY <1>1, <1>2

(* A request that ends, or goes on to open a session, and leaves the tables. *)
LEMMA OpeningTypes ==
  ASSUME IdentityTypeOK, NEW c \in Caller, VerifyIdentity(c) \/ LoadUser(c) \/ RefuseUpdate(c)
  PROVE  IdentityTypeOK' /\ Grows
  <1>1. Tables' /\ Grows
    BY TypeParts DEF VerifyIdentity, LoadUser, RefuseUpdate, Tables, Grows
  <1>2. \/ call' = [call EXCEPT ![c] = NoCall]
        \/ \E p \in Person, l \in Login : call' = [call EXCEPT ![c] = Opening(p, l)]
    BY TypeParts, LoginSets DEF VerifyIdentity, LoadUser, RefuseUpdate, Return, Go, At, Fits
  <1> QED BY <1>1, <1>2, TypeFrame, SomeLocals, SomeFitAfter

LEMMA CreateTypes ==
  ASSUME IdentityTypeOK, NEW c \in Caller, NEW s \in Session, CreateSession(c, s)
  PROVE  IdentityTypeOK' /\ Grows
  <1> DEFINE r == [person |-> call[c].who, login |-> call[c].at, status |-> "live"]
  <1>1. r \in Opened
    BY TypeParts DEF CreateSession, At, Fits, Opened
  <1>2. Tables' /\ Grows
    BY <1>1, TypeParts DEF CreateSession, Tables, Grows
  <1>3. call' = [call EXCEPT ![c] = NoCall]
    BY DEF CreateSession, Return
  <1> QED BY <1>2, <1>3, TypeFrame, SomeLocals, SomeFitAfter

LEMMA StatusTypes ==
  ASSUME Tables, NEW s \in Session, session[s] # None, NEW v \in {"live", "expired", "revoked"},
         session[s].status = "live" \/ v = "revoked",
         session' = [session EXCEPT ![s].status = v],
         UNCHANGED <<member, invitation, login, crossed>>, left' \in [Event -> Nat]
  PROVE  Tables' /\ Grows
  <1>1. session[s] \in Opened
    BY DEF Tables
  <1>2. [session[s] EXCEPT !.status = v] \in Opened
    BY <1>1 DEF Opened
  <1>3. [session[s] EXCEPT !.status = v] # None
    BY <1>2, IdentityAssumption
  <1> QED BY <1>2, <1>3 DEF Tables, Grows

LEMMA RotateTypes ==
  ASSUME IdentityTypeOK, NEW c \in Caller, RotateSession(c) \/ Logout(c)
  PROVE  IdentityTypeOK' /\ Grows
  <1> DEFINE s == call[c].at
  <1>1. s \in Session /\ session[s] # None /\ Tables
    BY TypeParts DEF RotateSession, Logout, At, Fits
  <1>2. session[s].person \in Person /\ session[s].login \in Login
    BY <1>1 DEF Tables, Opened
  <1>3. Tables' /\ Grows
    <2>1. CASE UNCHANGED session
      BY <1>1, <2>1 DEF RotateSession, Logout, Tables, Grows
    <2>2. CASE Revoked(s)
      <3>1. left' \in [Event -> Nat] /\ UNCHANGED <<member, invitation, login, crossed>>
        BY <1>1 DEF RotateSession, Logout, Tables
      <3> QED BY <1>1, <2>2, <3>1, StatusTypes DEF Revoked
    <2> QED BY <2>1, <2>2 DEF RotateSession, Logout
  <1>4. \/ call' = [call EXCEPT ![c] = NoCall]
        \/ call' = [call EXCEPT ![c] = Loading(session[s].person, session[s].login)]
    BY DEF RotateSession, Logout, Return, Go
  <1> QED BY <1>2, <1>3, <1>4, TypeFrame, SomeLocals, SomeFitAfter

LEMMA SessionTypes ==
  ASSUME IdentityTypeOK, NEW s \in Session,
         \/ SessionExpires(s)
         \/ \E c \in Caller : BeginRefresh(c, s) \/ BeginLogout(c, s) \/ BeginUpdate(c, s)
  PROVE  IdentityTypeOK' /\ Grows
  <1>1. CASE SessionExpires(s)
    <2>1. Tables' /\ Grows
      BY <1>1, TypeParts, StatusTypes DEF SessionExpires, Tables
    <2>2. \A r \in Locals : Fits(r) => Fits(r)'
      BY <2>1, FitsKept
    <2>3. call' = call
      BY <1>1 DEF SessionExpires
    <2> QED BY <2>1, <2>2, <2>3, TypeParts DEF IdentityTypeOK, Tables, Fits
  <1>2. ASSUME NEW c \in Caller, BeginRefresh(c, s) \/ BeginLogout(c, s) \/ BeginUpdate(c, s)
        PROVE  IdentityTypeOK' /\ Grows
    <2>1. Tables' /\ Grows
      BY <1>2, TypeParts, Spending DEF BeginRefresh, BeginLogout, BeginUpdate, Tables, Grows, Event
    <2>2. PICK r \in Locals : Fits(r) /\ call' = [call EXCEPT ![c] = r]
      <3>1. session[s] \in Opened
        BY <1>2, TypeParts DEF BeginRefresh, BeginLogout, BeginUpdate, Usable, Tables
      <3>2. CASE BeginRefresh(c, s)
        <4> DEFINE r == [NoCall EXCEPT !.pc = "rotate", !.at = s]
        <4>1. r \in Locals /\ r.pc = "rotate" /\ r.at = s
          BY <3>1 DEF NoCall, Locals, Phase, Opened
        <4> QED BY <3>2, <4>1 DEF BeginRefresh, Enter, Fits
      <3>3. CASE BeginLogout(c, s)
        <4> DEFINE r == [NoCall EXCEPT !.pc = "logout", !.at = s]
        <4>1. r \in Locals /\ r.pc = "logout" /\ r.at = s
          BY <3>1 DEF NoCall, Locals, Phase, Opened
        <4> QED BY <3>3, <4>1 DEF BeginLogout, Usable, Enter, Fits
      <3>4. CASE BeginUpdate(c, s)
        <4> DEFINE r == [NoCall EXCEPT !.pc = "authorized", !.at = session[s].person]
        <4>1. r \in Locals /\ r.pc = "authorized" /\ r.at = session[s].person
          BY <3>1 DEF NoCall, Locals, Phase, Opened
        <4> QED BY <3>4, <4>1 DEF BeginUpdate, Enter, Fits
      <3> QED BY <1>2, <3>2, <3>3, <3>4
    <2> QED BY <2>1, <2>2, TypeFrame, FitsKept
  <1> QED BY <1>1, <1>2

LEMMA UpdateTypes ==
  ASSUME IdentityTypeOK, NEW c \in Caller, NEW p \in Person, NEW new \in Member, CountAdmins(c, p, new)
  PROVE  IdentityTypeOK' /\ Grows
  <1> DEFINE r == [NoCall EXCEPT !.pc = "write", !.who = p, !.row = new]
  <1>1. r \in Locals /\ Fits(r)'
    BY DEF NoCall, Locals, Phase, Fits
  <1>2. Tables' /\ Grows
    BY TypeParts DEF CountAdmins, Tables, Grows
  <1>3. call' = [call EXCEPT ![c] = r]
    BY DEF CountAdmins, Go
  <1> QED BY <1>1, <1>2, <1>3, TypeFrame

LEMMA WriteTypes ==
  ASSUME IdentityTypeOK, NEW c \in Caller, WriteMember(c)
  PROVE  IdentityTypeOK' /\ Grows
  <1>1. call[c].who \in Person /\ call[c].row \in Member /\ call[c].row # None
    BY TypeParts, IdentityAssumption DEF WriteMember, At, Fits
  <1>2. call[c].stale \in BOOLEAN
    BY TypeParts DEF Locals
  <1>3. Tables' /\ Grows
    BY <1>1, <1>2, TypeParts DEF WriteMember, Tables, Grows
  <1>4. ASSUME NEW x \in Caller PROVE call'[x] \in Locals /\ Fits(call[x])'
    <2>1. call[x] \in Locals /\ Fits(call[x])
      BY TypeParts
    <2>2. \/ call'[x] = NoCall \/ call'[x] = call[x]
          \/ call[x].pc = "write" /\ call'[x] = [call[x] EXCEPT !.stale = TRUE]
      BY DEF WriteMember, At
    <2>3. CASE call'[x] = NoCall
      BY <2>3, SomeLocals DEF Fits
    <2>4. CASE call'[x] = call[x]
      BY <1>3, <2>1, <2>4 DEF Fits, Grows, Locals
    <2>5. CASE call[x].pc = "write" /\ call'[x] = [call[x] EXCEPT !.stale = TRUE]
      BY <2>1, <2>5 DEF Fits, Locals
    <2> QED BY <2>2, <2>3, <2>4, <2>5
  <1>5. call' \in [Caller -> Locals]
    BY <1>4 DEF WriteMember
  <1> QED BY <1>3, <1>4, <1>5 DEF IdentityTypeOK, Tables, Fits

LEMMA InviteTypes ==
  ASSUME IdentityTypeOK, NEW c \in Caller, NEW p \in Person, BeginInvite(c, p)
  PROVE  IdentityTypeOK' /\ Grows
  <1> DEFINE q == [NoCall EXCEPT !.pc = "inviting", !.who = p,
                                 !.seen = {i \in Invitation : Open(i) /\ invitation[i].person = p}]
  <1>1. q \in Locals /\ q.pc = "inviting" /\ q.who = p /\ \A i \in q.seen : invitation[i] # None
    BY DEF NoCall, Locals, Phase, Open
  <1>2. call' = [call EXCEPT ![c] = q]
    BY DEF BeginInvite, Enter
  <1>3. PICK r \in Locals : /\ call' = [call EXCEPT ![c] = r]
                            /\ r.pc = "inviting" /\ r.who = p /\ \A i \in r.seen : invitation[i] # None
    BY <1>1, <1>2
  <1>4. Fits(r)'
    BY <1>3 DEF Fits, BeginInvite
  <1>5. Tables' /\ Grows
    BY TypeParts, Spending DEF BeginInvite, Tables, Grows, Event
  <1> QED BY <1>3, <1>4, <1>5, TypeFrame

(* An invitation whose status changes is one still. *)
LEMMA InvitedStatus ==
  ASSUME Tables, NEW i \in Invitation, invitation[i] # None,
         NEW v \in {"pending", "overdue", "expired", "revoked", "accepted"}
  PROVE  /\ [invitation[i] EXCEPT !.status = v] \in Invited
         /\ [invitation[i] EXCEPT !.status = v] # None
         /\ [invitation[i] EXCEPT !.status = v].person = invitation[i].person
  <1>1. invitation[i] \in Invited
    BY DEF Tables
  <1>2. [invitation[i] EXCEPT !.status = v] \in Invited
        /\ [invitation[i] EXCEPT !.status = v].person = invitation[i].person
    BY <1>1 DEF Invited
  <1> QED BY <1>2, IdentityAssumption

LEMMA InsertTypes ==
  ASSUME IdentityTypeOK, NEW c \in Caller, NEW i \in Invitation, NEW r \in Role, InsertInvitation(c, i, r)
  PROVE  IdentityTypeOK' /\ Grows
  <1> DEFINE n == [person |-> call[c].who, role |-> r, status |-> "pending"]
  <1>1. Tables
    BY TypeParts
  <1>2. n \in Invited
    BY TypeParts DEF InsertInvitation, At, Fits, Invited
  <1>3. ASSUME NEW j \in Invitation
        PROVE  /\ invitation'[j] \in Invited \cup {None}
               /\ invitation[j] # None => invitation'[j] # None /\ invitation'[j].person = invitation[j].person
    BY <1>1, <1>2, InvitedStatus DEF InsertInvitation, Open, Tables
  <1>4. Tables' /\ Grows
    BY <1>1, <1>3 DEF InsertInvitation, Tables, Grows
  <1>5. call' = [call EXCEPT ![c] = NoCall]
    BY DEF InsertInvitation, Return
  <1> QED BY <1>4, <1>5, TypeFrame, SomeLocals, SomeFitAfter

(* Time and the listing of invitations. *)
LEMMA LapseTypes ==
  ASSUME IdentityTypeOK, ListInvitations \/ \E i \in Invitation : InvitationLapses(i)
  PROVE  IdentityTypeOK' /\ Grows
  <1>1. Tables
    BY TypeParts
  <1>2. ASSUME NEW j \in Invitation
        PROVE  /\ invitation'[j] \in Invited \cup {None}
               /\ invitation[j] # None => invitation'[j] # None /\ invitation'[j].person = invitation[j].person
    BY <1>1, InvitedStatus DEF ListInvitations, InvitationLapses, Tables
  <1>3. invitation' \in [Invitation -> Invited \cup {None}]
    <2>1. CASE ListInvitations
      BY <1>2, <2>1 DEF ListInvitations
    <2>2. CASE \E i \in Invitation : InvitationLapses(i)
      BY <1>1, <1>2, <2>2 DEF InvitationLapses, Tables
    <2> QED BY <2>1, <2>2
  <1>4. UNCHANGED <<member, session, login, call, crossed, left>>
    BY DEF ListInvitations, InvitationLapses
  <1>5. Tables' /\ Grows
    BY <1>1, <1>2, <1>3, <1>4 DEF Tables, Grows
  <1>6. \A r \in Locals : Fits(r) => Fits(r)'
    BY <1>5, FitsKept
  <1> QED BY <1>4, <1>5, <1>6, TypeParts DEF IdentityTypeOK, Tables, Fits

LEMMA AcceptTypes ==
  ASSUME IdentityTypeOK, NEW c \in Caller,
         Accept(c) \/ \E i \in Invitation : BeginAccept(c, i)
  PROVE  IdentityTypeOK' /\ Grows
  <1> DEFINE i == call[c].at
             p == invitation[i].person
  <1>1. Tables
    BY TypeParts
  <1>2. CASE Accept(c)
    <2>1. i \in Invitation /\ invitation[i] # None
      BY <1>2, TypeParts DEF Accept, At, Fits
    <2>2. invitation[i] \in Invited /\ p \in Person /\ i \in Login
      BY <1>1, <2>1, LoginSets DEF Tables, Invited
    <2>3. [role |-> invitation[i].role, status |-> "active"] \in Member
      BY <2>2 DEF Invited, Member, Standing
    <2>4. Tables' /\ Grows
      <3>1. member' = [member EXCEPT ![p] = [role |-> invitation[i].role, status |-> "active"]] \/ member' = member
        BY <1>2 DEF Accept
      <3>2. invitation' = [invitation EXCEPT ![i].status = "accepted"] \/ invitation' = invitation
        BY <1>2 DEF Accept
      <3>3. member' \in [Person -> Member \cup {None}] /\ \A q \in Person : member[q] # None => member'[q] # None
        BY <1>1, <2>2, <2>3, <3>1, IdentityAssumption DEF Tables
      <3>4. invitation' \in [Invitation -> Invited \cup {None}]
            /\ \A j \in Invitation : invitation[j] # None => invitation'[j] # None /\ invitation'[j].person = invitation[j].person
        BY <1>1, <2>1, <3>2, InvitedStatus DEF Tables
      <3> QED BY <1>1, <1>2, <3>3, <3>4 DEF Accept, Tables, Grows
    <2>5. call' = [call EXCEPT ![c] = NoCall] \/ call' = [call EXCEPT ![c] = Loading(p, i)]
      BY <1>2 DEF Accept, Return, Go
    <2> QED BY <2>2, <2>4, <2>5, TypeFrame, SomeLocals, SomeFitAfter
  <1>3. ASSUME NEW j \in Invitation, BeginAccept(c, j) PROVE IdentityTypeOK' /\ Grows
    <2> DEFINE r == [NoCall EXCEPT !.pc = "accept", !.at = j]
    <2>1. r \in Locals /\ r.pc = "accept" /\ r.at = j
      BY LoginSets DEF NoCall, Locals, Phase
    <2>2. Fits(r)'
      BY <1>3, <2>1 DEF BeginAccept, Fits
    <2>3. Tables' /\ Grows
      BY <1>1, <1>3, Spending DEF BeginAccept, Tables, Grows, Event
    <2>4. call' = [call EXCEPT ![c] = r]
      BY <1>3 DEF BeginAccept, Enter
    <2> QED BY <2>1, <2>2, <2>3, <2>4, TypeFrame
  <1> QED BY <1>2, <1>3

LEMMA CrashTypes ==
  ASSUME IdentityTypeOK, Crash
  PROVE  IdentityTypeOK' /\ Grows
  <1>1. Tables' /\ Grows
    BY TypeParts, Spending DEF Crash, Tables, Grows, Event
  <1> QED BY <1>1, SomeLocals DEF Crash, IdentityTypeOK, Tables

(* Every step keeps the types, and no row is deleted by any. *)
LEMMA TypeStep ==
  ASSUME IdentityTypeOK, [IdentityNext]_identityVars
  PROVE  IdentityTypeOK' /\ Grows
  <1>1. CASE UNCHANGED identityVars
    BY <1>1 DEF identityVars, IdentityTypeOK, Grows
  <1> QED BY <1>1, SignInTypes, OIDCTypes, OpeningTypes, CreateTypes, RotateTypes, SessionTypes, UpdateTypes,
             WriteTypes, InviteTypes, InsertTypes, LapseTypes, AcceptTypes, CrashTypes
          DEF IdentityNext
-----------------------------------------------------------------------------
(* A request that is to open a session with l, a session opened with it.     *)
Opens(c, l) == call[c].pc \in {"load", "create", "verify"} /\ call[c].at = l
Of(s, l) == session[s] # None /\ session[s].login = l
Holds(s, l) == Of(s, l) /\ session[s].status # "revoked"

(* l is used up: nothing is opened with it a second time. *)
Begun(l) ==
  \/ l \in Invitation /\ invitation[l] # None /\ member[invitation[l].person] # None
  \/ l \in Password \cup OIDCState /\ login[l] = "used"

(* At any time a sign-in is in one hand: of the request that is to open its  *)
(* session, or of the one session that is not revoked.                       *)
SessionInv ==
  \A l \in Login :
    /\ \A c \in Caller : Opens(c, l) => Begun(l) /\ \A s \in Session : ~Holds(s, l)
    /\ \A s \in Session : Of(s, l) => Begun(l)
    /\ \A c, d \in Caller : Opens(c, l) /\ Opens(d, l) => c = d
    /\ \A s, t \in Session : Holds(s, l) /\ Holds(t, l) => s = t

LEMMA LoginKinds ==
  \A l \in Login : l \in Invitation <=> l \notin Password \cup OIDCState
  BY IdentityAssumption DEF Login

LEMMA BegunKept ==
  ASSUME IdentityTypeOK, Grows, NEW l \in Login, Begun(l)
  PROVE  Begun(l)'
  <1>1. CASE l \in Invitation /\ invitation[l] # None /\ member[invitation[l].person] # None
    <2>1. invitation[l].person \in Person
      BY <1>1 DEF IdentityTypeOK, Invited
    <2> QED BY <1>1, <2>1 DEF Grows, Begun
  <1>2. CASE l \in Password \cup OIDCState /\ login[l] = "used"
    BY <1>2 DEF Grows, Begun
  <1> QED BY <1>1, <1>2 DEF Begun

(* A step that begins no sign-in and opens no session. *)
LEMMA SessionFrame ==
  ASSUME IdentityTypeOK, SessionInv, Grows,
         \A s \in Session : session'[s] # None => session[s] # None,
         \A c \in Caller, l \in Login : Opens(c, l)' => Opens(c, l)
  PROVE  SessionInv'
  <1>1. \A l \in Login : Begun(l) => Begun(l)'
    BY BegunKept
  <1>2. \A s \in Session, l \in Login : (Of(s, l)' => Of(s, l)) /\ (Holds(s, l)' => Holds(s, l))
    BY DEF Grows, Of, Holds
  <1> QED BY <1>1, <1>2 DEF SessionInv

(* A step in which c takes up a sign-in that was not begun. *)
LEMMA BeginFrame ==
  ASSUME IdentityTypeOK, SessionInv, Grows, UNCHANGED session,
         NEW c \in Caller, NEW k \in Login, ~Begun(k), Begun(k)',
         \A d \in Caller, l \in Login : Opens(d, l)' => Opens(d, l) \/ (d = c /\ l = k)
  PROVE  SessionInv'
  <1>1. \A l \in Login : Begun(l) => Begun(l)'
    BY BegunKept
  <1>2. \A s \in Session, l \in Login : (Of(s, l)' <=> Of(s, l)) /\ (Holds(s, l)' <=> Holds(s, l))
    BY DEF Of, Holds
  <1>3. \A d \in Caller : ~Opens(d, k)
    BY DEF SessionInv
  <1>4. \A s \in Session : ~Of(s, k)
    BY DEF SessionInv
  <1> QED BY <1>1, <1>2, <1>3, <1>4 DEF SessionInv, Holds

LEMMA OpensFrame ==
  ASSUME NEW c \in Caller, \A d \in Caller \ {c} : call'[d] = call[d]
  PROVE  \A d \in Caller, l \in Login :
           Opens(d, l)' => IF d = c THEN call'[c].pc \in {"load", "create", "verify"} /\ call'[c].at = l
                           ELSE Opens(d, l)
  BY DEF Opens

LEMMA ReturnFrame ==
  ASSUME IdentityTypeOK, NEW c \in Caller, call' = [call EXCEPT ![c] = NoCall]
  PROVE  \A d \in Caller, l \in Login : Opens(d, l)' <=> (d # c /\ Opens(d, l))
  BY DEF IdentityTypeOK, Opens, NoCall

LEMMA SessionStep ==
  ASSUME IdentityTypeOK, SessionInv, Grows, [IdentityNext]_identityVars
  PROVE  SessionInv'
  <1>1. ASSUME NEW c \in Caller, NEW l \in Password,
               \/ \E p \in Person : SignIn(c, p, l)
               \/ \E s \in Session : Switch(c, s, l)
        PROVE  SessionInv'
    <2>1. ~Begun(l) /\ Begun(l)' /\ UNCHANGED session /\ l \in Login
      BY <1>1, LoginKinds DEF IdentityTypeOK, SignIn, Switch, Begun, IdentityTypeOK, Login
    <2>2. (\A d \in Caller \ {c} : call'[d] = call[d]) /\ call'[c].at = l
      <3>1. ASSUME NEW p \in Person, SignIn(c, p, l) PROVE (\A d \in Caller \ {c} : call'[d] = call[d]) /\ call'[c].at = l
        BY <2>1, <3>1, SomeLocals DEF IdentityTypeOK, SignIn, Enter
      <3>2. ASSUME NEW s \in Session, Switch(c, s, l) PROVE (\A d \in Caller \ {c} : call'[d] = call[d]) /\ call'[c].at = l
        <4>1. session[s].person \in Person
          BY <3>2 DEF Switch, Usable, IdentityTypeOK, Opened
        <4> QED BY <2>1, <3>2, <4>1, SomeLocals DEF IdentityTypeOK, Switch, Enter
      <3> QED BY <1>1, <3>1, <3>2
    <2>3. \A d \in Caller, m \in Login : Opens(d, m)' => Opens(d, m) \/ (d = c /\ m = l)
      BY <2>2, OpensFrame
    <2> QED BY <2>1, <2>3, BeginFrame
  <1>2. ASSUME NEW c \in Caller, NEW l \in OIDCState, ConsumeState(c, l)
        PROVE  SessionInv'
    <2>1. ~Begun(l) /\ Begun(l)' /\ UNCHANGED session /\ l \in Login
      BY <1>2, LoginKinds DEF IdentityTypeOK, ConsumeState, Begun, IdentityTypeOK, Login
    <2>2. (\A d \in Caller \ {c} : call'[d] = call[d]) /\ call'[c].at = l
      BY <1>2 DEF IdentityTypeOK, ConsumeState, Enter, NoCall
    <2>3. \A d \in Caller, m \in Login : Opens(d, m)' => Opens(d, m) \/ (d = c /\ m = l)
      BY <2>2, OpensFrame
    <2> QED BY <2>1, <2>3, BeginFrame
  <1>3. ASSUME NEW c \in Caller, Accept(c)
        PROVE  SessionInv'
    <2>1. PICK i \in Invitation : i = call[c].at /\ invitation[i] # None /\ i \in Login
      BY <1>3, LoginSets DEF Accept, At, IdentityTypeOK
    <2>2. PICK p \in Person : p = invitation[i].person
      BY <2>1 DEF IdentityTypeOK, Invited
    <2>3. CASE /\ member[p] = None /\ call' = [call EXCEPT ![c] = Loading(p, i)]
               /\ member' = [member EXCEPT ![p] = [role |-> invitation[i].role, status |-> "active"]]
      <3>1. [role |-> invitation[i].role, status |-> "active"] \in Member
        BY <2>1 DEF IdentityTypeOK, Invited, Member, Standing
      <3>2. ~Begun(i)
        BY <2>1, <2>2, <2>3, LoginKinds DEF Begun
      <3>3. member'[p] # None
        BY <2>3, <3>1, IdentityAssumption DEF IdentityTypeOK
      <3>4. Begun(i)'
        BY <2>1, <2>2, <3>3 DEF Begun, Grows
      <3>5. (\A d \in Caller \ {c} : call'[d] = call[d]) /\ call'[c].at = i
        BY <2>3 DEF IdentityTypeOK, Loading, Opening, NoCall
      <3>6. \A d \in Caller, m \in Login : Opens(d, m)' => Opens(d, m) \/ (d = c /\ m = i)
        BY <3>5, OpensFrame
      <3>7. UNCHANGED session
        BY <1>3 DEF Accept
      <3> QED BY <2>1, <3>2, <3>4, <3>6, <3>7, BeginFrame
    <2>4. CASE call' = [call EXCEPT ![c] = NoCall]
      <3>1. \A d \in Caller, m \in Login : Opens(d, m)' => Opens(d, m)
        BY <2>4, ReturnFrame
      <3> QED BY <1>3, <3>1, SessionFrame DEF Accept
    <2> QED BY <1>3, <2>1, <2>2, <2>3, <2>4 DEF Accept, Return, Go
  <1>4. ASSUME NEW c \in Caller, NEW s \in Session, CreateSession(c, s)
        PROVE  SessionInv'
    <2> DEFINE k == call[c].at
    <2>1. k \in Login /\ Opens(c, k)
      BY <1>4 DEF CreateSession, At, IdentityTypeOK, Opens
    <2>2. \A d \in Caller, l \in Login : Opens(d, l)' <=> (d # c /\ Opens(d, l))
      BY <1>4, ReturnFrame DEF CreateSession, Return
    <2>3. \A l \in Login : Begun(l) => Begun(l)'
      BY BegunKept
    <2>4. \A t \in Session, l \in Login : t # s => (Of(t, l)' <=> Of(t, l)) /\ (Holds(t, l)' <=> Holds(t, l))
      BY <1>4 DEF CreateSession, IdentityTypeOK, Of, Holds
    <2>5. \A l \in Login : (Of(s, l)' => l = k) /\ (Holds(s, l)' => l = k)
      BY <1>4 DEF CreateSession, IdentityTypeOK, Of, Holds
    <2>6. \A d \in Caller : d # c => ~Opens(d, k)
      BY <2>1 DEF SessionInv
    <2>7. Begun(k) /\ \A t \in Session : ~Holds(t, k)
      BY <2>1 DEF SessionInv
    <2> QED BY <2>1, <2>2, <2>3, <2>4, <2>5, <2>6, <2>7 DEF SessionInv
  <1>5. ASSUME NEW c \in Caller, RotateSession(c)
        PROVE  SessionInv'
    <2>1. PICK s \in Session : s = call[c].at /\ session[s] # None
      BY <1>5 DEF RotateSession, At, IdentityTypeOK
    <2>2. PICK k \in Login : k = session[s].login
      BY <2>1 DEF IdentityTypeOK, Opened
    <2>3. CASE session[s].status # "revoked" /\ Revoked(s) /\ call' = [call EXCEPT ![c] = Loading(session[s].person, k)]
      <3>1. Holds(s, k)
        BY <2>1, <2>2, <2>3 DEF Holds, Of
      <3>2. (\A d \in Caller \ {c} : call'[d] = call[d]) /\ call'[c].at = k
        BY <2>3 DEF IdentityTypeOK, Loading, Opening, NoCall
      <3>3. \A d \in Caller, l \in Login : Opens(d, l)' => IF d = c THEN l = k ELSE Opens(d, l)
        BY <3>2, OpensFrame
      <3>4. \A l \in Login : Begun(l) => Begun(l)'
        BY BegunKept
      <3>5. \A t \in Session, l \in Login : (Of(t, l)' => Of(t, l)) /\ (Holds(t, l)' => Holds(t, l))
        BY <2>1, <2>3 DEF Revoked, IdentityTypeOK, Grows, Of, Holds
      <3>6. \A l \in Login : ~Holds(s, l)'
        BY <2>1, <2>3 DEF Revoked, IdentityTypeOK, Opened, Holds
      <3>7. Begun(k) /\ (\A t \in Session : Holds(t, k) => t = s) /\ \A d \in Caller : ~Opens(d, k)
        BY <3>1 DEF SessionInv, Holds
      <3> QED BY <3>3, <3>4, <3>5, <3>6, <3>7 DEF SessionInv
    <2>4. CASE call' = [call EXCEPT ![c] = NoCall] /\ UNCHANGED session
      <3>1. \A d \in Caller, m \in Login : Opens(d, m)' => Opens(d, m)
        BY <2>4, ReturnFrame
      <3> QED BY <2>4, <3>1, SessionFrame
    <2> QED BY <1>5, <2>1, <2>2, <2>3, <2>4 DEF RotateSession, Return, Go
  <1>6. ASSUME NEW c \in Caller, VerifyIdentity(c) \/ LoadUser(c)
        PROVE  SessionInv'
    <2> DEFINE k == call[c].at
    <2>1. UNCHANGED session /\ k \in Login /\ Opens(c, k)
      BY <1>6, LoginSets DEF VerifyIdentity, LoadUser, At, Opens, IdentityTypeOK
    <2>2. (\A d \in Caller \ {c} : call'[d] = call[d]) /\ (call'[c].pc = "idle" \/ call'[c].at = k)
      <3>1. \/ call' = [call EXCEPT ![c] = NoCall]
            \/ \E p \in Person : call' = [call EXCEPT ![c] = Opening(p, k)]
        BY <1>6 DEF IdentityTypeOK, VerifyIdentity, LoadUser, Return, Go, At
      <3> QED BY <2>1, <3>1, SomeLocals DEF IdentityTypeOK
    <2>3. \A d \in Caller, l \in Login : Opens(d, l)' => Opens(d, l)
      BY <2>1, <2>2, OpensFrame DEF Opens
    <2> QED BY <2>1, <2>3, SessionFrame
  <1>7. ASSUME NEW c \in Caller,
               \/ Logout(c) \/ RefuseUpdate(c)
               \/ \E s \in Session : BeginRefresh(c, s) \/ BeginLogout(c, s) \/ BeginUpdate(c, s)
               \/ \E p \in Person : BeginInvite(c, p) \/ \E new \in Member : CountAdmins(c, p, new)
               \/ \E i \in Invitation : BeginAccept(c, i) \/ \E r \in Role : InsertInvitation(c, i, r)
        PROVE  SessionInv'
    <2>1. \A s \in Session : session'[s] # None => session[s] # None
      BY <1>7 DEF Logout, Revoked, At, RefuseUpdate, BeginRefresh, BeginLogout, BeginUpdate, BeginInvite, CountAdmins,
                 BeginAccept, InsertInvitation, IdentityTypeOK
    <2>2. (\A d \in Caller \ {c} : call'[d] = call[d]) /\ call'[c].pc \notin {"load", "create", "verify"}
      <3>1. CASE Logout(c) \/ RefuseUpdate(c) \/ \E i \in Invitation, r \in Role : InsertInvitation(c, i, r)
        BY <3>1 DEF IdentityTypeOK, Logout, RefuseUpdate, InsertInvitation, Return, NoCall
      <3>2. CASE \E s \in Session : BeginRefresh(c, s) \/ BeginLogout(c, s) \/ BeginUpdate(c, s)
        <4>1. CASE \E s \in Session : BeginRefresh(c, s)
          BY <4>1 DEF IdentityTypeOK, BeginRefresh, Enter, NoCall
        <4>2. CASE \E s \in Session : BeginLogout(c, s)
          BY <4>2 DEF IdentityTypeOK, BeginLogout, Enter, NoCall
        <4>3. CASE \E s \in Session : BeginUpdate(c, s)
          BY <4>3 DEF IdentityTypeOK, BeginUpdate, Enter, NoCall
        <4> QED BY <3>2, <4>1, <4>2, <4>3
      <3>3. CASE \E p \in Person : BeginInvite(c, p) \/ \E new \in Member : CountAdmins(c, p, new)
        <4>1. CASE \E p \in Person : BeginInvite(c, p)
          BY <4>1 DEF IdentityTypeOK, BeginInvite, Enter, NoCall
        <4>2. CASE \E p \in Person, new \in Member : CountAdmins(c, p, new)
          BY <4>2 DEF IdentityTypeOK, CountAdmins, Go, NoCall
        <4> QED BY <3>3, <4>1, <4>2
      <3>4. CASE \E i \in Invitation : BeginAccept(c, i)
        BY <3>4 DEF IdentityTypeOK, BeginAccept, Enter, NoCall
      <3> QED BY <1>7, <3>1, <3>2, <3>3, <3>4
    <2>3. \A d \in Caller, l \in Login : Opens(d, l)' => Opens(d, l)
      BY <2>2, OpensFrame
    <2> QED BY <2>1, <2>3, SessionFrame
  <1>8. ASSUME NEW c \in Caller, WriteMember(c)
        PROVE  SessionInv'
    <2>1. \A d \in Caller : \/ call'[d].pc = "idle"
                            \/ call'[d].pc = call[d].pc /\ call'[d].at = call[d].at
      <3> SUFFICES ASSUME NEW d \in Caller
                   PROVE  call'[d].pc = "idle" \/ (call'[d].pc = call[d].pc /\ call'[d].at = call[d].at)
        OBVIOUS
      <3>1. \/ call'[d] = NoCall \/ call'[d] = call[d]
            \/ call'[d] = [call[d] EXCEPT !.stale = TRUE]
        BY <1>8 DEF WriteMember
      <3>2. call[d] \in Locals
        BY DEF IdentityTypeOK
      <3>3. CASE call'[d] = NoCall
        BY <3>3, SomeLocals
      <3>4. CASE call'[d] = [call[d] EXCEPT !.stale = TRUE]
        BY <3>2, <3>4 DEF Locals
      <3>5. CASE call'[d] = call[d]
        BY <3>5
      <3> QED BY <3>1, <3>3, <3>4, <3>5
    <2>2. \A d \in Caller, l \in Login : Opens(d, l)' => Opens(d, l)
      BY <2>1 DEF Opens
    <2> QED BY <1>8, <2>2, SessionFrame DEF WriteMember
  <1>9. CASE \/ \E l \in OIDCState : StartOIDC(l)
             \/ \E i \in Invitation : InvitationLapses(i)
             \/ ListInvitations \/ Crash \/ UNCHANGED identityVars
    <2>1. UNCHANGED session /\ \A c \in Caller : call'[c] = call[c] \/ call'[c].pc = "idle"
      BY <1>9 DEF StartOIDC, InvitationLapses, ListInvitations, Crash, identityVars, NoCall
    <2>2. \A d \in Caller, l \in Login : Opens(d, l)' => Opens(d, l)
      BY <2>1 DEF Opens
    <2> QED BY <2>1, <2>2, SessionFrame
  <1>10. CASE \E s \in Session : SessionExpires(s)
    <2>1. \A s \in Session : session'[s] # None => session[s] # None
      BY <1>10 DEF SessionExpires, IdentityTypeOK
    <2>2. \A d \in Caller, l \in Login : Opens(d, l)' => Opens(d, l)
      BY <1>10 DEF SessionExpires, Opens
    <2> QED BY <2>1, <2>2, SessionFrame
  <1> QED BY <1>1, <1>2, <1>3, <1>4, <1>5, <1>6, <1>7, <1>8, <1>9, <1>10 DEF IdentityNext
-----------------------------------------------------------------------------
LEMMA InvitationStep ==
  ASSUME IdentityTypeOK, InvitationGrantsOnce, Grows, [IdentityNext]_identityVars
  PROVE  InvitationGrantsOnce'
  <1> DEFINE Used(i) == invitation[i] # None /\ invitation[i].status = "accepted"
  <1>1. ASSUME \A i \in Invitation : Used(i)' => Used(i)
        PROVE  InvitationGrantsOnce'
    <2>1. \A i \in Invitation : Used(i) => invitation[i].person \in Person
      BY DEF IdentityTypeOK, Invited
    <2>2. \A i \in Invitation : Used(i)' => /\ Used(i)
                                            /\ invitation'[i].person = invitation[i].person
                                            /\ member'[invitation[i].person] # None
      BY <1>1, <2>1 DEF Grows, InvitationGrantsOnce
    <2> QED BY <2>2 DEF InvitationGrantsOnce
  <1>2. ASSUME NEW c \in Caller, Accept(c) PROVE InvitationGrantsOnce'
    <2>1. PICK i \in Invitation : i = call[c].at /\ invitation[i] # None
      BY <1>2 DEF Accept, At, IdentityTypeOK
    <2>2. PICK p \in Person : p = invitation[i].person
      BY <2>1 DEF IdentityTypeOK, Invited
    <2>3. CASE UNCHANGED invitation
      BY <1>1, <2>3
    <2>4. CASE /\ invitation' = [invitation EXCEPT ![i].status = "accepted"]
               /\ member[p] = None
               /\ member' = [member EXCEPT ![p] = [role |-> invitation[i].role, status |-> "active"]]
      <3>1. \A j \in Invitation : Used(j) => invitation[j].person # p /\ invitation[j].person \in Person
                                            /\ member[invitation[j].person] # None
        BY <2>4 DEF InvitationGrantsOnce, IdentityTypeOK, Invited
      <3>2. [role |-> invitation[i].role, status |-> "active"] \in Member
        BY <2>1 DEF IdentityTypeOK, Invited, Member, Standing
      <3>3. member'[p] # None
        BY <2>4, <3>2, IdentityAssumption DEF IdentityTypeOK
      <3>4. \A j \in Invitation : j # i => invitation'[j] = invitation[j]
        BY <2>4 DEF IdentityTypeOK
      <3>5. invitation'[i].person = p
        BY <2>1, <2>2 DEF Grows
      <3> QED BY <3>1, <3>3, <3>4, <3>5 DEF InvitationGrantsOnce, Grows
    <2> QED BY <1>2, <2>1, <2>2, <2>3, <2>4 DEF Accept
  <1>3. ASSUME NEW c \in Caller, NEW i \in Invitation, NEW r \in Role, InsertInvitation(c, i, r)
        PROVE  InvitationGrantsOnce'
    <2>1. ASSUME NEW j \in Invitation, Used(j)' PROVE Used(j)
      <3>1. \/ invitation'[j] = invitation[j]
            \/ invitation'[j] = [person |-> call[c].who, role |-> r, status |-> "pending"]
            \/ Open(j) /\ invitation'[j] = [invitation[j] EXCEPT !.status = "revoked"]
        BY <1>3 DEF InsertInvitation
      <3>2. invitation[j] \in Invited \cup {None}
        BY DEF IdentityTypeOK
      <3> QED BY <2>1, <3>1, <3>2 DEF Open, Invited
    <2> QED BY <1>1, <2>1
  <1>4. ASSUME ListInvitations \/ \E i \in Invitation : InvitationLapses(i)
        PROVE  InvitationGrantsOnce'
    <2>1. ASSUME NEW j \in Invitation, Used(j)' PROVE Used(j)
      <3>1. \/ invitation'[j] = invitation[j]
            \/ /\ invitation[j] # None
               /\ \/ invitation'[j] = [invitation[j] EXCEPT !.status = "expired"]
                  \/ invitation'[j] = [invitation[j] EXCEPT !.status = "overdue"]
        BY <1>4 DEF ListInvitations, InvitationLapses, IdentityTypeOK
      <3>2. invitation[j] \in Invited \cup {None}
        BY DEF IdentityTypeOK
      <3> QED BY <2>1, <3>1, <3>2 DEF Invited
    <2> QED BY <1>1, <2>1
  <1>5. CASE UNCHANGED invitation
    BY <1>1, <1>5
  <1>6. \/ UNCHANGED invitation \/ \E c \in Caller : Accept(c)
        \/ \E c \in Caller, i \in Invitation, r \in Role : InsertInvitation(c, i, r)
        \/ ListInvitations \/ \E i \in Invitation : InvitationLapses(i)
    BY DEF IdentityNext, SignIn, Switch, ConsumeState, CreateSession, BeginRefresh, BeginLogout, BeginUpdate,
           BeginInvite, CountAdmins, BeginAccept, VerifyIdentity, LoadUser, RotateSession, Logout, RefuseUpdate,
           WriteMember, StartOIDC, SessionExpires, Crash, identityVars
  <1> QED BY <1>2, <1>3, <1>4, <1>5, <1>6
-----------------------------------------------------------------------------
(* Who is to write a membership from a reading that holds leaves an admin.   *)
AdminInv ==
  \/ crossed
  \/ /\ ActiveAdmins # {}
     /\ \A c \in Caller : call[c].pc = "write" /\ ~call[c].stale =>
          \/ call[c].row = [role |-> "admin", status |-> "active"]
          \/ \E p \in ActiveAdmins : p # call[c].who

LEMMA AdminFrame ==
  ASSUME AdminInv, UNCHANGED crossed, ActiveAdmins \subseteq ActiveAdmins',
         \A c \in Caller : call'[c] = call[c] \/ call'[c].pc # "write"
  PROVE  AdminInv'
  BY DEF AdminInv

LEMMA NoWriter ==
  ASSUME NEW p, NEW l
  PROVE  Opening(p, l).pc = "create" /\ Loading(p, l).pc = "load"
  BY DEF Opening, Loading, NoCall

LEMMA AdminStep ==
  ASSUME IdentityTypeOK, AdminInv, Grows, [IdentityNext]_identityVars
  PROVE  AdminInv'
  <1>1. ASSUME NEW c \in Caller, NEW p \in Person, NEW new \in Member, CountAdmins(c, p, new)
        PROVE  AdminInv'
    <2>1. UNCHANGED <<member, crossed>> /\ ActiveAdmins' = ActiveAdmins
      BY <1>1 DEF CountAdmins, ActiveAdmins, Active
    <2>2. \A x \in Caller : x # c => call'[x] = call[x]
      BY <1>1 DEF CountAdmins, Go, IdentityTypeOK
    <2>3. call'[c].who = p /\ call'[c].row = new
      BY <1>1 DEF CountAdmins, Go, NoCall, IdentityTypeOK
    <2>4. ASSUME ActiveAdmins # {}, new # [role |-> "admin", status |-> "active"]
          PROVE  \E q \in ActiveAdmins : q # p
      <3>1. CASE Cardinality(ActiveAdmins) > 1
        <4>1. ASSUME ActiveAdmins \subseteq {p} PROVE FALSE
          <5>1. ActiveAdmins = {p}
            BY <2>4, <4>1
          <5>2. Cardinality(ActiveAdmins) = 1
            BY <5>1, FS_Singleton
          <5> QED BY <3>1, <5>2
        <4> QED BY <4>1
      <3>2. CASE member[p].role # "admin"
        BY <2>4, <3>2 DEF ActiveAdmins
      <3> QED BY <1>1, <2>4, <3>1, <3>2 DEF CountAdmins
    <2> QED BY <2>1, <2>2, <2>3, <2>4 DEF AdminInv
  <1>2. ASSUME NEW c \in Caller, WriteMember(c)
        PROVE  AdminInv'
    <2>1. PICK p \in Person : p = call[c].who
      BY <1>2 DEF WriteMember, At, IdentityTypeOK
    <2>2. PICK r \in Member : r = call[c].row /\ r # None
      BY <1>2, IdentityAssumption DEF WriteMember, At, IdentityTypeOK
    <2>3. CASE ~crossed /\ ~call[c].stale
      <3>1. ActiveAdmins' # {}
        <4>1. CASE r = [role |-> "admin", status |-> "active"]
          BY <1>2, <2>1, <2>2, <4>1 DEF WriteMember, ActiveAdmins, Active, IdentityTypeOK
        <4>2. ASSUME NEW q \in ActiveAdmins, q # p PROVE ActiveAdmins' # {}
          BY <1>2, <2>1, <4>2 DEF WriteMember, ActiveAdmins, Active, IdentityTypeOK
        <4> QED BY <1>2, <2>1, <2>2, <2>3, <4>1, <4>2 DEF AdminInv, WriteMember, At
      <3>2. ASSUME NEW x \in Caller PROVE call'[x].pc = "write" => call'[x].stale
        <4>1. call[x] \in Locals
          BY DEF IdentityTypeOK
        <4>2. \/ call'[x] = NoCall
              \/ call[x].pc # "write" /\ call'[x] = call[x]
              \/ call'[x] = [call[x] EXCEPT !.stale = TRUE]
          BY <1>2 DEF WriteMember, At
        <4>3. CASE call'[x] = [call[x] EXCEPT !.stale = TRUE]
          BY <4>1, <4>3 DEF Locals
        <4> QED BY <4>2, <4>3, SomeLocals
      <3> QED BY <3>1, <3>2 DEF AdminInv
    <2>4. CASE crossed \/ call[c].stale
      BY <1>2, <2>4 DEF AdminInv, WriteMember
    <2> QED BY <2>3, <2>4
  <1>3. ASSUME NEW c \in Caller, Accept(c)
        PROVE  AdminInv'
    <2>1. \A q \in ActiveAdmins : member'[q] = member[q]
      BY <1>3 DEF Accept, ActiveAdmins, Active, IdentityTypeOK
    <2>2. ActiveAdmins \subseteq ActiveAdmins'
      BY <2>1 DEF ActiveAdmins, Active
    <2>3. call' = [call EXCEPT ![c] = NoCall] \/ \E q, l : call' = [call EXCEPT ![c] = Loading(q, l)]
      BY <1>3 DEF Accept, Return, Go
    <2>4. \A x \in Caller : call'[x] = call[x] \/ call'[x].pc # "write"
      BY <2>3, NoWriter, SomeLocals DEF IdentityTypeOK
    <2> QED BY <1>3, <2>2, <2>4, AdminFrame DEF Accept
  <1>4. ASSUME UNCHANGED <<member, crossed>>,
               \A x \in Caller : call'[x] = call[x] \/ call'[x].pc # "write"
        PROVE  AdminInv'
    BY <1>4, AdminFrame DEF ActiveAdmins, Active
  <1>5. ASSUME NEW c \in Caller,
               \/ \E s \in Session : CreateSession(c, s) \/ BeginRefresh(c, s) \/ BeginLogout(c, s) \/ BeginUpdate(c, s)
               \/ \E p \in Person : BeginInvite(c, p)
               \/ \E i \in Invitation : BeginAccept(c, i) \/ \E r \in Role : InsertInvitation(c, i, r)
               \/ Logout(c) \/ RefuseUpdate(c) \/ \E l \in OIDCState : ConsumeState(c, l)
        PROVE  AdminInv'
    <2>1. UNCHANGED <<member, crossed>>
      BY <1>5 DEF CreateSession, BeginRefresh, BeginLogout, BeginUpdate, BeginInvite, BeginAccept, InsertInvitation,
                 Logout, RefuseUpdate, ConsumeState
    <2>2. \A x \in Caller : call'[x] = call[x] \/ call'[x].pc # "write"
      <3>1. CASE \E s \in Session : CreateSession(c, s)
        BY <3>1 DEF CreateSession, Return, NoCall, IdentityTypeOK
      <3>2. CASE \E s \in Session : BeginRefresh(c, s)
        BY <3>2 DEF BeginRefresh, Enter, NoCall, IdentityTypeOK
      <3>3. CASE \E s \in Session : BeginLogout(c, s)
        BY <3>3 DEF BeginLogout, Enter, NoCall, IdentityTypeOK
      <3>4. CASE \E s \in Session : BeginUpdate(c, s)
        BY <3>4 DEF BeginUpdate, Enter, NoCall, IdentityTypeOK
      <3>5. CASE \E p \in Person : BeginInvite(c, p)
        BY <3>5 DEF BeginInvite, Enter, NoCall, IdentityTypeOK
      <3>6. CASE \E i \in Invitation : BeginAccept(c, i)
        BY <3>6 DEF BeginAccept, Enter, NoCall, IdentityTypeOK
      <3>7. CASE \E i \in Invitation, r \in Role : InsertInvitation(c, i, r)
        BY <3>7 DEF InsertInvitation, Return, NoCall, IdentityTypeOK
      <3>8. CASE Logout(c) \/ RefuseUpdate(c)
        BY <3>8 DEF Logout, RefuseUpdate, Return, NoCall, IdentityTypeOK
      <3>9. CASE \E l \in OIDCState : ConsumeState(c, l)
        BY <3>9 DEF ConsumeState, Enter, NoCall, IdentityTypeOK
      <3> QED BY <1>5, <3>1, <3>2, <3>3, <3>4, <3>5, <3>6, <3>7, <3>8, <3>9
    <2> QED BY <1>4, <2>1, <2>2
  <1>6. ASSUME NEW c \in Caller,
               \/ \E p \in Person, l \in Password : SignIn(c, p, l)
               \/ \E s \in Session, l \in Password : Switch(c, s, l)
               \/ VerifyIdentity(c) \/ LoadUser(c) \/ RotateSession(c)
        PROVE  AdminInv'
    <2>1. UNCHANGED <<member, crossed>>
      BY <1>6 DEF SignIn, Switch, VerifyIdentity, LoadUser, RotateSession
    <2>2. \/ call' = [call EXCEPT ![c] = NoCall]
          \/ \E p, l : call' = [call EXCEPT ![c] = Opening(p, l)] \/ call' = [call EXCEPT ![c] = Loading(p, l)]
      BY <1>6 DEF SignIn, Switch, VerifyIdentity, LoadUser, RotateSession, Return, Go, Enter
    <2>3. \A x \in Caller : call'[x] = call[x] \/ call'[x].pc # "write"
      BY <2>2, NoWriter, SomeLocals DEF IdentityTypeOK
    <2> QED BY <1>4, <2>1, <2>3
  <1>7. CASE \/ \E l \in OIDCState : StartOIDC(l)
             \/ \E s \in Session : SessionExpires(s)
             \/ \E i \in Invitation : InvitationLapses(i)
             \/ ListInvitations \/ Crash \/ UNCHANGED identityVars
    <2>1. UNCHANGED <<member, crossed>> /\ (UNCHANGED call \/ call' = [c \in Caller |-> NoCall])
      BY <1>7 DEF StartOIDC, SessionExpires, InvitationLapses, ListInvitations, Crash, identityVars
    <2> QED BY <1>4, <2>1, SomeLocals
  <1> QED BY <1>1, <1>2, <1>3, <1>5, <1>6, <1>7 DEF IdentityNext
-----------------------------------------------------------------------------
IdentityInv == IdentityTypeOK /\ SessionInv /\ InvitationGrantsOnce /\ AdminInv

LEMMA InitInv == IdentityInit => IdentityInv
  <1> SUFFICES ASSUME IdentityInit PROVE IdentityInv
    OBVIOUS
  <1>1. IdentityTypeOK
    <2>1. [role |-> "admin", status |-> "active"] \in Member
      BY DEF Member, Role, Standing
    <2> QED BY <2>1, SomeLocals, IdentityAssumption DEF IdentityInit, IdentityTypeOK
  <1>2. SessionInv
    BY SomeLocals DEF IdentityInit, SessionInv, Opens, Of, Holds
  <1>3. InvitationGrantsOnce
    BY DEF IdentityInit, InvitationGrantsOnce
  <1>4. Founder \in ActiveAdmins
    <2>1. [role |-> "admin", status |-> "active"] \in Member
      BY DEF Member, Role, Standing
    <2> QED BY <2>1, IdentityAssumption DEF IdentityInit, ActiveAdmins, Active
  <1>5. AdminInv
    BY <1>4, SomeLocals DEF IdentityInit, AdminInv
  <1> QED BY <1>1, <1>2, <1>3, <1>5 DEF IdentityInv

LEMMA IdentityInvariance == IdentitySpec => []IdentityInv
  <1>1. IdentityInv /\ [IdentityNext]_identityVars => IdentityInv'
    BY TypeStep, SessionStep, InvitationStep, AdminStep DEF IdentityInv
  <1> QED BY InitInv, <1>1, PTL DEF IdentitySpec

(* The types of the tables, and what the locals of a request say of them.    *)
THEOREM IdentityTypes == IdentitySpec => []IdentityTypeOK
  BY IdentityInvariance, PTL DEF IdentityInv

(* A sign-in has one session at most that is not revoked: a refresh token    *)
(* that is presented twice has one successor, a callback or an invitation     *)
(* that is used twice opens one session.                                    *)
THEOREM SessionsOncePerLogin == IdentitySpec => []OneSessionPerLogin
  <1>1. IdentityInv => OneSessionPerLogin
    BY DEF IdentityInv, IdentityTypeOK, Opened, SessionInv, Holds, Of, OneSessionPerLogin
  <1> QED BY IdentityInvariance, <1>1, PTL

(* However often and by however many at once an invitation is accepted, it    *)
(* makes one membership, of the person it is for, and no other did.           *)
THEOREM InvitationsGrantOnce == IdentitySpec => []InvitationGrantsOnce
  BY IdentityInvariance, PTL DEF IdentityInv

(* An admin is left by every update that was not overtaken by another.        *)
THEOREM AdminStays == IdentitySpec => []AdminRetained
  <1>1. IdentityInv => AdminRetained
    BY DEF IdentityInv, AdminInv, AdminRetained
  <1> QED BY IdentityInvariance, <1>1, PTL
=============================================================================

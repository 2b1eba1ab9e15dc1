------------------------ MODULE ConnectorAccountProofs ------------------------
(***************************************************************************)
(* Proofs about ConnectorAccount, for any number of requests, of OAuth       *)
(* states and of webhook deliveries, and without a bound on what happens.   *)
(***************************************************************************)
EXTENDS ConnectorAccount, TLAPS

(* The row or a request has a token of this grant. *)
Holds(g) ==
  \/ account.access = g
  \/ account.refresh # None /\ account.refresh.grant = g
  \/ \E c \in Caller :
       \/ call[c].token # None /\ call[c].token.grant = g
       \/ call[c].seen.access = g
       \/ call[c].seen.refresh # None /\ call[c].seen.refresh.grant = g

(* Every state goes one way: it is open while one callback reads it, gone   *)
(* while one exchanges it, and nobody has a token of its grant before one   *)
(* connects with it.                                                       *)
CodeInv ==
  /\ \A s \in State :
       /\ exchanged[s] \in {0, 1}
       /\ exchanged[s] = 1 => oauthState[s] = "gone"
       /\ exchanged[s] = 0 => ~Holds(s)
  /\ \A c \in Caller :
       LET s == call[c].at IN
       /\ At(c, "consume") => oauthState[s] # "gone"
       /\ At(c, "exchange") => oauthState[s] = "gone" /\ exchanged[s] = 0
       /\ At(c, "connect") => exchanged[s] = 1 /\ live[s] = 1 /\ ~Holds(s)
  /\ \A c, d \in Caller :
       /\ At(c, "consume") /\ At(d, "consume") => c = d
       /\ At(c, "exchange") /\ At(d, "exchange") /\ call[c].at = call[d].at => c = d
       /\ At(c, "connect") /\ At(d, "connect") /\ call[c].at = call[d].at => c = d

Using(c) == At(c, "refresh") \/ At(c, "store")
Wiping == \E c \in Caller : At(c, "wipe")

(* The token is the valid one, or its grant is revoked and the row about to *)
(* be wiped.                                                               *)
Good(t) == Valid(t) \/ (live[t.grant] = 0 /\ Wiping)
AtMostLive(t) == live[t.grant] = 0 \/ t.n <= live[t.grant]

(* Who stores next has the valid token, the row and the other requests have *)
(* older ones of its grant.                                                *)
Newest(c) ==
  /\ Good(call[c].token)
  /\ Rotates => /\ account.refresh.n < call[c].token.n
                /\ \A d \in Caller \ {c} :
                     Using(d) /\ ~call[d].behind =>
                       At(d, "refresh") /\ call[d].token.n < call[c].token.n

(* While nothing has crossed, a request that is behind has tokens of another *)
(* grant, and one that is not has those of the row or their successor.      *)
CredInv ==
  /\ account.status = "disconnected" => account.access = None /\ account.refresh = None
  /\ account.status = "connected" =>
       /\ account.refresh \in Token
       /\ AtMostLive(account.refresh)
       /\ \/ Good(account.refresh) \/ Wiping
          \/ Rotates /\ \E c \in Caller : At(c, "store") /\ ~call[c].behind
  /\ \A c \in Caller : Using(c) =>
       IF call[c].behind THEN account.refresh = None \/ account.refresh.grant # call[c].token.grant
       ELSE /\ account.status = "connected"
            /\ account.refresh.grant = call[c].token.grant
            /\ At(c, "refresh") => AtMostLive(call[c].token)
            /\ At(c, "store") => Newest(c)
  /\ \A c \in Caller : At(c, "reseal") /\ ~call[c].behind =>
       call[c].seen.access = account.access /\ call[c].seen.refresh = account.refresh

TokensInv == crossed \/ CredInv
-----------------------------------------------------------------------------
(* The locals of a request that starts, moves on and ends are locals. *)
LEMMA LocalsKept ==
  ASSUME AccountTypeOK
  PROVE  /\ NoCall \in Locals
         /\ \A c \in Caller : call[c] \in Locals
         /\ \A r \in Row, c \in Caller, P \in SUBSET Phase :
              Write(c, r, P) => account' \in Row /\ call' \in [Caller -> Locals]
  <1>1. NoAccount \in Row /\ NoCall \in Locals
    BY DEF NoAccount, NoCall, Row, Locals, Phase
  <1>2. ASSUME NEW r \in Row, NEW c \in Caller, NEW P \in SUBSET Phase, Write(c, r, P)
        PROVE  account' \in Row /\ call' \in [Caller -> Locals]
    <2>1. \A x \in Caller : [call[x] EXCEPT !.behind = TRUE] \in Locals
      BY DEF AccountTypeOK, Locals
    <2> QED BY <1>1, <1>2, <2>1 DEF Write, AccountTypeOK
  <1> QED BY <1>1, <1>2 DEF AccountTypeOK

(* What a write leaves of the locals: the phase, the state and the token of *)
(* every other request.                                                    *)
LEMMA WriteKeeps ==
  ASSUME AccountTypeOK, NEW c \in Caller, NEW r, NEW P, Write(c, r, P)
  PROVE  /\ call'[c] = NoCall
         /\ \A x \in Caller \ {c} :
              /\ call'[x].pc = call[x].pc /\ call'[x].at = call[x].at
              /\ call'[x].token = call[x].token /\ call'[x].seen = call[x].seen
              /\ call'[x].behind <=> (call[x].behind \/ call[x].pc \in P)
  BY DEF AccountTypeOK, Write, Locals

LEMMA TypeStep ==
  ASSUME AccountTypeOK, [AccountNext]_accountVars
  PROVE  AccountTypeOK'
  <1> USE DEF At, Enter, Go, Return, Spend
  <1>1. NoCall \in Locals /\ \A c \in Caller : call[c] \in Locals
    BY LocalsKept
  <1>2. ASSUME NEW s \in State, StartAuthorization(s) \/ StateExpires(s) PROVE AccountTypeOK'
    BY <1>2 DEF AccountTypeOK, StartAuthorization, StateExpires, webhookVars
  <1>3. ASSUME NEW c \in Caller, NEW s \in State, ReadState(c, s) PROVE AccountTypeOK'
    BY <1>1, <1>3 DEF AccountTypeOK, ReadState, oauthVars, webhookVars, Locals, Phase, NoCall
  <1>4. ASSUME NEW c \in Caller, NEW d \in Delivery, BeginDelivery(c, d) PROVE AccountTypeOK'
    BY <1>1, <1>4 DEF AccountTypeOK, BeginDelivery, oauthVars, webhookVars, Locals, Phase, NoCall
  <1>5. ASSUME NEW c \in Caller, DeleteState(c) PROVE AccountTypeOK'
    <2>1. oauthState' \in [State -> {"new", "open", "overdue", "gone"}]
      BY <1>5 DEF AccountTypeOK, DeleteState
    <2>2. /\ call[c].at \in State
          /\ call'[c] = NoCall \/ call'[c] = [call[c] EXCEPT !.pc = "exchange"]
      BY <1>5 DEF AccountTypeOK, DeleteState
    <2>3. call' \in [Caller -> Locals] /\ \A x \in Caller \ {c} : call'[x] = call[x]
      BY <1>1, <1>5 DEF AccountTypeOK, DeleteState, Locals, Phase
    <2> QED BY <1>1, <1>5, <2>1, <2>2, <2>3 DEF AccountTypeOK, DeleteState, webhookVars, NoCall, Locals
  <1>6. ASSUME NEW c \in Caller, Exchange(c) PROVE AccountTypeOK'
    <2>1. live' \in [State -> Nat] /\ exchanged' \in [State -> Nat]
      BY <1>6 DEF AccountTypeOK, Exchange
    <2>2. /\ call[c].at \in State
          /\ call'[c] = NoCall \/ call'[c] = [call[c] EXCEPT !.pc = "connect"]
      BY <1>6 DEF AccountTypeOK, Exchange
    <2>3. call' \in [Caller -> Locals] /\ \A x \in Caller \ {c} : call'[x] = call[x]
      BY <1>1, <1>6 DEF AccountTypeOK, Exchange, Locals, Phase
    <2> QED BY <1>1, <1>6, <2>1, <2>2, <2>3 DEF AccountTypeOK, Exchange, webhookVars, NoCall, Locals
  <1>7. ASSUME NEW c \in Caller, NEW r \in Row, NEW P \in SUBSET Phase, Write(c, r, P),
               UNCHANGED <<live, oauthVars, keyId, webhookVars>>, crossed' \in BOOLEAN
        PROVE  AccountTypeOK'
    <2>1. account' \in Row /\ call' \in [Caller -> Locals]
      BY <1>7, LocalsKept
    <2>2. \A x \in Caller :
            \/ call'[x] = NoCall
            \/ /\ call'[x].pc = call[x].pc
               /\ call'[x].at = call[x].at
               /\ call'[x].token = call[x].token
      BY <1>7, WriteKeeps
    <2> QED BY <1>7, <2>1, <2>2 DEF AccountTypeOK, oauthVars, webhookVars, NoCall
  <1>8. Holding \in SUBSET Phase /\ {"reseal"} \in SUBSET Phase
    BY DEF Holding, Phase
  <1>9. ASSUME NEW c \in Caller, Connect(c) PROVE AccountTypeOK'
    <2> DEFINE g == call[c].at
               r == [status |-> "connected", access |-> g, refresh |-> [grant |-> g, n |-> 1], key |-> keyId]
    <2>1. r \in Row
      BY <1>9 DEF AccountTypeOK, Connect, Row, Token
    <2> QED BY <1>7, <1>8, <1>9, <2>1 DEF Connect
  <1>10. ASSUME NEW c \in Caller, StoreRefreshed(c) PROVE AccountTypeOK'
    <2>1. call[c].token \in Token
      BY <1>1, <1>10 DEF AccountTypeOK, StoreRefreshed, Locals
    <2>2. [account EXCEPT !.access = call[c].token.grant, !.refresh = call[c].token, !.key = keyId] \in Row
      BY <2>1 DEF AccountTypeOK, Row, Token
    <2>3. crossed \in BOOLEAN /\ call[c].behind \in BOOLEAN
      BY <1>1 DEF AccountTypeOK, Locals
    <2> QED BY <1>7, <1>8, <1>10, <2>2, <2>3 DEF StoreRefreshed
  <1>11. ASSUME NEW c \in Caller, Wipe(c) PROVE AccountTypeOK'
    <2>1. [account EXCEPT !.status = "disconnected", !.access = None, !.refresh = None] \in Row
      BY DEF AccountTypeOK, Row
    <2>2. crossed' \in BOOLEAN
      BY <1>11 DEF AccountTypeOK, Wipe
    <2> QED BY <1>7, <1>8, <1>11, <2>1, <2>2 DEF Wipe
  <1>12. ASSUME NEW c \in Caller, Reseal(c) PROVE AccountTypeOK'
    <2> DEFINE old == call[c].seen
               r == [account EXCEPT !.access = old.access, !.key = keyId,
                                    !.refresh = IF old.refresh = None THEN @ ELSE old.refresh]
    <2>1. r \in Row
      BY <1>1 DEF AccountTypeOK, Row, Locals
    <2>2. crossed \in BOOLEAN /\ call[c].behind \in BOOLEAN
      BY <1>1 DEF AccountTypeOK, Locals
    <2> QED BY <1>7, <1>8, <1>12, <2>1, <2>2 DEF Reseal
  <1>13. ASSUME NEW c \in Caller, BeginRefresh(c) PROVE AccountTypeOK'
    BY <1>1, <1>13 DEF AccountTypeOK, BeginRefresh, oauthVars, webhookVars, Locals, Phase, NoCall, Row
  <1>14. ASSUME NEW c \in Caller, Refresh(c) PROVE AccountTypeOK'
    <2> DEFINE t == call[c].token
               next == IF Rotates THEN [t EXCEPT !.n = @ + 1] ELSE t
    <2>1. t \in Token /\ next \in Token
      BY <1>1, <1>14 DEF AccountTypeOK, Refresh, Locals, Token
    <2>2. live' \in [State -> Nat]
      <3>1. next.n \in Nat
        BY <2>1 DEF Token
      <3>2. live' = [live EXCEPT ![t.grant] = next.n]
        BY <1>14 DEF Refresh
      <3> QED BY <3>1, <3>2 DEF AccountTypeOK
    <2>4. /\ call' = [call EXCEPT ![c].pc = "store", ![c].token = next] \/ call' = [call EXCEPT ![c] = NoCall]
          /\ UNCHANGED crossed \/ crossed' = (crossed \/ Rotates)
          /\ UNCHANGED <<account, oauthVars, keyId, webhookVars>>
      BY <1>14 DEF Refresh
    <2>5. crossed' \in BOOLEAN
      BY <2>4, AccountAssumption DEF AccountTypeOK
    <2>6. call' \in [Caller -> Locals]
      BY <1>1, <2>1, <2>4 DEF AccountTypeOK, Locals, Phase
    <2>7. \A x \in Caller :
            \/ call'[x] = call[x]
            \/ call'[x] = NoCall
            \/ call'[x].pc = "store" /\ call'[x].token = next
      BY <1>1, <2>4 DEF AccountTypeOK, Locals
    <2> QED BY <2>1, <2>2, <2>4, <2>5, <2>6, <2>7 DEF AccountTypeOK, oauthVars, webhookVars, NoCall
  <1>15. ASSUME NEW c \in Caller, BeginDisconnect(c) \/ BeginReseal(c) \/ BeginSubscription(c)
         PROVE AccountTypeOK'
    <2>1. UNCHANGED <<account, live, oauthVars, keyId, webhookVars, crossed>>
      BY <1>15 DEF BeginDisconnect, BeginReseal, BeginSubscription
    <2>2. PICK p \in {"revoke", "reseal", "register"}, r \in Row :
            call' = [call EXCEPT ![c] = [NoCall EXCEPT !.pc = p, !.seen = r]]
      <3>1. account \in Row /\ NoCall.seen \in Row
        BY DEF AccountTypeOK, NoCall, NoAccount, Row
      <3>2. CASE BeginDisconnect(c)
        BY <3>1, <3>2 DEF BeginDisconnect
      <3>3. CASE BeginReseal(c)
        BY <3>1, <3>3 DEF BeginReseal
      <3>4. CASE BeginSubscription(c)
        BY <3>1, <3>4 DEF BeginSubscription, NoCall
      <3> QED BY <1>15, <3>2, <3>3, <3>4
    <2>3. [NoCall EXCEPT !.pc = p, !.seen = r] \in Locals
      BY <1>1 DEF Locals, Phase
    <2>4. call' \in [Caller -> Locals] /\ call'[c].pc = p /\ \A x \in Caller \ {c} : call'[x] = call[x]
      BY <2>2, <2>3 DEF AccountTypeOK, NoCall
    <2> QED BY <2>1, <2>4 DEF AccountTypeOK, oauthVars, webhookVars
  <1>16. ASSUME NEW c \in Caller, RevokeRemote(c) PROVE AccountTypeOK'
    BY <1>1, <1>16 DEF AccountTypeOK, RevokeRemote, oauthVars, webhookVars, Locals, Phase
  <1>17. ASSUME NEW c \in Caller, CreateSubscription(c) \/ RejectWebhook(c) \/ RefreshRefused(c)
         PROVE AccountTypeOK'
    <2>1. /\ UNCHANGED <<account, live, oauthVars, keyId, duplicates, accepted, requested, crossed>>
          /\ subscribed' \in {subscribed, "active"}
          /\ call' = [call EXCEPT ![c] = NoCall]
      BY <1>17 DEF CreateSubscription, RejectWebhook, RefreshRefused, webhookVars
    <2> QED BY <1>1, <2>1 DEF AccountTypeOK, oauthVars, NoCall
  <1>18. ASSUME NEW c \in Caller, ReceiveWebhook(c) PROVE AccountTypeOK'
    BY <1>1, <1>18, AccountAssumption DEF AccountTypeOK, ReceiveWebhook, FirstDelivery, Duplicate, Count,
       oauthVars, NoCall
  <1>19. CASE RevokeSubscription \/ Crash
    <2>1. CASE RevokeSubscription
      BY <2>1 DEF AccountTypeOK, RevokeSubscription, oauthVars
    <2>2. CASE Crash
      <3>1. crossed' \in BOOLEAN
        BY <2>2 DEF Crash
      <3>2. keyId' \in Nat /\ call' \in [Caller -> Locals] /\ \A c \in Caller : call'[c].pc = "idle"
        BY <1>1, <2>2 DEF AccountTypeOK, Crash, NoCall
      <3> QED BY <2>2, <3>1, <3>2 DEF AccountTypeOK, Crash, oauthVars, webhookVars
    <2> QED BY <1>19, <2>1, <2>2
  <1>20. CASE UNCHANGED accountVars
    BY <1>20 DEF AccountTypeOK, accountVars, oauthVars, webhookVars
  <1> QED BY <1>2, <1>3, <1>4, <1>5, <1>6, <1>9, <1>10, <1>11, <1>12, <1>13, <1>14, <1>15, <1>16,
             <1>17, <1>18, <1>19, <1>20 DEF AccountNext
-----------------------------------------------------------------------------
(* A step that leaves the row alone gives nobody tokens of a new grant.    *)
LEMMA CallsHold ==
  ASSUME AccountTypeOK, AccountTypeOK', account' = account, NEW g \in State, ~Holds(g),
         \A x \in Caller :
           /\ \/ call'[x].token \in {call[x].token, None, account.refresh}
              \/ call[x].token \in Token /\ call'[x].token.grant = call[x].token.grant
           /\ call'[x].seen \in {call[x].seen, NoAccount, account}
  PROVE  ~Holds(g)'
  BY AccountAssumption DEF Holds, NoAccount

(* Neither does one that writes into the row what the row or the writer has. *)
LEMMA WriteHolds ==
  ASSUME AccountTypeOK, NEW c \in Caller, NEW r \in Row, NEW P \in SUBSET Phase, Write(c, r, P),
         NEW g \in State, ~Holds(g),
         \/ r.access \in {None, account.access, call[c].seen.access}
         \/ call[c].token \in Token /\ r.access = call[c].token.grant,
         r.refresh \in {None, account.refresh, call[c].seen.refresh, call[c].token}
  PROVE  ~Holds(g)'
  <1>1. account' = r
    BY DEF Write
  <1>2. \A x \in Caller : \/ call'[x] = NoCall
                          \/ call'[x].token = call[x].token /\ call'[x].seen = call[x].seen
    BY WriteKeeps
  <1> QED BY <1>1, <1>2, AccountAssumption DEF Holds, NoCall, NoAccount

(* Tokens of a grant that nobody has come by connecting with it only. *)
LEMMA HoldsStep ==
  ASSUME AccountTypeOK, [AccountNext]_accountVars, NEW g \in State, ~Holds(g),
         \A c \in Caller : Connect(c) => call[c].at # g
  PROVE  ~Holds(g)'
  <1>0. AccountTypeOK' /\ NoCall \in Locals /\ \A c \in Caller : call[c] \in Locals
    BY TypeStep, LocalsKept
  <1>1. ASSUME account' = account,
               \A x \in Caller :
                 \/ call'[x] = call[x] \/ call'[x] = NoCall
                 \/ call'[x].token = call[x].token /\ call'[x].seen = call[x].seen
        PROVE  ~Holds(g)'
    BY <1>0, <1>1, CallsHold DEF NoCall
  <1>2. ASSUME NEW c \in Caller, Connect(c) PROVE ~Holds(g)'
    <2>1. \A x \in Caller : \/ call'[x] = NoCall
                            \/ call'[x].token = call[x].token /\ call'[x].seen = call[x].seen
      BY <1>2, WriteKeeps DEF Connect
    <2>2. account'.access = call[c].at /\ account'.refresh.grant = call[c].at
      BY <1>2 DEF Connect, Write
    <2> QED BY <1>2, <2>1, <2>2, AccountAssumption DEF Holds, NoCall, NoAccount
  <1>3. Holding \in SUBSET Phase /\ {"reseal"} \in SUBSET Phase
    BY DEF Holding, Phase
  <1>4. ASSUME NEW c \in Caller, StoreRefreshed(c) PROVE ~Holds(g)'
    <2> DEFINE r == [account EXCEPT !.access = call[c].token.grant, !.refresh = call[c].token, !.key = keyId]
    <2>1. call[c].token \in Token
      BY <1>4 DEF AccountTypeOK, StoreRefreshed, At
    <2>2. r \in Row /\ r.access = call[c].token.grant /\ r.refresh = call[c].token
      BY <2>1 DEF AccountTypeOK, Row, Token
    <2>3. Write(c, r, {"reseal"})
      BY <1>4 DEF StoreRefreshed
    <2> HIDE DEF r
    <2> QED BY <1>3, <2>1, <2>2, <2>3, WriteHolds
  <1>5. ASSUME NEW c \in Caller, Wipe(c) PROVE ~Holds(g)'
    <2> DEFINE r == [account EXCEPT !.status = "disconnected", !.access = None, !.refresh = None]
    <2>1. r \in Row /\ r.access = None /\ r.refresh = None
      BY DEF AccountTypeOK, Row
    <2>2. Write(c, r, Holding)
      BY <1>5 DEF Wipe
    <2> HIDE DEF r
    <2> QED BY <1>3, <2>1, <2>2, WriteHolds
  <1>6. ASSUME NEW c \in Caller, Reseal(c) PROVE ~Holds(g)'
    <2> DEFINE old == call[c].seen
               r == [account EXCEPT !.access = old.access, !.key = keyId,
                                    !.refresh = IF old.refresh = None THEN @ ELSE old.refresh]
    <2>1. /\ r \in Row /\ r.access = call[c].seen.access
          /\ r.refresh \in {account.refresh, call[c].seen.refresh}
      BY <1>0 DEF AccountTypeOK, Row, Locals
    <2>2. Write(c, r, {"reseal"})
      BY <1>6 DEF Reseal
    <2> HIDE DEF r
    <2> QED BY <1>3, <2>1, <2>2, WriteHolds
  <1>7. ASSUME NEW c \in Caller, BeginRefresh(c) PROVE ~Holds(g)'
    <2>1. account' = account /\ call' = [call EXCEPT ![c] = [NoCall EXCEPT !.pc = "refresh", !.token = account.refresh]]
      BY <1>7 DEF BeginRefresh, Enter
    <2> QED BY <1>0, <2>1, CallsHold DEF AccountTypeOK, NoCall
  <1>8. ASSUME NEW c \in Caller, Refresh(c) PROVE ~Holds(g)'
    <2> DEFINE t == call[c].token
               next == IF Rotates THEN [t EXCEPT !.n = @ + 1] ELSE t
    <2>1. t \in Token /\ next.grant = t.grant
      BY <1>8 DEF AccountTypeOK, Refresh, At, Token
    <2>2. account' = account /\ \/ call' = [call EXCEPT ![c].pc = "store", ![c].token = next]
                                \/ call' = [call EXCEPT ![c] = NoCall]
      BY <1>8 DEF Refresh, Return
    <2> HIDE DEF next
    <2> QED BY <1>0, <2>1, <2>2, CallsHold DEF AccountTypeOK, NoCall, Locals
  <1>9. ASSUME NEW c \in Caller, BeginDisconnect(c) \/ BeginReseal(c) PROVE ~Holds(g)'
    <2>1. PICK p \in Phase :
            account' = account /\ call' = [call EXCEPT ![c] = [NoCall EXCEPT !.pc = p, !.seen = account]]
      BY <1>9 DEF BeginDisconnect, BeginReseal, Enter, Phase
    <2> QED BY <1>0, <2>1, CallsHold DEF AccountTypeOK, NoCall
  <1>10. ASSUME NEW c \in Caller,
                \/ \E s \in State : ReadState(c, s)
                \/ \E d \in Delivery : BeginDelivery(c, d)
                \/ BeginSubscription(c)
         PROVE  ~Holds(g)'
    <2>1. /\ account' = account
          /\ call'[c].token = None /\ call'[c].seen = NoAccount
          /\ \A x \in Caller \ {c} : call'[x] = call[x]
      <3>1. CASE \E s \in State : ReadState(c, s)
        BY <3>1 DEF ReadState, Enter, AccountTypeOK, NoCall
      <3>2. CASE \E d \in Delivery : BeginDelivery(c, d)
        BY <3>2 DEF BeginDelivery, Enter, AccountTypeOK, NoCall
      <3>3. CASE BeginSubscription(c)
        BY <3>3 DEF BeginSubscription, Enter, AccountTypeOK, NoCall
      <3> QED BY <1>10, <3>1, <3>2, <3>3
    <2> QED BY <1>0, <2>1, CallsHold
  <1>11. ASSUME NEW c \in Caller,
                \/ DeleteState(c) \/ Exchange(c) \/ RevokeRemote(c)
                \/ RefreshRefused(c) \/ CreateSubscription(c) \/ ReceiveWebhook(c) \/ RejectWebhook(c)
         PROVE  ~Holds(g)'
    <2>1. account' = account
      BY <1>11 DEF DeleteState, Exchange, RevokeRemote, RefreshRefused, CreateSubscription,
         ReceiveWebhook, RejectWebhook
    <2>2. \/ \E p \in Phase : call' = [call EXCEPT ![c].pc = p]
          \/ call' = [call EXCEPT ![c] = NoCall]
      BY <1>11 DEF DeleteState, Exchange, RevokeRemote, RefreshRefused, CreateSubscription,
         ReceiveWebhook, RejectWebhook, Go, Return, Phase
    <2> QED BY <1>0, <1>1, <2>1, <2>2 DEF AccountTypeOK, Locals
  <1>12. ASSUME \/ \E s \in State : StartAuthorization(s) \/ StateExpires(s)
                \/ RevokeSubscription \/ Crash \/ UNCHANGED accountVars
         PROVE  ~Holds(g)'
    BY <1>1, <1>12 DEF StartAuthorization, StateExpires, RevokeSubscription, Crash, accountVars
  <1> QED BY <1>2, <1>4, <1>5, <1>6, <1>7, <1>8, <1>9, <1>10, <1>11, <1>12 DEF AccountNext

(* A step at which nobody reads, exchanges or connects. *)
LEMMA CodeFrame ==
  ASSUME AccountTypeOK, CodeInv, UNCHANGED <<oauthState, exchanged>>,
         \A g \in State : ~Holds(g) => ~Holds(g)',
         \A c \in Caller :
           \/ call'[c].pc \notin {"consume", "exchange", "connect"}
           \/ /\ call'[c].pc = call[c].pc /\ call'[c].at = call[c].at
              /\ At(c, "connect") => live'[call[c].at] = live[call[c].at]
  PROVE  CodeInv'
  BY DEF CodeInv, At, AccountTypeOK

LEMMA CodeStep ==
  ASSUME AccountTypeOK, CodeInv, [AccountNext]_accountVars
  PROVE  CodeInv'
  <1>0. AccountTypeOK' /\ NoCall \in Locals /\ \A c \in Caller : call[c] \in Locals
    BY TypeStep, LocalsKept
  <1>1. ASSUME NEW c \in Caller, Connect(c) PROVE CodeInv'
    <2> DEFINE g == call[c].at
    <2>1. g \in State /\ At(c, "connect") /\ exchanged[g] = 1
      BY <1>1 DEF Connect, AccountTypeOK, At, CodeInv
    <2>2. \A d \in Caller \ {c} : At(d, "connect") => call[d].at # g
      BY <2>1 DEF CodeInv
    <2>3. /\ UNCHANGED <<live, oauthState, exchanged>>
          /\ call'[c].pc = "idle"
          /\ \A d \in Caller \ {c} : call'[d].pc = call[d].pc /\ call'[d].at = call[d].at
      BY <1>1, WriteKeeps DEF Connect, oauthVars, NoCall
    <2>4. \A s \in State \ {g} : ~Holds(s) => ~Holds(s)'
      <3>1. \A d \in Caller \ {c} : ~Connect(d)
        BY <2>1, <2>3, WriteKeeps DEF Connect, NoCall, At
      <3> QED BY <3>1, HoldsStep
    <2> QED BY <1>0, <2>1, <2>2, <2>3, <2>4 DEF CodeInv, At, AccountTypeOK
  <1> SUFFICES ASSUME \A c \in Caller : ~Connect(c) PROVE CodeInv'
    BY <1>1
  <1>2. \A g \in State : ~Holds(g) => ~Holds(g)'
    BY HoldsStep
  <1>3. ASSUME NEW c \in Caller, NEW s \in State, ReadState(c, s) PROVE CodeInv'
    <2>1. /\ \A d \in Caller : ~At(d, "consume")
          /\ oauthState[s] # "gone"
          /\ UNCHANGED <<live, exchanged, oauthState>>
          /\ call'[c].pc = "consume" /\ call'[c].at = s
          /\ \A d \in Caller \ {c} : call'[d] = call[d]
      BY <1>3 DEF ReadState, LoopFree, Enter, AccountTypeOK, oauthVars, NoCall
    <2> QED BY <1>0, <1>2, <2>1 DEF CodeInv, At, AccountTypeOK
  <1>4. ASSUME NEW c \in Caller, DeleteState(c) PROVE CodeInv'
    <2> DEFINE s == call[c].at
    <2>1. s \in State /\ At(c, "consume") /\ \A d \in Caller \ {c} : ~At(d, "consume")
      BY <1>4 DEF DeleteState, AccountTypeOK, At, CodeInv
    <2>2. exchanged[s] = 0 /\ \A d \in Caller \ {c} : At(d, "exchange") => call[d].at # s
      BY <2>1 DEF CodeInv
    <2>3. /\ oauthState' = [oauthState EXCEPT ![s] = "gone"]
          /\ UNCHANGED <<live, exchanged>>
          /\ \A d \in Caller \ {c} : call'[d] = call[d]
          /\ \/ call'[c].pc = "exchange" /\ call'[c].at = s
             \/ call'[c].pc = "idle"
      BY <1>0, <1>4 DEF DeleteState, AccountTypeOK, Return, Go, NoCall, Locals
    <2> QED BY <1>0, <1>2, <2>1, <2>2, <2>3 DEF CodeInv, At, AccountTypeOK
  <1>5. ASSUME NEW c \in Caller, Exchange(c) PROVE CodeInv'
    <2> DEFINE g == call[c].at
    <2>1. g \in State /\ At(c, "exchange") /\ exchanged[g] = 0 /\ oauthState[g] = "gone" /\ ~Holds(g)
      BY <1>5 DEF Exchange, AccountTypeOK, At, CodeInv
    <2>2. \A d \in Caller \ {c} : At(d, "exchange") \/ At(d, "connect") => call[d].at # g
      BY <2>1 DEF CodeInv, At
    <2>3. /\ UNCHANGED oauthState
          /\ \A d \in Caller \ {c} : call'[d] = call[d]
          /\ \/ /\ exchanged' = [exchanged EXCEPT ![g] = 1] /\ live' = [live EXCEPT ![g] = 1]
                /\ (call'[c].pc = "connect" /\ call'[c].at = g) \/ call'[c].pc = "idle"
             \/ UNCHANGED <<exchanged, live>> /\ call'[c].pc = "idle"
      BY <1>0, <1>5, <2>1 DEF Exchange, AccountTypeOK, Return, Go, NoCall, Locals
    <2> QED BY <1>0, <1>2, <2>1, <2>2, <2>3 DEF CodeInv, At, AccountTypeOK
  <1>6. ASSUME NEW s \in State, StartAuthorization(s) \/ StateExpires(s) PROVE CodeInv'
    BY <1>0, <1>2, <1>6 DEF StartAuthorization, StateExpires, CodeInv, At, AccountTypeOK
  <1>7. ASSUME NEW c \in Caller, Refresh(c) PROVE CodeInv'
    <2> DEFINE t == call[c].token
               next == IF Rotates THEN [t EXCEPT !.n = @ + 1] ELSE t
    <2>1. t \in Token
      BY <1>7 DEF Refresh, At, AccountTypeOK
    <2>2. \A d \in Caller : At(d, "connect") => call[d].at # t.grant
      BY <2>1, AccountAssumption DEF CodeInv, Holds
    <2>3. live' = [live EXCEPT ![t.grant] = next.n] /\ UNCHANGED <<oauthState, exchanged>>
      BY <1>7 DEF Refresh, oauthVars
    <2>4. \A d \in Caller : call'[d] = call[d] \/ call'[d].pc \in {"idle", "store"}
      BY <1>0, <1>7 DEF Refresh, Return, AccountTypeOK, NoCall, Locals
    <2> HIDE DEF next
    <2> QED BY <1>2, <2>2, <2>3, <2>4, CodeFrame DEF AccountTypeOK
  <1>8. ASSUME NEW c \in Caller, RevokeRemote(c) PROVE CodeInv'
    <2>1. \A d \in Caller : At(d, "connect") => call[d].at # call[c].seen.access
      BY DEF CodeInv, Holds
    <2>2. UNCHANGED <<oauthState, exchanged>> /\ \A d \in Caller : call'[d] = call[d] \/ call'[d].pc = "wipe"
      BY <1>0, <1>8 DEF RevokeRemote, Go, AccountTypeOK, oauthVars, Locals
    <2>3. live' = [live EXCEPT ![call[c].seen.access] = 0] \/ live' = live
      BY <1>8 DEF RevokeRemote
    <2> QED BY <1>2, <2>1, <2>2, <2>3, CodeFrame DEF AccountTypeOK
  <1>9. ASSUME NEW c \in Caller, StoreRefreshed(c) \/ Wipe(c) \/ Reseal(c) PROVE CodeInv'
    <2>1. UNCHANGED <<live, oauthState, exchanged>>
      BY <1>9 DEF StoreRefreshed, Wipe, Reseal, oauthVars
    <2>2. \A d \in Caller : \/ call'[d].pc = "idle"
                            \/ call'[d].pc = call[d].pc /\ call'[d].at = call[d].at
      BY <1>9, WriteKeeps DEF StoreRefreshed, Wipe, Reseal, NoCall
    <2> QED BY <1>2, <2>1, <2>2, CodeFrame
  <1>10. ASSUME NEW c \in Caller,
                \/ BeginRefresh(c) \/ BeginDisconnect(c) \/ BeginReseal(c) \/ BeginSubscription(c)
                \/ \E d \in Delivery : BeginDelivery(c, d)
                \/ RefreshRefused(c) \/ CreateSubscription(c) \/ ReceiveWebhook(c) \/ RejectWebhook(c)
         PROVE  CodeInv'
    <2>1. UNCHANGED <<live, oauthState, exchanged>>
      BY <1>10 DEF BeginRefresh, BeginDisconnect, BeginReseal, BeginSubscription, BeginDelivery,
         RefreshRefused, CreateSubscription, ReceiveWebhook, RejectWebhook, oauthVars
    <2>2. \A d \in Caller : call'[d] = call[d] \/ call'[d].pc \notin {"consume", "exchange", "connect"}
      <3>1. CASE BeginRefresh(c) \/ BeginDisconnect(c) \/ BeginReseal(c)
        BY <3>1 DEF BeginRefresh, BeginDisconnect, BeginReseal, Enter, NoCall, AccountTypeOK
      <3>2. CASE BeginSubscription(c) \/ \E d \in Delivery : BeginDelivery(c, d)
        BY <3>2 DEF BeginSubscription, BeginDelivery, Enter, NoCall, AccountTypeOK
      <3>3. CASE RefreshRefused(c) \/ CreateSubscription(c) \/ ReceiveWebhook(c) \/ RejectWebhook(c)
        BY <3>3 DEF RefreshRefused, CreateSubscription, ReceiveWebhook, RejectWebhook, Return, NoCall, AccountTypeOK
      <3> QED BY <1>10, <3>1, <3>2, <3>3
    <2> QED BY <1>2, <2>1, <2>2, CodeFrame
  <1>11. CASE RevokeSubscription \/ Crash \/ UNCHANGED accountVars
    <2>1. UNCHANGED <<live, oauthState, exchanged>>
      BY <1>11 DEF RevokeSubscription, Crash, accountVars, oauthVars
    <2>2. \A d \in Caller : call'[d] = call[d] \/ call'[d].pc = "idle"
      BY <1>11 DEF RevokeSubscription, Crash, accountVars, NoCall
    <2> QED BY <1>2, <2>1, <2>2, CodeFrame
  <1> QED BY <1>3, <1>4, <1>5, <1>6, <1>7, <1>8, <1>9, <1>10, <1>11 DEF AccountNext
-----------------------------------------------------------------------------
(* A step that changes neither the row nor what is valid, at which nobody   *)
(* who holds tokens moves, unless a refresh is given up.                   *)
LEMMA TokensFrame ==
  ASSUME AccountTypeOK, CredInv, UNCHANGED <<account, live>>,
         \A c \in Caller :
           \/ call'[c] = call[c]
           \/ /\ call[c].pc \notin {"store", "wipe"}
              /\ call'[c].pc \notin {"refresh", "store", "reseal"}
  PROVE  CredInv'
  <1>1. Wiping => Wiping'
    BY DEF Wiping, At
  <1>2. \A t : Good(t) => Good(t)'
    BY <1>1 DEF Good, Valid
  <1>3. \A c \in Caller : At(c, "store") => call'[c] = call[c]
    BY DEF At
  <1>4. \A c \in Caller : Using(c)' => call'[c] = call[c] /\ Using(c)
    BY DEF Using, At
  <1>5. \A c \in Caller : At(c, "store") /\ Newest(c) => Newest(c)'
    BY <1>2, <1>3, <1>4 DEF Newest, At
  <1> QED BY <1>1, <1>2, <1>3, <1>4, <1>5 DEF CredInv, AtMostLive, Using, At

(* A connection starts anew: whoever held tokens is behind now. *)
LEMMA ConnectTokens ==
  ASSUME AccountTypeOK, CodeInv, NEW c \in Caller, Connect(c)
  PROVE  CredInv'
  <1> DEFINE g == call[c].at
  <1>1. g \in State /\ live[g] = 1 /\ ~Holds(g) /\ live' = live
    BY DEF Connect, AccountTypeOK, At, CodeInv
  <1>2. account'.status = "connected" /\ account'.refresh = [grant |-> g, n |-> 1]
    BY DEF Connect, Write
  <1>3. call'[c].pc = "idle" /\ \A x \in Caller \ {c} :
          /\ call'[x].pc = call[x].pc /\ call'[x].token = call[x].token
          /\ call'[x].behind <=> (call[x].behind \/ call[x].pc \in Holding)
    BY WriteKeeps DEF Connect, NoCall
  <1>4. account'.refresh \in Token /\ Valid(account.refresh)' /\ AtMostLive(account.refresh)'
    BY <1>1, <1>2 DEF Token, Valid, AtMostLive
  <1>5. \A x \in Caller : Using(x)' => call'[x].behind /\ call'[x].token.grant # g
    BY <1>1, <1>3, AccountAssumption DEF Using, At, Holding, Holds, AccountTypeOK
  <1>6. \A x \in Caller : At(x, "reseal")' => call'[x].behind
    BY <1>3 DEF At, Holding
  <1> QED BY <1>2, <1>4, <1>5, <1>6 DEF CredInv, Good

LEMMA BeginRefreshTokens ==
  ASSUME AccountTypeOK, CredInv, NEW c \in Caller, BeginRefresh(c)
  PROVE  CredInv'
  <1>1. /\ UNCHANGED <<account, live>> /\ call[c].pc = "idle"
        /\ account.status = "connected" /\ account.refresh # None
        /\ call'[c].pc = "refresh" /\ ~call'[c].behind /\ call'[c].token = account.refresh
        /\ \A x \in Caller \ {c} : call'[x] = call[x]
    BY DEF BeginRefresh, Enter, At, NoCall, AccountTypeOK
  <1>2. Wiping => Wiping'
    BY <1>1 DEF Wiping, At
  <1>3. \A t : Good(t) => Good(t)'
    BY <1>1, <1>2 DEF Good, Valid
  <1>4. \A x \in Caller : At(x, "store")' => x # c /\ At(x, "store")
    BY <1>1 DEF At
  <1>5. ASSUME NEW x \in Caller, At(x, "store"), ~call[x].behind PROVE Newest(x)'
    <2>1. Newest(x)
      BY <1>5 DEF CredInv, Using
    <2> QED BY <1>1, <1>3, <1>5, <2>1 DEF Newest, Using, At
  <1> QED BY <1>1, <1>2, <1>3, <1>4, <1>5 DEF CredInv, AtMostLive, Using, At

(* The valid token is no longer valid only if its successor is on its way;  *)
(* no other successor can be.                                              *)
LEMMA RefreshTokens ==
  ASSUME AccountTypeOK, CredInv, NEW c \in Caller, Refresh(c), crossed' = crossed
  PROVE  CredInv' \/ crossed
  <1> DEFINE t == call[c].token
             next == IF Rotates THEN [t EXCEPT !.n = @ + 1] ELSE t
  <1>1. /\ At(c, "refresh") /\ t \in Token /\ live[t.grant] = t.n
        /\ live' = [live EXCEPT ![t.grant] = next.n] /\ UNCHANGED account
        /\ \A x \in Caller \ {c} : call'[x] = call[x]
        /\ \/ call'[c].pc = "store" /\ call'[c].token = next /\ (call'[c].behind <=> call[c].behind)
           \/ call'[c].pc = "idle" /\ crossed' = (crossed \/ Rotates)
    BY DEF Refresh, At, Return, Valid, AccountTypeOK, NoCall, Locals
  <1>2. next \in Token /\ next.grant = t.grant /\ next.n = (IF Rotates THEN t.n + 1 ELSE t.n)
    BY <1>1 DEF Token
  <1> HIDE DEF next
  <1>3. t.grant \in State /\ t.n \in Nat \ {0}
    BY <1>1 DEF Token
  <1>4. Wiping => Wiping'
    BY <1>1 DEF Wiping, At
  <1>5. CASE ~Rotates
    <2>1. live' = live /\ next.n = t.n
      BY <1>1, <1>2, <1>5 DEF AccountTypeOK
    <2>2. \A u : Good(u) => Good(u)'
      BY <1>4, <2>1 DEF Good, Valid
    <2>3. Good(call[c].token)' \/ call'[c].pc = "idle"
      BY <1>1, <1>2, <2>1 DEF Good, Valid
    <2>4. \A x \in Caller : At(x, "store") /\ Newest(x) /\ x # c => Newest(x)'
      BY <1>1, <1>5, <2>2 DEF Newest
    <2>5. At(c, "store")' => Newest(c)'
      BY <1>5, <2>3 DEF Newest, At
    <2> QED BY <1>1, <1>2, <1>4, <1>5, <2>1, <2>2, <2>4, <2>5 DEF CredInv, AtMostLive, Using, At
  <1>6. CASE Rotates /\ call[c].behind
    <2>1. account.status = "connected" => account.refresh \in Token /\ account.refresh.grant # t.grant
      BY <1>1, <1>6, AccountAssumption DEF CredInv, Using
    <2>2. \A u \in Token : u.grant # t.grant => live'[u.grant] = live[u.grant]
      BY <1>1, <1>3 DEF AccountTypeOK, Token
    <2>3. \A u \in Token : u.grant # t.grant => /\ Good(u) => Good(u)'
                                                /\ AtMostLive(u) => AtMostLive(u)'
      BY <1>4, <2>2 DEF Good, Valid, AtMostLive
    <2>4. \A x \in Caller : Using(x) /\ ~call[x].behind =>
            x # c /\ call[x].token \in Token /\ call[x].token.grant # t.grant
      BY <1>6, <2>1 DEF CredInv, Using, At, AccountTypeOK
    <2>5. \A x \in Caller : Using(x)' => Using(x) /\ (call'[x].behind <=> call[x].behind)
      BY <1>1 DEF Using, At
    <2>6. \A x \in Caller : At(x, "store") /\ ~call[x].behind /\ Newest(x) => Newest(x)'
      <3> SUFFICES ASSUME NEW x \in Caller, At(x, "store"), ~call[x].behind, Newest(x) PROVE Newest(x)'
        OBVIOUS
      <3>1. x # c /\ call'[x] = call[x] /\ Good(call[x].token)'
        BY <1>1, <2>3, <2>4 DEF Using, Newest
      <3>2. \A d \in Caller \ {x} : Using(d)' /\ ~call'[d].behind =>
              Using(d) /\ ~call[d].behind /\ call'[d] = call[d]
        BY <1>1, <1>6, <2>5
      <3> QED BY <1>1, <3>1, <3>2 DEF Newest, At
    <2>7. \A x \in Caller : Using(x)' /\ x # c => call'[x] = call[x] /\ Using(x)
      BY <1>1 DEF Using, At
    <2>8. Using(c)' => call'[c].behind /\ call'[c].token.grant = t.grant
      BY <1>1, <1>2, <1>6 DEF Using, At
    <2>9. Using(c)
      BY <1>1 DEF Using
    <2> QED BY <1>1, <1>4, <1>6, <2>1, <2>3, <2>4, <2>6, <2>7, <2>8, <2>9 DEF CredInv, Using, At
  <1>7. CASE Rotates /\ ~call[c].behind
    <2>0. CASE call'[c].pc = "idle"
      BY <1>1, <1>7, <2>0
    <2>1. CASE call'[c].pc = "store"
      <3>1. /\ account.status = "connected" /\ account.refresh \in Token
            /\ account.refresh.grant = t.grant /\ account.refresh.n <= t.n
        BY <1>1, <1>3, <1>7 DEF CredInv, Using, AtMostLive
      <3>2. \A x \in Caller : Using(x) /\ ~call[x].behind =>
              /\ call[x].token \in Token /\ call[x].token.grant = t.grant
              /\ At(x, "refresh") /\ call[x].token.n <= t.n
        <4> SUFFICES ASSUME NEW x \in Caller, Using(x), ~call[x].behind
                     PROVE  /\ call[x].token \in Token /\ call[x].token.grant = t.grant
                            /\ At(x, "refresh") /\ call[x].token.n <= t.n
          OBVIOUS
        <4>1. call[x].token \in Token /\ call[x].token.grant = t.grant
          BY <3>1 DEF CredInv, Using, At, AccountTypeOK
        <4>2. CASE At(x, "store")
          <5>1. Newest(x) /\ x # c
            BY <1>1, <4>2 DEF CredInv, Using, At
          <5>2. t.n < call[x].token.n
            BY <1>1, <1>7, <5>1 DEF Newest, Using
          <5>3. call[x].token.n = t.n
            BY <1>1, <1>3, <4>1, <5>1 DEF Newest, Good, Valid
          <5> QED BY <1>3, <5>2, <5>3
        <4>3. CASE At(x, "refresh")
          BY <1>1, <1>3, <4>1, <4>3 DEF CredInv, Using, AtMostLive
        <4> QED BY <4>1, <4>2, <4>3 DEF Using
      <3>3. live'[t.grant] = t.n + 1 /\ next.n = t.n + 1
        BY <1>1, <1>2, <1>3, <1>7 DEF AccountTypeOK
      <3>4. Newest(c)'
        <4>1. Good(call[c].token)'
          BY <1>1, <1>2, <2>1, <3>3 DEF Good, Valid
        <4>2. account'.refresh.n < call'[c].token.n
          BY <1>1, <1>3, <2>1, <3>1, <3>3 DEF Token
        <4>3. ASSUME NEW d \in Caller \ {c}, Using(d)', ~call'[d].behind
              PROVE  At(d, "refresh")' /\ call'[d].token.n < call'[c].token.n
          <5>1. call'[d] = call[d] /\ Using(d) /\ ~call[d].behind
            BY <1>1, <4>3 DEF Using, At
          <5> QED BY <1>1, <1>3, <2>1, <3>2, <3>3, <5>1 DEF At, Token
        <4> QED BY <4>1, <4>2, <4>3 DEF Newest
      <3>5. AtMostLive(account.refresh)'
        BY <1>1, <1>3, <3>1, <3>3 DEF AtMostLive, Token
      <3>6. \A x \in Caller \ {c} : Using(x)' /\ ~call'[x].behind =>
              /\ At(x, "refresh")' /\ call'[x].token.grant = account'.refresh.grant
              /\ AtMostLive(call[x].token)'
        <4> SUFFICES ASSUME NEW x \in Caller \ {c}, Using(x)', ~call'[x].behind
                     PROVE  /\ At(x, "refresh")' /\ call'[x].token.grant = account'.refresh.grant
                            /\ AtMostLive(call[x].token)'
          OBVIOUS
        <4>1. call'[x] = call[x] /\ Using(x)
          BY <1>1 DEF Using, At
        <4> QED BY <1>1, <1>3, <3>1, <3>2, <3>3, <4>1 DEF AtMostLive, At, Token
      <3>7. \A x \in Caller : Using(x)' /\ call'[x].behind => call'[x] = call[x] /\ Using(x)
        BY <1>1, <1>7 DEF Using, At
      <3>8. \A x \in Caller : At(x, "reseal")' => call'[x] = call[x]
        BY <1>1, <2>1 DEF At
      <3>9. At(c, "store")' /\ ~call'[c].behind /\ call'[c].token.grant = account'.refresh.grant
        BY <1>1, <1>2, <1>7, <2>1, <3>1 DEF At
      <3> QED BY <1>1, <1>7, <3>1, <3>4, <3>5, <3>6, <3>7, <3>8, <3>9 DEF CredInv, Using, At
    <2> QED BY <1>1, <2>0, <2>1
  <1> QED BY <1>5, <1>6, <1>7

(* The successor reaches the row; nobody else has one. *)
LEMMA StoreTokens ==
  ASSUME AccountTypeOK, CredInv, NEW c \in Caller, StoreRefreshed(c), ~call[c].behind
  PROVE  CredInv'
  <1> DEFINE t == call[c].token
  <1>1. /\ At(c, "store") /\ t \in Token /\ live' = live
        /\ account.status = "connected" /\ account.refresh.grant = t.grant /\ Newest(c)
    BY DEF StoreRefreshed, At, AccountTypeOK, CredInv, Using
  <1>2. account'.status = "connected" /\ account'.refresh = t
    BY <1>1 DEF StoreRefreshed, Write, AccountTypeOK, Row
  <1>3. call'[c].pc = "idle" /\ \A x \in Caller \ {c} :
          /\ call'[x].pc = call[x].pc /\ call'[x].token = call[x].token
          /\ call'[x].behind <=> (call[x].behind \/ At(x, "reseal"))
    BY WriteKeeps DEF StoreRefreshed, NoCall, At
  <1>4. Wiping => Wiping'
    BY <1>1, <1>3 DEF Wiping, At
  <1>5. \A u : /\ Good(u) => Good(u)'
               /\ AtMostLive(u) => AtMostLive(u)'
    BY <1>1, <1>4 DEF Good, Valid, AtMostLive
  <1>6. Good(account.refresh)' /\ AtMostLive(account.refresh)'
    BY <1>1, <1>2, <1>5 DEF Newest, Good, Valid, AtMostLive, Token
  <1>7. \A x \in Caller : Using(x)' => x # c /\ Using(x) /\ (call'[x].behind <=> call[x].behind)
    BY <1>3 DEF Using, At
  <1>8. ASSUME NEW x \in Caller \ {c}, At(x, "store"), ~call[x].behind PROVE Newest(x)'
    <2>1. ~Rotates
      BY <1>1, <1>8 DEF Newest, Using, At
    <2>2. Good(call[x].token)
      BY <1>8 DEF CredInv, Using, Newest
    <2>3. Good(call[x].token)'
      BY <1>3, <1>5, <2>2 DEF Good, Valid
    <2> QED BY <1>3, <2>1, <2>3 DEF Newest
  <1>9. \A x \in Caller : At(x, "reseal")' => call'[x].behind
    BY <1>3 DEF At
  <1>10. \A x \in Caller : Using(x)' =>
           IF call'[x].behind THEN account'.refresh = None \/ account'.refresh.grant # call'[x].token.grant
           ELSE /\ account'.refresh.grant = call'[x].token.grant
                /\ At(x, "refresh")' => AtMostLive(call[x].token)'
                /\ At(x, "store")' => Newest(x)'
    <2> SUFFICES ASSUME NEW x \in Caller, Using(x)'
                 PROVE IF call'[x].behind
                       THEN account'.refresh = None \/ account'.refresh.grant # call'[x].token.grant
                       ELSE /\ account'.refresh.grant = call'[x].token.grant
                            /\ At(x, "refresh")' => AtMostLive(call[x].token)'
                            /\ At(x, "store")' => Newest(x)'
      OBVIOUS
    <2>1. x # c /\ Using(x) /\ (call'[x].behind <=> call[x].behind) /\ call'[x].token = call[x].token
      BY <1>3, <1>7
    <2>2. account.refresh # None
      BY <1>1, AccountAssumption DEF CredInv
    <2>3. CASE call[x].behind
      BY <1>1, <1>2, <2>1, <2>2, <2>3 DEF CredInv
    <2>4. CASE ~call[x].behind
      <3>1. At(x, "store")' => Newest(x)'
        BY <1>3, <1>8, <2>1, <2>4 DEF At
      <3>2. At(x, "refresh")' => AtMostLive(call[x].token)'
        BY <1>3, <1>5, <2>1, <2>4 DEF At, CredInv
      <3> QED BY <1>1, <1>2, <2>1, <2>4, <3>1, <3>2 DEF CredInv
    <2> QED BY <2>3, <2>4
  <1> QED BY <1>1, <1>2, <1>6, <1>9, <1>10 DEF CredInv

(* The grant may be revoked: then the row is about to be wiped. *)
LEMMA RevokeTokens ==
  ASSUME AccountTypeOK, CredInv, NEW c \in Caller, RevokeRemote(c)
  PROVE  CredInv'
  <1>1. /\ account' = account /\ call[c].pc = "revoke" /\ call'[c].pc = "wipe"
        /\ \A x \in Caller \ {c} : call'[x] = call[x]
        /\ live' = [live EXCEPT ![call[c].seen.access] = 0] \/ live' = live
    BY DEF RevokeRemote, Go, At, AccountTypeOK, Locals
  <1>2. Wiping'
    BY <1>1 DEF Wiping, At
  <1>3. \A u \in Token : /\ Good(u) => Good(u)'
                         /\ AtMostLive(u) => AtMostLive(u)'
    BY <1>1, <1>2 DEF Good, Valid, AtMostLive, AccountTypeOK, Token
  <1>4. \A x \in Caller : Using(x)' => call'[x] = call[x] /\ Using(x) /\ call[x].token \in Token
    BY <1>1 DEF Using, At, AccountTypeOK
  <1>5. ASSUME NEW x \in Caller, At(x, "store"), Newest(x) PROVE Newest(x)'
    <2>1. call'[x] = call[x] /\ call[x].token \in Token
      BY <1>1, <1>5 DEF At, AccountTypeOK
    <2> QED BY <1>1, <1>3, <1>4, <1>5, <2>1 DEF Newest, At
  <1>6. \A x \in Caller : At(x, "reseal")' => call'[x] = call[x]
    BY <1>1 DEF At
  <1> QED BY <1>1, <1>2, <1>3, <1>4, <1>5, <1>6 DEF CredInv, Using, At

LEMMA WipeTokens ==
  ASSUME AccountTypeOK, CredInv, NEW c \in Caller, Wipe(c)
  PROVE  CredInv'
  <1>1. account'.status = "disconnected" /\ account'.access = None /\ account'.refresh = None
    BY DEF Wipe, Write, AccountTypeOK, Row
  <1>2. \A x \in Caller : \/ call'[x].pc = "idle"
                          \/ call'[x].pc = call[x].pc /\ (call[x].pc \in Holding => call'[x].behind)
    BY WriteKeeps DEF Wipe, NoCall
  <1>3. \A x \in Caller : Using(x)' \/ At(x, "reseal")' => call'[x].behind
    BY <1>2 DEF Using, At, Holding
  <1> QED BY <1>1, <1>3 DEF CredInv

LEMMA ResealTokens ==
  ASSUME AccountTypeOK, CredInv, NEW c \in Caller, Reseal(c), ~call[c].behind
  PROVE  CredInv'
  <1> DEFINE old == call[c].seen
             r == [account EXCEPT !.access = old.access, !.key = keyId,
                                  !.refresh = IF old.refresh = None THEN @ ELSE old.refresh]
  <1>1. At(c, "reseal") /\ old.access = account.access /\ old.refresh = account.refresh /\ live' = live
    BY DEF Reseal, CredInv
  <1>2. account' = r
    BY DEF Reseal, Write
  <1>3. /\ account'.status = account.status /\ account'.access = account.access
        /\ account'.refresh = account.refresh
    BY <1>1, <1>2 DEF AccountTypeOK, Row
  <1>4. call'[c].pc = "idle" /\ \A x \in Caller \ {c} :
          /\ call'[x].pc = call[x].pc /\ call'[x].token = call[x].token
          /\ call'[x].behind <=> (call[x].behind \/ At(x, "reseal"))
    BY WriteKeeps DEF Reseal, NoCall, At
  <1>5. Wiping => Wiping'
    BY <1>1, <1>4 DEF Wiping, At
  <1>6. \A u : /\ Good(u) => Good(u)'
               /\ AtMostLive(u) => AtMostLive(u)'
    BY <1>1, <1>5 DEF Good, Valid, AtMostLive
  <1>7. \A x \in Caller : Using(x)' => /\ x # c /\ Using(x) /\ (call'[x].behind <=> call[x].behind)
                                       /\ call'[x].pc = call[x].pc /\ call'[x].token = call[x].token
    BY <1>4 DEF Using, At
  <1>8. ASSUME NEW x \in Caller, At(x, "store"), ~call[x].behind, Newest(x) PROVE Newest(x)'
    <2>1. x # c /\ call'[x].token = call[x].token
      BY <1>1, <1>4, <1>8 DEF At
    <2> QED BY <1>3, <1>6, <1>7, <1>8, <2>1 DEF Newest, At
  <1>9. \A x \in Caller : At(x, "reseal")' => call'[x].behind
    BY <1>4 DEF At
  <1>10. (\E x \in Caller : At(x, "store") /\ ~call[x].behind) =>
            \E x \in Caller : At(x, "store")' /\ ~call'[x].behind
    BY <1>1, <1>4 DEF At
  <1> QED BY <1>3, <1>5, <1>6, <1>7, <1>8, <1>9, <1>10 DEF CredInv, Using, At

(* A new grant becomes valid, of which nobody has a token. *)
LEMMA ExchangeTokens ==
  ASSUME AccountTypeOK, CodeInv, CredInv, NEW c \in Caller, Exchange(c)
  PROVE  CredInv'
  <1> DEFINE g == call[c].at
  <1>1. g \in State /\ ~Holds(g) /\ call[c].pc = "exchange" /\ account' = account
    BY DEF Exchange, AccountTypeOK, At, CodeInv
  <1>2. live' = [live EXCEPT ![g] = 1] \/ live' = live
    BY DEF Exchange
  <1>3. call'[c].pc \in {"idle", "connect"} /\ \A x \in Caller \ {c} : call'[x] = call[x]
    BY DEF Exchange, Go, Return, NoCall, AccountTypeOK, Locals
  <1>4. Wiping => Wiping'
    BY <1>1, <1>3 DEF Wiping, At
  <1>5. \A u \in Token : u.grant # g => /\ Good(u) => Good(u)'
                                        /\ AtMostLive(u) => AtMostLive(u)'
    BY <1>2, <1>4 DEF Good, Valid, AtMostLive, AccountTypeOK, Token
  <1>6. \A x \in Caller : Using(x)' =>
          call'[x] = call[x] /\ Using(x) /\ call[x].token \in Token /\ call[x].token.grant # g
    BY <1>1, <1>3, AccountAssumption DEF Using, At, AccountTypeOK, Holds
  <1>7. account.refresh \in Token => account.refresh.grant # g
    BY <1>1, AccountAssumption DEF Holds
  <1>8. ASSUME NEW x \in Caller, At(x, "store"), Newest(x) PROVE Newest(x)'
    <2>1. call'[x] = call[x] /\ Good(call[x].token)'
      <3>1. call'[x] = call[x] /\ Using(x)'
        BY <1>1, <1>3, <1>8 DEF At, Using
      <3>2. Good(call[x].token)
        BY <1>8 DEF Newest
      <3> QED BY <1>5, <1>6, <3>1, <3>2
    <2> QED BY <1>1, <1>6, <1>8, <2>1 DEF Newest, At
  <1>9. \A x \in Caller : At(x, "reseal")' => call'[x] = call[x]
    BY <1>3 DEF At
  <1>10. (\E x \in Caller : At(x, "store") /\ ~call[x].behind) =>
            \E x \in Caller : At(x, "store")' /\ ~call'[x].behind
    BY <1>1, <1>3 DEF At
  <1> QED BY <1>1, <1>4, <1>5, <1>6, <1>7, <1>8, <1>9, <1>10 DEF CredInv, Using, At

LEMMA CrashTokens ==
  ASSUME AccountTypeOK, CredInv, Crash, ~crossed'
  PROVE  CredInv'
  <1>1. /\ UNCHANGED <<account, live>> /\ \A x \in Caller : call'[x].pc = "idle"
        /\ ~Wiping /\ (Rotates => \A x \in Caller : ~At(x, "store"))
    BY DEF Crash, NoCall, Wiping
  <1>2. \A u : /\ Good(u) => Good(u)'
               /\ AtMostLive(u) => AtMostLive(u)'
    BY <1>1 DEF Good, Valid, AtMostLive
  <1> QED BY <1>1, <1>2 DEF CredInv, Using, At

LEMMA TokensStep ==
  ASSUME AccountTypeOK, CodeInv, TokensInv, [AccountNext]_accountVars
  PROVE  TokensInv'
  <1>1. ASSUME NEW c \in Caller, Connect(c) PROVE TokensInv'
    BY <1>1, ConnectTokens DEF TokensInv
  <1>2. ASSUME NEW c \in Caller, StoreRefreshed(c) PROVE TokensInv'
    BY <1>2, StoreTokens DEF TokensInv, StoreRefreshed
  <1>3. ASSUME NEW c \in Caller, Reseal(c) PROVE TokensInv'
    BY <1>3, ResealTokens DEF TokensInv, Reseal
  <1>4. ASSUME NEW c \in Caller, Refresh(c) PROVE TokensInv'
    <2>1. crossed => crossed'
      BY <1>4 DEF Refresh
    <2>2. crossed' = crossed \/ crossed'
      BY <1>4, AccountAssumption DEF Refresh, AccountTypeOK
    <2> QED BY <1>4, <2>1, <2>2, RefreshTokens DEF TokensInv
  <1>5. CASE Crash
    BY <1>5, CrashTokens DEF TokensInv, Crash
  <1>6. ASSUME NEW c \in Caller, BeginRefresh(c) PROVE TokensInv'
    BY <1>6, BeginRefreshTokens DEF TokensInv, BeginRefresh
  <1>7. ASSUME NEW c \in Caller, RevokeRemote(c) PROVE TokensInv'
    BY <1>7, RevokeTokens DEF TokensInv, RevokeRemote
  <1>8. ASSUME NEW c \in Caller, Wipe(c) PROVE TokensInv'
    BY <1>8, WipeTokens DEF TokensInv, Wipe
  <1>9. ASSUME NEW c \in Caller, Exchange(c) PROVE TokensInv'
    BY <1>9, ExchangeTokens DEF TokensInv, Exchange
  <1>10. ASSUME NEW c \in Caller, BeginReseal(c) PROVE TokensInv'
    <2>1. /\ UNCHANGED <<account, live, crossed>>
          /\ call[c].pc = "idle" /\ call'[c].pc = "reseal" /\ call'[c].seen = account
          /\ \A x \in Caller \ {c} : call'[x] = call[x]
      BY <1>10 DEF BeginReseal, Enter, At, NoCall, AccountTypeOK
    <2>2. CredInv => CredInv'
      <3> SUFFICES ASSUME CredInv PROVE CredInv'
        OBVIOUS
      <3>1. Wiping => Wiping'
        BY <2>1 DEF Wiping, At
      <3>2. \A u : Good(u) => Good(u)'
        BY <2>1, <3>1 DEF Good, Valid
      <3>3. \A x \in Caller : Using(x)' => call'[x] = call[x] /\ Using(x)
        BY <2>1 DEF Using, At
      <3>4. \A x \in Caller : At(x, "store") => call'[x] = call[x]
        BY <2>1 DEF At
      <3>5. \A x \in Caller : At(x, "store") /\ Newest(x) => Newest(x)'
        BY <2>1, <3>2, <3>3, <3>4 DEF Newest, At
      <3> QED BY <2>1, <3>1, <3>2, <3>3, <3>4, <3>5 DEF CredInv, AtMostLive, Using, At
    <2> QED BY <2>1, <2>2 DEF TokensInv
  <1>11. ASSUME UNCHANGED <<account, live, crossed>>,
                \A c \in Caller :
                  \/ call'[c] = call[c]
                  \/ /\ call[c].pc \notin {"store", "wipe"}
                     /\ call'[c].pc \notin {"refresh", "store", "reseal"}
         PROVE  TokensInv'
    BY <1>11, TokensFrame DEF TokensInv
  <1>12. ASSUME NEW c \in Caller,
                \/ \E s \in State : ReadState(c, s)
                \/ \E d \in Delivery : BeginDelivery(c, d)
                \/ BeginDisconnect(c) \/ BeginSubscription(c)
         PROVE  TokensInv'
    <2>1. UNCHANGED <<account, live, crossed>> /\ call[c].pc = "idle"
      BY <1>12 DEF ReadState, BeginDelivery, BeginDisconnect, BeginSubscription, Enter, At
    <2>2. \A x \in Caller : call'[x] = call[x] \/ (x = c /\ call'[x].pc \in {"consume", "verify", "revoke", "register"})
      <3>1. CASE BeginDisconnect(c) \/ BeginSubscription(c)
        BY <3>1 DEF BeginDisconnect, BeginSubscription, Enter, NoCall, AccountTypeOK
      <3>2. CASE (\E s \in State : ReadState(c, s)) \/ \E d \in Delivery : BeginDelivery(c, d)
        BY <3>2 DEF ReadState, BeginDelivery, Enter, NoCall, AccountTypeOK
      <3> QED BY <1>12, <3>1, <3>2
    <2> QED BY <1>11, <2>1, <2>2
  <1>13. ASSUME NEW c \in Caller,
                \/ DeleteState(c) \/ RefreshRefused(c) \/ CreateSubscription(c)
                \/ ReceiveWebhook(c) \/ RejectWebhook(c)
         PROVE  TokensInv'
    <2>1. UNCHANGED <<account, live, crossed>> /\ call[c].pc \in {"consume", "refresh", "register", "verify"}
      BY <1>13 DEF DeleteState, RefreshRefused, CreateSubscription, ReceiveWebhook, RejectWebhook, At
    <2>2. \A x \in Caller : call'[x] = call[x] \/ (x = c /\ call'[x].pc \in {"idle", "exchange"})
      <3>1. CASE DeleteState(c)
        BY <3>1 DEF DeleteState, Return, Go, NoCall, AccountTypeOK, Locals
      <3>2. CASE RefreshRefused(c) \/ CreateSubscription(c) \/ ReceiveWebhook(c) \/ RejectWebhook(c)
        BY <3>2 DEF RefreshRefused, CreateSubscription, ReceiveWebhook, RejectWebhook, Return, NoCall, AccountTypeOK
      <3> QED BY <1>13, <3>1, <3>2
    <2> QED BY <1>11, <2>1, <2>2
  <1>14. CASE \/ \E s \in State : StartAuthorization(s) \/ StateExpires(s)
              \/ RevokeSubscription \/ UNCHANGED accountVars
    BY <1>11, <1>14 DEF StartAuthorization, StateExpires, RevokeSubscription, accountVars
  <1> QED BY <1>1, <1>2, <1>3, <1>4, <1>5, <1>6, <1>7, <1>8, <1>9, <1>10, <1>12, <1>13, <1>14
          DEF AccountNext
-----------------------------------------------------------------------------
AccountInv == AccountTypeOK /\ CodeInv /\ TokensInv /\ DeliveryCountsOnce

LEMMA InitInv == AccountInit => AccountInv
  <1> SUFFICES ASSUME AccountInit PROVE AccountInv
    OBVIOUS
  <1>1. AccountTypeOK
    BY DEF AccountInit, AccountTypeOK, NoAccount, NoCall, Row, Locals, Phase
  <1>2. CodeInv
    BY AccountAssumption DEF AccountInit, CodeInv, Holds, NoAccount, NoCall, At
  <1>3. TokensInv
    BY DEF AccountInit, TokensInv, CredInv, NoAccount, NoCall, At, Using
  <1>4. DeliveryCountsOnce
    BY DEF AccountInit, DeliveryCountsOnce
  <1> QED BY <1>1, <1>2, <1>3, <1>4 DEF AccountInv

LEMMA DeliveryStep ==
  ASSUME AccountTypeOK, DeliveryCountsOnce, [AccountNext]_accountVars
  PROVE  DeliveryCountsOnce'
  <1>1. ASSUME NEW c \in Caller, ReceiveWebhook(c) PROVE DeliveryCountsOnce'
    <2> DEFINE d == call[c].at
    <2>1. d \in Delivery
      BY <1>1 DEF ReceiveWebhook, At, AccountTypeOK
    <2>2. CASE FirstDelivery(d)
      BY <1>1, <2>1, <2>2, AccountAssumption
       DEF ReceiveWebhook, FirstDelivery, Count, DeliveryCountsOnce, AccountTypeOK
    <2>3. CASE Duplicate(d)
      BY <1>1, <2>1, <2>3, AccountAssumption
       DEF ReceiveWebhook, Duplicate, Count, DeliveryCountsOnce, AccountTypeOK
    <2> QED BY <1>1, <2>2, <2>3 DEF ReceiveWebhook
  <1>2. ASSUME UNCHANGED <<duplicates, accepted, requested>> PROVE DeliveryCountsOnce'
    BY <1>2 DEF DeliveryCountsOnce
  <1> QED
    BY <1>1, <1>2 DEF AccountNext, accountVars, webhookVars, StartAuthorization, StateExpires, ReadState,
       BeginDelivery, DeleteState, Exchange, Connect, BeginRefresh, Refresh, RefreshRefused, StoreRefreshed,
       BeginDisconnect, RevokeRemote, Wipe, BeginReseal, Reseal, BeginSubscription, CreateSubscription,
       RejectWebhook, RevokeSubscription, Crash

LEMMA AccountInvariance == AccountSpec => []AccountInv
  <1>1. AccountInv /\ [AccountNext]_accountVars => AccountInv'
    BY TypeStep, CodeStep, TokensStep, DeliveryStep DEF AccountInv
  <1> QED BY <1>1, InitInv, PTL DEF AccountSpec

(* Every variable keeps its type, and a request the locals its phase needs. *)
THEOREM AccountTypes == AccountSpec => []AccountTypeOK
  <1>1. AccountInv => AccountTypeOK
    BY DEF AccountInv
  <1> QED BY <1>1, AccountInvariance, PTL

(* An OAuth state is exchanged once at most, whoever calls back and when    *)
(* (_consume_state).                                                       *)
THEOREM StatesUsedOnce == AccountSpec => []StateUsedOnce
  <1>1. AccountInv => StateUsedOnce
    BY DEF AccountInv, AccountTypeOK, CodeInv, StateUsedOnce
  <1> QED BY <1>1, AccountInvariance, PTL

(* A connected account can be refreshed and a disconnected one has no        *)
(* tokens, as long as no call has written over a row it had not read and no *)
(* answer of a rotating provider was lost (_store_refreshed_token,           *)
(* disconnect, rotate_keys).                                               *)
THEOREM CredentialsKept == AccountSpec => []CredentialsFollowStatus
  <1>1. AccountInv => CredentialsFollowStatus
    <2> SUFFICES ASSUME AccountInv, ~crossed PROVE CredentialsFollowStatus
      BY DEF CredentialsFollowStatus
    <2>1. CredInv
      BY DEF AccountInv, TokensInv
    <2>2. ASSUME account.status = "connected"
          PROVE  \/ Valid(account.refresh)
                 \/ \E c \in Caller :
                      \/ At(c, "store") /\ call[c].token.grant = account.refresh.grant
                      \/ At(c, "wipe")
      BY <2>1, <2>2 DEF CredInv, Good, Wiping, Using
    <2> QED BY <2>1, <2>2 DEF CredentialsFollowStatus, CredInv
  <1> QED BY <1>1, AccountInvariance, PTL

(* A webhook makes its resource pending once (the ON CONFLICT of             *)
(* receive_webhook).                                                       *)
THEOREM DeliveriesCountOnce == AccountSpec => []DeliveryCountsOnce
  <1>1. AccountInv => DeliveryCountsOnce
    BY DEF AccountInv
  <1> QED BY <1>1, AccountInvariance, PTL
=============================================================================

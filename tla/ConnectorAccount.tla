--------------------------- MODULE ConnectorAccount ---------------------------
(***************************************************************************)
(* The account of one provider in one organization (connector_accounts):    *)
(* OAuth authorization, the tokens and their refresh, disconnection, the    *)
(* rotation of encryption keys, and the webhook subscription hung on it.     *)
(*                                                                         *)
(* Each call reads the row once and writes it later, by its id alone, with   *)
(* a request to the provider in between.  The provider is the other half of  *)
(* the state: a grant per authorization, and of each grant the one refresh   *)
(* token that is valid.                                                    *)
(***************************************************************************)
EXTENDS Integers

CONSTANTS
  Caller,    \* requests, some in the event loop and some in threads
  State,     \* OAuth states, one per authorization that is started
  Delivery,  \* delivery ids of the provider's webhooks
  Rotates,   \* the provider gives a new refresh token at each refresh
  Bounds,    \* how much of each kind may happen in a behaviour
  None

Event == {"authorize", "refresh", "disconnect", "deliver", "crash"}

(* A refresh token: the grant it is of, and which of its tokens it is. *)
Token == [grant : State, n : Nat \ {0}]

ASSUME AccountAssumption ==
  /\ None \notin Nat \cup State \cup Token
  /\ Rotates \in BOOLEAN
  /\ Bounds \subseteq [Event -> Nat]

VARIABLES
  account,     \* the row
  live,        \* the provider: the valid refresh token of each grant, 0 for none
  oauthState,  \* oauth_states
  exchanged,   \* how many codes were exchanged for each state
  keyId,       \* the active encryption key
  subscribed,  \* connector_webhook_subscriptions.status
  duplicates,  \* connector_webhook_deliveries.duplicate_count, None without a row
  accepted,    \* how often each delivery was answered
  requested,   \* how often each made the resource pending
  call,        \* the locals of each request
  crossed,     \* the row was last written over by a call that had read an older one
  left         \* how much of each kind may still happen

webhookVars == <<subscribed, duplicates, accepted, requested>>
oauthVars == <<oauthState, exchanged>>
accountVars == <<account, live, oauthVars, keyId, webhookVars, call, crossed, left>>

NoAccount == [status |-> "absent", access |-> None, refresh |-> None, key |-> 1]
NoCall == [pc |-> "idle", at |-> None, token |-> None, seen |-> NoAccount, behind |-> FALSE]

Phase == {"idle", "consume", "exchange", "connect", "refresh", "store",
          "revoke", "wipe", "reseal", "verify", "register"}
Row == [status : {"absent", "connected", "disconnected"}, access : State \cup {None},
        refresh : Token \cup {None}, key : Nat]
Locals == [pc : Phase, at : State \cup Delivery \cup {None}, token : Token \cup {None},
           seen : Row, behind : BOOLEAN]

AccountTypeOK ==
  /\ account \in Row
  /\ live \in [State -> Nat]
  /\ oauthState \in [State -> {"new", "open", "overdue", "gone"}]
  /\ exchanged \in [State -> Nat]
  /\ keyId \in Nat
  /\ subscribed \in {"absent", "active", "revoked"}
  /\ duplicates \in [Delivery -> Nat \cup {None}]
  /\ accepted \in [Delivery -> Nat]
  /\ requested \in [Delivery -> Nat]
  /\ call \in [Caller -> Locals]
  /\ \A c \in Caller :
       /\ call[c].pc \in {"consume", "exchange", "connect"} => call[c].at \in State
       /\ call[c].pc = "verify" => call[c].at \in Delivery
       /\ call[c].pc \in {"refresh", "store"} => call[c].token \in Token
  /\ crossed \in BOOLEAN

AccountInit ==
  /\ account = NoAccount
  /\ live = [g \in State |-> 0]
  /\ oauthState = [s \in State |-> "new"]
  /\ exchanged = [s \in State |-> 0]
  /\ keyId = 1
  /\ subscribed = "absent"
  /\ duplicates = [d \in Delivery |-> None]
  /\ accepted = [d \in Delivery |-> 0]
  /\ requested = [d \in Delivery |-> 0]
  /\ call = [c \in Caller |-> NoCall]
  /\ crossed = FALSE
  /\ left \in Bounds

At(c, p) == call[c].pc = p
Enter(c, r) == At(c, "idle") /\ call' = [call EXCEPT ![c] = r]
Go(c, p) == call' = [call EXCEPT ![c].pc = p]
Return(c) == call' = [call EXCEPT ![c] = NoCall]
Spend(e) == left[e] > 0 /\ left' = [left EXCEPT ![e] = @ - 1]

(* A write of the row by c: of the calls in P, all others now hold a row    *)
(* that is no more.                                                        *)
Write(c, r, P) ==
  /\ account' = r
  /\ call' = [x \in Caller |->
                IF x = c THEN NoCall
                ELSE IF call[x].pc \in P THEN [call[x] EXCEPT !.behind = TRUE] ELSE call[x]]

(* Those that will write tokens from what they have read. *)
Holding == {"refresh", "store", "reseal"}
-----------------------------------------------------------------------------
(* start_authorization, complete_callback. *)

StartAuthorization(s) ==
  /\ Spend("authorize")
  /\ oauthState[s] = "new"
  /\ oauthState' = [oauthState EXCEPT ![s] = "open"]
  /\ UNCHANGED <<account, live, exchanged, keyId, webhookVars, call, crossed>>

StateExpires(s) ==
  /\ oauthState[s] = "open"
  /\ oauthState' = [oauthState EXCEPT ![s] = "overdue"]
  /\ UNCHANGED <<account, live, exchanged, keyId, webhookVars, call, crossed, left>>

(* With a fault: callbacks run in threads. *)
LoopFreeFault == TRUE

(* Nothing is awaited between the two statements of _consume_state: the    *)
(* event loop runs one callback through both.                              *)
LoopFree == \A c \in Caller : ~At(c, "consume")

ReadState(c, s) ==
  /\ LoopFree
  /\ oauthState[s] \in {"open", "overdue"}
  /\ Enter(c, [NoCall EXCEPT !.pc = "consume", !.at = s])
  /\ UNCHANGED <<account, live, oauthVars, keyId, webhookVars, crossed, left>>

(* An expired state is deleted too, and refused. *)
DeleteState(c) ==
  /\ At(c, "consume")
  /\ oauthState' = [oauthState EXCEPT ![call[c].at] = "gone"]
  /\ IF oauthState[call[c].at] = "overdue" THEN Return(c) ELSE Go(c, "exchange")
  /\ UNCHANGED <<account, live, exchanged, keyId, webhookVars, crossed, left>>

(* _exchange_code and _account_identity; either may fail. *)
Exchange(c) ==
  /\ At(c, "exchange")
  /\ LET g == call[c].at IN
     \/ /\ exchanged' = [exchanged EXCEPT ![g] = @ + 1]
        /\ live' = [live EXCEPT ![g] = 1]
        /\ Go(c, "connect") \/ Return(c)
     \/ Return(c) /\ UNCHANGED <<live, exchanged>>
  /\ UNCHANGED <<account, oauthState, keyId, webhookVars, crossed, left>>

(* The row of this external account is inserted or written over.  Offline   *)
(* access with a new consent is asked for: a refresh token comes along.     *)
Connect(c) ==
  /\ At(c, "connect")
  /\ LET g == call[c].at IN
     Write(c, [status |-> "connected", access |-> g, refresh |-> [grant |-> g, n |-> 1],
               key |-> keyId], Holding)
  /\ crossed' = FALSE
  /\ UNCHANGED <<live, oauthVars, keyId, webhookVars, left>>
-----------------------------------------------------------------------------
(* _access_token, _access_token_sync and live_probe, where the token is     *)
(* about to expire or a refresh is asked for.                              *)

BeginRefresh(c) ==
  /\ Spend("refresh")
  /\ account.status = "connected"
  /\ account.access # None
  /\ account.refresh # None
  /\ Enter(c, [NoCall EXCEPT !.pc = "refresh", !.token = account.refresh])
  /\ UNCHANGED <<account, live, oauthVars, keyId, webhookVars, crossed>>

Valid(t) == live[t.grant] = t.n

(* The provider knows the token and answers; a rotated token takes the      *)
(* place of the old one.                                                   *)
Refresh(c) ==
  /\ At(c, "refresh")
  /\ LET t == call[c].token
         next == IF Rotates THEN [t EXCEPT !.n = @ + 1] ELSE t
     IN /\ Valid(t)
        /\ live' = [live EXCEPT ![t.grant] = next.n]
        /\ \/ call' = [call EXCEPT ![c].pc = "store", ![c].token = next] /\ UNCHANGED crossed
           \/ Return(c) /\ crossed' = (crossed \/ Rotates)   \* the answer is lost
  /\ UNCHANGED <<account, oauthVars, keyId, webhookVars, left>>

(* It refuses, or cannot be reached: the account is marked, not written. *)
RefreshRefused(c) ==
  /\ At(c, "refresh")
  /\ Return(c)
  /\ UNCHANGED <<account, live, oauthVars, keyId, webhookVars, crossed, left>>

(* With a fault: the old refresh token is kept. *)
StoreRefreshedFault(c) ==
  /\ At(c, "store")
  /\ Write(c, [account EXCEPT !.access = call[c].token.grant, !.key = keyId], {"reseal"})
  /\ crossed' = (crossed \/ call[c].behind)
  /\ UNCHANGED <<live, oauthVars, keyId, webhookVars, left>>

(* By connector_id alone, whatever the row has become. *)
StoreRefreshed(c) ==
  /\ At(c, "store")
  /\ Write(c, [account EXCEPT !.access = call[c].token.grant, !.refresh = call[c].token,
                              !.key = keyId], {"reseal"})
  /\ crossed' = (crossed \/ call[c].behind)
  /\ UNCHANGED <<live, oauthVars, keyId, webhookVars, left>>
-----------------------------------------------------------------------------
(* disconnect *)

BeginDisconnect(c) ==
  /\ Spend("disconnect")
  /\ account.status = "connected"
  /\ Enter(c, [NoCall EXCEPT !.pc = "revoke", !.seen = account])
  /\ UNCHANGED <<account, live, oauthVars, keyId, webhookVars, crossed>>

(* Revoked where the provider can, and goes on where it fails. *)
RevokeRemote(c) ==
  /\ At(c, "revoke")
  /\ live' = [live EXCEPT ![call[c].seen.access] = 0] \/ UNCHANGED live
  /\ Go(c, "wipe")
  /\ UNCHANGED <<account, oauthVars, keyId, webhookVars, crossed, left>>

Wipe(c) ==
  /\ At(c, "wipe")
  /\ Write(c, [account EXCEPT !.status = "disconnected", !.access = None, !.refresh = None], Holding)
  /\ UNCHANGED <<live, oauthVars, keyId, webhookVars, crossed, left>>
-----------------------------------------------------------------------------
(* rotate_keys of security_admin.py, in one transaction that reads first.  *)

BeginReseal(c) ==
  /\ account.status # "absent"
  /\ account.key # keyId
  /\ account.access # None
  /\ Enter(c, [NoCall EXCEPT !.pc = "reseal", !.seen = account])
  /\ UNCHANGED <<account, live, oauthVars, keyId, webhookVars, crossed, left>>

Reseal(c) ==
  /\ At(c, "reseal")
  /\ LET old == call[c].seen IN
     Write(c, [account EXCEPT !.access = old.access, !.key = keyId,
                              !.refresh = IF old.refresh = None THEN @ ELSE old.refresh], {"reseal"})
  /\ crossed' = (crossed \/ call[c].behind)
  /\ UNCHANGED <<live, oauthVars, keyId, webhookVars, left>>
-----------------------------------------------------------------------------
(* Webhook subscriptions and deliveries. *)

BeginSubscription(c) ==
  /\ subscribed = "absent"
  /\ account.status = "connected"
  /\ Enter(c, [NoCall EXCEPT !.pc = "register"])
  /\ UNCHANGED <<account, live, oauthVars, keyId, webhookVars, crossed, left>>

CreateSubscription(c) ==
  /\ At(c, "register")
  /\ \/ subscribed' = "active"
     \/ UNCHANGED subscribed       \* the remote registration fails
  /\ Return(c)
  /\ UNCHANGED <<account, live, oauthVars, keyId, duplicates, accepted, requested, crossed, left>>

RevokeSubscription ==
  /\ subscribed = "active"
  /\ subscribed' = "revoked"
  /\ UNCHANGED <<account, live, oauthVars, keyId, duplicates, accepted, requested, call, crossed, left>>

(* receive_webhook: the subscription is active; the signature is checked    *)
(* over the network for some providers.                                    *)
BeginDelivery(c, d) ==
  /\ Spend("deliver")
  /\ subscribed = "active"
  /\ Enter(c, [NoCall EXCEPT !.pc = "verify", !.at = d])
  /\ UNCHANGED <<account, live, oauthVars, keyId, webhookVars, crossed>>

Count(d) == accepted' = [accepted EXCEPT ![d] = @ + 1]

(* With a fault: a delivery is inserted again. *)
FirstDeliveryFault(d) ==
  /\ duplicates' = [duplicates EXCEPT ![d] = 0]
  /\ requested' = [requested EXCEPT ![d] = @ + 1]

(* INSERT ... ON CONFLICT DO NOTHING, and the resource becomes pending. *)
FirstDelivery(d) ==
  /\ duplicates[d] = None
  /\ duplicates' = [duplicates EXCEPT ![d] = 0]
  /\ requested' = [requested EXCEPT ![d] = @ + 1]

Duplicate(d) ==
  /\ duplicates[d] # None
  /\ duplicates' = [duplicates EXCEPT ![d] = @ + 1]
  /\ UNCHANGED requested

ReceiveWebhook(c) ==
  /\ At(c, "verify")
  /\ FirstDelivery(call[c].at) \/ Duplicate(call[c].at)
  /\ Count(call[c].at)
  /\ Return(c)
  /\ UNCHANGED <<account, live, oauthVars, keyId, subscribed, crossed, left>>

(* The signature, or the token that stands for one, is not the provider's. *)
RejectWebhook(c) ==
  /\ At(c, "verify")
  /\ Return(c)
  /\ UNCHANGED <<account, live, oauthVars, keyId, webhookVars, crossed, left>>
-----------------------------------------------------------------------------
(* The process dies, and may come back with another active key.  A rotated  *)
(* token on its way to the row and a revocation without its wipe are lost.  *)
Crash ==
  /\ Spend("crash")
  /\ call' = [c \in Caller |-> NoCall]
  /\ crossed' = (crossed \/ \E c \in Caller : At(c, "wipe") \/ (At(c, "store") /\ Rotates))
  /\ keyId' \in {keyId, keyId + 1}
  /\ UNCHANGED <<account, live, oauthVars, webhookVars>>

AccountNext ==
  \/ \E s \in State : StartAuthorization(s) \/ StateExpires(s)
  \/ \E c \in Caller :
       \/ \E s \in State : ReadState(c, s)
       \/ \E d \in Delivery : BeginDelivery(c, d)
       \/ DeleteState(c) \/ Exchange(c) \/ Connect(c)
       \/ BeginRefresh(c) \/ Refresh(c) \/ RefreshRefused(c) \/ StoreRefreshed(c)
       \/ BeginDisconnect(c) \/ RevokeRemote(c) \/ Wipe(c)
       \/ BeginReseal(c) \/ Reseal(c)
       \/ BeginSubscription(c) \/ CreateSubscription(c) \/ ReceiveWebhook(c) \/ RejectWebhook(c)
  \/ RevokeSubscription \/ Crash

AccountSpec == AccountInit /\ [][AccountNext]_accountVars
-----------------------------------------------------------------------------
(* An authorization that was started is exchanged for tokens once at most,  *)
(* however often its callback is called and by whom at the same time.      *)
StateUsedOnce ==
  \A s \in State : exchanged[s] <= 1 /\ (exchanged[s] = 1 => oauthState[s] = "gone")

(* A connected account can be refreshed: its refresh token is the one the  *)
(* provider would take, or the request that has its successor is about to   *)
(* store it, or a disconnection is about to wipe it.  A disconnected one     *)
(* has no tokens.  Concurrent refreshes, late answers and reconnections     *)
(* must not change that; the cases in which they do (a call that writes      *)
(* over a row it has not read, a lost answer of a rotating provider) are     *)
(* what crossed marks, until the next connection.                          *)
CredentialsFollowStatus ==
  \/ crossed
  \/ /\ account.status = "connected" =>
          \/ Valid(account.refresh)
          \/ \E c \in Caller :
               \/ At(c, "store") /\ call[c].token.grant = account.refresh.grant
               \/ At(c, "wipe")
     /\ account.status = "disconnected" => account.access = None /\ account.refresh = None

(* A delivery makes its resource pending once, and every further copy of it *)
(* is counted, in whatever order copies, revocation and crashes come.       *)
DeliveryCountsOnce ==
  \A d \in Delivery :
    IF duplicates[d] = None THEN requested[d] = 0 /\ accepted[d] = 0
    ELSE requested[d] = 1 /\ duplicates[d] = accepted[d] - 1

(* Disconnect always removes local credentials: whatever happens later, a   *)
(* disconnected account has none.                                          *)
DisconnectRemovesCredentials ==
  account.status = "disconnected" => account.access = None /\ account.refresh = None
=============================================================================

--------------------------- MODULE ApprovalGateway ---------------------------
(***************************************************************************)
(* The governed tool call: services/mcp_gateway.py (executions),           *)
(* services/approval.py (the approval ledger) and execute_action of        *)
(* services/connectors.py (receipts of calls to outside providers).        *)
(*                                                                         *)
(* The routes are synchronous and run in a thread pool, so each Thread is  *)
(* one request being served.  A step is one database transaction (one      *)
(* `with get_connection()` block), one statement of it where the statements *)
(* can see different snapshots (READ COMMITTED, or SQLite outside a write  *)
(* transaction), or one call to the outside.  What a thread has read stays *)
(* in its local record th[t] and may be stale when it is used.             *)
(***************************************************************************)
EXTENDS Naturals, Sequences

CONSTANTS
  Thread,     \* requests in flight, threads of the pool
  Execution,  \* names of executions: idempotency keys or fresh identifiers
  Keyed,      \* the executions named by an idempotency key
  User,       \* requesting and reviewing principals
  Requester,  \* the users that request tool calls
  Reviewer,   \* the users whose role is admin or manager
  Call,       \* tool calls: a tool with its validated arguments, as hashed
  Unsafe,     \* the calls whose text the prompt guard flags
  ToolOf,     \* the kind of tool of a call
  None        \* no value

ASSUME GatewayAssumption ==
  /\ Keyed \subseteq Execution
  /\ Requester \subseteq User
  /\ Reviewer \subseteq User
  /\ Unsafe \subseteq Call
  /\ ToolOf \in [Call -> {"provider", "task", "query"}]
  /\ None \notin Execution /\ None \notin User /\ None \notin Call /\ None \notin STRING

VARIABLES
  status,       \* mcp_tool_executions.status, "absent" while there is no row
  requester,    \* mcp_tool_executions.requested_by
  args,         \* mcp_tool_executions.arguments_json
  hash,         \* mcp_tool_executions.arguments_hash
  approvalRef,  \* executions whose approval_id column is set
  decision,     \* approval_requests.status of the execution's approval
  decidedBy,    \* approval_requests.reviewed_by
  approvedHash, \* approval_requests.arguments_hash
  receipt,      \* connector_action_receipts.status of the execution
  receiptHash,  \* connector_action_receipts.request_hash
  tasks,        \* executions that are a source_execution_id of workspace_tasks
  sent,         \* what the provider has been made to do for the execution
  authority,    \* what users/openclaw say of a principal
  gated,        \* auxiliary: executions inserted as pending_approval
  th            \* the locals of each thread

executionVars == <<status, requester, args, hash, approvalRef, gated>>
approvalVars == <<decision, decidedBy, approvedHash>>
effectVars == <<receipt, receiptHash, tasks, sent>>
gatewayVars ==
  <<status, requester, args, hash, approvalRef, decision, decidedBy, approvedHash,
    receipt, receiptHash, tasks, sent, authority, gated, th>>

ExecutionStatus ==
  {"absent", "pending_approval", "running", "completed", "failed", "blocked", "rejected"}
Decision == {"absent", "pending", "approved", "rejected"}
ReceiptStatus == {"absent", "running", "completed", "failed"}
Authority == {"scoped", "unscoped", "inactive"}

Phase ==
  {"idle", "insert", "create_approval", "link", "decide", "apply", "authorize", "write",
   "cancel", "run", "insert_task", "token", "insert_receipt", "call", "settle", "finish",
   "reread", "returned"}

(* The phases of _run: the handler may act, or is about to. *)
RunPhase == {"run", "insert_task", "token", "insert_receipt", "call", "settle", "finish"}
(* The phases of request_execution before it returns or runs the tool. *)
RequestPhase == {"insert", "create_approval", "link"}

Local ==
  [pc   : Phase,
   at   : Execution \cup {None},                    \* the execution worked on
   plan : ExecutionStatus \cup {"approved", None},  \* the status it will write
   call : Call \cup {None},                         \* the arguments it has read
   who  : User \cup {None},                         \* on whose behalf
   seen : ExecutionStatus \cup {"error", None}]     \* what it returns

Idle == [pc |-> "idle", at |-> None, plan |-> None, call |-> None, who |-> None, seen |-> None]

GatewayTypeOK ==
  /\ status \in [Execution -> ExecutionStatus]
  /\ requester \in [Execution -> User \cup {None}]
  /\ args \in [Execution -> Call \cup {None}]
  /\ hash \in [Execution -> Call \cup {None}]
  /\ approvalRef \in SUBSET Execution
  /\ decision \in [Execution -> Decision]
  /\ decidedBy \in [Execution -> User \cup {None}]
  /\ approvedHash \in [Execution -> Call \cup {None}]
  /\ receipt \in [Execution -> ReceiptStatus]
  /\ receiptHash \in [Execution -> Call \cup {None}]
  /\ tasks \in SUBSET Execution
  /\ sent \in [Execution -> Seq(Call)]
  /\ authority \in [User -> Authority]
  /\ gated \in SUBSET Execution
  /\ th \in [Thread -> Local]
  /\ \A t \in Thread : th[t].pc # "idle" => th[t].at \in Execution /\ th[t].who \in User

GatewayInit ==
  /\ status = [e \in Execution |-> "absent"]
  /\ requester = [e \in Execution |-> None]
  /\ args = [e \in Execution |-> None]
  /\ hash = [e \in Execution |-> None]
  /\ approvalRef = {}
  /\ decision = [e \in Execution |-> "absent"]
  /\ decidedBy = [e \in Execution |-> None]
  /\ approvedHash = [e \in Execution |-> None]
  /\ receipt = [e \in Execution |-> "absent"]
  /\ receiptHash = [e \in Execution |-> None]
  /\ tasks = {}
  /\ sent = [e \in Execution |-> <<>>]
  /\ authority = [u \in User |-> "scoped"]
  /\ gated = {}
  /\ th = [t \in Thread |-> Idle]

Goto(t, p) == th' = [th EXCEPT ![t].pc = p]
GotoWith(t, p, s) == th' = [th EXCEPT ![t].pc = p, ![t].plan = s]
(* Return the record of an execution whose status is s ("error": raise). *)
Return(t, s) == th' = [th EXCEPT ![t].pc = "returned", ![t].seen = s]
Start(t, p, e, u) == [Idle EXCEPT !.pc = p, !.at = e, !.who = u]

-----------------------------------------------------------------------------
(* request_execution *)

(* With a fault: only the policies gate, approval_required is not looked at. *)
InitialStatusFault(c) == {"pending_approval", "running"}

(***************************************************************************)
(* The status a new execution is inserted with.  Policies and settings may *)
(* change between calls, so unsafe text may or may not block, and a tool   *)
(* may or may not be gated; provider tools have approval_required = True.  *)
(***************************************************************************)
InitialStatus(c) ==
  (IF c \in Unsafe THEN {"blocked"} ELSE {})
    \cup {"pending_approval"}
    \cup (IF ToolOf[c] = "provider" THEN {} ELSE {"running"})

(* An execution without an idempotency key gets a new identifier each time. *)
Nameable(e) ==
  \/ e \in Keyed
  \/ status[e] = "absent" /\ \A s \in Thread : th[s].at # e

(* The idempotency lookup.  The scopes that require_scope looks at were read  *)
(* earlier, with the user of the request: authority may say otherwise by now. *)
RequestExecution(t, e, u, c) ==
  /\ th[t].pc = "idle"
  /\ Nameable(e)
  /\ \/ /\ status[e] = "absent"
        /\ \E s \in InitialStatus(c) :
             th' = [th EXCEPT ![t] = [Start(t, "insert", e, u) EXCEPT !.plan = s, !.call = c]]
     \/ /\ status[e] # "absent"
        /\ th' = [th EXCEPT ![t] =
             [Start(t, "returned", e, u) EXCEPT
                !.seen = IF requester[e] = u /\ hash[e] = c THEN status[e] ELSE "error"]]
  /\ UNCHANGED <<executionVars, approvalVars, effectVars, authority>>

(* _insert_execution: the idempotency key is unique in the table. *)
InsertExecution(t) ==
  LET e == th[t].at IN
  /\ th[t].pc = "insert"
  /\ \/ /\ status[e] # "absent"
        /\ Return(t, "error")
        /\ UNCHANGED executionVars
     \/ /\ status[e] = "absent"
        /\ status' = [status EXCEPT ![e] = th[t].plan]
        /\ requester' = [requester EXCEPT ![e] = th[t].who]
        /\ args' = [args EXCEPT ![e] = th[t].call]
        /\ hash' = [hash EXCEPT ![e] = th[t].call]
        /\ gated' = IF th[t].plan = "pending_approval" THEN gated \cup {e} ELSE gated
        /\ UNCHANGED approvalRef
        /\ Goto(t, CASE th[t].plan = "pending_approval" -> "create_approval"
                     [] th[t].plan = "running" -> "run"
                     [] OTHER -> "reread")
  /\ UNCHANGED <<approvalVars, effectVars, authority>>

(* approval_service.create: execution_id is unique in approval_requests. *)
CreateApproval(t) ==
  LET e == th[t].at IN
  /\ th[t].pc = "create_approval"
  /\ decision[e] = "absent"
  /\ decision' = [decision EXCEPT ![e] = "pending"]
  /\ approvedHash' = [approvedHash EXCEPT ![e] = th[t].call]
  /\ Goto(t, "link")
  /\ UNCHANGED <<executionVars, decidedBy, effectVars, authority>>

(* The update that stores approval_id writes the status as well. *)
LinkApproval(t) ==
  LET e == th[t].at IN
  /\ th[t].pc = "link"
  /\ status' = [status EXCEPT ![e] = "pending_approval"]
  /\ approvalRef' = approvalRef \cup {e}
  /\ Goto(t, "reread")
  /\ UNCHANGED <<requester, args, hash, gated, approvalVars, effectVars, authority>>

-----------------------------------------------------------------------------
(* decide_approval: approval_service.decide, then apply_approval *)

(* With a fault: the UPDATE of the ledger without AND status = 'pending'. *)
UndecidedFault(e) == decision[e] # "absent"

(* The condition of decide's SELECT and of every UPDATE of the ledger. *)
Undecided(e) == decision[e] = "pending"

(* The SELECT of decide and its two checks, behind the role check. *)
Decide(t, e, r, verdict) ==
  /\ th[t].pc = "idle"
  /\ requester[e] # r
  /\ Undecided(e)
  /\ th' = [th EXCEPT ![t] = [Start(t, "decide", e, r) EXCEPT !.plan = verdict]]
  /\ UNCHANGED <<executionVars, approvalVars, effectVars, authority>>

(* The UPDATE ... WHERE status = 'pending'; its row count is not examined. *)
DecideUpdate(t) ==
  LET e == th[t].at IN
  /\ th[t].pc = "decide"
  /\ \/ /\ Undecided(e)
        /\ decision' = [decision EXCEPT ![e] = th[t].plan]
        /\ decidedBy' = [decidedBy EXCEPT ![e] = th[t].who]
     \/ /\ ~Undecided(e)
        /\ UNCHANGED <<decision, decidedBy>>
  /\ Goto(t, "apply")
  /\ UNCHANGED <<executionVars, approvedHash, effectVars, authority>>

(* apply_approval reads the approval, which is decided by now, and the row. *)
ApplyApproval(t) ==
  LET e == th[t].at IN
  /\ th[t].pc = "apply"
  /\ \/ /\ decision[e] = "rejected"
        /\ GotoWith(t, "write", "rejected")
     \/ /\ decision[e] = "approved" /\ status[e] # "pending_approval"
        /\ Return(t, status[e])
     \/ /\ decision[e] = "approved" /\ status[e] = "pending_approval"
        /\ th' = [th EXCEPT ![t].pc = "authorize", ![t].call = args[e]]
  /\ UNCHANGED <<executionVars, approvalVars, effectVars, authority>>

(* With a fault: the payload hashes are not compared. *)
AuthorizedStatusFault(e, c) ==
  CASE authority[requester[e]] = "inactive" -> {"failed"}
    [] authority[requester[e]] = "unscoped" -> {"blocked"}
    [] OTHER -> {"running"}

(* The verdict of the checks apply_approval makes before it runs the tool. *)
AuthorizedStatus(e, c) ==
  IF c # hash[e] \/ approvedHash[e] # hash[e] THEN {"blocked"}
  ELSE CASE authority[requester[e]] = "inactive" -> {"failed"}
         [] authority[requester[e]] = "unscoped" -> {"blocked"}
         [] OTHER -> {"running"} \cup (IF c \in Unsafe THEN {"blocked"} ELSE {})

Authorize(t) ==
  /\ th[t].pc = "authorize"
  /\ \E s \in AuthorizedStatus(th[t].at, th[t].call) : GotoWith(t, "write", s)
  /\ UNCHANGED <<executionVars, approvalVars, effectVars, authority>>

(* _update_execution: unconditional, whatever the status has become. *)
WriteStatus(t) ==
  LET e == th[t].at IN
  /\ th[t].pc = "write"
  /\ status' = [status EXCEPT ![e] = th[t].plan]
  /\ Goto(t, IF th[t].plan = "running" THEN "run" ELSE "reread")
  /\ UNCHANGED <<requester, args, hash, approvalRef, gated, approvalVars, effectVars, authority>>

-----------------------------------------------------------------------------
(* retry_execution and cancel_execution, called by the workflow engine *)

(* The scopes of the requester were read earlier here, too. *)
RetryExecution(t, e, u) ==
  /\ th[t].pc = "idle"
  /\ status[e] = "failed"
  /\ requester[e] = u
  /\ th' = [th EXCEPT ![t] =
       [Start(t, "write", e, u) EXCEPT
          !.plan = IF args[e] = hash[e] THEN "running" ELSE "blocked",
          !.call = args[e]]]
  /\ UNCHANGED <<executionVars, approvalVars, effectVars, authority>>

(* A workflow cancels only what a finished request returned to it. *)
Requested(e) ==
  status[e] # "absent" /\ \A s \in Thread : ~(th[s].at = e /\ th[s].pc \in RequestPhase)

(* cancel_for_execution: conditional on the approval being pending. *)
CancelForExecution(t, e, u) ==
  /\ th[t].pc = "idle"
  /\ Requested(e)
  /\ u = requester[e] \/ u \in Reviewer
  /\ \/ /\ Undecided(e)
        /\ decision' = [decision EXCEPT ![e] = "rejected"]
        /\ decidedBy' = [decidedBy EXCEPT ![e] = u]
     \/ /\ ~Undecided(e)
        /\ UNCHANGED <<decision, decidedBy>>
  /\ th' = [th EXCEPT ![t] = Start(t, "cancel", e, u)]
  /\ UNCHANGED <<executionVars, approvedHash, effectVars, authority>>

(* With a fault: the workflow's word for it, not a status of executions. *)
CancelExecutionFault(t) ==
  /\ th[t].pc = "cancel"
  /\ IF status[th[t].at] = "pending_approval" THEN GotoWith(t, "write", "cancelled")
                                              ELSE Return(t, status[th[t].at])
  /\ UNCHANGED <<executionVars, approvalVars, effectVars, authority>>

(* cancel_execution: the check is made on what was read, the write follows. *)
CancelExecution(t) ==
  LET e == th[t].at IN
  /\ th[t].pc = "cancel"
  /\ IF status[e] = "pending_approval" THEN GotoWith(t, "write", "rejected")
                                       ELSE Return(t, status[e])
  /\ UNCHANGED <<executionVars, approvalVars, effectVars, authority>>

-----------------------------------------------------------------------------
(* _run: the tool's handler, then completed or failed *)

Runs(t, tool) == th[t].pc = "run" /\ ToolOf[th[t].call] = tool

(* search_documents and export_data read only. *)
RunQuery(t) ==
  /\ Runs(t, "query")
  /\ \E s \in {"completed", "failed"} : GotoWith(t, "finish", s)
  /\ UNCHANGED <<executionVars, approvalVars, effectVars, authority>>

(* _create_task: the SELECT by source_execution_id ...  What raises in it      *)
(* makes the execution a failed one.                                       *)
LookupTask(t) ==
  /\ Runs(t, "task")
  /\ \/ IF th[t].at \in tasks THEN GotoWith(t, "finish", "completed") ELSE Goto(t, "insert_task")
     \/ GotoWith(t, "finish", "failed")
  /\ UNCHANGED <<executionVars, approvalVars, effectVars, authority>>

(* ... and the INSERT, which the unique column refuses to a second thread, and *)
(* which may fail before the task is there or after.                       *)
InsertTask(t) ==
  LET e == th[t].at IN
  /\ th[t].pc = "insert_task"
  /\ tasks' \in {tasks, tasks \cup {e}}
  /\ \/ GotoWith(t, "finish", "failed")
     \/ e \in tasks' \ tasks /\ GotoWith(t, "finish", "completed")
  /\ UNCHANGED <<executionVars, approvalVars, receipt, receiptHash, sent, authority>>

(* With a fault: a receipt that exists at all is taken for a success. *)
LookupReceiptFault(t) ==
  /\ Runs(t, "provider")
  /\ IF receipt[th[t].at] = "absent" THEN Goto(t, "token") ELSE GotoWith(t, "finish", "completed")
  /\ UNCHANGED <<executionVars, approvalVars, effectVars, authority>>

(* execute_action: an earlier receipt answers or refuses the call. *)
LookupReceipt(t) ==
  LET e == th[t].at IN
  /\ Runs(t, "provider")
  /\ CASE receipt[e] = "absent" -> Goto(t, "token")
       [] receipt[e] = "completed" /\ receiptHash[e] = th[t].call ->
            GotoWith(t, "finish", "completed")
       [] OTHER -> GotoWith(t, "finish", "failed")
  /\ UNCHANGED <<executionVars, approvalVars, effectVars, authority>>

(* _access_token_sync: the account may be gone, or its refresh may fail. *)
AccessToken(t) ==
  /\ th[t].pc = "token"
  /\ Goto(t, "insert_receipt") \/ GotoWith(t, "finish", "failed")
  /\ UNCHANGED <<executionVars, approvalVars, effectVars, authority>>

(* With a fault: INSERT OR REPLACE, a failed receipt is taken over. *)
UnclaimedFault(e) == receipt[e] \in {"absent", "failed"}

(* The unique execution_id of connector_action_receipts. *)
Unclaimed(e) == receipt[e] = "absent"

(* The receipt is unique for its execution: it claims the provider call. *)
InsertReceipt(t) ==
  LET e == th[t].at IN
  /\ th[t].pc = "insert_receipt"
  /\ \/ /\ Unclaimed(e)
        /\ receipt' = [receipt EXCEPT ![e] = "running"]
        /\ receiptHash' = [receiptHash EXCEPT ![e] = th[t].call]
        /\ Goto(t, "call")
     \/ /\ ~Unclaimed(e)
        /\ GotoWith(t, "finish", "failed")
        /\ UNCHANGED <<receipt, receiptHash>>
  /\ UNCHANGED <<executionVars, approvalVars, tasks, sent, authority>>

(* The provider acts and answers; or fails, before or after it has acted. *)
CallProvider(t) ==
  LET e == th[t].at IN
  /\ th[t].pc = "call"
  /\ \/ /\ sent' = [sent EXCEPT ![e] = Append(@, th[t].call)]
        /\ GotoWith(t, "settle", "completed") \/ GotoWith(t, "settle", "failed")
     \/ /\ UNCHANGED sent
        /\ GotoWith(t, "settle", "failed")
  /\ UNCHANGED <<executionVars, approvalVars, receipt, receiptHash, tasks, authority>>

(* The update of the receipt.  If completed cannot be written, failed may be; *)
(* if that raises as well, the receipt stays running.                         *)
SettleReceipt(t) ==
  LET e == th[t].at IN
  /\ th[t].pc = "settle"
  /\ \/ receipt' = [receipt EXCEPT ![e] = th[t].plan] /\ Goto(t, "finish")
     \/ receipt' = [receipt EXCEPT ![e] = "failed"] /\ GotoWith(t, "finish", "failed")
     \/ UNCHANGED receipt /\ GotoWith(t, "finish", "failed")
  /\ UNCHANGED <<executionVars, approvalVars, receiptHash, tasks, sent, authority>>

(* The last update of _run, unconditional like the others. *)
FinishRun(t) ==
  LET e == th[t].at IN
  /\ th[t].pc = "finish"
  /\ status' = [status EXCEPT ![e] = th[t].plan]
  /\ Goto(t, "reread")
  /\ UNCHANGED <<requester, args, hash, approvalRef, gated, approvalVars, effectVars, authority>>

(* The update, its reread or the audit record raises: _run's except branch. *)
FailRun(t) ==
  /\ th[t].pc \in {"finish", "reread"}
  /\ th[t].plan = "completed"
  /\ GotoWith(t, "finish", "failed")
  /\ UNCHANGED <<executionVars, approvalVars, effectVars, authority>>

(* _update_execution returns the row as a second transaction finds it. *)
RereadExecution(t) ==
  /\ th[t].pc = "reread"
  /\ Return(t, status[th[t].at])
  /\ UNCHANGED <<executionVars, approvalVars, effectVars, authority>>

-----------------------------------------------------------------------------
(* Around the calls *)

Respond(t) ==
  /\ th[t].pc = "returned"
  /\ th' = [th EXCEPT ![t] = Idle]
  /\ UNCHANGED <<executionVars, approvalVars, effectVars, authority>>

(* The process dies, or nobody catches what the database raises. *)
Crash(t) ==
  /\ th[t].pc \notin {"idle", "returned"}
  /\ th' = [th EXCEPT ![t] = Idle]
  /\ UNCHANGED <<executionVars, approvalVars, effectVars, authority>>

(* The database refuses the next transaction and the caller catches it. *)
Raise(t) ==
  /\ th[t].pc \notin {"idle", "returned"}
  /\ Return(t, "error")
  /\ UNCHANGED <<executionVars, approvalVars, effectVars, authority>>

(* A membership is changed or disabled, an OpenClaw client expires. *)
ChangeAuthority(u, a) ==
  /\ authority[u] # a
  /\ authority' = [authority EXCEPT ![u] = a]
  /\ UNCHANGED <<executionVars, approvalVars, effectVars, th>>

(* Someone edits arguments_json in the database, as test_security_mcp does. *)
Tamper(e, c) ==
  /\ status[e] # "absent"
  /\ args[e] # c /\ ToolOf[c] = ToolOf[hash[e]]
  /\ args' = [args EXCEPT ![e] = c]
  /\ UNCHANGED <<status, requester, hash, approvalRef, gated, approvalVars, effectVars, authority, th>>

RunStep(t) ==
  \/ RunQuery(t) \/ LookupTask(t) \/ InsertTask(t)
  \/ LookupReceipt(t) \/ AccessToken(t) \/ InsertReceipt(t)
  \/ CallProvider(t) \/ SettleReceipt(t)
  \/ FinishRun(t) \/ FailRun(t)

(* What a thread does by itself once a call has begun. *)
Continue(t) ==
  \/ InsertExecution(t) \/ CreateApproval(t) \/ LinkApproval(t)
  \/ DecideUpdate(t) \/ ApplyApproval(t) \/ Authorize(t) \/ WriteStatus(t)
  \/ CancelExecution(t) \/ RunStep(t) \/ RereadExecution(t)

Begin(t) ==
  \E e \in Execution :
    \/ \E u \in Requester, c \in Call : RequestExecution(t, e, u, c)
    \/ \E r \in Reviewer, v \in {"approved", "rejected"} : Decide(t, e, r, v)
    \/ \E u \in Requester : RetryExecution(t, e, u)
    \/ \E u \in User : CancelForExecution(t, e, u)

Environment ==
  \/ \E u \in Requester, a \in Authority : ChangeAuthority(u, a)
  \/ \E e \in Execution, c \in Call : Tamper(e, c)

GatewayNext ==
  \/ \E t \in Thread : Begin(t) \/ Continue(t) \/ Respond(t) \/ Crash(t) \/ Raise(t)
  \/ Environment

(* The calls alone: no crash, no change of authority, no tampering. *)
UndisturbedSpec ==
  GatewayInit /\ [][\E t \in Thread : Begin(t) \/ Continue(t) \/ Respond(t)]_gatewayVars

GatewaySpec == GatewayInit /\ [][GatewayNext]_gatewayVars

-----------------------------------------------------------------------------
(* The inductive invariant behind the safety properties *)

(* What must hold of the ledger before the tool of e may be run. *)
MayRun(e) ==
  /\ e \in gated => decision[e] = "approved"
  /\ ToolOf[hash[e]] = "provider" => e \in gated

(* A row exists before anything refers to it, and its identity is fixed. *)
RowInv ==
  \A e \in Execution :
    IF status[e] = "absent"
    THEN /\ requester[e] = None /\ decision[e] = "absent" /\ receipt[e] = "absent"
         /\ sent[e] = <<>> /\ e \notin gated /\ e \notin tasks
    ELSE /\ requester[e] \in User /\ hash[e] \in Call /\ args[e] \in Call
         /\ status[e] \in {"running", "completed", "failed"} => MayRun(e)

LedgerInv ==
  \A e \in Execution :
    /\ decision[e] # "absent" => e \in gated /\ approvedHash[e] = hash[e]
    /\ decision[e] = "approved" => decidedBy[e] \in Reviewer \ {requester[e]}

(* The receipt precedes the provider call, and follows the approval. *)
EffectInv ==
  \A e \in Execution :
    /\ e \in tasks => MayRun(e)
    /\ receipt[e] # "absent" => decision[e] = "approved" /\ ToolOf[hash[e]] = "provider"
    /\ receipt[e] = "completed" => sent[e] # <<>>
    /\ sent[e] # <<>> => receipt[e] # "absent" /\ sent[e] = <<approvedHash[e]>>
    /\ status[e] = "completed" /\ ToolOf[hash[e]] = "provider" => receipt[e] = "completed"

(* What a thread in each phase may rely on, however stale its reads are. *)
PhaseInv(t) ==
  LET l == th[t]
      e == th[t].at IN
  /\ l.pc = "idle" => l = Idle
  /\ l.pc \notin {"idle", "insert", "returned"} => status[e] # "absent"
  /\ l.pc = "returned" /\ l.seen # "error" =>
       l.seen \in ExecutionStatus \ {"absent"} /\ status[e] # "absent"
  /\ l.pc = "insert" => l.call \in Call /\ l.plan \in InitialStatus(l.call)
  /\ l.pc = "create_approval" => e \in gated /\ l.call = hash[e]
  /\ l.pc \in {"create_approval", "link"} => l.plan = "pending_approval"
  /\ l.pc = "decide" =>
       /\ l.who \in Reviewer \ {requester[e]}
       /\ l.plan \in {"approved", "rejected"}
       /\ decision[e] # "absent"
  /\ l.pc = "apply" => decision[e] \in {"approved", "rejected"}
  /\ l.pc = "authorize" => decision[e] = "approved"
  /\ l.pc = "write" =>
       /\ l.plan \in {"running", "failed", "blocked", "rejected"}
       /\ l.plan \in {"running", "failed"} => MayRun(e)
       /\ l.plan = "running" => l.call = hash[e]
  /\ l.pc \in RunPhase => l.call = hash[e] /\ MayRun(e)
  /\ l.pc = "reread" /\ l.plan = "completed" => l.call = hash[e] /\ MayRun(e)
  /\ l.pc \in {"token", "insert_receipt", "call", "settle"} => ToolOf[hash[e]] = "provider"
  /\ l.pc = "insert_task" => ToolOf[hash[e]] = "task"
  /\ l.pc \in {"call", "settle"} => receipt[e] = "running"
  /\ l.pc = "call" => sent[e] = <<>>
  /\ l.pc \in {"settle", "finish"} => l.plan \in {"completed", "failed"}
  /\ l.pc = "settle" /\ l.plan = "completed" => sent[e] # <<>>
  /\ l.pc = "finish" /\ l.plan = "completed" /\ ToolOf[hash[e]] = "provider" =>
       receipt[e] = "completed"

ThreadInv == \A t \in Thread : PhaseInv(t)

(* The unique receipt lets one thread at a time near the provider. *)
ClaimInv ==
  \A s, t \in Thread :
    s # t /\ th[s].pc \in {"call", "settle"} /\ th[t].pc \in {"call", "settle"} =>
      th[s].at # th[t].at

(* Together they are preserved by every step, from any state they hold in. *)
GatewayInv ==
  GatewayTypeOK /\ RowInv /\ LedgerInv /\ EffectInv /\ ThreadInv /\ ClaimInv

-----------------------------------------------------------------------------
(* Properties *)

(* A tool is run for the execution, or has been. *)
HasRun(e) ==
  \/ status[e] \in {"running", "completed", "failed"}
  \/ e \in tasks \/ sent[e] # <<>>

(* An execution that needed an approval runs, and its effects exist, only    *)
(* once a reviewer other than its requester has approved it; and no provider *)
(* is called for an execution that did not need one (mcp_gateway.py 299-320, *)
(* 335-406; approval.py 99-133).                                             *)
ApprovedBeforeEffect ==
  \A e \in Execution :
    /\ e \in gated /\ HasRun(e) =>
         decision[e] = "approved" /\ decidedBy[e] \in Reviewer \ {requester[e]}
    /\ sent[e] # <<>> => e \in gated

(* Whatever concurrent decisions, retries, crashes and ambiguous answers there *)
(* are, the provider acts at most once for an execution, and on exactly the    *)
(* arguments that were approved (connectors.py 635-734, mcp_gateway.py 354).   *)
SentOnceAsApproved ==
  \A e \in Execution : sent[e] # <<>> => sent[e] = <<approvedHash[e]>>

(* A provider execution is reported completed only if the provider has acted *)
(* and the receipt says so, whichever thread's update came last.             *)
CompletedWasSent ==
  \A e \in Execution :
    status[e] = "completed" /\ ToolOf[hash[e]] = "provider" =>
      receipt[e] = "completed" /\ sent[e] # <<>>

(* A decision is never revised: not by a reviewer who read the approval when  *)
(* it was pending, and not by a cancellation (approval.py 119-125, 144-148).  *)
DecisionFinal ==
  [][\A e \in Execution :
       decision[e] \in {"approved", "rejected"} =>
         decision'[e] = decision[e] /\ decidedBy'[e] = decidedBy[e]]_gatewayVars

(* After an ambiguous outcome nothing is sent again automatically: a settled  *)
(* receipt stays as it is and its provider is not called any more.            *)
ReceiptFinal ==
  [][\A e \in Execution :
       receipt[e] \in {"completed", "failed"} =>
         receipt'[e] = receipt[e] /\ sent'[e] = sent[e]]_gatewayVars

(* A decision that is not refused is the decision on record: approval.py:118  *)
(* answers the others "This approval request has already been decided."       *)
AcceptedVerdictRecorded ==
  \A t \in Thread :
    th[t].pc = "apply" =>
      decision[th[t].at] = th[t].plan /\ decidedBy[th[t].at] = th[t].who

(* Without crashes, a decided execution that no request works on any more has *)
(* left pending_approval: "A manager decision updates the hash-bound MCP      *)
(* execution" (README.md:278).                                                *)
DecisionTakesEffect ==
  \A e \in Execution :
    decision[e] \in {"approved", "rejected"} /\ (\A t \in Thread : th[t].at # e) =>
      status[e] # "pending_approval"

(* What the gateway promises, without threads, rows and reads. *)
Governed == INSTANCE GovernedEffect WITH
  reviewer <- decidedBy, owner <- requester, content <- approvedHash,
  claim <- receipt, done <- sent

(* The gateway implements the abstract specification of a governed effect. *)
ImplementsGovernedEffect == Governed!Spec
=============================================================================

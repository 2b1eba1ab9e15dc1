------------------------ MODULE ApprovalGatewayProofs ------------------------
(***************************************************************************)
(* Proofs about ApprovalGateway for every value of its constants.          *)
(*                                                                         *)
(* GatewayInv is inductive: InitInv and NextInv, with one lemma per action.*)
(* LocalStep and StartStep serve the actions that change a thread's locals *)
(* only, StatusStep, LedgerStep and EffectStepInv the ones that change one *)
(* table; OthersInv says why the other threads' phases survive them.  The  *)
(* safety theorems, the action properties and the refinement follow.       *)
(***************************************************************************)
EXTENDS ApprovalGateway, TLAPS

(* Thread t has moved to phase p, in place, and no other thread has moved. *)
Moved(t, p) ==
  /\ th' \in [Thread -> Local]
  /\ \A s \in Thread \ {t} : th'[s] = th[s]
  /\ th'[t].pc = p /\ th'[t].at = th[t].at /\ th'[t].who = th[t].who

(* Goto moves a thread and keeps what it has read. *)
LEMMA GotoMoves ==
  ASSUME th \in [Thread -> Local], NEW t \in Thread, NEW p \in Phase, Goto(t, p)
  PROVE  Moved(t, p) /\ th'[t].plan = th[t].plan /\ th'[t].call = th[t].call
  BY DEF Goto, Moved, Local

(* GotoWith moves a thread and sets its plan. *)
LEMMA GotoWithMoves ==
  ASSUME th \in [Thread -> Local], NEW t \in Thread, NEW p \in Phase,
         NEW s \in ExecutionStatus, GotoWith(t, p, s)
  PROVE  Moved(t, p) /\ th'[t].plan = s /\ th'[t].call = th[t].call
  BY DEF GotoWith, Moved, Local

(* A call that returns leaves its thread in the phase "returned". *)
LEMMA ReturnMoves ==
  ASSUME th \in [Thread -> Local], NEW t \in Thread,
         NEW s \in ExecutionStatus \cup {"error"}, Return(t, s)
  PROVE  Moved(t, "returned") /\ th'[t].seen = s
  <1>1. "returned" \in Phase /\ s \in ExecutionStatus \cup {"error", None}
    BY DEF Phase
  <1> QED BY <1>1 DEF Return, Moved, Local

(* The empty database and idle threads satisfy the invariant. *)
LEMMA InitInv == GatewayInit => GatewayInv
  <1> SUFFICES ASSUME GatewayInit PROVE GatewayInv
    OBVIOUS
  <1>1. GatewayTypeOK
    BY GatewayAssumption DEF GatewayInit, GatewayTypeOK, Idle, Local, Phase,
       ExecutionStatus, Decision, ReceiptStatus, Authority
  <1>2. RowInv /\ LedgerInv /\ EffectInv
    BY DEF GatewayInit, RowInv, LedgerInv, EffectInv
  <1>3. ThreadInv /\ ClaimInv
    BY DEF GatewayInit, ThreadInv, PhaseInv, ClaimInv, Idle, RunPhase
  <1> QED BY <1>1, <1>2, <1>3 DEF GatewayInv

(* A step that changes nothing but the locals of t. *)
LEMMA LocalStep ==
  ASSUME GatewayInv, NEW t \in Thread,
         UNCHANGED <<executionVars, approvalVars, effectVars, authority>>,
         th' \in [Thread -> Local],
         \A s \in Thread \ {t} : th'[s] = th[s],
         th'[t].pc # "idle" => th'[t].at \in Execution /\ th'[t].who \in User,
         th'[t].pc \in {"call", "settle"} => th'[t].pc = th[t].pc /\ th'[t].at = th[t].at,
         PhaseInv(t)'
  PROVE  GatewayInv'
  <1>1. GatewayTypeOK'
    BY DEF GatewayInv, GatewayTypeOK, executionVars, approvalVars, effectVars
  <1>2. RowInv' /\ LedgerInv' /\ EffectInv'
    BY DEF GatewayInv, RowInv, LedgerInv, EffectInv, MayRun, executionVars, approvalVars, effectVars
  <1>3. ThreadInv'
    <2> SUFFICES ASSUME NEW s \in Thread, s # t PROVE PhaseInv(s)'
      BY DEF ThreadInv
    <2>1. PhaseInv(s) /\ th'[s] = th[s]
      BY DEF GatewayInv, ThreadInv
    <2> QED BY <2>1 DEF PhaseInv, MayRun, executionVars, approvalVars, effectVars
  <1>4. ClaimInv'
    BY DEF GatewayInv, ClaimInv
  <1> QED BY <1>1, <1>2, <1>3, <1>4 DEF GatewayInv

(* apply_approval's two reads: what it goes on to do is allowed by the decision. *)
LEMMA ApplyApprovalInv ==
  ASSUME GatewayInv, NEW t \in Thread, ApplyApproval(t)
  PROVE  GatewayInv'
  <1> DEFINE e == th[t].at
  <1>1. th \in [Thread -> Local] /\ e \in Execution /\ th[t].who \in User
    BY DEF GatewayInv, GatewayTypeOK, ApplyApproval
  <1>2. PhaseInv(t) /\ status[e] # "absent" /\ status[e] \in ExecutionStatus /\ args[e] \in Call
    BY <1>1 DEF GatewayInv, ThreadInv, PhaseInv, ApplyApproval, GatewayTypeOK, RowInv
  <1>3. UNCHANGED <<executionVars, approvalVars, effectVars, authority>>
    BY DEF ApplyApproval
  <1>a. CASE decision[e] = "rejected"
    <2>1. Moved(t, "write") /\ th'[t].plan = "rejected"
      BY <1>1, <1>2, <1>a, GotoWithMoves DEF ApplyApproval, Phase, ExecutionStatus
    <2>2. PhaseInv(t)'
      BY <1>2, <1>3, <2>1
       DEF Moved, PhaseInv, MayRun, RunPhase, executionVars, approvalVars, effectVars
    <2> QED BY <1>1, <1>3, <2>1, <2>2, LocalStep DEF Moved
  <1>b. CASE decision[e] = "approved" /\ status[e] # "pending_approval"
    <2>1. Moved(t, "returned") /\ th'[t].seen = status[e]
      BY <1>1, <1>2, <1>b, ReturnMoves DEF ApplyApproval
    <2>2. PhaseInv(t)'
      BY <1>2, <1>3, <2>1
       DEF Moved, PhaseInv, MayRun, RunPhase, executionVars, approvalVars, effectVars
    <2> QED BY <1>1, <1>3, <2>1, <2>2, LocalStep DEF Moved
  <1>c. CASE decision[e] = "approved" /\ status[e] = "pending_approval"
    <2>1. th' = [th EXCEPT ![t].pc = "authorize", ![t].call = args[e]]
      BY <1>c DEF ApplyApproval
    <2>2. Moved(t, "authorize")
      BY <1>1, <1>2, <2>1 DEF Moved, Local, Phase
    <2>3. PhaseInv(t)'
      BY <1>2, <1>3, <1>c, <2>2
       DEF Moved, PhaseInv, MayRun, RunPhase, executionVars, approvalVars, effectVars
    <2> QED BY <1>1, <1>3, <2>2, <2>3, LocalStep DEF Moved
  <1> QED BY <1>a, <1>b, <1>c DEF ApplyApproval

(* The checks of apply_approval let only the hashed arguments of an approved row run. *)
LEMMA AuthorizeInv ==
  ASSUME GatewayInv, NEW t \in Thread, Authorize(t)
  PROVE  GatewayInv'
  <1> DEFINE e == th[t].at
  <1>1. th \in [Thread -> Local] /\ e \in Execution /\ th[t].who \in User
    BY DEF GatewayInv, GatewayTypeOK, Authorize
  <1>2. PhaseInv(t) /\ status[e] # "absent" /\ status[e] \in ExecutionStatus
        /\ decision[e] = "approved" /\ e \in gated
    BY <1>1 DEF GatewayInv, ThreadInv, PhaseInv, LedgerInv, Authorize, GatewayTypeOK, RowInv
  <1>3. UNCHANGED <<executionVars, approvalVars, effectVars, authority>>
    BY DEF Authorize
  <1>a. PICK s \in AuthorizedStatus(e, th[t].call) : GotoWith(t, "write", s)
    BY DEF Authorize
  <1>b. s \in {"running", "failed", "blocked"} /\ (s = "running" => th[t].call = hash[e])
    BY DEF AuthorizedStatus
  <1>4. Moved(t, "write") /\ th'[t].plan = s /\ th'[t].call = th[t].call
    BY <1>1, <1>2, <1>a, <1>b, GotoWithMoves DEF Phase, ExecutionStatus
  <1>5. PhaseInv(t)'
    BY <1>2, <1>3, <1>4, <1>b
       DEF Moved, PhaseInv, MayRun, RunPhase, executionVars, approvalVars, effectVars
  <1> QED BY <1>1, <1>3, <1>4, <1>5, LocalStep DEF Moved

(* cancel_execution's read: at most a rejection is planned. *)
LEMMA CancelExecutionInv ==
  ASSUME GatewayInv, NEW t \in Thread, CancelExecution(t)
  PROVE  GatewayInv'
  <1> DEFINE e == th[t].at
  <1>1. th \in [Thread -> Local] /\ e \in Execution /\ th[t].who \in User
    BY DEF GatewayInv, GatewayTypeOK, CancelExecution
  <1>2. PhaseInv(t) /\ status[e] # "absent" /\ status[e] \in ExecutionStatus
    BY <1>1 DEF GatewayInv, ThreadInv, PhaseInv, CancelExecution, GatewayTypeOK, RowInv
  <1>3. UNCHANGED <<executionVars, approvalVars, effectVars, authority>>
    BY DEF CancelExecution
  <1>4. \/ Moved(t, "write") /\ th'[t].plan = "rejected"
        \/ Moved(t, "returned") /\ th'[t].seen = status[e]
    <2>1. CASE status[e] = "pending_approval"
      BY <1>1, <2>1, GotoWithMoves DEF CancelExecution, Phase, ExecutionStatus
    <2>2. CASE status[e] # "pending_approval"
      BY <1>1, <1>2, <2>2, ReturnMoves DEF CancelExecution
    <2> QED BY <2>1, <2>2
  <1>5. PhaseInv(t)'
    BY <1>2, <1>3, <1>4
       DEF Moved, PhaseInv, MayRun, RunPhase, executionVars, approvalVars, effectVars
  <1> QED BY <1>1, <1>3, <1>4, <1>5, LocalStep DEF Moved

(* A read-only tool ends in completed or failed and has no effect. *)
LEMMA RunQueryInv ==
  ASSUME GatewayInv, NEW t \in Thread, RunQuery(t)
  PROVE  GatewayInv'
  <1> DEFINE e == th[t].at
  <1>1. th \in [Thread -> Local] /\ e \in Execution /\ th[t].who \in User
    BY DEF GatewayInv, GatewayTypeOK, RunQuery, Runs, RunPhase
  <1>2. PhaseInv(t) /\ status[e] # "absent" /\ status[e] \in ExecutionStatus /\ MayRun(e)
         /\ th[t].call = hash[e] /\ ToolOf[hash[e]] = "query"
    BY <1>1 DEF GatewayInv, ThreadInv, PhaseInv, RunQuery, Runs, RunPhase, GatewayTypeOK, RowInv
  <1>3. UNCHANGED <<executionVars, approvalVars, effectVars, authority>>
    BY DEF RunQuery
  <1>4. /\ Moved(t, "finish") /\ th'[t].call = th[t].call
        /\ th'[t].plan \in {"completed", "failed"}
    BY <1>1, <1>2, GotoWithMoves DEF RunQuery, Runs, RunPhase, Phase, ExecutionStatus
  <1>5. PhaseInv(t)'
    BY <1>2, <1>3, <1>4
       DEF Moved, PhaseInv, MayRun, RunPhase, executionVars, approvalVars, effectVars
  <1> QED BY <1>1, <1>3, <1>4, <1>5, LocalStep DEF Moved

(* _create_task finds an earlier task of the execution, or goes on to insert one. *)
LEMMA LookupTaskInv ==
  ASSUME GatewayInv, NEW t \in Thread, LookupTask(t)
  PROVE  GatewayInv'
  <1> DEFINE e == th[t].at
  <1>1. th \in [Thread -> Local] /\ e \in Execution /\ th[t].who \in User
    BY DEF GatewayInv, GatewayTypeOK, LookupTask, Runs, RunPhase
  <1>2. PhaseInv(t) /\ status[e] # "absent" /\ status[e] \in ExecutionStatus /\ MayRun(e)
         /\ th[t].call = hash[e] /\ ToolOf[hash[e]] = "task"
    BY <1>1 DEF GatewayInv, ThreadInv, PhaseInv, LookupTask, Runs, RunPhase, GatewayTypeOK, RowInv
  <1>3. UNCHANGED <<executionVars, approvalVars, effectVars, authority>>
    BY DEF LookupTask
  <1>4. /\ th'[t].call = th[t].call
        /\ \/ Moved(t, "insert_task")
           \/ Moved(t, "finish") /\ th'[t].plan \in {"completed", "failed"}
    BY <1>1, <1>2, GotoMoves, GotoWithMoves DEF LookupTask, Runs, RunPhase, Phase, ExecutionStatus
  <1>5. PhaseInv(t)'
    BY <1>2, <1>3, <1>4
       DEF Moved, PhaseInv, MayRun, RunPhase, executionVars, approvalVars, effectVars
  <1> QED BY <1>1, <1>3, <1>4, <1>5, LocalStep DEF Moved

(* execute_action answers from an earlier receipt, or goes on to claim. *)
LEMMA LookupReceiptInv ==
  ASSUME GatewayInv, NEW t \in Thread, LookupReceipt(t)
  PROVE  GatewayInv'
  <1> DEFINE e == th[t].at
  <1>1. th \in [Thread -> Local] /\ e \in Execution /\ th[t].who \in User
    BY DEF GatewayInv, GatewayTypeOK, LookupReceipt, Runs, RunPhase
  <1>2. PhaseInv(t) /\ status[e] # "absent" /\ status[e] \in ExecutionStatus /\ MayRun(e)
         /\ th[t].call = hash[e] /\ ToolOf[hash[e]] = "provider"
    BY <1>1 DEF GatewayInv, ThreadInv, PhaseInv, LookupReceipt, Runs, RunPhase, GatewayTypeOK, RowInv
  <1>3. UNCHANGED <<executionVars, approvalVars, effectVars, authority>>
    BY DEF LookupReceipt
  <1>4. /\ th'[t].call = th[t].call
        /\ \/ Moved(t, "token")
           \/ Moved(t, "finish") /\ th'[t].plan = "completed" /\ receipt[e] = "completed"
           \/ Moved(t, "finish") /\ th'[t].plan = "failed"
    BY <1>1, <1>2, GotoMoves, GotoWithMoves DEF LookupReceipt, Runs, RunPhase, Phase, ExecutionStatus
  <1>5. PhaseInv(t)'
    BY <1>2, <1>3, <1>4
       DEF Moved, PhaseInv, MayRun, RunPhase, executionVars, approvalVars, effectVars
  <1> QED BY <1>1, <1>3, <1>4, <1>5, LocalStep DEF Moved

(* Getting the access token, or failing to, changes no table of the gateway. *)
LEMMA AccessTokenInv ==
  ASSUME GatewayInv, NEW t \in Thread, AccessToken(t)
  PROVE  GatewayInv'
  <1> DEFINE e == th[t].at
  <1>1. th \in [Thread -> Local] /\ e \in Execution /\ th[t].who \in User
    BY DEF GatewayInv, GatewayTypeOK, AccessToken, RunPhase
  <1>2. PhaseInv(t) /\ status[e] # "absent" /\ status[e] \in ExecutionStatus /\ MayRun(e)
         /\ th[t].call = hash[e] /\ ToolOf[hash[e]] = "provider"
    BY <1>1 DEF GatewayInv, ThreadInv, PhaseInv, AccessToken, RunPhase, GatewayTypeOK, RowInv
  <1>3. UNCHANGED <<executionVars, approvalVars, effectVars, authority>>
    BY DEF AccessToken
  <1>4. /\ th'[t].call = th[t].call
        /\ \/ Moved(t, "insert_receipt")
           \/ Moved(t, "finish") /\ th'[t].plan = "failed"
    BY <1>1, <1>2, GotoMoves, GotoWithMoves DEF AccessToken, RunPhase, Phase, ExecutionStatus
  <1>5. PhaseInv(t)'
    BY <1>2, <1>3, <1>4
       DEF Moved, PhaseInv, MayRun, RunPhase, executionVars, approvalVars, effectVars
  <1> QED BY <1>1, <1>3, <1>4, <1>5, LocalStep DEF Moved

(* Reading the row again changes nothing. *)
LEMMA RereadExecutionInv ==
  ASSUME GatewayInv, NEW t \in Thread, RereadExecution(t)
  PROVE  GatewayInv'
  <1> DEFINE e == th[t].at
  <1>1. th \in [Thread -> Local] /\ e \in Execution /\ th[t].who \in User
    BY DEF GatewayInv, GatewayTypeOK, RereadExecution
  <1>2. PhaseInv(t) /\ status[e] # "absent" /\ status[e] \in ExecutionStatus
    BY <1>1 DEF GatewayInv, ThreadInv, PhaseInv, RereadExecution, GatewayTypeOK, RowInv
  <1>3. UNCHANGED <<executionVars, approvalVars, effectVars, authority>>
    BY DEF RereadExecution
  <1>4. Moved(t, "returned") /\ th'[t].seen = status[e]
    BY <1>1, <1>2, ReturnMoves DEF RereadExecution, Phase, ExecutionStatus
  <1>5. PhaseInv(t)'
    BY <1>2, <1>3, <1>4
       DEF Moved, PhaseInv, MayRun, RunPhase, executionVars, approvalVars, effectVars
  <1> QED BY <1>1, <1>3, <1>4, <1>5, LocalStep DEF Moved

(* A thread that starts a call changes nothing else. *)
LEMMA StartStep ==
  ASSUME GatewayInv, NEW t \in Thread, NEW l \in Local,
         UNCHANGED <<executionVars, approvalVars, effectVars, authority>>,
         th' = [th EXCEPT ![t] = l],
         l.pc # "idle" => l.at \in Execution /\ l.who \in User,
         l.pc \notin {"call", "settle"},
         PhaseInv(t)'
  PROVE  GatewayInv'
  <1>1. th' \in [Thread -> Local] /\ th'[t] = l /\ \A s \in Thread \ {t} : th'[s] = th[s]
    BY DEF GatewayInv, GatewayTypeOK
  <1> QED BY <1>1, LocalStep

(* An idle thread has the type of a thread. *)
LEMMA IdleLocal == Idle \in Local /\ Idle.pc = "idle"
  BY DEF Idle, Local, Phase

(* A request that finds no row plans a status its tool allows. *)
LEMMA RequestExecutionInv ==
  ASSUME GatewayInv, NEW t \in Thread, NEW e \in Execution, NEW u \in Requester, NEW c \in Call,
         RequestExecution(t, e, u, c)
  PROVE  GatewayInv'
  <1>1. th \in [Thread -> Local] /\ u \in User /\ status[e] \in ExecutionStatus
    BY GatewayAssumption DEF GatewayInv, GatewayTypeOK
  <1>2. UNCHANGED <<executionVars, approvalVars, effectVars, authority>>
    BY DEF RequestExecution
  <1>3. CASE status[e] = "absent"
    <2>1. PICK s \in InitialStatus(c) :
            th' = [th EXCEPT ![t] = [Start(t, "insert", e, u) EXCEPT !.plan = s, !.call = c]]
      BY <1>3 DEF RequestExecution
    <2> DEFINE l == [Start(t, "insert", e, u) EXCEPT !.plan = s, !.call = c]
    <2>2. s \in ExecutionStatus
      BY DEF InitialStatus, ExecutionStatus
    <2>3. l \in Local /\ l.pc = "insert" /\ l.at = e /\ l.who = u /\ l.plan = s /\ l.call = c
      BY <1>1, <2>2 DEF Start, Idle, Local, Phase
    <2>4. th'[t] = l
      BY <1>1, <2>1
    <2>5. PhaseInv(t)'
      BY <2>3, <2>4 DEF PhaseInv, RunPhase, InitialStatus
    <2> QED BY <1>1, <1>2, <2>1, <2>3, <2>5, StartStep
  <1>4. CASE status[e] # "absent"
    <2> DEFINE s == IF requester[e] = u /\ hash[e] = c THEN status[e] ELSE "error"
               l == [Start(t, "returned", e, u) EXCEPT !.seen = s]
    <2>1. th' = [th EXCEPT ![t] = l]
      BY <1>4 DEF RequestExecution
    <2>2. l \in Local /\ l.pc = "returned" /\ l.at = e /\ l.who = u /\ l.seen = s
      BY <1>1 DEF Start, Idle, Local, Phase
    <2>3. th'[t] = l
      BY <1>1, <2>1
    <2>4. PhaseInv(t)'
      BY <1>1, <1>2, <1>4, <2>2, <2>3 DEF PhaseInv, RunPhase, executionVars
    <2> QED BY <1>1, <1>2, <2>1, <2>2, <2>4, StartStep
  <1> QED BY <1>3, <1>4

(* A reviewer who has read a pending approval is not its requester. *)
LEMMA DecideInv ==
  ASSUME GatewayInv, NEW t \in Thread, NEW e \in Execution, NEW r \in Reviewer,
         NEW v \in {"approved", "rejected"}, Decide(t, e, r, v)
  PROVE  GatewayInv'
  <1> DEFINE l == [Start(t, "decide", e, r) EXCEPT !.plan = v]
  <1>1. th \in [Thread -> Local] /\ r \in User
    BY GatewayAssumption DEF GatewayInv, GatewayTypeOK
  <1>2. UNCHANGED <<executionVars, approvalVars, effectVars, authority>> /\ th' = [th EXCEPT ![t] = l]
    BY DEF Decide
  <1>3. l \in Local /\ l.pc = "decide" /\ l.at = e /\ l.who = r /\ l.plan = v
    BY <1>1 DEF Start, Idle, Local, Phase, ExecutionStatus
  <1>4. decision[e] # "absent" /\ status[e] # "absent" /\ requester[e] # r
    BY DEF Decide, Undecided, GatewayInv, RowInv
  <1>5. th'[t] = l
    BY <1>1, <1>2
  <1>6. PhaseInv(t)'
    BY <1>2, <1>3, <1>4, <1>5 DEF PhaseInv, RunPhase, executionVars, approvalVars
  <1> QED BY <1>1, <1>2, <1>3, <1>6, StartStep

(* A retry of a failed row runs it again, and only on the hashed arguments. *)
LEMMA RetryExecutionInv ==
  ASSUME GatewayInv, NEW t \in Thread, NEW e \in Execution, NEW u \in Requester,
         RetryExecution(t, e, u)
  PROVE  GatewayInv'
  <1> DEFINE s == IF args[e] = hash[e] THEN "running" ELSE "blocked"
             l == [Start(t, "write", e, u) EXCEPT !.plan = s, !.call = args[e]]
  <1>1. th \in [Thread -> Local] /\ u \in User
    BY GatewayAssumption DEF GatewayInv, GatewayTypeOK
  <1>2. UNCHANGED <<executionVars, approvalVars, effectVars, authority>> /\ th' = [th EXCEPT ![t] = l]
    BY DEF RetryExecution
  <1>3. status[e] = "failed" /\ MayRun(e) /\ args[e] \in Call
    BY DEF RetryExecution, GatewayInv, RowInv
  <1>4. l \in Local /\ l.pc = "write" /\ l.at = e /\ l.who = u /\ l.plan = s /\ l.call = args[e]
    BY <1>1, <1>3 DEF Start, Idle, Local, Phase, ExecutionStatus
  <1>5. th'[t] = l /\ s \in {"running", "blocked"} /\ (s = "running" => args[e] = hash[e])
    BY <1>1, <1>2
  <1>6. PhaseInv(t)'
    <2> HIDE DEF l, s
    <2> QED BY <1>2, <1>3, <1>4, <1>5
            DEF PhaseInv, RunPhase, MayRun, executionVars, approvalVars
  <1> QED BY <1>1, <1>2, <1>4, <1>6, StartStep

(* A response or a crash ends a thread and leaves the database as it is. *)
LEMMA LeaveInv ==
  ASSUME GatewayInv, NEW t \in Thread, Respond(t) \/ Crash(t)
  PROVE  GatewayInv'
  <1>1. /\ UNCHANGED <<executionVars, approvalVars, effectVars, authority>>
        /\ th' = [th EXCEPT ![t] = Idle]
    BY DEF Respond, Crash
  <1>2. th'[t] = Idle
    BY <1>1 DEF GatewayInv, GatewayTypeOK
  <1>3. PhaseInv(t)'
    BY <1>2, IdleLocal DEF PhaseInv, RunPhase
  <1> QED BY <1>1, <1>3, IdleLocal, StartStep

(* What the database raises ends a call and leaves the database as it is. *)
LEMMA RaiseInv ==
  ASSUME GatewayInv, NEW t \in Thread, Raise(t)
  PROVE  GatewayInv'
  <1>1. th \in [Thread -> Local] /\ th[t].at \in Execution /\ th[t].who \in User
    BY DEF GatewayInv, GatewayTypeOK, Raise
  <1>2. Moved(t, "returned") /\ th'[t].seen = "error"
    BY <1>1, ReturnMoves DEF Raise
  <1>3. UNCHANGED <<executionVars, approvalVars, effectVars, authority>>
    BY DEF Raise
  <1>4. PhaseInv(t)'
    BY <1>2 DEF Moved, PhaseInv, RunPhase
  <1> QED BY <1>1, <1>2, <1>3, <1>4, LocalStep DEF Moved

(* A change of membership touches no row. *)
LEMMA ChangeAuthorityInv ==
  ASSUME GatewayInv, NEW u \in Requester, NEW a \in Authority, ChangeAuthority(u, a)
  PROVE  GatewayInv'
  <1>1. GatewayTypeOK'
    BY DEF ChangeAuthority, GatewayInv, GatewayTypeOK, executionVars, approvalVars, effectVars
  <1>2. RowInv' /\ LedgerInv' /\ EffectInv'
    BY DEF ChangeAuthority, GatewayInv, RowInv, LedgerInv, EffectInv, MayRun,
           executionVars, approvalVars, effectVars
  <1>3. ThreadInv' /\ ClaimInv'
    BY DEF ChangeAuthority, GatewayInv, ThreadInv, PhaseInv, ClaimInv, MayRun,
           executionVars, approvalVars, effectVars
  <1> QED BY <1>1, <1>2, <1>3 DEF GatewayInv

(* Editing the stored arguments touches neither hash nor ledger. *)
LEMMA TamperInv ==
  ASSUME GatewayInv, NEW e \in Execution, NEW c \in Call, Tamper(e, c)
  PROVE  GatewayInv'
  <1>1. GatewayTypeOK'
    BY DEF Tamper, GatewayInv, GatewayTypeOK, approvalVars, effectVars
  <1>2. RowInv' /\ LedgerInv' /\ EffectInv'
    BY DEF Tamper, GatewayInv, GatewayTypeOK, RowInv, LedgerInv, EffectInv, MayRun,
           approvalVars, effectVars
  <1>3. ThreadInv' /\ ClaimInv'
    BY DEF Tamper, GatewayInv, ThreadInv, PhaseInv, ClaimInv, MayRun, approvalVars, effectVars
  <1> QED BY <1>1, <1>2, <1>3 DEF GatewayInv

(* What one thread's transactions leave true for the others: rows are not   *)
(* deleted, a decision stands, and a claimed receipt is the claimer's.      *)
Preserves(t) ==
  /\ \A e \in Execution : status[e] # "absent" =>
       /\ status'[e] # "absent"
       /\ requester'[e] = requester[e] /\ hash'[e] = hash[e]
       /\ e \in gated' <=> e \in gated
  /\ \A e \in Execution :
       /\ decision[e] # "absent" => decision'[e] # "absent"
       /\ decision[e] \in {"approved", "rejected"} => decision'[e] = decision[e]
       /\ receipt[e] = "completed" => receipt'[e] = "completed"
  /\ \A s \in Thread \ {t} : th[s].pc \in {"call", "settle"} =>
       LET e == th[s].at IN receipt'[e] = receipt[e] /\ sent'[e] = sent[e]

(* A step that preserves the rows keeps every other thread's phase invariant. *)
LEMMA OthersInv ==
  ASSUME GatewayInv, NEW t \in Thread, Preserves(t), \A s \in Thread \ {t} : th'[s] = th[s]
  PROVE  \A s \in Thread \ {t} : PhaseInv(s)'
  <1> SUFFICES ASSUME NEW s \in Thread, s # t PROVE PhaseInv(s)'
    OBVIOUS
  <1> DEFINE e == th[s].at
  <1>1. PhaseInv(s) /\ th'[s] = th[s]
    BY DEF GatewayInv, ThreadInv
  <1>2. CASE th[s].pc = "idle"
    BY <1>1, <1>2 DEF PhaseInv, RunPhase
  <1>3. CASE th[s].pc = "insert"
    BY <1>1, <1>3 DEF PhaseInv, RunPhase
  <1>4. CASE th[s].pc = "returned" /\ th[s].seen = "error"
    BY <1>1, <1>4 DEF PhaseInv, RunPhase
  <1>5. CASE /\ th[s].pc \notin {"idle", "insert"}
             /\ th[s].pc = "returned" => th[s].seen # "error"
    <2>1. e \in Execution /\ status[e] # "absent"
      BY <1>1, <1>5 DEF GatewayInv, GatewayTypeOK, PhaseInv
    <2>2. /\ status'[e] # "absent" /\ requester'[e] = requester[e] /\ hash'[e] = hash[e]
          /\ e \in gated' <=> e \in gated
      BY <2>1 DEF Preserves
    <2>3. /\ decision[e] # "absent" => decision'[e] # "absent"
          /\ decision[e] \in {"approved", "rejected"} => decision'[e] = decision[e]
          /\ receipt[e] = "completed" => receipt'[e] = "completed"
      BY <2>1 DEF Preserves
    <2>4. th[s].pc \in {"call", "settle"} => receipt'[e] = receipt[e] /\ sent'[e] = sent[e]
      BY DEF Preserves
    <2>5. MayRun(e) => MayRun(e)'
      BY <2>2, <2>3 DEF MayRun
    <2> QED BY <1>1, <1>5, <2>2, <2>3, <2>4, <2>5 DEF PhaseInv, RunPhase
  <1> QED BY <1>2, <1>3, <1>4, <1>5

(* An update of the status alone, wherever the thread goes from there. *)
LEMMA StatusStep ==
  ASSUME GatewayInv, NEW t \in Thread, NEW e \in Execution, NEW v \in ExecutionStatus,
         status[e] # "absent", v # "absent",
         v \in {"running", "completed", "failed"} => MayRun(e),
         v = "completed" /\ ToolOf[hash[e]] = "provider" => receipt[e] = "completed",
         status' = [status EXCEPT ![e] = v],
         approvalRef' \in SUBSET Execution,
         UNCHANGED <<requester, args, hash, gated, approvalVars, effectVars, authority>>,
         th[t].at \in Execution /\ th[t].who \in User,
         NEW p \in Phase \ {"call", "settle"}, Moved(t, p),
         PhaseInv(t)'
  PROVE  GatewayInv'
  <1>1. GatewayTypeOK'
    BY DEF GatewayInv, GatewayTypeOK, approvalVars, effectVars, Moved
  <1>2. RowInv'
    <2> SUFFICES ASSUME NEW x \in Execution
                 PROVE  (IF status[x] = "absent"
                         THEN /\ requester[x] = None /\ decision[x] = "absent"
                              /\ receipt[x] = "absent" /\ sent[x] = <<>> /\ x \notin gated /\ x \notin tasks
                         ELSE /\ requester[x] \in User /\ hash[x] \in Call /\ args[x] \in Call
                              /\ status[x] \in {"running", "completed", "failed"} => MayRun(x))'
      BY DEF RowInv
    <2>1. CASE x = e
      BY <2>1 DEF GatewayInv, GatewayTypeOK, RowInv, MayRun, approvalVars, effectVars
    <2>2. CASE x # e
      BY <2>2 DEF GatewayInv, GatewayTypeOK, RowInv, MayRun, approvalVars, effectVars
    <2> QED BY <2>1, <2>2
  <1>3. LedgerInv' /\ EffectInv'
    BY DEF GatewayInv, GatewayTypeOK, LedgerInv, EffectInv, MayRun, approvalVars, effectVars
  <1>4. Preserves(t)
    BY DEF GatewayInv, GatewayTypeOK, Preserves, approvalVars, effectVars
  <1>5. ThreadInv'
    BY <1>4, OthersInv DEF Moved, ThreadInv
  <1>6. ClaimInv'
    BY DEF GatewayInv, ClaimInv, Moved
  <1> QED BY <1>1, <1>2, <1>3, <1>5, <1>6 DEF GatewayInv

(* Linking the approval writes pending_approval again. *)
LEMMA LinkApprovalInv ==
  ASSUME GatewayInv, NEW t \in Thread, LinkApproval(t)
  PROVE  GatewayInv'
  <1> DEFINE e == th[t].at
  <1>1. th \in [Thread -> Local] /\ e \in Execution /\ th[t].who \in User /\ PhaseInv(t)
    BY DEF GatewayInv, GatewayTypeOK, ThreadInv, LinkApproval
  <1>2. status[e] # "absent" /\ th[t].plan = "pending_approval"
    BY <1>1 DEF PhaseInv, LinkApproval
  <1>3. /\ status' = [status EXCEPT ![e] = "pending_approval"]
        /\ approvalRef' \in SUBSET Execution
        /\ UNCHANGED <<requester, args, hash, gated, approvalVars, effectVars, authority>>
    BY <1>1 DEF LinkApproval, GatewayInv, GatewayTypeOK
  <1>4. Moved(t, "reread") /\ th'[t].plan = th[t].plan
    BY <1>1, GotoMoves DEF LinkApproval, Phase
  <1>5. status'[e] # "absent"
    BY <1>1, <1>3 DEF GatewayInv, GatewayTypeOK
  <1>6. PhaseInv(t)'
    BY <1>2, <1>4, <1>5 DEF Moved, PhaseInv, RunPhase
  <1> QED BY <1>1, <1>2, <1>3, <1>4, <1>6, StatusStep DEF ExecutionStatus, Phase

(* The unconditional status write of apply, retry and cancel. *)
LEMMA WriteStatusInv ==
  ASSUME GatewayInv, NEW t \in Thread, WriteStatus(t)
  PROVE  GatewayInv'
  <1> DEFINE e == th[t].at
             v == th[t].plan
             p == IF v = "running" THEN "run" ELSE "reread"
  <1>1. th \in [Thread -> Local] /\ e \in Execution /\ th[t].who \in User /\ PhaseInv(t)
    BY DEF GatewayInv, GatewayTypeOK, ThreadInv, WriteStatus
  <1>2. /\ status[e] # "absent" /\ v \in {"running", "failed", "blocked", "rejected"}
        /\ v \in {"running", "failed"} => MayRun(e)
        /\ v = "running" => th[t].call = hash[e]
    BY <1>1 DEF PhaseInv, WriteStatus
  <1>3. /\ status' = [status EXCEPT ![e] = v]
        /\ approvalRef' \in SUBSET Execution
        /\ UNCHANGED <<requester, args, hash, gated, approvalVars, effectVars, authority>>
    BY <1>1 DEF WriteStatus, GatewayInv, GatewayTypeOK
  <1>4. p \in Phase \ {"call", "settle"}
    BY DEF Phase
  <1>5. Moved(t, p) /\ th'[t].call = th[t].call /\ th'[t].plan = v
    BY <1>1, <1>4, GotoMoves DEF WriteStatus
  <1>6. status'[e] # "absent"
    BY <1>1, <1>2, <1>3 DEF GatewayInv, GatewayTypeOK
  <1>7. PhaseInv(t)'
    <2>1. CASE v = "running"
      BY <1>2, <1>3, <1>5, <1>6, <2>1 DEF Moved, PhaseInv, RunPhase, MayRun, approvalVars
    <2>2. CASE v # "running"
      BY <1>2, <1>5, <1>6, <2>2 DEF Moved, PhaseInv, RunPhase
    <2> QED BY <2>1, <2>2
  <1>8. v \in ExecutionStatus /\ v # "absent" /\ v # "completed"
    BY <1>2 DEF ExecutionStatus
  <1> HIDE DEF e, v, p
  <1> QED BY <1>1, <1>2, <1>3, <1>4, <1>5, <1>7, <1>8, StatusStep DEF e

(* The last write of _run, with the outcome the receipt justifies. *)
LEMMA FinishRunInv ==
  ASSUME GatewayInv, NEW t \in Thread, FinishRun(t)
  PROVE  GatewayInv'
  <1> DEFINE e == th[t].at
             v == th[t].plan
  <1>1. th \in [Thread -> Local] /\ e \in Execution /\ th[t].who \in User /\ PhaseInv(t)
    BY DEF GatewayInv, GatewayTypeOK, ThreadInv, FinishRun
  <1>2. /\ status[e] # "absent" /\ v \in {"completed", "failed"} /\ MayRun(e)
        /\ th[t].call = hash[e]
        /\ v = "completed" /\ ToolOf[hash[e]] = "provider" => receipt[e] = "completed"
    BY <1>1 DEF PhaseInv, FinishRun, RunPhase
  <1>3. /\ status' = [status EXCEPT ![e] = v]
        /\ approvalRef' \in SUBSET Execution
        /\ UNCHANGED <<requester, args, hash, gated, approvalVars, effectVars, authority>>
    BY <1>1 DEF FinishRun, GatewayInv, GatewayTypeOK
  <1>4. "reread" \in Phase \ {"call", "settle"} /\ v \in ExecutionStatus /\ v # "absent"
    BY <1>2 DEF Phase, ExecutionStatus
  <1>5. Moved(t, "reread") /\ th'[t].call = th[t].call
    BY <1>1, <1>4, GotoMoves DEF FinishRun
  <1>6. status'[e] # "absent"
    BY <1>1, <1>2, <1>3 DEF GatewayInv, GatewayTypeOK
  <1>7. PhaseInv(t)'
    BY <1>2, <1>3, <1>5, <1>6 DEF Moved, PhaseInv, RunPhase, MayRun, approvalVars
  <1> QED BY <1>1, <1>2, <1>3, <1>4, <1>5, <1>7, StatusStep

(* Inserting a row whose idempotency key is new, or refusing it. *)
LEMMA InsertExecutionInv ==
  ASSUME GatewayInv, NEW t \in Thread, InsertExecution(t)
  PROVE  GatewayInv'
  <1> DEFINE e == th[t].at
             v == th[t].plan
             p == CASE v = "pending_approval" -> "create_approval"
                    [] v = "running" -> "run"
                    [] OTHER -> "reread"
  <1>1. th \in [Thread -> Local] /\ e \in Execution /\ th[t].who \in User /\ PhaseInv(t)
    BY DEF GatewayInv, GatewayTypeOK, ThreadInv, InsertExecution
  <1>2. th[t].call \in Call /\ v \in InitialStatus(th[t].call)
    BY <1>1 DEF PhaseInv, InsertExecution
  <1>3. CASE status[e] # "absent"
    <2>1. UNCHANGED <<executionVars, approvalVars, effectVars, authority>> /\ Return(t, "error")
      BY <1>3 DEF InsertExecution
    <2>2. Moved(t, "returned") /\ th'[t].seen = "error"
      BY <1>1, <2>1, ReturnMoves
    <2>3. PhaseInv(t)'
      BY <1>3, <2>1, <2>2 DEF Moved, PhaseInv, RunPhase, executionVars
    <2> QED BY <1>1, <2>1, <2>2, <2>3, LocalStep DEF Moved
  <1>4. CASE status[e] = "absent"
    <2>1. /\ status' = [status EXCEPT ![e] = v]
          /\ requester' = [requester EXCEPT ![e] = th[t].who]
          /\ args' = [args EXCEPT ![e] = th[t].call]
          /\ hash' = [hash EXCEPT ![e] = th[t].call]
          /\ gated' = IF v = "pending_approval" THEN gated \cup {e} ELSE gated
          /\ UNCHANGED approvalRef /\ Goto(t, p)
          /\ UNCHANGED <<approvalVars, effectVars, authority>>
      BY <1>4 DEF InsertExecution
    <2>2. /\ v \in {"blocked", "pending_approval", "running"}
          /\ v = "running" => ToolOf[th[t].call] # "provider"
      BY <1>2 DEF InitialStatus
    <2>3. p \in {"create_approval", "run", "reread"} /\ p \in Phase
          /\ (p = "create_approval" <=> v = "pending_approval")
          /\ (p = "run" <=> v = "running")
      BY <2>2 DEF Phase
    <2>4. Moved(t, p) /\ th'[t].call = th[t].call /\ th'[t].plan = v
      BY <1>1, <2>1, <2>3, GotoMoves
    <2>5. /\ requester[e] = None /\ decision[e] = "absent" /\ receipt[e] = "absent"
          /\ sent[e] = <<>> /\ e \notin gated /\ e \notin tasks
      BY <1>1, <1>4 DEF GatewayInv, RowInv
    <2>6. /\ status'[e] = v /\ requester'[e] = th[t].who /\ args'[e] = th[t].call
          /\ hash'[e] = th[t].call
          /\ e \in gated' <=> v = "pending_approval"
      BY <1>1, <2>1, <2>5 DEF GatewayInv, GatewayTypeOK
    <2>7. \A x \in Execution \ {e} :
            /\ status'[x] = status[x] /\ requester'[x] = requester[x] /\ args'[x] = args[x]
            /\ hash'[x] = hash[x] /\ (x \in gated' <=> x \in gated)
      BY <1>1, <2>1 DEF GatewayInv, GatewayTypeOK
    <2>8. GatewayTypeOK'
      <3>1. v \in ExecutionStatus
        BY <2>2 DEF ExecutionStatus
      <3> HIDE DEF e, v, p
      <3> QED BY <1>1, <1>2, <2>1, <2>2, <2>3, <2>4, <3>1
              DEF GatewayInv, GatewayTypeOK, approvalVars, effectVars, Moved, e
    <2> HIDE DEF e, v, p
    <2>9. RowInv'
      BY <1>1, <1>2, <2>1, <2>2, <2>5, <2>6, <2>7
      DEF GatewayInv, RowInv, MayRun, approvalVars, effectVars
    <2>10. LedgerInv' /\ EffectInv'
      BY <1>1, <2>1, <2>2, <2>5, <2>6, <2>7
      DEF GatewayInv, LedgerInv, EffectInv, MayRun, approvalVars, effectVars
    <2>11. Preserves(t)
      BY <1>1, <1>4, <2>1, <2>2, <2>5, <2>6, <2>7 DEF Preserves, approvalVars, effectVars
    <2>12. PhaseInv(t)'
      BY <2>1, <2>2, <2>3, <2>4, <2>6 DEF Moved, PhaseInv, RunPhase, MayRun, approvalVars, e
    <2>13. ThreadInv'
      BY <2>4, <2>11, <2>12, OthersInv DEF Moved, ThreadInv
    <2>14. ClaimInv'
      BY <2>3, <2>4 DEF GatewayInv, ClaimInv, Moved
    <2> QED BY <2>8, <2>9, <2>10, <2>13, <2>14 DEF GatewayInv
  <1> QED BY <1>3, <1>4

(* The approval of a gated row is created pending, on its hash. *)
LEMMA CreateApprovalInv ==
  ASSUME GatewayInv, NEW t \in Thread, CreateApproval(t)
  PROVE  GatewayInv'
  <1> DEFINE e == th[t].at
  <1>1. th \in [Thread -> Local] /\ e \in Execution /\ th[t].who \in User /\ PhaseInv(t)
    BY DEF GatewayInv, GatewayTypeOK, ThreadInv, CreateApproval
  <1>2. /\ status[e] # "absent" /\ e \in gated /\ decision[e] = "absent"
        /\ th[t].call = hash[e] /\ th[t].plan = "pending_approval"
    BY <1>1 DEF PhaseInv, CreateApproval
  <1>3. hash[e] \in Call
    BY <1>1, <1>2 DEF GatewayInv, RowInv
  <1>4. /\ decision' = [decision EXCEPT ![e] = "pending"]
        /\ approvedHash' = [approvedHash EXCEPT ![e] = th[t].call]
        /\ UNCHANGED <<executionVars, decidedBy, effectVars, authority>>
    BY DEF CreateApproval
  <1>5. Moved(t, "link") /\ th'[t].plan = th[t].plan
    BY <1>1, GotoMoves DEF CreateApproval, Phase
  <1>6. receipt[e] = "absent" /\ sent[e] = <<>> /\ e \notin tasks
        /\ status[e] \notin {"running", "completed", "failed"}
    BY <1>1, <1>2 DEF GatewayInv, RowInv, EffectInv, MayRun
  <1>7. GatewayTypeOK'
    BY <1>1, <1>2, <1>3, <1>4, <1>5
    DEF GatewayInv, GatewayTypeOK, Decision, executionVars, effectVars, Moved
  <1>8. decision'[e] = "pending" /\ approvedHash'[e] = hash[e]
        /\ \A x \in Execution \ {e} :
             decision'[x] = decision[x] /\ approvedHash'[x] = approvedHash[x]
    BY <1>1, <1>2, <1>4 DEF GatewayInv, GatewayTypeOK
  <1> HIDE DEF e
  <1>9. RowInv' /\ LedgerInv'
    BY <1>1, <1>2, <1>4, <1>6, <1>8
    DEF GatewayInv, RowInv, LedgerInv, MayRun, executionVars, effectVars
  <1>10. EffectInv'
    BY <1>1, <1>2, <1>4, <1>6, <1>8
    DEF GatewayInv, EffectInv, MayRun, executionVars, effectVars
  <1>11. Preserves(t)
    BY <1>2, <1>4, <1>8 DEF Preserves, executionVars, effectVars
  <1>12. PhaseInv(t)'
    BY <1>2, <1>4, <1>5 DEF Moved, PhaseInv, RunPhase, executionVars, e
  <1>13. ThreadInv' /\ ClaimInv'
    BY <1>5, <1>11, <1>12, OthersInv DEF Moved, ThreadInv, GatewayInv, ClaimInv
  <1> QED BY <1>7, <1>9, <1>10, <1>13 DEF GatewayInv

(* The two updates of the ledger that end a pending approval. *)
LEMMA LedgerStep ==
  ASSUME GatewayInv, NEW t \in Thread, NEW e \in Execution, NEW u \in User,
         NEW d \in {"approved", "rejected"},
         d = "approved" => u \in Reviewer \ {requester[e]},
         decision[e] = "pending",
         decision' = [decision EXCEPT ![e] = d],
         decidedBy' = [decidedBy EXCEPT ![e] = u],
         UNCHANGED <<executionVars, approvedHash, effectVars, authority>>,
         th' \in [Thread -> Local],
         \A s \in Thread \ {t} : th'[s] = th[s],
         th'[t].at \in Execution /\ th'[t].who \in User,
         th'[t].pc \notin {"call", "settle"},
         PhaseInv(t)'
  PROVE  GatewayInv'
  <1>1. GatewayTypeOK'
    BY DEF GatewayInv, GatewayTypeOK, Decision, executionVars, effectVars
  <1>2. /\ decision'[e] = d /\ decidedBy'[e] = u
        /\ \A x \in Execution \ {e} : decision'[x] = decision[x] /\ decidedBy'[x] = decidedBy[x]
    BY DEF GatewayInv, GatewayTypeOK
  <1>3. ~(status[e] = "absent") /\ receipt[e] = "absent" /\ sent[e] = <<>> /\ e \notin tasks
        /\ e \in gated /\ status[e] \notin {"running", "completed", "failed"}
    BY DEF GatewayInv, RowInv, LedgerInv, EffectInv, MayRun
  <1>4. RowInv' /\ LedgerInv'
    BY <1>2, <1>3 DEF GatewayInv, RowInv, LedgerInv, MayRun, executionVars, effectVars
  <1>5. EffectInv'
    BY <1>2, <1>3 DEF GatewayInv, EffectInv, MayRun, executionVars, effectVars
  <1>6. Preserves(t)
    BY <1>2 DEF Preserves, executionVars, effectVars
  <1>7. ThreadInv' /\ ClaimInv'
    BY <1>6, OthersInv DEF ThreadInv, GatewayInv, ClaimInv
  <1> QED BY <1>1, <1>4, <1>5, <1>7 DEF GatewayInv

(* The conditional UPDATE of decide, with or without a row to update. *)
LEMMA DecideUpdateInv ==
  ASSUME GatewayInv, NEW t \in Thread, DecideUpdate(t)
  PROVE  GatewayInv'
  <1> DEFINE e == th[t].at
  <1>1. th \in [Thread -> Local] /\ e \in Execution /\ th[t].who \in User /\ PhaseInv(t)
    BY DEF GatewayInv, GatewayTypeOK, ThreadInv, DecideUpdate
  <1>2. /\ status[e] # "absent" /\ decision[e] # "absent"
        /\ th[t].who \in Reviewer \ {requester[e]} /\ th[t].plan \in {"approved", "rejected"}
    BY <1>1 DEF PhaseInv, DecideUpdate
  <1>3. Moved(t, "apply")
    BY <1>1, GotoMoves DEF DecideUpdate, Phase
  <1>4. CASE Undecided(e)
    <2>1. /\ decision[e] = "pending"
          /\ decision' = [decision EXCEPT ![e] = th[t].plan]
          /\ decidedBy' = [decidedBy EXCEPT ![e] = th[t].who]
          /\ UNCHANGED <<executionVars, approvedHash, effectVars, authority>>
      BY <1>4 DEF DecideUpdate, Undecided
    <2>2. decision'[e] = th[t].plan
      BY <1>1, <2>1 DEF GatewayInv, GatewayTypeOK
    <2>3. PhaseInv(t)'
      BY <1>2, <1>3, <2>1, <2>2 DEF Moved, PhaseInv, RunPhase, executionVars
    <2> QED BY <1>1, <1>2, <1>3, <2>1, <2>3, LedgerStep DEF Moved
  <1>5. CASE ~Undecided(e)
    <2>1. UNCHANGED <<executionVars, approvalVars, effectVars, authority>>
      BY <1>5 DEF DecideUpdate, approvalVars
    <2>2. decision[e] \in {"approved", "rejected"}
      BY <1>1, <1>2, <1>5 DEF Undecided, GatewayInv, GatewayTypeOK, Decision
    <2>3. PhaseInv(t)'
      BY <1>2, <1>3, <2>1, <2>2 DEF Moved, PhaseInv, RunPhase, executionVars, approvalVars
    <2> QED BY <1>1, <1>3, <2>1, <2>3, LocalStep DEF Moved
  <1> QED BY <1>4, <1>5

(* A cancellation closes a pending approval and no other. *)
LEMMA CancelForExecutionInv ==
  ASSUME GatewayInv, NEW t \in Thread, NEW e \in Execution, NEW u \in User,
         CancelForExecution(t, e, u)
  PROVE  GatewayInv'
  <1> DEFINE l == Start(t, "cancel", e, u)
  <1>1. l \in Local /\ l.pc = "cancel" /\ l.at = e /\ l.who = u
    BY DEF Start, Idle, Local, Phase
  <1>2. th' = [th EXCEPT ![t] = l] /\ status[e] # "absent"
    BY DEF CancelForExecution, Requested
  <1>3. th'[t] = l /\ th' \in [Thread -> Local] /\ \A s \in Thread \ {t} : th'[s] = th[s]
    BY <1>1, <1>2 DEF GatewayInv, GatewayTypeOK
  <1>4. UNCHANGED <<executionVars, approvedHash, effectVars, authority>>
    BY DEF CancelForExecution
  <1>5. PhaseInv(t)'
    BY <1>1, <1>2, <1>3, <1>4 DEF PhaseInv, RunPhase, executionVars
  <1>6. CASE Undecided(e)
    <2>1. /\ decision[e] = "pending"
          /\ decision' = [decision EXCEPT ![e] = "rejected"]
          /\ decidedBy' = [decidedBy EXCEPT ![e] = u]
      BY <1>6 DEF CancelForExecution, Undecided
    <2> HIDE DEF l
    <2> QED BY <1>1, <1>3, <1>4, <1>5, <2>1, LedgerStep
  <1>7. CASE ~Undecided(e)
    <2>1. UNCHANGED <<executionVars, approvalVars, effectVars, authority>>
      BY <1>7 DEF CancelForExecution, approvalVars
    <2> QED BY <1>1, <1>2, <1>5, <2>1, StartStep
  <1> QED BY <1>6, <1>7

(* The steps that leave the rows and the ledger alone. *)
EffectStep(t, e) ==
  /\ UNCHANGED <<executionVars, approvalVars, authority>>
  /\ \A x \in Execution \ {e} :
       /\ receipt'[x] = receipt[x] /\ sent'[x] = sent[x]
       /\ x \in tasks' <=> x \in tasks
  /\ receipt[e] = "completed" => receipt'[e] = "completed"

(* A step on the effects of e is safe if no other thread is at its claim. *)
LEMMA EffectStepInv ==
  ASSUME GatewayInv, NEW t \in Thread, NEW e \in Execution, e = th[t].at,
         status[e] # "absent", EffectStep(t, e), GatewayTypeOK', EffectInv',
         \A s \in Thread \ {t} : th[s].pc \in {"call", "settle"} /\ th[s].at = e =>
           receipt'[e] = receipt[e] /\ sent'[e] = sent[e],
         th'[t].at = e, \A s \in Thread \ {t} : th'[s] = th[s],
         th'[t].pc \in {"call", "settle"} =>
           \A s \in Thread \ {t} : th[s].pc \in {"call", "settle"} => th[s].at # e,
         PhaseInv(t)'
  PROVE  GatewayInv'
  <1>1. RowInv' /\ LedgerInv'
    BY DEF GatewayInv, RowInv, LedgerInv, MayRun, EffectStep, executionVars, approvalVars
  <1>2. Preserves(t)
    BY DEF GatewayInv, GatewayTypeOK, Preserves, EffectStep, executionVars, approvalVars
  <1>3. ThreadInv'
    BY <1>2, OthersInv DEF ThreadInv
  <1>4. ClaimInv'
    BY DEF GatewayInv, ClaimInv
  <1> QED BY <1>1, <1>3, <1>4 DEF GatewayInv

(* A task is inserted once for its execution. *)
LEMMA InsertTaskInv ==
  ASSUME GatewayInv, NEW t \in Thread, InsertTask(t)
  PROVE  GatewayInv'
  <1> DEFINE e == th[t].at
  <1>1. th \in [Thread -> Local] /\ e \in Execution /\ th[t].who \in User /\ PhaseInv(t)
    BY DEF GatewayInv, GatewayTypeOK, ThreadInv, InsertTask
  <1>2. /\ status[e] # "absent" /\ th[t].call = hash[e] /\ MayRun(e)
        /\ ToolOf[hash[e]] = "task"
    BY <1>1 DEF PhaseInv, InsertTask, RunPhase
  <1>3. /\ tasks' \in {tasks, tasks \cup {e}}
        /\ UNCHANGED <<executionVars, approvalVars, receipt, receiptHash, sent, authority>>
        /\ GotoWith(t, "finish", "failed") \/ GotoWith(t, "finish", "completed")
    BY DEF InsertTask
  <1>4. Moved(t, "finish") /\ th'[t].plan \in {"failed", "completed"} /\ th'[t].call = th[t].call
    BY <1>1, <1>3, GotoWithMoves DEF Phase, ExecutionStatus
  <1>5. GatewayTypeOK'
    BY <1>1, <1>3, <1>4 DEF GatewayInv, GatewayTypeOK, executionVars, approvalVars, Moved
  <1>6. EffectInv'
    BY <1>1, <1>2, <1>3 DEF GatewayInv, EffectInv, MayRun, executionVars, approvalVars
  <1>7. EffectStep(t, e)
    BY <1>1, <1>3 DEF EffectStep
  <1>8. PhaseInv(t)'
    BY <1>2, <1>3, <1>4 DEF Moved, PhaseInv, RunPhase, MayRun, executionVars, approvalVars
  <1> QED BY <1>1, <1>2, <1>3, <1>4, <1>5, <1>6, <1>7, <1>8, EffectStepInv DEF Moved

(* The unique receipt is taken by one thread, after the approval. *)
LEMMA InsertReceiptInv ==
  ASSUME GatewayInv, NEW t \in Thread, InsertReceipt(t)
  PROVE  GatewayInv'
  <1> DEFINE e == th[t].at
  <1>1. th \in [Thread -> Local] /\ e \in Execution /\ th[t].who \in User /\ PhaseInv(t)
    BY DEF GatewayInv, GatewayTypeOK, ThreadInv, InsertReceipt
  <1>2. /\ status[e] # "absent" /\ th[t].call = hash[e] /\ MayRun(e)
        /\ ToolOf[hash[e]] = "provider"
    BY <1>1 DEF PhaseInv, InsertReceipt, RunPhase
  <1>3. hash[e] \in Call /\ decision[e] = "approved"
    BY <1>1, <1>2 DEF GatewayInv, RowInv, MayRun
  <1>4. CASE Unclaimed(e)
    <2>1. /\ receipt[e] = "absent"
          /\ receipt' = [receipt EXCEPT ![e] = "running"]
          /\ receiptHash' = [receiptHash EXCEPT ![e] = th[t].call]
          /\ UNCHANGED <<executionVars, approvalVars, tasks, sent, authority>>
          /\ Goto(t, "call")
      BY <1>4 DEF InsertReceipt, Unclaimed
    <2>2. Moved(t, "call") /\ th'[t].call = th[t].call
      BY <1>1, <2>1, GotoMoves DEF Phase
    <2>3. receipt'[e] = "running" /\ sent[e] = <<>>
      BY <1>1, <2>1 DEF GatewayInv, GatewayTypeOK, EffectInv
    <2>4. GatewayTypeOK'
      BY <1>1, <1>2, <1>3, <2>1, <2>2
      DEF GatewayInv, GatewayTypeOK, executionVars, approvalVars, Moved, ReceiptStatus
    <2>5. EffectInv'
      BY <1>1, <1>2, <1>3, <2>1, <2>3
      DEF GatewayInv, GatewayTypeOK, EffectInv, MayRun, executionVars, approvalVars
    <2>6. EffectStep(t, e)
      BY <1>1, <2>1 DEF EffectStep, GatewayInv, GatewayTypeOK
    <2>7. PhaseInv(t)'
      BY <1>2, <2>1, <2>2, <2>3 DEF Moved, PhaseInv, RunPhase, MayRun, executionVars, approvalVars
    <2>8. \A s \in Thread : th[s].pc \in {"call", "settle"} => th[s].at # e
      BY <2>1 DEF GatewayInv, ThreadInv, PhaseInv
    <2> QED BY <1>1, <1>2, <2>2, <2>4, <2>5, <2>6, <2>7, <2>8, EffectStepInv DEF Moved
  <1>5. CASE ~Unclaimed(e)
    <2>1. /\ UNCHANGED <<executionVars, approvalVars, effectVars, authority>>
          /\ GotoWith(t, "finish", "failed")
      BY <1>5 DEF InsertReceipt, effectVars
    <2>2. Moved(t, "finish") /\ th'[t].plan = "failed" /\ th'[t].call = th[t].call
      BY <1>1, <2>1, GotoWithMoves DEF Phase, ExecutionStatus
    <2>3. PhaseInv(t)'
      BY <1>2, <2>1, <2>2 DEF Moved, PhaseInv, RunPhase, MayRun, executionVars, approvalVars
    <2> QED BY <1>1, <2>1, <2>2, <2>3, LocalStep DEF Moved
  <1> QED BY <1>4, <1>5

(* The thread that holds the claim calls the provider for the first time. *)
LEMMA CallProviderInv ==
  ASSUME GatewayInv, NEW t \in Thread, CallProvider(t)
  PROVE  GatewayInv'
  <1> DEFINE e == th[t].at
  <1>1. th \in [Thread -> Local] /\ e \in Execution /\ th[t].who \in User /\ PhaseInv(t)
    BY DEF GatewayInv, GatewayTypeOK, ThreadInv, CallProvider
  <1>2. /\ status[e] # "absent" /\ th[t].call = hash[e] /\ MayRun(e)
        /\ ToolOf[hash[e]] = "provider" /\ receipt[e] = "running" /\ sent[e] = <<>>
    BY <1>1 DEF PhaseInv, CallProvider, RunPhase
  <1>3. hash[e] \in Call /\ decision[e] = "approved" /\ approvedHash[e] = hash[e]
    BY <1>1, <1>2 DEF GatewayInv, RowInv, LedgerInv, MayRun
  <1>4. PICK v \in {"completed", "failed"} : GotoWith(t, "settle", v)
    BY DEF CallProvider
  <1>5. Moved(t, "settle") /\ th'[t].plan = v /\ th'[t].call = th[t].call
    BY <1>1, <1>4, GotoWithMoves DEF Phase, ExecutionStatus
  <1>6. UNCHANGED <<executionVars, approvalVars, receipt, receiptHash, tasks, authority>>
    BY DEF CallProvider
  <1>7. \A s \in Thread \ {t} : th[s].pc \in {"call", "settle"} => th[s].at # e
    BY DEF GatewayInv, ClaimInv, CallProvider
  <1>8. CASE sent' = [sent EXCEPT ![e] = Append(@, th[t].call)]
    <2>1. sent' \in [Execution -> Seq(Call)] /\ sent'[e] = <<hash[e]>>
          /\ \A x \in Execution \ {e} : sent'[x] = sent[x]
      <3>1. Append(sent[e], th[t].call) = <<hash[e]>> /\ <<hash[e]>> \in Seq(Call)
        BY <1>2, <1>3
      <3> QED BY <1>1, <1>8, <3>1 DEF GatewayInv, GatewayTypeOK
    <2>2. GatewayTypeOK'
      BY <1>1, <1>5, <1>6, <2>1 DEF GatewayInv, GatewayTypeOK, executionVars, approvalVars, Moved
    <2>3. EffectInv'
      BY <1>1, <1>2, <1>3, <1>6, <2>1
      DEF GatewayInv, EffectInv, MayRun, executionVars, approvalVars
    <2>4. EffectStep(t, e)
      BY <1>1, <1>6, <2>1 DEF EffectStep
    <2>5. sent'[e] # <<>>
      BY <2>1, <1>3
    <2>6. PhaseInv(t)'
      BY <1>2, <1>4, <1>5, <1>6, <2>5
      DEF Moved, PhaseInv, RunPhase, MayRun, executionVars, approvalVars
    <2> QED BY <1>1, <1>2, <1>5, <1>7, <2>2, <2>3, <2>4, <2>6, EffectStepInv DEF Moved
  <1>9. CASE UNCHANGED sent /\ v = "failed"
    <2>1. GatewayTypeOK'
      BY <1>1, <1>5, <1>6, <1>9 DEF GatewayInv, GatewayTypeOK, executionVars, approvalVars, Moved
    <2>2. EffectInv'
      BY <1>6, <1>9 DEF GatewayInv, EffectInv, MayRun, executionVars, approvalVars
    <2>3. EffectStep(t, e)
      BY <1>6, <1>9 DEF EffectStep
    <2>4. PhaseInv(t)'
      BY <1>2, <1>5, <1>6, <1>9
      DEF Moved, PhaseInv, RunPhase, MayRun, executionVars, approvalVars
    <2> QED BY <1>1, <1>2, <1>5, <1>7, <2>1, <2>2, <2>3, <2>4, EffectStepInv DEF Moved
  <1>10. CASE UNCHANGED sent /\ GotoWith(t, "settle", "failed")
    <2>1. Moved(t, "settle") /\ th'[t].plan = "failed" /\ th'[t].call = th[t].call
      BY <1>1, <1>10, GotoWithMoves DEF Phase, ExecutionStatus
    <2> QED BY <2>1, <1>5, <1>9, <1>10
  <1> QED BY <1>8, <1>10 DEF CallProvider

(* The receipt is completed only after the provider has acted. *)
LEMMA SettleReceiptInv ==
  ASSUME GatewayInv, NEW t \in Thread, SettleReceipt(t)
  PROVE  GatewayInv'
  <1> DEFINE e == th[t].at
             v == th[t].plan
  <1>1. th \in [Thread -> Local] /\ e \in Execution /\ th[t].who \in User /\ PhaseInv(t)
    BY DEF GatewayInv, GatewayTypeOK, ThreadInv, SettleReceipt
  <1>2. /\ status[e] # "absent" /\ th[t].call = hash[e] /\ MayRun(e)
        /\ ToolOf[hash[e]] = "provider" /\ receipt[e] = "running"
        /\ v \in {"completed", "failed"}
        /\ v = "completed" => sent[e] # <<>>
    BY <1>1 DEF PhaseInv, SettleReceipt, RunPhase
  <1>3. UNCHANGED <<executionVars, approvalVars, receiptHash, tasks, sent, authority>>
    BY DEF SettleReceipt
  <1>4. ASSUME NEW x \in {v, "failed"}, receipt' = [receipt EXCEPT ![e] = x],
               Moved(t, "finish"), th'[t].plan = x, th'[t].call = th[t].call
        PROVE  GatewayInv'
    <2>1. x \in {"completed", "failed"} /\ (x = "completed" => sent[e] # <<>>)
      BY <1>2
    <2>2. receipt'[e] = x /\ \A y \in Execution \ {e} : receipt'[y] = receipt[y]
      BY <1>1, <1>4 DEF GatewayInv, GatewayTypeOK
    <2>3. GatewayTypeOK'
      BY <1>1, <1>3, <1>4, <2>1
      DEF GatewayInv, GatewayTypeOK, executionVars, approvalVars, Moved, ReceiptStatus
    <2>4. EffectInv'
      BY <1>1, <1>2, <1>3, <2>1, <2>2
      DEF GatewayInv, EffectInv, MayRun, executionVars, approvalVars
    <2>5. EffectStep(t, e)
      BY <1>2, <1>3, <2>2 DEF EffectStep
    <2>6. PhaseInv(t)'
      BY <1>2, <1>3, <1>4, <2>1, <2>2
      DEF Moved, PhaseInv, RunPhase, MayRun, executionVars, approvalVars
    <2>7. \A s \in Thread \ {t} : th[s].pc \in {"call", "settle"} => th[s].at # e
      BY DEF GatewayInv, ClaimInv, SettleReceipt
    <2> QED BY <1>1, <1>2, <1>4, <2>3, <2>4, <2>5, <2>6, <2>7, EffectStepInv DEF Moved
  <1>5. CASE UNCHANGED receipt /\ GotoWith(t, "finish", "failed")
    <2>1. Moved(t, "finish") /\ th'[t].plan = "failed" /\ th'[t].call = th[t].call
      BY <1>1, <1>5, GotoWithMoves DEF Phase, ExecutionStatus
    <2>2. UNCHANGED <<executionVars, approvalVars, effectVars, authority>>
      BY <1>3, <1>5 DEF effectVars
    <2>3. PhaseInv(t)'
      BY <1>2, <2>1, <2>2 DEF Moved, PhaseInv, RunPhase, MayRun, executionVars, approvalVars
    <2> QED BY <1>1, <2>1, <2>2, <2>3, LocalStep DEF Moved
  <1>6. CASE receipt' = [receipt EXCEPT ![e] = v] /\ Goto(t, "finish")
    <2>1. Moved(t, "finish") /\ th'[t].plan = v /\ th'[t].call = th[t].call
      BY <1>1, <1>6, GotoMoves DEF Phase
    <2> QED BY <1>4, <1>6, <2>1
  <1>7. CASE receipt' = [receipt EXCEPT ![e] = "failed"] /\ GotoWith(t, "finish", "failed")
    <2>1. Moved(t, "finish") /\ th'[t].plan = "failed" /\ th'[t].call = th[t].call
      BY <1>1, <1>7, GotoWithMoves DEF Phase, ExecutionStatus
    <2> QED BY <1>4, <1>7, <2>1
  <1> QED BY <1>5, <1>6, <1>7 DEF SettleReceipt

(* The except branch of _run may only turn an outcome into a failure. *)
LEMMA FailRunInv ==
  ASSUME GatewayInv, NEW t \in Thread, FailRun(t)
  PROVE  GatewayInv'
  <1> DEFINE e == th[t].at
  <1>1. th \in [Thread -> Local] /\ e \in Execution /\ th[t].who \in User
    BY DEF GatewayInv, GatewayTypeOK, FailRun
  <1>2. PhaseInv(t) /\ status[e] # "absent" /\ MayRun(e) /\ th[t].call = hash[e]
    BY <1>1 DEF GatewayInv, ThreadInv, PhaseInv, FailRun, RunPhase
  <1>3. UNCHANGED <<executionVars, approvalVars, effectVars, authority>>
    BY DEF FailRun
  <1>4. Moved(t, "finish") /\ th'[t].plan = "failed" /\ th'[t].call = th[t].call
    BY <1>1, GotoWithMoves DEF FailRun, Phase, ExecutionStatus
  <1>5. PhaseInv(t)'
    BY <1>2, <1>3, <1>4 DEF Moved, PhaseInv, MayRun, RunPhase, executionVars, approvalVars
  <1> QED BY <1>1, <1>3, <1>4, <1>5, LocalStep DEF Moved

(* Every step of the gateway preserves the invariant. *)
LEMMA NextInv == GatewayInv /\ [GatewayNext]_gatewayVars => GatewayInv'
  <1> SUFFICES ASSUME GatewayInv, [GatewayNext]_gatewayVars PROVE GatewayInv'
    OBVIOUS
  <1>1. ASSUME NEW t \in Thread, Begin(t) PROVE GatewayInv'
    BY <1>1, RequestExecutionInv, DecideInv, RetryExecutionInv, CancelForExecutionInv DEF Begin
  <1>2. ASSUME NEW t \in Thread, RunStep(t) PROVE GatewayInv'
    BY <1>2, RunQueryInv, LookupTaskInv, InsertTaskInv, LookupReceiptInv, AccessTokenInv,
       InsertReceiptInv, CallProviderInv, SettleReceiptInv, FinishRunInv, FailRunInv
    DEF RunStep
  <1>3. ASSUME NEW t \in Thread, Continue(t) PROVE GatewayInv'
    BY <1>2, <1>3, InsertExecutionInv, CreateApprovalInv, LinkApprovalInv, DecideUpdateInv,
       ApplyApprovalInv, AuthorizeInv, WriteStatusInv, CancelExecutionInv, RereadExecutionInv
    DEF Continue
  <1>4. ASSUME Environment PROVE GatewayInv'
    BY <1>4, ChangeAuthorityInv, TamperInv DEF Environment
  <1>5. ASSUME UNCHANGED gatewayVars PROVE GatewayInv'
    <2>1. GatewayTypeOK' /\ RowInv' /\ LedgerInv' /\ EffectInv'
      BY <1>5 DEF gatewayVars, GatewayInv, GatewayTypeOK, RowInv, LedgerInv, EffectInv, MayRun
    <2>2. ThreadInv' /\ ClaimInv'
      BY <1>5 DEF gatewayVars, GatewayInv, ThreadInv, PhaseInv, ClaimInv, MayRun
    <2> QED BY <2>1, <2>2 DEF GatewayInv
  <1> QED BY <1>1, <1>3, <1>4, <1>5, LeaveInv, RaiseInv DEF GatewayNext

-----------------------------------------------------------------------------
(* Only three steps touch the ledger. *)
LEMMA LedgerFrame ==
  ASSUME NEW t \in Thread, Begin(t) \/ Continue(t) \/ Respond(t) \/ Crash(t) \/ Raise(t)
  PROVE  \/ UNCHANGED <<decision, decidedBy, approvedHash>>
         \/ CreateApproval(t) \/ DecideUpdate(t)
         \/ \E e \in Execution, u \in User : CancelForExecution(t, e, u)
  BY DEF Begin, Continue, RunStep, Respond, Crash, Raise, RequestExecution, Decide, RetryExecution,
         InsertExecution, LinkApproval, ApplyApproval, Authorize, WriteStatus, CancelExecution,
         RunQuery, LookupTask, InsertTask, LookupReceipt, AccessToken, InsertReceipt,
         CallProvider, SettleReceipt, FinishRun, FailRun, RereadExecution, approvalVars

(* Only three steps touch receipts or the provider. *)
LEMMA EffectFrame ==
  ASSUME NEW t \in Thread, Begin(t) \/ Continue(t) \/ Respond(t) \/ Crash(t) \/ Raise(t)
  PROVE  \/ UNCHANGED <<receipt, sent>>
         \/ InsertReceipt(t) \/ CallProvider(t) \/ SettleReceipt(t)
  BY DEF Begin, Continue, RunStep, Respond, Crash, Raise, RequestExecution, Decide, RetryExecution,
         CancelForExecution, InsertExecution, CreateApproval, LinkApproval, DecideUpdate,
         ApplyApproval, Authorize, WriteStatus, CancelExecution, RunQuery, LookupTask, InsertTask,
         LookupReceipt, AccessToken, FinishRun, FailRun, RereadExecution, effectVars

(* Only the insertion of a row sets its requester. *)
LEMMA OwnerFrame ==
  ASSUME NEW t \in Thread, Begin(t) \/ Continue(t) \/ Respond(t) \/ Crash(t) \/ Raise(t)
  PROVE  UNCHANGED requester \/ InsertExecution(t)
  BY DEF Begin, Continue, RunStep, Respond, Crash, Raise, RequestExecution, Decide, RetryExecution,
         CancelForExecution, CreateApproval, LinkApproval, DecideUpdate,
         ApplyApproval, Authorize, WriteStatus, CancelExecution, RunQuery, LookupTask, InsertTask,
         LookupReceipt, AccessToken, InsertReceipt, CallProvider, SettleReceipt, FinishRun, FailRun,
         RereadExecution, executionVars

(* What happens around the gateway touches no decision and no effect. *)
LEMMA EnvironmentFrame ==
  Environment => UNCHANGED <<requester, decision, decidedBy, approvedHash, receipt, sent>>
  BY DEF Environment, ChangeAuthority, Tamper, executionVars, approvalVars, effectVars

(* No step revises a decision (the WHERE status = 'pending' of approval.py). *)
LEMMA DecisionStep ==
  ASSUME GatewayInv, [GatewayNext]_gatewayVars, NEW e \in Execution,
         decision[e] \in {"approved", "rejected"}
  PROVE  decision'[e] = decision[e] /\ decidedBy'[e] = decidedBy[e]
  <1>1. CASE UNCHANGED <<decision, decidedBy>>
    BY <1>1
  <1>2. ASSUME NEW t \in Thread, CreateApproval(t)
        PROVE  decision'[e] = decision[e] /\ decidedBy'[e] = decidedBy[e]
    BY <1>2 DEF CreateApproval, GatewayInv, GatewayTypeOK
  <1>3. ASSUME NEW t \in Thread, DecideUpdate(t)
        PROVE  decision'[e] = decision[e] /\ decidedBy'[e] = decidedBy[e]
    BY <1>3 DEF DecideUpdate, Undecided, GatewayInv, GatewayTypeOK
  <1>4. ASSUME NEW t \in Thread, NEW x \in Execution, NEW u \in User, CancelForExecution(t, x, u)
        PROVE  decision'[e] = decision[e] /\ decidedBy'[e] = decidedBy[e]
    BY <1>4 DEF CancelForExecution, Undecided, GatewayInv, GatewayTypeOK
  <1> QED BY <1>1, <1>2, <1>3, <1>4, LedgerFrame, EnvironmentFrame DEF GatewayNext, gatewayVars

(* No step revises a settled receipt or sends for it again. *)
LEMMA ReceiptStep ==
  ASSUME GatewayInv, [GatewayNext]_gatewayVars, NEW e \in Execution,
         receipt[e] \in {"completed", "failed"}
  PROVE  receipt'[e] = receipt[e] /\ sent'[e] = sent[e]
  <1>1. CASE UNCHANGED <<receipt, sent>>
    BY <1>1
  <1>2. ASSUME NEW t \in Thread, InsertReceipt(t)
        PROVE  receipt'[e] = receipt[e] /\ sent'[e] = sent[e]
    BY <1>2 DEF InsertReceipt, Unclaimed, GatewayInv, GatewayTypeOK
  <1>3. ASSUME NEW t \in Thread, CallProvider(t) \/ SettleReceipt(t)
        PROVE  receipt'[e] = receipt[e] /\ sent'[e] = sent[e]
    <2>1. receipt[th[t].at] = "running"
      BY <1>3 DEF CallProvider, SettleReceipt, GatewayInv, ThreadInv, PhaseInv
    <2> QED BY <1>3, <2>1 DEF CallProvider, SettleReceipt, GatewayInv, GatewayTypeOK
  <1> QED BY <1>1, <1>2, <1>3, EffectFrame, EnvironmentFrame DEF GatewayNext, gatewayVars

-----------------------------------------------------------------------------
(* The safety properties are consequences of the invariant. *)
LEMMA SafetyFromInv ==
  ASSUME GatewayInv
  PROVE  ApprovedBeforeEffect /\ SentOnceAsApproved /\ CompletedWasSent
  <1>1. ASSUME NEW e \in Execution, HasRun(e)
        PROVE  status[e] # "absent" /\ MayRun(e)
    BY <1>1 DEF GatewayInv, RowInv, LedgerInv, EffectInv, MayRun, HasRun
  <1>2. ApprovedBeforeEffect
    BY <1>1 DEF ApprovedBeforeEffect, GatewayInv, RowInv, LedgerInv, EffectInv, MayRun
  <1>3. SentOnceAsApproved /\ CompletedWasSent
    BY DEF SentOnceAsApproved, CompletedWasSent, GatewayInv, EffectInv
  <1> QED BY <1>2, <1>3

(* The inductive invariant holds in every state of the gateway. *)
THEOREM Invariance == GatewaySpec => []GatewayInv
  BY InitInv, NextInv, PTL DEF GatewaySpec

(* Every variable of the gateway keeps its type. *)
THEOREM TypeCorrect == GatewaySpec => []GatewayTypeOK
  <1>1. GatewayInv => GatewayTypeOK
    BY DEF GatewayInv
  <1> QED BY <1>1, Invariance, PTL

(* No gated execution runs, and no provider is called, before the approval. *)
THEOREM Approved == GatewaySpec => []ApprovedBeforeEffect
  BY Invariance, SafetyFromInv, PTL

(* The provider acts at most once for an execution, on the approved content. *)
THEOREM AtMostOnce == GatewaySpec => []SentOnceAsApproved
  BY Invariance, SafetyFromInv, PTL

(* A provider execution is completed only when its effect is on record. *)
THEOREM CompletedTruthfully == GatewaySpec => []CompletedWasSent
  BY Invariance, SafetyFromInv, PTL

(* No decision of the ledger is ever revised. *)
THEOREM DecisionsStand == GatewaySpec => DecisionFinal
  <1>1. GatewayInv /\ [GatewayNext]_gatewayVars =>
          [\A e \in Execution :
             decision[e] \in {"approved", "rejected"} =>
               decision'[e] = decision[e] /\ decidedBy'[e] = decidedBy[e]]_gatewayVars
    BY DecisionStep
  <1> QED BY <1>1, Invariance, PTL DEF GatewaySpec, DecisionFinal

(* A settled receipt is final, and its provider is not called again. *)
THEOREM ReceiptsStand == GatewaySpec => ReceiptFinal
  <1>1. GatewayInv /\ [GatewayNext]_gatewayVars =>
          [\A e \in Execution :
             receipt[e] \in {"completed", "failed"} =>
               receipt'[e] = receipt[e] /\ sent'[e] = sent[e]]_gatewayVars
    BY ReceiptStep
  <1> QED BY <1>1, Invariance, PTL DEF GatewaySpec, ReceiptFinal

-----------------------------------------------------------------------------
(* Refinement: each action maps to the one of GovernedEffect it is, or stutters. *)

(* The initial states of the gateway are those of the specification. *)
LEMMA GovernedInit == GatewayInit => Governed!Init
  BY DEF GatewayInit, Governed!Init

(* _insert_execution asks, or stutters when the key is taken. *)
LEMMA AskStep ==
  ASSUME GatewayInv, NEW t \in Thread, InsertExecution(t)
  PROVE  [Governed!Next]_(Governed!vars)
  <1> DEFINE e == th[t].at
  <1>1. e \in Execution /\ th[t].who \in User
    BY DEF GatewayInv, GatewayTypeOK, InsertExecution
  <1>2. UNCHANGED <<decision, decidedBy, approvedHash, receipt, sent>>
    BY DEF InsertExecution, approvalVars, effectVars
  <1>3. CASE UNCHANGED requester
    BY <1>2, <1>3 DEF Governed!vars
  <1>4. CASE status[e] = "absent"
    <2>1. requester[e] = None
      BY <1>1, <1>4 DEF GatewayInv, RowInv
    <2>2. requester' = [requester EXCEPT ![e] = th[t].who]
      BY <1>4 DEF InsertExecution
    <2>3. Governed!Ask(e, th[t].who)
      BY <1>2, <2>1, <2>2 DEF Governed!Ask
    <2> QED BY <1>1, <2>3 DEF Governed!Next
  <1> QED BY <1>3, <1>4 DEF InsertExecution, executionVars

(* approval_service.create submits the hashed arguments. *)
LEMMA SubmitStep ==
  ASSUME GatewayInv, NEW t \in Thread, CreateApproval(t)
  PROVE  Governed!Next
  <1> DEFINE e == th[t].at
  <1>1. e \in Execution /\ PhaseInv(t) /\ status[e] # "absent" /\ th[t].call = hash[e]
    BY DEF GatewayInv, GatewayTypeOK, ThreadInv, PhaseInv, CreateApproval
  <1>2. th[t].call \in Call
    BY <1>1 DEF GatewayInv, RowInv
  <1>3. Governed!Submit(e, th[t].call)
    BY DEF CreateApproval, executionVars, effectVars, Governed!Submit
  <1> QED BY <1>1, <1>2, <1>3 DEF Governed!Next

(* The UPDATE of decide decides, or stutters when it updates no row. *)
LEMMA DecideStep ==
  ASSUME GatewayInv, NEW t \in Thread, DecideUpdate(t)
  PROVE  [Governed!Next]_(Governed!vars)
  <1> DEFINE e == th[t].at
             d == th[t].plan
             u == th[t].who
  <1>1. /\ e \in Execution /\ u \in User
        /\ u \in Reviewer \ {requester[e]} /\ d \in {"approved", "rejected"}
    BY DEF GatewayInv, GatewayTypeOK, ThreadInv, PhaseInv, DecideUpdate
  <1>2. UNCHANGED <<requester, approvedHash, receipt, sent>>
    BY DEF DecideUpdate, executionVars, effectVars
  <1>3. CASE Undecided(e)
    <2>1. Governed!Decide(e, u, d)
      BY <1>1, <1>2, <1>3 DEF DecideUpdate, Undecided, Governed!Decide
    <2> QED BY <1>1, <2>1 DEF Governed!Next
  <1>4. CASE ~Undecided(e)
    BY <1>2, <1>4 DEF DecideUpdate, Governed!vars
  <1> QED BY <1>3, <1>4

(* cancel_for_execution withdraws a pending approval, or stutters. *)
LEMMA WithdrawStep ==
  ASSUME GatewayInv, NEW t \in Thread, NEW e \in Execution, NEW u \in User,
         CancelForExecution(t, e, u)
  PROVE  [Governed!Next]_(Governed!vars)
  <1>1. UNCHANGED <<requester, approvedHash, receipt, sent>>
    BY DEF CancelForExecution, executionVars, effectVars
  <1>2. CASE Undecided(e)
    <2>1. Governed!Decide(e, u, "rejected")
      BY <1>1, <1>2 DEF CancelForExecution, Undecided, Governed!Decide
    <2> QED BY <2>1 DEF Governed!Next
  <1>3. CASE ~Undecided(e)
    BY <1>1, <1>3 DEF CancelForExecution, Governed!vars
  <1> QED BY <1>2, <1>3

(* The receipt insert claims the effect, or stutters when it is refused. *)
LEMMA ClaimStep ==
  ASSUME GatewayInv, NEW t \in Thread, InsertReceipt(t)
  PROVE  [Governed!Next]_(Governed!vars)
  <1> DEFINE e == th[t].at
  <1>1. UNCHANGED <<requester, decision, decidedBy, approvedHash, sent>>
    BY DEF InsertReceipt, executionVars, approvalVars
  <1>2. CASE Unclaimed(e)
    <2>1. e \in Execution /\ MayRun(e) /\ ToolOf[hash[e]] = "provider" /\ status[e] # "absent"
      BY DEF GatewayInv, GatewayTypeOK, ThreadInv, PhaseInv, RunPhase, InsertReceipt
    <2>2. decision[e] = "approved"
      BY <2>1 DEF MayRun
    <2>3. Governed!Claim(e)
      BY <1>1, <1>2, <2>2 DEF InsertReceipt, Unclaimed, Governed!Claim
    <2> QED BY <2>1, <2>3 DEF Governed!Next
  <1>3. CASE ~Unclaimed(e)
    BY <1>1, <1>3 DEF InsertReceipt, Governed!vars
  <1> QED BY <1>2, <1>3

(* The provider call performs the effect, or stutters when it fails early. *)
LEMMA PerformStep ==
  ASSUME GatewayInv, NEW t \in Thread, CallProvider(t)
  PROVE  [Governed!Next]_(Governed!vars)
  <1> DEFINE e == th[t].at
  <1>1. UNCHANGED <<requester, decision, decidedBy, approvedHash, receipt>>
    BY DEF CallProvider, executionVars, approvalVars
  <1>2. /\ e \in Execution /\ MayRun(e) /\ ToolOf[hash[e]] = "provider" /\ status[e] # "absent"
        /\ receipt[e] = "running" /\ sent[e] = <<>> /\ th[t].call = hash[e]
    BY DEF GatewayInv, GatewayTypeOK, ThreadInv, PhaseInv, RunPhase, CallProvider
  <1>3. approvedHash[e] = hash[e] /\ hash[e] \in Call
    BY <1>2 DEF GatewayInv, RowInv, LedgerInv, MayRun
  <1>4. CASE sent' = [sent EXCEPT ![e] = Append(@, th[t].call)]
    <2>1. Append(sent[e], th[t].call) = <<approvedHash[e]>>
      BY <1>2, <1>3
    <2>2. sent' = [sent EXCEPT ![e] = <<approvedHash[e]>>]
      BY <1>4, <2>1
    <2>3. Governed!Perform(e)
      BY <1>1, <1>2, <2>2 DEF Governed!Perform
    <2> QED BY <1>2, <2>3 DEF Governed!Next
  <1>5. CASE UNCHANGED sent
    BY <1>1, <1>5 DEF Governed!vars
  <1> QED BY <1>4, <1>5 DEF CallProvider

(* The receipt update settles the claim, or stutters when it is refused. *)
LEMMA SettleStep ==
  ASSUME GatewayInv, NEW t \in Thread, SettleReceipt(t)
  PROVE  [Governed!Next]_(Governed!vars)
  <1> DEFINE e == th[t].at
             v == th[t].plan
  <1>1. UNCHANGED <<requester, decision, decidedBy, approvedHash, sent>>
    BY DEF SettleReceipt, executionVars, approvalVars
  <1>2. /\ e \in Execution /\ receipt[e] = "running" /\ v \in {"completed", "failed"}
        /\ v = "completed" => sent[e] # <<>>
    BY DEF GatewayInv, GatewayTypeOK, ThreadInv, PhaseInv, SettleReceipt
  <1>3. ASSUME NEW x \in {v, "failed"}, receipt' = [receipt EXCEPT ![e] = x]
        PROVE  [Governed!Next]_(Governed!vars)
    <2>1. x \in {"completed", "failed"} /\ Governed!Settle(e, x)
      BY <1>1, <1>2, <1>3 DEF Governed!Settle
    <2> QED BY <1>2, <2>1 DEF Governed!Next
  <1>4. CASE UNCHANGED receipt
    BY <1>1, <1>4 DEF Governed!vars
  <1> QED BY <1>3, <1>4 DEF SettleReceipt

(* Every step of the gateway is a step of the specification or a stutter. *)
LEMMA GovernedStep ==
  ASSUME GatewayInv, [GatewayNext]_gatewayVars
  PROVE  [Governed!Next]_(Governed!vars)
  <1>1. CASE UNCHANGED <<requester, decision, decidedBy, approvedHash, receipt, sent>>
    BY <1>1 DEF Governed!vars
  <1>2. ASSUME NEW t \in Thread, Begin(t) \/ Continue(t) \/ Respond(t) \/ Crash(t) \/ Raise(t)
        PROVE  [Governed!Next]_(Governed!vars)
    BY <1>1, <1>2, AskStep, SubmitStep, DecideStep, WithdrawStep, ClaimStep, PerformStep,
       SettleStep, LedgerFrame, EffectFrame, OwnerFrame
  <1> QED BY <1>1, <1>2, EnvironmentFrame DEF GatewayNext, gatewayVars

(* The gateway implements the specification of a governed effect. *)
THEOREM Refinement == GatewaySpec => ImplementsGovernedEffect
  BY GovernedInit, GovernedStep, Invariance, PTL
  DEF GatewaySpec, ImplementsGovernedEffect, Governed!Spec
=============================================================================

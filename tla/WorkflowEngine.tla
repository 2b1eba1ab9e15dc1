--------------------------- MODULE WorkflowEngine ----------------------------
(***************************************************************************)
(* One agent workflow, services/workflows.py, over the approval gateway.   *)
(*                                                                         *)
(* The actions of the workflow are numbered; the execution of action i is  *)
(* named i by the idempotency key "workflow:<id>:action:<i>".  A thread    *)
(* serves one route: resume, retry or cancel of the workflow, or the       *)
(* decision of an approval followed by handle_execution_update.  w[t] are  *)
(* its locals in workflows.py, th[t] those of the gateway call it is in.   *)
(* Each step is one transaction.  The loop of langgraph_workflows.py reads  *)
(* once more per round than _run_deterministic and writes the same; if it   *)
(* raises, run_workflow falls back to _run_deterministic, or gives up.      *)
(***************************************************************************)
EXTENDS ApprovalGateway, FiniteSetsExt

CONSTANTS
  Plan,         \* the calls of the actions, in order
  Owner,        \* agent_workflows.requested_by
  Engine,       \* agent_workflows.orchestration_engine
  MaxAttempts,  \* workflow_actions.max_attempts
  MaxAdvances   \* the rounds of an advance loop, 100 in _run_deterministic

ASSUME WorkflowAssumption ==
  /\ Plan \in Seq(Call)
  /\ Execution = DOMAIN Plan /\ Keyed = Execution
  /\ Owner \in Requester
  /\ Engine \in {"langgraph", "deterministic"}
  /\ MaxAttempts \in Nat \ {0} /\ MaxAdvances \in Nat \ {0}

VARIABLES
  workflow,  \* agent_workflows.status
  act,       \* workflow_actions.status of each action
  attempts,  \* workflow_actions.attempt_count
  linked,    \* actions whose execution_id column is set
  w          \* the locals of each thread in workflows.py

workflowVars == <<workflow, act, attempts, linked>>
engineVars == <<gatewayVars, workflowVars, w>>

Step == DOMAIN Plan
WorkflowStatus ==
  {"planned", "running", "waiting_for_approval", "blocked", "completed", "failed", "cancelled"}
ActionStatus ==
  {"pending", "running", "waiting_for_approval", "blocked", "completed", "failed", "cancelled"}
Ended == {"completed", "blocked", "failed", "cancelled"}

(* The service function a thread is in. *)
Task == {"run", "poll", "retry", "cancel", "decision", "none"}
(* The loop it is in: of run_workflow, or of checkpoint_terminal. *)
Loop == {"langgraph", "deterministic", "terminal", "none"}

WorkflowPhase ==
  {"idle", "load", "advance", "start", "pick", "complete", "poll", "claim", "request", "await",
   "sync", "fail", "reload", "mark", "check", "give_up", "resume", "retry_claim", "retry_call",
   "reset", "cancel_next", "cancel_actions", "cancel_workflow", "notify", "notify_workflow"}

WorkflowLocal ==
  [pc   : WorkflowPhase,
   task : Task,
   step : Step \cup {None},                                     \* the action worked on
   seen : ExecutionStatus \cup ActionStatus \cup {"error", None}, \* a status read or returned
   todo : SUBSET Step,                                          \* approvals left to cancel
   scoped : BOOLEAN,                                            \* the requester's scopes, as read
   loop : Loop,
   left : 0 .. MaxAdvances]                                     \* rounds of the loop left

Unoccupied ==
  [pc |-> "idle", task |-> "none", step |-> None, seen |-> None, todo |-> {},
   scoped |-> FALSE, loop |-> "none", left |-> 0]

WorkflowTypeOK ==
  /\ workflow \in WorkflowStatus
  /\ act \in [Step -> ActionStatus]
  /\ attempts \in [Step -> Nat]
  /\ linked \in SUBSET Step
  /\ w \in [Thread -> WorkflowLocal]

WorkflowInit ==
  /\ GatewayInit
  /\ workflow = "planned"
  /\ act = [i \in Step |-> "pending"]
  /\ attempts = [i \in Step |-> 0]
  /\ linked = {}
  /\ w = [t \in Thread |-> Unoccupied]

At(t, p) == w[t].pc = p
To(t, p) == w' = [w EXCEPT ![t].pc = p]
Learn(t, p, s) == w' = [w EXCEPT ![t].pc = p, ![t].seen = s]
Leave(t) == w' = [w EXCEPT ![t] = Unoccupied]
Enter(t, p, k, i) == w' = [w EXCEPT ![t] = [Unoccupied EXCEPT !.pc = p, !.task = k, !.step = i]]
Turn(t, o, n, a) ==
  w' = [w EXCEPT ![t] =
         [Unoccupied EXCEPT !.pc = "advance", !.task = "run", !.loop = o, !.left = n, !.scoped = a]]
Free(t) == At(t, "idle") /\ th[t].pc = "idle"

SetWorkflow(s) == workflow' = s /\ UNCHANGED <<act, attempts, linked>>
SetAction(i, s) == act' = [act EXCEPT ![i] = s]
InScope == authority[Owner] = "scoped"

-----------------------------------------------------------------------------
(* run_workflow and the advance loop *)

(* With a fault: an action that waits for its approval is passed over. *)
OpenFault(i) == act[i] \notin {"completed", "waiting_for_approval"}

(* An action the advance loop has yet to deal with. *)
Open(i) == act[i] # "completed"

(* create_workflow ends in run_workflow, and so does the resume route. *)
RunWorkflow(t) ==
  /\ Free(t)
  /\ workflow \notin Ended
  /\ Enter(t, "load", "run", None)
  /\ UNCHANGED <<gatewayVars, workflowVars>>

(* The requester must still be there; the engine gives the loop its rounds. *)
LoadWorkflow(t) ==
  /\ At(t, "load")
  /\ CASE workflow \in Ended -> Leave(t)
       [] workflow \notin Ended /\ authority[Owner] = "inactive" -> To(t, "give_up")
       [] OTHER -> Turn(t, Engine, MaxAdvances, InScope)
  /\ UNCHANGED <<gatewayVars, workflowVars>>

(* _advance_workflow_once reads the workflow ... *)
Advance(t) ==
  /\ At(t, "advance")
  /\ IF workflow \in Ended THEN Leave(t) ELSE To(t, "start")
  /\ UNCHANGED <<gatewayVars, workflowVars>>

(* ... writes running, whatever it has become since ... *)
MarkRunning(t) ==
  /\ At(t, "start")
  /\ SetWorkflow("running")
  /\ To(t, "pick")
  /\ UNCHANGED gatewayVars

(* ... and takes the first action that is not completed. *)
PickAction(t) ==
  LET open == {i \in Step : Open(i)}
      i == Min(open) IN
  /\ At(t, "pick")
  /\ IF open = {}
     THEN To(t, "complete")
     ELSE w' = [w EXCEPT ![t].step = i,
                         ![t].seen = act[i],
                         ![t].task = IF act[i] = "waiting_for_approval" THEN "poll" ELSE "run",
                         ![t].pc = CASE act[i] = "waiting_for_approval" -> "poll"
                                     [] act[i] = "pending" -> "claim"
                                     [] OTHER -> "mark"]
  /\ UNCHANGED <<gatewayVars, workflowVars>>

CompleteWorkflow(t) ==
  /\ At(t, "complete")
  /\ SetWorkflow("completed")
  /\ To(t, "check")
  /\ UNCHANGED gatewayVars

(* An action that waits for its approval: what has become of the execution? *)
PollExecution(t) ==
  /\ At(t, "poll")
  /\ Learn(t, "sync", status[w[t].step])
  /\ UNCHANGED <<gatewayVars, workflowVars>>

(* _execute_pending_action: one thread gets to execute a pending action. *)
ClaimAction(t) ==
  LET i == w[t].step IN
  /\ At(t, "claim")
  /\ \/ /\ act[i] = "pending"
        /\ SetAction(i, "running")
        /\ attempts' = [attempts EXCEPT ![i] = @ + 1]
        /\ To(t, "request")
     \/ /\ act[i] # "pending"
        /\ To(t, "reload")
        /\ UNCHANGED <<act, attempts>>
  /\ UNCHANGED <<workflow, linked, gatewayVars>>

(* request_execution, which raises if the requester was read without the scope. *)
RequestAction(t) ==
  LET i == w[t].step IN
  /\ At(t, "request")
  /\ \/ w[t].scoped /\ RequestExecution(t, i, Owner, Plan[i]) /\ To(t, "await")
     \/ ~w[t].scoped /\ To(t, "fail") /\ UNCHANGED gatewayVars
  /\ UNCHANGED workflowVars

(* The gateway has returned an execution, or raised. *)
TakeResult(t) ==
  LET s == th[t].seen IN
  /\ At(t, "await")
  /\ Respond(t)
  /\ CASE w[t].task = "cancel" -> To(t, "cancel_next")
       [] w[t].task = "decision" -> Learn(t, "notify", s)
       [] OTHER -> IF s = "error" THEN To(t, "fail") ELSE Learn(t, "sync", s)
  /\ UNCHANGED workflowVars

(* status_map; a search may have found no evidence to go on with. *)
SyncedStatus(i, s) ==
  CASE s = "pending_approval" -> {"waiting_for_approval"}
    [] s = "rejected" -> {"blocked"}
    [] s = "completed" /\ ToolOf[Plan[i]] = "query" -> {"completed", "blocked"}
    [] OTHER -> {s}

(* _sync_action_with_execution: unconditional, from a record read earlier. *)
SyncAction(t) ==
  LET i == w[t].step IN
  /\ At(t, "sync")
  /\ \E s \in SyncedStatus(i, w[t].seen) : SetAction(i, s)
  /\ linked' = linked \cup {i}
  /\ To(t, "reload")
  /\ UNCHANGED <<workflow, attempts, gatewayVars>>

(* With a fault: a status only mcp_tool_executions knows. *)
FailActionFault(t) ==
  /\ At(t, "fail")
  /\ SetAction(w[t].step, "rejected")
  /\ Learn(t, "reload", "error")
  /\ UNCHANGED <<workflow, attempts, linked, gatewayVars>>

FailAction(t) ==
  /\ At(t, "fail")
  /\ SetAction(w[t].step, "failed")
  /\ Learn(t, "reload", "error")
  /\ UNCHANGED <<workflow, attempts, linked, gatewayVars>>

(* _require_action: the action as it is now, for the caller to go on with. *)
ReloadAction(t) ==
  LET s == act[w[t].step] IN
  /\ At(t, "reload")
  /\ CASE w[t].task = "poll" /\ s = "pending" -> 
            w' = [w EXCEPT ![t].pc = "claim", ![t].task = "run", ![t].seen = s]
       [] w[t].task = "retry" /\ s # "failed" -> To(t, "resume")
       [] w[t].task = "decision" /\ s = "completed" ->
            IF authority[Owner] = "inactive" THEN Leave(t) ELSE To(t, "resume")
       [] OTHER -> Learn(t, "mark", s)
  /\ UNCHANGED <<gatewayVars, workflowVars>>

(* The status an action gives its workflow, if any. *)
Marks(k, s) ==
  CASE s = "completed" -> "running"
    [] s \in {"failed", "blocked"} -> s
    [] s = "waiting_for_approval" /\ k \in {"run", "poll"} -> s
    [] OTHER -> workflow

MarkWorkflow(t) ==
  /\ At(t, "mark")
  /\ SetWorkflow(Marks(w[t].task, w[t].seen))
  /\ IF w[t].task \in {"run", "poll"} THEN To(t, "check") ELSE Leave(t)
  /\ UNCHANGED gatewayVars

(* With a fault: a loop without its bound. *)
RoundsAfterFault(n) == n

(* The rounds of the loop that are left after one more. *)
RoundsAfter(n) == n - 1

(* The graph raises, at its recursion limit or because a node does; or the *)
(* loop of _run_deterministic is at its end.                               *)
LeaveLoop(t) ==
  CASE w[t].loop = "langgraph" -> Turn(t, "deterministic", MaxAdvances, w[t].scoped) \/ To(t, "give_up")
    [] w[t].loop = "terminal" -> Leave(t)
    [] OTHER -> To(t, "give_up")

(* The loop goes on while the workflow reads running, for so many rounds. *)
CheckWorkflow(t) ==
  /\ At(t, "check")
  /\ CASE workflow # "running" -> Leave(t)
       [] workflow = "running" /\ RoundsAfter(w[t].left) = 0 -> LeaveLoop(t)
       [] OTHER -> Turn(t, w[t].loop, RoundsAfter(w[t].left), w[t].scoped)
  /\ UNCHANGED <<gatewayVars, workflowVars>>

(* With a fault: at its limit the loop just returns. *)
GiveUpFault(t) ==
  /\ At(t, "give_up")
  /\ Leave(t)
  /\ UNCHANGED <<gatewayVars, workflowVars>>

(* "Workflow exceeded the state transition safety limit.", or no requester. *)
GiveUp(t) ==
  /\ At(t, "give_up")
  /\ SetWorkflow("failed")
  /\ Leave(t)
  /\ UNCHANGED gatewayVars

(* After a retry, or an approved execution: running, then run_workflow. *)
ResumeWorkflow(t) ==
  /\ At(t, "resume")
  /\ SetWorkflow("running")
  /\ To(t, "load")
  /\ UNCHANGED gatewayVars

-----------------------------------------------------------------------------
(* retry_workflow *)

(* With a fault: the number of attempts is not looked at. *)
RetryableFault(i) == act[i] = "failed"

(* The WHERE of _claim_failed_action_for_retry, and the checks before it. *)
Retryable(i) == act[i] = "failed" /\ attempts[i] < MaxAttempts

(* The checks on the workflow and its first failed action, as read. *)
RetryWorkflow(t) ==
  LET failed == {i \in Step : act[i] = "failed"}
      i == Min(failed) IN
  /\ Free(t)
  /\ workflow = "failed"
  /\ failed # {}
  /\ Retryable(i)
  /\ authority[Owner] # "inactive"
  /\ w' = [w EXCEPT ![t] = [Unoccupied EXCEPT !.pc = "retry_claim", !.task = "retry", !.step = i,
                                              !.todo = {i} \cap linked, !.scoped = InScope]]
  /\ UNCHANGED <<gatewayVars, workflowVars>>

(* _claim_failed_action_for_retry: refused when someone else has it. *)
ClaimRetry(t) ==
  LET i == w[t].step IN
  /\ At(t, "retry_claim")
  /\ \/ /\ Retryable(i)
        /\ SetAction(i, "running")
        /\ attempts' = [attempts EXCEPT ![i] = @ + 1]
        /\ To(t, IF i \in w[t].todo THEN "retry_call" ELSE "reset")
     \/ /\ ~Retryable(i)
        /\ Leave(t)
        /\ UNCHANGED <<act, attempts>>
  /\ UNCHANGED <<workflow, linked, gatewayVars>>

(* With a fault: the execution is run again whatever its status. *)
RetryActionFault(t) ==
  LET i == w[t].step IN
  /\ At(t, "retry_call")
  /\ th' = [th EXCEPT ![t] =
       [Start(t, "write", i, Owner) EXCEPT !.plan = "running", !.call = args[i]]]
  /\ To(t, "await")
  /\ UNCHANGED <<executionVars, approvalVars, effectVars, authority, workflowVars>>

(* retry_execution, which raises unless the execution has failed. *)
RetryAction(t) ==
  LET i == w[t].step IN
  /\ At(t, "retry_call")
  /\ \/ w[t].scoped /\ RetryExecution(t, i, Owner) /\ To(t, "await")
     \/ /\ status[i] # "failed" \/ ~w[t].scoped
        /\ To(t, "fail")
        /\ UNCHANGED gatewayVars
  /\ UNCHANGED workflowVars

(* _reset_action_for_retry; the record in hand still says failed, so the *)
(* workflow is marked failed again and not resumed.                      *)
ResetAction(t) ==
  /\ At(t, "reset")
  /\ SetAction(w[t].step, "pending")
  /\ Learn(t, "mark", "failed")
  /\ UNCHANGED <<workflow, attempts, linked, gatewayVars>>

-----------------------------------------------------------------------------
(* cancel_workflow *)

(* The workflow and its actions are read once, at the start. *)
CancelWorkflow(t) ==
  /\ Free(t)
  /\ workflow \notin {"completed", "cancelled"}
  /\ w' = [w EXCEPT ![t] =
       [Unoccupied EXCEPT !.pc = "cancel_next", !.task = "cancel", !.scoped = InScope,
                          !.todo = {i \in linked : act[i] = "waiting_for_approval"}]]
  /\ UNCHANGED <<gatewayVars, workflowVars>>

(* Who cancels is the requester or a reviewer; it only goes on record. *)
CancelNext(t) ==
  /\ At(t, "cancel_next")
  /\ \/ /\ w[t].todo = {}
        /\ To(t, "cancel_actions")
        /\ UNCHANGED gatewayVars
     \/ \E i \in w[t].todo :
          /\ \A j \in w[t].todo : i <= j
          /\ \E u \in Reviewer \cup {Owner} : CancelForExecution(t, i, u)
          /\ w' = [w EXCEPT ![t].pc = "await", ![t].todo = @ \ {i}]
  /\ UNCHANGED workflowVars

CancelActions(t) ==
  /\ At(t, "cancel_actions")
  /\ act' = [i \in Step |-> IF act[i] = "completed" THEN "completed" ELSE "cancelled"]
  /\ To(t, "cancel_workflow")
  /\ UNCHANGED <<workflow, attempts, linked, gatewayVars>>

(* checkpoint_terminal runs the graph once more, to record the end: it     *)
(* would go on with a workflow that is not cancelled any more.             *)
CancelStatus(t) ==
  /\ At(t, "cancel_workflow")
  /\ SetWorkflow("cancelled")
  /\ IF Engine = "langgraph" THEN Turn(t, "terminal", MaxAdvances, w[t].scoped) ELSE Leave(t)
  /\ UNCHANGED gatewayVars

-----------------------------------------------------------------------------
(* decide_approval: the gateway decides and applies, the workflow follows *)

DecideAction(t) ==
  /\ At(t, "idle")
  /\ \E i \in Step, r \in Reviewer, v \in {"approved", "rejected"} :
       Decide(t, i, r, v) /\ Enter(t, "await", "decision", i)
  /\ UNCHANGED workflowVars

(* handle_execution_update finds the action by its execution_id ... *)
NotifyAction(t) ==
  /\ At(t, "notify")
  /\ IF w[t].step \in linked THEN To(t, "notify_workflow") ELSE Leave(t)
  /\ UNCHANGED <<gatewayVars, workflowVars>>

(* ... and then reads the workflow. *)
NotifyWorkflow(t) ==
  /\ At(t, "notify_workflow")
  /\ IF workflow = "cancelled" THEN Leave(t) ELSE To(t, "sync")
  /\ UNCHANGED <<gatewayVars, workflowVars>>

-----------------------------------------------------------------------------
(* The gateway goes on inside a call the workflow waits for. *)
GatewayStep(t) == At(t, "await") /\ Continue(t) /\ UNCHANGED <<workflowVars, w>>

EngineStep(t) ==
  \/ LoadWorkflow(t) \/ Advance(t) \/ MarkRunning(t) \/ PickAction(t) \/ CompleteWorkflow(t)
  \/ PollExecution(t) \/ ClaimAction(t) \/ RequestAction(t) \/ TakeResult(t) \/ SyncAction(t)
  \/ FailAction(t) \/ ReloadAction(t) \/ MarkWorkflow(t) \/ CheckWorkflow(t)
  \/ GiveUp(t) \/ ResumeWorkflow(t) \/ ClaimRetry(t) \/ RetryAction(t) \/ ResetAction(t)
  \/ CancelNext(t) \/ CancelActions(t) \/ CancelStatus(t) \/ NotifyAction(t) \/ NotifyWorkflow(t)

Proceed(t) == EngineStep(t) \/ GatewayStep(t)

Serve(t) == RunWorkflow(t) \/ RetryWorkflow(t) \/ CancelWorkflow(t) \/ DecideAction(t)

(* The process dies, or an exception leaves the service: a transaction is  *)
(* refused, or _build_arguments rejects the arguments, outside its try.    *)
Abort(t) ==
  /\ ~At(t, "idle")
  /\ th' = [th EXCEPT ![t] = Idle]
  /\ Leave(t)
  /\ UNCHANGED <<executionVars, approvalVars, effectVars, authority, workflowVars>>

(* The gateway or a transaction raises inside the try around the call. *)
CatchRaise(t) ==
  /\ w[t].task \in {"run", "retry"}
  /\ \/ At(t, "await") /\ Raise(t) /\ UNCHANGED w
     \/ /\ \/ w[t].pc \in {"request", "retry_call", "sync"}
           \/ At(t, "reload") /\ w[t].seen \in ExecutionStatus
        /\ To(t, "fail")
        /\ UNCHANGED gatewayVars
  /\ UNCHANGED workflowVars

(* A transaction raises inside the graph, outside of any other try. *)
BreakLoop(t) ==
  /\ w[t].loop = "langgraph"
  /\ w[t].pc \notin {"await", "give_up"}
  /\ LeaveLoop(t)
  /\ UNCHANGED <<gatewayVars, workflowVars>>

ChangeOwner(a) == ChangeAuthority(Owner, a) /\ UNCHANGED <<workflowVars, w>>

CalmNext == \E t \in Thread : Proceed(t) \/ Serve(t)

ScopeNext == CalmNext \/ \E a \in {"scoped", "unscoped"} : ChangeOwner(a)

WorkflowNext ==
  \/ CalmNext
  \/ \E a \in Authority : ChangeOwner(a)
  \/ \E t \in Thread : Abort(t) \/ CatchRaise(t) \/ BreakLoop(t)

(* No crash, and the threads of the pool are scheduled fairly. *)
CalmSpec ==
  WorkflowInit /\ [][CalmNext]_engineVars /\ \A t \in Thread : WF_engineVars(Proceed(t))

(* No crash, but the owner may lose a scope and get it back. *)
ScopeSpec == WorkflowInit /\ [][ScopeNext]_engineVars

WorkflowSpec == WorkflowInit /\ [][WorkflowNext]_engineVars

-----------------------------------------------------------------------------
(* The inductive invariant that makes every step a step of the gateway *)

(* The answers of the gateway, other than an exception. *)
Answer == ExecutionStatus \ {"absent"}

(* The phases in which the handler works on an action. *)
StepPhase ==
  {"poll", "claim", "request", "sync", "fail", "reload", "retry_claim", "retry_call", "reset",
   "notify", "notify_workflow"}

HandlerInv(t) ==
  LET l == w[t] IN
  /\ l.pc \in StepPhase => l.step \in Step
  /\ l.pc \in {"advance", "start", "pick", "complete", "check"} => l.task \in {"run", "poll"}
  /\ l.pc \in {"claim", "request"} => l.task = "run"
  /\ l.pc \in {"retry_claim", "retry_call"} => l.task = "retry"
  /\ l.pc = "cancel_next" => l.task = "cancel"
  /\ l.pc = "await" =>
       /\ l.task \in {"run", "retry", "decision", "cancel"}
       /\ l.task # "cancel" => l.step \in Step /\ th[t].at = l.step
  /\ l.pc = "await" /\ l.task = "decision" =>
       th[t].pc # "insert" /\ (th[t].pc = "returned" => th[t].seen # "error")
  /\ l.pc \in {"sync", "notify", "notify_workflow"} => l.seen \in Answer
  /\ l.pc \in {"poll", "sync", "notify", "notify_workflow"} => status[l.step] # "absent"
  /\ l.task \in {"run", "poll"} /\ l.pc \notin {"load", "give_up"} => l.left # 0

EngineInv ==
  /\ WorkflowTypeOK
  /\ \A t \in Thread : HandlerInv(t)
  /\ \A i \in Step : act[i] = "waiting_for_approval" => status[i] # "absent"

-----------------------------------------------------------------------------
(* Properties *)

(* The effect of an action is on record, where its tool has one. *)
Done(i) ==
  CASE ToolOf[Plan[i]] = "provider" -> receipt[i] = "completed"
    [] ToolOf[Plan[i]] = "task" -> i \in tasks
    [] OTHER -> TRUE

(* Actions happen in the order of the plan: nothing is even requested from  *)
(* the gateway before the effects of all earlier actions are on record,     *)
(* whatever retries, resumes and stale writes there are (workflows.py 262). *)
ActionsInOrder ==
  \A i, j \in Step : j < i /\ status[i] # "absent" => Done(j)

(* A workflow is reported completed only when all of its effects exist. *)
CompletedWorkflowDone == workflow = "completed" => \A i \in Step : Done(i)

(* The actions with an effect, and those whose effect may be visible. *)
Effective == {i \in Step : ToolOf[Plan[i]] # "query"}
Begun == {i \in Effective : IF ToolOf[Plan[i]] = "task" THEN i \in tasks ELSE sent[i] # <<>>}

Ordered == INSTANCE OrderedEffects WITH
  Action <- Effective,
  begun <- Begun,
  done <- {i \in Effective : Done(i)},
  reported <- (workflow = "completed")

(* The engine implements OrderedEffects: not only the rows but the effects  *)
(* begin in the order of the plan, and none is taken off the record, even   *)
(* if a stale write takes the report back (workflows.py 226, 262, 533).     *)
ImplementsOrderedEffects == Ordered!Spec

(* Retries end: a claimed retry counts as an attempt, and executing a reset *)
(* action as one more, so there is never more than one beyond the limit, as *)
(* long as that is the three attempts of max_attempts (schemas.py 743) or   *)
(* less: with five, two old readings of a failed action could exceed it by  *)
(* two (workflows.py 330, 510, 799).                                        *)
AttemptsBounded == \A i \in Step : attempts[i] <= MaxAttempts + 1

Quiet == \A t \in Thread : At(t, "idle")

(* Without crashes, a workflow of the deterministic engine is not left       *)
(* running by all requests, however they interleave, and an action is, only  *)
(* if its approval overtook the request for it (workflows.py 226-237, 533).  *)
NothingLeftRunning ==
  Quiet =>
    /\ workflow # "running"
    /\ \A i \in Step : act[i] = "running" => decision[i] = "approved"

(* Every call of a route returns, however the threads interleave: the loop  *)
(* is bounded, and no step of a handler waits for another thread.           *)
EveryCallReturns == \A t \in Thread : ~At(t, "idle") ~> At(t, "idle")

(* The workflow uses the gateway as the gateway expects to be used, so that *)
(* what is proved of GatewaySpec holds of every workflow.                   *)
UsesGateway == GatewaySpec

(* "cancellation_closes_pending_approval" (test_workflow_state_machine.py:147): *)
(* nothing of a cancelled workflow can still be approved.                       *)
CancellationClosesApprovals ==
  Quiet /\ workflow = "cancelled" => \A i \in Step : decision[i] # "pending"

(* "Workflows support safe resume, up to three retry attempts after failure" *)
(* (README.md:280): a failed workflow has a failed action to retry, or its   *)
(* attempts are used up.                                                     *)
FailureCanBeRetried ==
  Quiet /\ workflow = "failed" => \E i \in Step : act[i] = "failed"

(* "A manager decision ... resumes the parent workflow automatically"     *)
(* (README.md:278): a workflow that waits has a decision to wait for.     *)
WaitsForDecision ==
  Quiet /\ workflow = "waiting_for_approval" => \E i \in Step : decision[i] = "pending"
=============================================================================

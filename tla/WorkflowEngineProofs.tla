------------------------ MODULE WorkflowEngineProofs -------------------------
(***************************************************************************)
(* Proofs about WorkflowEngine for every plan, number of threads and bound. *)
(*                                                                         *)
(* EngineInv is inductive together with GatewayInv, and under the two every *)
(* step of the engine is a step of GatewaySpec or leaves the gateway alone. *)
(* So what ApprovalGatewayProofs proves holds of every workflow.           *)
(* OrderInv and AttemptInv are inductive under those two, one after the    *)
(* other: the effects come in the order of the plan, and the attempts end. *)
(* CarryInv and RunningInv are inductive while nothing crashes: a workflow *)
(* or an action that runs has a thread that will see to it.                *)
(* From OrderInv it follows, step by step, that OrderedEffects is           *)
(* implemented.                                                            *)
(***************************************************************************)
EXTENDS WorkflowEngine, ApprovalGatewayProofs, WellFoundedInduction

(* Only the locals of thread t have changed, and they keep their type. *)
Others(t) ==
  /\ w' \in [Thread -> WorkflowLocal]
  /\ \A s \in Thread \ {t} : w'[s] = w[s]

(* Thread t has moved to phase p with the locals it had, seen apart. *)
Shifted(t, p) ==
  /\ Others(t)
  /\ w'[t].pc = p /\ w'[t].task = w[t].task /\ w'[t].step = w[t].step
  /\ w'[t].left = w[t].left

(* To moves a thread and keeps what it has seen. *)
LEMMA ToMoves ==
  ASSUME w \in [Thread -> WorkflowLocal], NEW t \in Thread, NEW p \in WorkflowPhase, To(t, p)
  PROVE  Shifted(t, p) /\ w'[t].seen = w[t].seen
  BY DEF To, Shifted, Others, WorkflowLocal

(* Learn moves a thread and stores a status. *)
LEMMA LearnMoves ==
  ASSUME w \in [Thread -> WorkflowLocal], NEW t \in Thread, NEW p \in WorkflowPhase,
         NEW s \in ExecutionStatus \cup ActionStatus \cup {"error"}, Learn(t, p, s)
  PROVE  Shifted(t, p) /\ w'[t].seen = s
  BY DEF Learn, Shifted, Others, WorkflowLocal

(* An unoccupied thread has the type of a thread. *)
LEMMA UnoccupiedLocal == Unoccupied \in WorkflowLocal
  BY WorkflowAssumption DEF Unoccupied, WorkflowLocal, WorkflowPhase, Task, Loop

(* A thread that leaves is unoccupied. *)
LEMMA LeaveMoves ==
  ASSUME w \in [Thread -> WorkflowLocal], NEW t \in Thread, Leave(t)
  PROVE  Others(t) /\ w'[t].pc = "idle" /\ w'[t].task = "none"
  BY UnoccupiedLocal DEF Leave, Others, Unoccupied

(* What a handler keeps of the scopes is a truth value. *)
LEMMA ScopeIsBoolean == InScope \in BOOLEAN
  BY DEF InScope

(* A turn of the loop starts in advance, with rounds left. *)
LEMMA TurnMoves ==
  ASSUME w \in [Thread -> WorkflowLocal], NEW t \in Thread, NEW o \in Loop,
         NEW n \in 0 .. MaxAdvances, NEW a \in BOOLEAN, Turn(t, o, n, a)
  PROVE  Others(t) /\ w'[t].pc = "advance" /\ w'[t].task = "run" /\ w'[t].left = n
  <1> DEFINE l == [Unoccupied EXCEPT !.pc = "advance", !.task = "run", !.loop = o, !.left = n,
                                     !.scoped = a]
  <1>1. l \in WorkflowLocal /\ l.pc = "advance" /\ l.task = "run" /\ l.left = n
    BY DEF Unoccupied, WorkflowLocal, WorkflowPhase, Task, Loop
  <1>2. w' = [w EXCEPT ![t] = l]
    BY DEF Turn
  <1> HIDE DEF l
  <1> QED BY <1>1, <1>2 DEF Others

(* A thread that enters a service function works on its action, if any. *)
LEMMA EnterMoves ==
  ASSUME w \in [Thread -> WorkflowLocal], NEW t \in Thread, NEW p \in WorkflowPhase,
         NEW k \in Task, NEW i \in Step \cup {None}, Enter(t, p, k, i)
  PROVE  Others(t) /\ w'[t].pc = p /\ w'[t].task = k /\ w'[t].step = i
  <1> DEFINE l == [Unoccupied EXCEPT !.pc = p, !.task = k, !.step = i]
  <1>1. l \in WorkflowLocal /\ l.pc = p /\ l.task = k /\ l.step = i
    BY UnoccupiedLocal DEF Unoccupied, WorkflowLocal
  <1>2. w' = [w EXCEPT ![t] = l]
    BY DEF Enter
  <1> HIDE DEF l
  <1> QED BY <1>1, <1>2 DEF Others

(* The actions are numbered from 1, and a set of them has a first. *)
LEMMA FirstOfSteps ==
  ASSUME NEW S \in SUBSET Step, S # {}
  PROVE  Min(S) \in S /\ \A y \in S : Min(S) <= y
  <1>1. Step \subseteq Nat
    BY WorkflowAssumption DEF Step
  <1>2. PICK x \in S : \A y \in S : ~(<<y, x>> \in OpToRel(<, Nat))
    BY <1>1, WFMin, NatLessThanWellFounded
  <1>3. ASSUME NEW y \in S, y < x PROVE FALSE
    <2>1. <<y, x>> \in OpToRel(<, Nat)
      BY <1>1, <1>3 DEF OpToRel
    <2> QED BY <1>2, <2>1
  <1>4. \A y \in S : x <= y
    BY <1>1, <1>3
  <1> QED BY <1>4 DEF Min

(* The executions are the actions, and the plan says what each of them calls. *)
LEMMA PlanType ==
  /\ Step = Execution /\ Owner \in Requester /\ Owner \in User
  /\ \A i \in Step : i \in Execution /\ Plan[i] \in Call
  /\ MaxAdvances \in 0 .. MaxAdvances /\ MaxAdvances # 0
  BY WorkflowAssumption, GatewayAssumption DEF Step

-----------------------------------------------------------------------------
(* Rows are not deleted: the requester of a row is never taken back. *)
LEMMA RowsStay ==
  ASSUME GatewayInv, GatewayInv', [GatewayNext]_gatewayVars,
         NEW e \in Execution, status[e] # "absent"
  PROVE  status'[e] # "absent"
  <1>1. requester[e] # None
    BY GatewayAssumption DEF GatewayInv, RowInv
  <1>2. requester'[e] = requester[e]
    <2>1. CASE UNCHANGED requester
      BY <2>1
    <2>2. ASSUME NEW t \in Thread, InsertExecution(t) PROVE requester'[e] = requester[e]
      BY <2>2 DEF InsertExecution, executionVars, GatewayInv, GatewayTypeOK
    <2> QED BY <2>1, <2>2, OwnerFrame, EnvironmentFrame DEF GatewayNext, gatewayVars
  <1> QED BY <1>1, <1>2 DEF GatewayInv, RowInv

(* A call goes on in its own thread and on its own execution, and it does   *)
(* not return an exception unless it is about to insert.                    *)
LEMMA ContinueMoves ==
  ASSUME GatewayInv, NEW t \in Thread, Continue(t)
  PROVE  /\ \A s \in Thread \ {t} : th'[s] = th[s]
         /\ th'[t].at = th[t].at
         /\ th'[t].pc # "insert"
         /\ th'[t].pc = "returned" /\ th'[t].seen = "error" => th[t].pc = "insert"
  <1> DEFINE Local1 ==
        /\ \A s \in Thread \ {t} : th'[s] = th[s]
        /\ th'[t].at = th[t].at
        /\ th'[t].pc # "insert"
        /\ th'[t].pc = "returned" /\ th'[t].seen = "error" => th[t].pc = "insert"
  <1> SUFFICES Local1
    OBVIOUS
  <1>1. th \in [Thread -> Local] /\ status \in [Execution -> ExecutionStatus]
    BY DEF GatewayInv, GatewayTypeOK
  <1>2. ASSUME NEW p, p # "insert", p # "returned",
               Goto(t, p) \/ \E s : GotoWith(t, p, s)
        PROVE  Local1
    BY <1>1, <1>2 DEF Goto, GotoWith, Local
  <1>3. ASSUME th[t].at \in Execution, Return(t, status[th[t].at]) PROVE Local1
    BY <1>1, <1>3 DEF Return, Local, ExecutionStatus
  <1>4. CASE InsertExecution(t)
    BY <1>1, <1>4 DEF InsertExecution, Goto, Return, Local
  <1>5. CASE ApplyApproval(t)
    <2>1. th[t].at \in Execution
      BY <1>5 DEF GatewayInv, GatewayTypeOK, ApplyApproval
    <2> QED BY <1>1, <1>2, <1>3, <1>5, <2>1 DEF ApplyApproval, Local
  <1>6. CASE CancelExecution(t) \/ RereadExecution(t)
    <2>1. th[t].at \in Execution
      BY <1>6 DEF GatewayInv, GatewayTypeOK, CancelExecution, RereadExecution
    <2> QED BY <1>2, <1>3, <1>6, <2>1 DEF CancelExecution, RereadExecution
  <1>7. CASE CreateApproval(t) \/ LinkApproval(t) \/ DecideUpdate(t) \/ Authorize(t) \/ WriteStatus(t)
    <2> HIDE DEF Local1
    <2> QED BY <1>2, <1>7 DEF CreateApproval, LinkApproval, DecideUpdate, Authorize, WriteStatus
  <1>8. CASE RunStep(t)
    <2> HIDE DEF Local1
    <2> QED BY <1>2, <1>8 DEF RunStep, RunQuery, LookupTask, InsertTask, LookupReceipt, AccessToken,
            InsertReceipt, CallProvider, SettleReceipt, FinishRun, FailRun
  <1> QED BY <1>4, <1>5, <1>6, <1>7, <1>8 DEF Continue

-----------------------------------------------------------------------------
(* A step of thread t keeps the invariant of the other threads and the type *)
(* of the tables, if it keeps its own.                                      *)
LEMMA HandlerStep ==
  ASSUME EngineInv, NEW t \in Thread, Others(t),
         \A s \in Thread \ {t} : th'[s] = th[s],
         \A e \in Execution : status[e] # "absent" => status'[e] # "absent",
         workflow' \in WorkflowStatus, act' \in [Step -> ActionStatus],
         attempts' \in [Step -> Nat], linked' \in SUBSET Step,
         \A i \in Step : act'[i] = "waiting_for_approval" =>
                           act[i] = "waiting_for_approval" \/ status[i] # "absent",
         HandlerInv(t)'
  PROVE  EngineInv'
  <1>1. WorkflowTypeOK'
    BY DEF WorkflowTypeOK, Others
  <1>2. ASSUME NEW s \in Thread, s # t PROVE HandlerInv(s)'
    <2>1. HandlerInv(s) /\ w'[s] = w[s] /\ th'[s] = th[s]
      BY <1>2 DEF EngineInv, Others
    <2>2. w[s].pc \in StepPhase => w[s].step \in Execution
      BY <2>1, PlanType DEF HandlerInv
    <2> QED BY <2>1, <2>2 DEF HandlerInv, StepPhase
  <1>3. \A i \in Step : act'[i] = "waiting_for_approval" => status'[i] # "absent"
    BY PlanType DEF EngineInv
  <1> QED BY <1>1, <1>2, <1>3 DEF EngineInv

(* The tables of the workflow and the gateway are as they were. *)
LEMMA ReadStep ==
  ASSUME EngineInv, NEW t \in Thread, Others(t), UNCHANGED <<gatewayVars, workflowVars>>,
         HandlerInv(t)'
  PROVE  EngineInv'
  BY HandlerStep DEF EngineInv, WorkflowTypeOK, gatewayVars, workflowVars

(* A step that changes nothing but the status of the workflow. *)
LEMMA SetWorkflowStep ==
  ASSUME EngineInv, NEW t \in Thread, NEW s \in WorkflowStatus, SetWorkflow(s), Others(t),
         UNCHANGED gatewayVars, HandlerInv(t)'
  PROVE  EngineInv'
  BY HandlerStep DEF EngineInv, WorkflowTypeOK, SetWorkflow, gatewayVars

(* A step that changes one action, and waits for an execution that exists. *)
LEMMA SetActionStep ==
  ASSUME EngineInv, NEW t \in Thread, NEW i \in Step, NEW s \in ActionStatus, SetAction(i, s),
         s = "waiting_for_approval" => status[i] # "absent",
         attempts' \in [Step -> Nat], linked' \in SUBSET Step,
         UNCHANGED workflow, UNCHANGED gatewayVars, Others(t), HandlerInv(t)'
  PROVE  EngineInv'
  BY HandlerStep DEF EngineInv, WorkflowTypeOK, SetAction, gatewayVars

-----------------------------------------------------------------------------
(* The workflow starts over an empty gateway. *)
LEMMA EngineInit == WorkflowInit => GatewayInv /\ EngineInv
  <1> SUFFICES ASSUME WorkflowInit PROVE GatewayInv /\ EngineInv
    OBVIOUS
  <1>1. GatewayInv
    BY InitInv DEF WorkflowInit
  <1>2. WorkflowTypeOK
    BY UnoccupiedLocal DEF WorkflowInit, WorkflowTypeOK, WorkflowStatus, ActionStatus
  <1>3. \A t \in Thread : HandlerInv(t)
    BY DEF WorkflowInit, HandlerInv, Unoccupied, StepPhase
  <1>4. \A i \in Step : act[i] # "waiting_for_approval"
    BY DEF WorkflowInit
  <1> QED BY <1>1, <1>2, <1>3, <1>4 DEF EngineInv

(* The types of a thread's locals and of what they are compared with. *)
LEMMA EngineTypes ==
  ASSUME EngineInv
  PROVE  /\ w \in [Thread -> WorkflowLocal] /\ workflow \in WorkflowStatus
         /\ act \in [Step -> ActionStatus] /\ attempts \in [Step -> Nat] /\ linked \in SUBSET Step
         /\ \A t \in Thread : HandlerInv(t)
  BY DEF EngineInv, WorkflowTypeOK

-----------------------------------------------------------------------------
(* A thread of phase p has the invariant, when p asks nothing of its locals. *)
LEMMA PlainPhase ==
  ASSUME NEW t \in Thread,
         w'[t].pc \in {"idle", "load", "give_up", "mark", "resume", "cancel_actions",
                       "cancel_workflow"},
         w'[t].task \in {"run", "poll"} => w'[t].pc \in {"load", "give_up"} \/ w'[t].left # 0
  PROVE  HandlerInv(t)'
  BY DEF HandlerInv, StepPhase

(* A thread at the start of a turn has rounds left. *)
LEMMA TurnPhase ==
  ASSUME NEW t \in Thread, w'[t].pc = "advance", w'[t].task = "run", w'[t].left # 0
  PROVE  HandlerInv(t)'
  BY DEF HandlerInv, StepPhase

(* A thread inside the loop has rounds left. *)
LEMMA RoundsLeft ==
  ASSUME EngineInv, NEW t \in Thread, w[t].task \in {"run", "poll"},
         w[t].pc \notin {"load", "give_up"}
  PROVE  w[t].left \in 1 .. MaxAdvances
  BY EngineTypes, WorkflowAssumption DEF HandlerInv, WorkflowLocal

(* A service that is entered, or a first turn of the loop. *)
LEMMA StartEngineInv ==
  ASSUME EngineInv, NEW t \in Thread, RunWorkflow(t) \/ LoadWorkflow(t)
  PROVE  EngineInv'
  <1>1. w \in [Thread -> WorkflowLocal]
    BY EngineTypes
  <1>2. UNCHANGED <<gatewayVars, workflowVars>>
    BY DEF RunWorkflow, LoadWorkflow
  <1>3. CASE RunWorkflow(t)
    <2>1. Others(t) /\ w'[t].pc = "load" /\ w'[t].task = "run"
      BY <1>1, <1>3, EnterMoves DEF RunWorkflow, WorkflowPhase, Task
    <2> QED BY <1>2, <2>1, PlainPhase, ReadStep
  <1>4. CASE LoadWorkflow(t)
    <2>1. CASE Leave(t)
      BY <1>1, <1>2, <2>1, LeaveMoves, PlainPhase, ReadStep
    <2>2. CASE To(t, "give_up")
      <3>1. Shifted(t, "give_up")
        BY <1>1, <2>2, ToMoves DEF WorkflowPhase
      <3> QED BY <1>2, <3>1, PlainPhase, ReadStep DEF Shifted
    <2>3. CASE Turn(t, Engine, MaxAdvances, InScope)
      <3>1. Engine \in Loop
        BY WorkflowAssumption DEF Loop
      <3> QED BY <1>1, <1>2, <2>3, <3>1, ScopeIsBoolean, PlanType, TurnMoves, TurnPhase, ReadStep
    <2> QED BY <1>4, <2>1, <2>2, <2>3 DEF LoadWorkflow
  <1> QED BY <1>3, <1>4

(* Reading the workflow, writing running or completed to it. *)
LEMMA AdvanceEngineInv ==
  ASSUME EngineInv, NEW t \in Thread, Advance(t) \/ MarkRunning(t) \/ CompleteWorkflow(t)
  PROVE  EngineInv'
  <1>1. w \in [Thread -> WorkflowLocal] /\ HandlerInv(t)
    BY EngineTypes
  <1>2. w[t].task \in {"run", "poll"} /\ w[t].left # 0
    BY <1>1 DEF HandlerInv, Advance, MarkRunning, CompleteWorkflow, At
  <1>3. ASSUME NEW p \in {"start", "pick", "check"}, To(t, p)
        PROVE  Others(t) /\ HandlerInv(t)'
    <2>1. Shifted(t, p)
      BY <1>1, <1>3, ToMoves DEF WorkflowPhase
    <2> QED BY <1>2, <2>1 DEF Shifted, HandlerInv, StepPhase
  <1>4. CASE Advance(t)
    <2>1. CASE Leave(t)
      BY <1>1, <1>4, <2>1, LeaveMoves, PlainPhase, ReadStep DEF Advance
    <2>2. CASE To(t, "start")
      BY <1>3, <1>4, <2>2, ReadStep DEF Advance
    <2> QED BY <1>4, <2>1, <2>2 DEF Advance
  <1>5. CASE MarkRunning(t)
    BY <1>3, <1>5, SetWorkflowStep DEF MarkRunning, WorkflowStatus
  <1>6. CASE CompleteWorkflow(t)
    BY <1>3, <1>6, SetWorkflowStep DEF CompleteWorkflow, WorkflowStatus
  <1> QED BY <1>4, <1>5, <1>6

(* The first open action is an action; if it waits, its execution exists. *)
LEMMA PickActionInv ==
  ASSUME EngineInv, NEW t \in Thread, PickAction(t)
  PROVE  EngineInv'
  <1> DEFINE open == {i \in Step : Open(i)}
             i == Min(open)
             k == IF act[i] = "waiting_for_approval" THEN "poll" ELSE "run"
             p == CASE act[i] = "waiting_for_approval" -> "poll"
                    [] act[i] = "pending" -> "claim"
                    [] OTHER -> "mark"
  <1>1. /\ w \in [Thread -> WorkflowLocal] /\ act \in [Step -> ActionStatus] /\ HandlerInv(t)
        /\ w[t].task \in {"run", "poll"} /\ w[t].left # 0
    BY EngineTypes DEF HandlerInv, PickAction, At
  <1>2. UNCHANGED <<gatewayVars, workflowVars>>
    BY DEF PickAction
  <1>3. CASE open = {}
    <2>1. Shifted(t, "complete")
      BY <1>1, <1>3, ToMoves DEF PickAction, WorkflowPhase
    <2>2. HandlerInv(t)'
      BY <1>1, <2>1 DEF Shifted, HandlerInv, StepPhase
    <2> QED BY <1>2, <2>1, <2>2, ReadStep DEF Shifted
  <1>4. CASE open # {}
    <2>1. i \in Step
      BY <1>4, FirstOfSteps
    <2>2. w' = [w EXCEPT ![t].step = i, ![t].seen = act[i], ![t].task = k, ![t].pc = p]
      BY <1>4 DEF PickAction
    <2>3. act[i] \in ActionStatus /\ (act[i] = "waiting_for_approval" => status[i] # "absent")
      BY <1>1, <2>1 DEF EngineInv
    <2>4. \/ k = "poll" /\ p = "poll" /\ status[i] # "absent"
          \/ k = "run" /\ p \in {"claim", "mark"}
      BY <2>3
    <2> HIDE DEF i, k, p
    <2>5. k \in Task /\ p \in WorkflowPhase
      BY <2>4 DEF Task, WorkflowPhase
    <2>6. /\ Others(t) /\ w'[t].pc = p /\ w'[t].task = k /\ w'[t].step = i
          /\ w'[t].left = w[t].left
      <3> DEFINE l == [w[t] EXCEPT !.step = i, !.seen = act[i], !.task = k, !.pc = p]
      <3>1. /\ l \in WorkflowLocal /\ l.pc = p /\ l.task = k /\ l.step = i
            /\ l.left = w[t].left
        BY <1>1, <2>1, <2>3, <2>5 DEF WorkflowLocal
      <3>2. w' = [w EXCEPT ![t] = l]
        BY <1>1, <2>2 DEF WorkflowLocal
      <3> HIDE DEF l
      <3> QED BY <1>1, <3>1, <3>2 DEF Others
    <2>7. HandlerInv(t)'
      BY <1>1, <1>2, <2>1, <2>4, <2>6 DEF HandlerInv, StepPhase, gatewayVars
    <2> QED BY <1>2, <2>6, <2>7, ReadStep
  <1> QED BY <1>3, <1>4

(* The execution of a waiting action exists, and so has a status. *)
LEMMA PollExecutionInv ==
  ASSUME GatewayInv, EngineInv, NEW t \in Thread, PollExecution(t)
  PROVE  EngineInv'
  <1> DEFINE i == w[t].step
  <1>1. /\ w \in [Thread -> WorkflowLocal] /\ HandlerInv(t)
        /\ i \in Step /\ status[i] # "absent" /\ w[t].pc = "poll"
    BY EngineTypes DEF HandlerInv, StepPhase, PollExecution, At
  <1>2. status[i] \in Answer /\ status[i] \in ExecutionStatus
    BY <1>1, PlanType DEF GatewayInv, GatewayTypeOK, Answer
  <1>3. UNCHANGED <<gatewayVars, workflowVars>>
    BY DEF PollExecution
  <1>4. Shifted(t, "sync") /\ w'[t].seen = status[i]
    BY <1>1, <1>2, LearnMoves DEF PollExecution, WorkflowPhase
  <1>5. HandlerInv(t)'
    BY <1>1, <1>2, <1>3, <1>4 DEF Shifted, HandlerInv, StepPhase, gatewayVars
  <1> QED BY <1>3, <1>4, <1>5, ReadStep DEF Shifted

(* The claim of a pending action. *)
LEMMA ClaimActionInv ==
  ASSUME EngineInv, NEW t \in Thread, ClaimAction(t)
  PROVE  EngineInv'
  <1> DEFINE i == w[t].step
  <1>1. /\ w \in [Thread -> WorkflowLocal] /\ HandlerInv(t) /\ i \in Step
        /\ w[t].task = "run" /\ w[t].left # 0
        /\ attempts \in [Step -> Nat] /\ linked \in SUBSET Step
    BY EngineTypes DEF HandlerInv, StepPhase, ClaimAction, At
  <1>2. ASSUME NEW p \in {"request", "reload"}, To(t, p) PROVE Others(t) /\ HandlerInv(t)'
    <2>1. Shifted(t, p)
      BY <1>1, <1>2, ToMoves DEF WorkflowPhase
    <2> QED BY <1>1, <2>1 DEF Shifted, HandlerInv, StepPhase
  <1>3. CASE act[i] = "pending"
    <2>1. SetAction(i, "running") /\ To(t, "request") /\ UNCHANGED <<workflow, linked, gatewayVars>>
      BY <1>3 DEF ClaimAction
    <2>2. attempts' \in [Step -> Nat]
      BY <1>1, <1>3 DEF ClaimAction
    <2> QED BY <1>1, <1>2, <2>1, <2>2, SetActionStep DEF ActionStatus
  <1>4. CASE act[i] # "pending"
    <2>1. To(t, "reload") /\ UNCHANGED <<gatewayVars, workflowVars>>
      BY <1>4 DEF ClaimAction, workflowVars
    <2> QED BY <1>2, <2>1, ReadStep
  <1> QED BY <1>3, <1>4

-----------------------------------------------------------------------------
(* The steps that call the gateway *)

(* A step of the gateway by thread t, which leaves the workflow's tables alone. *)
LEMMA CallStep ==
  ASSUME GatewayInv, EngineInv, NEW t \in Thread, [GatewayNext]_gatewayVars,
         UNCHANGED workflowVars, Others(t), \A s \in Thread \ {t} : th'[s] = th[s],
         HandlerInv(t)'
  PROVE  EngineInv'
  <1>1. \A e \in Execution : status[e] # "absent" => status'[e] # "absent"
    BY NextInv, RowsStay
  <1> QED BY <1>1, EngineTypes, HandlerStep DEF workflowVars

(* A request starts on the action of its thread. *)
LEMMA RequestActionStep ==
  ASSUME EngineInv, NEW t \in Thread, RequestAction(t)
  PROVE  [GatewayNext]_gatewayVars
  <1>1. w[t].step \in Step
    BY EngineTypes DEF HandlerInv, StepPhase, RequestAction, At
  <1>2. RequestExecution(t, w[t].step, Owner, Plan[w[t].step]) => Begin(t)
    BY <1>1, PlanType DEF Begin
  <1> QED BY <1>2 DEF RequestAction, GatewayNext

(* request_execution is entered for the claimed action, or refused at once. *)
LEMMA RequestActionInv ==
  ASSUME GatewayInv, EngineInv, NEW t \in Thread, RequestAction(t)
  PROVE  EngineInv'
  <1> DEFINE i == w[t].step
  <1>1. /\ w \in [Thread -> WorkflowLocal] /\ HandlerInv(t) /\ i \in Step
        /\ w[t].task = "run" /\ w[t].left # 0
    BY EngineTypes DEF HandlerInv, StepPhase, RequestAction, At
  <1>2. UNCHANGED workflowVars
    BY DEF RequestAction
  <1>3. CASE RequestExecution(t, i, Owner, Plan[i]) /\ To(t, "await")
    <2>1. Shifted(t, "await")
      BY <1>1, <1>3, ToMoves DEF WorkflowPhase
    <2>2. th'[t].at = i /\ \A s \in Thread \ {t} : th'[s] = th[s]
      <3>1. th \in [Thread -> Local]
        BY DEF GatewayInv, GatewayTypeOK
      <3>2. \E l : l.at = i /\ th' = [th EXCEPT ![t] = l]
        <4> DEFINE A(s) == [Start(t, "insert", i, Owner) EXCEPT !.plan = s, !.call = Plan[i]]
                   B(s) == [Start(t, "returned", i, Owner) EXCEPT !.seen = s]
        <4>1. \A s : A(s).at = i /\ B(s).at = i
          BY DEF Start, Idle
        <4>2. \E s : th' = [th EXCEPT ![t] = A(s)] \/ th' = [th EXCEPT ![t] = B(s)]
          BY <1>3 DEF RequestExecution
        <4> QED BY <4>1, <4>2
      <3> QED BY <3>1, <3>2
    <2>3. HandlerInv(t)'
      BY <1>1, <2>1, <2>2 DEF Shifted, HandlerInv, StepPhase
    <2> QED BY <1>2, <2>1, <2>2, <2>3, RequestActionStep, CallStep DEF Shifted
  <1>4. CASE To(t, "fail") /\ UNCHANGED gatewayVars
    <2>1. Shifted(t, "fail")
      BY <1>1, <1>4, ToMoves DEF WorkflowPhase
    <2>2. HandlerInv(t)'
      BY <1>1, <2>1 DEF Shifted, HandlerInv, StepPhase
    <2> QED BY <1>2, <1>4, <2>1, <2>2, ReadStep DEF Shifted
  <1> QED BY <1>3, <1>4 DEF RequestAction

(* A retry starts on the action of its thread. *)
LEMMA RetryActionStep ==
  ASSUME EngineInv, NEW t \in Thread, RetryAction(t)
  PROVE  [GatewayNext]_gatewayVars
  <1>1. w[t].step \in Step
    BY EngineTypes DEF HandlerInv, StepPhase, RetryAction, At
  <1>2. RetryExecution(t, w[t].step, Owner) => Begin(t)
    BY <1>1, PlanType DEF Begin
  <1> QED BY <1>2 DEF RetryAction, GatewayNext

(* retry_execution is entered for the claimed action, or refused at once. *)
LEMMA RetryActionInv ==
  ASSUME GatewayInv, EngineInv, NEW t \in Thread, RetryAction(t)
  PROVE  EngineInv'
  <1> DEFINE i == w[t].step
  <1>1. /\ w \in [Thread -> WorkflowLocal] /\ HandlerInv(t) /\ i \in Step /\ w[t].task = "retry"
    BY EngineTypes DEF HandlerInv, StepPhase, RetryAction, At
  <1>2. UNCHANGED workflowVars
    BY DEF RetryAction
  <1>3. CASE RetryExecution(t, i, Owner) /\ To(t, "await")
    <2>1. Shifted(t, "await")
      BY <1>1, <1>3, ToMoves DEF WorkflowPhase
    <2>2. th'[t].at = i /\ \A s \in Thread \ {t} : th'[s] = th[s]
      BY <1>3 DEF RetryExecution, Start, Idle, GatewayInv, GatewayTypeOK, Local
    <2>3. HandlerInv(t)'
      BY <1>1, <2>1, <2>2 DEF Shifted, HandlerInv, StepPhase
    <2> QED BY <1>2, <2>1, <2>2, <2>3, RetryActionStep, CallStep DEF Shifted
  <1>4. CASE To(t, "fail") /\ UNCHANGED gatewayVars
    <2>1. Shifted(t, "fail")
      BY <1>1, <1>4, ToMoves DEF WorkflowPhase
    <2>2. HandlerInv(t)'
      BY <1>1, <2>1 DEF Shifted, HandlerInv, StepPhase
    <2> QED BY <1>2, <1>4, <2>1, <2>2, ReadStep DEF Shifted
  <1> QED BY <1>3, <1>4 DEF RetryAction

(* A decision is a decision of the gateway. *)
LEMMA DecideActionStep ==
  ASSUME EngineInv, NEW t \in Thread, DecideAction(t)
  PROVE  [GatewayNext]_gatewayVars
  <1>1. ASSUME NEW i \in Step, NEW r \in Reviewer, NEW v \in {"approved", "rejected"},
               Decide(t, i, r, v)
        PROVE  Begin(t)
    BY <1>1, PlanType DEF Begin
  <1> QED BY <1>1 DEF DecideAction, GatewayNext

(* The decision's thread follows the execution it decides on. *)
LEMMA DecideActionInv ==
  ASSUME GatewayInv, EngineInv, NEW t \in Thread, DecideAction(t)
  PROVE  EngineInv'
  <1>1. w \in [Thread -> WorkflowLocal]
    BY EngineTypes
  <1>2. PICK i \in Step, r \in Reviewer, v \in {"approved", "rejected"} :
          Decide(t, i, r, v) /\ Enter(t, "await", "decision", i)
    BY DEF DecideAction
  <1>3. Others(t) /\ w'[t].pc = "await" /\ w'[t].task = "decision" /\ w'[t].step = i
    BY <1>1, <1>2, EnterMoves DEF WorkflowPhase, Task
  <1>4. /\ th'[t].at = i /\ th'[t].pc = "decide"
        /\ \A s \in Thread \ {t} : th'[s] = th[s]
    BY <1>2 DEF Decide, Start, Idle, GatewayInv, GatewayTypeOK, Local
  <1>5. HandlerInv(t)'
    BY <1>3, <1>4 DEF HandlerInv, StepPhase
  <1>6. UNCHANGED workflowVars
    BY DEF DecideAction
  <1> QED BY <1>3, <1>4, <1>5, <1>6, DecideActionStep, CallStep

(* The cancellation of an approval is one of the gateway. *)
LEMMA CancelNextStep ==
  ASSUME EngineInv, NEW t \in Thread, CancelNext(t)
  PROVE  [GatewayNext]_gatewayVars
  <1>1. w[t].todo \subseteq Step
    BY EngineTypes DEF WorkflowLocal
  <1>2. ASSUME NEW i \in w[t].todo, NEW u \in Reviewer \cup {Owner}, CancelForExecution(t, i, u)
        PROVE  Begin(t)
    BY <1>1, <1>2, PlanType, GatewayAssumption, WorkflowAssumption DEF Begin
  <1> QED BY <1>2 DEF CancelNext, GatewayNext

(* cancel_workflow goes from one waiting approval to the next. *)
LEMMA CancelNextInv ==
  ASSUME GatewayInv, EngineInv, NEW t \in Thread, CancelNext(t)
  PROVE  EngineInv'
  <1>1. w \in [Thread -> WorkflowLocal] /\ w[t].task = "cancel" /\ w[t].todo \subseteq Step
    BY EngineTypes DEF HandlerInv, CancelNext, At, WorkflowLocal
  <1>2. UNCHANGED workflowVars
    BY DEF CancelNext
  <1>3. CASE To(t, "cancel_actions") /\ UNCHANGED gatewayVars
    <2>1. Shifted(t, "cancel_actions")
      BY <1>1, <1>3, ToMoves DEF WorkflowPhase
    <2> QED BY <1>1, <1>2, <1>3, <2>1, PlainPhase, ReadStep DEF Shifted
  <1>4. ASSUME NEW i \in w[t].todo, NEW u \in Reviewer \cup {Owner}, CancelForExecution(t, i, u),
               w' = [w EXCEPT ![t].pc = "await", ![t].todo = @ \ {i}]
        PROVE  EngineInv'
    <2>1. Others(t) /\ w'[t].pc = "await" /\ w'[t].task = "cancel"
      <3> DEFINE l == [w[t] EXCEPT !.pc = "await", !.todo = w[t].todo \ {i}]
      <3>1. l \in WorkflowLocal /\ l.pc = "await" /\ l.task = "cancel"
        BY <1>1 DEF WorkflowLocal, WorkflowPhase
      <3>2. w' = [w EXCEPT ![t] = l]
        BY <1>1, <1>4 DEF WorkflowLocal
      <3> HIDE DEF l
      <3> QED BY <1>1, <3>1, <3>2 DEF Others
    <2>2. \A s \in Thread \ {t} : th'[s] = th[s]
      BY <1>4 DEF CancelForExecution, GatewayInv, GatewayTypeOK
    <2>3. HandlerInv(t)'
      BY <2>1 DEF HandlerInv, StepPhase
    <2> QED BY <1>2, <2>1, <2>2, <2>3, CancelNextStep, CallStep
  <1> QED BY <1>3, <1>4 DEF CancelNext

(* A step inside a call is a step of the gateway. *)
LEMMA GatewayStepInv ==
  ASSUME GatewayInv, EngineInv, NEW t \in Thread, GatewayStep(t)
  PROVE  [GatewayNext]_gatewayVars /\ EngineInv'
  <1>1. [GatewayNext]_gatewayVars
    BY DEF GatewayStep, GatewayNext
  <1>2. /\ \A s \in Thread \ {t} : th'[s] = th[s]
        /\ th'[t].at = th[t].at
        /\ th'[t].pc # "insert"
        /\ th'[t].pc = "returned" /\ th'[t].seen = "error" => th[t].pc = "insert"
    BY ContinueMoves DEF GatewayStep
  <1>3. w \in [Thread -> WorkflowLocal] /\ HandlerInv(t) /\ w[t].pc = "await"
    BY EngineTypes DEF GatewayStep, At
  <1>4. UNCHANGED <<workflowVars, w>> /\ Others(t)
    BY <1>3 DEF GatewayStep, Others
  <1>5. HandlerInv(t)'
    BY <1>2, <1>3, <1>4 DEF HandlerInv, StepPhase
  <1> QED BY <1>1, <1>2, <1>4, <1>5, CallStep

(* The response of the gateway: the action's thread learns a status. *)
LEMMA TakeResultInv ==
  ASSUME GatewayInv, EngineInv, NEW t \in Thread, TakeResult(t)
  PROVE  [GatewayNext]_gatewayVars /\ EngineInv'
  <1> DEFINE s == th[t].seen
  <1>1. [GatewayNext]_gatewayVars
    BY DEF TakeResult, GatewayNext
  <1>2. /\ w \in [Thread -> WorkflowLocal] /\ HandlerInv(t) /\ w[t].pc = "await"
        /\ w[t].task \in {"run", "retry", "decision", "cancel"}
    BY EngineTypes DEF HandlerInv, TakeResult, At
  <1>3. th[t].pc = "returned" /\ PhaseInv(t) /\ th' = [th EXCEPT ![t] = Idle]
    BY DEF TakeResult, Respond, GatewayInv, ThreadInv
  <1>4. \A r \in Thread \ {t} : th'[r] = th[r]
    BY <1>3 DEF GatewayInv, GatewayTypeOK
  <1>5. UNCHANGED workflowVars /\ UNCHANGED status
    BY DEF TakeResult, Respond, executionVars
  <1>6. ASSUME s # "error", w[t].task # "cancel"
        PROVE  /\ s \in Answer /\ s \in ExecutionStatus /\ status[w[t].step] # "absent"
               /\ w[t].step \in Step
    BY <1>2, <1>3, <1>6 DEF PhaseInv, HandlerInv, Answer
  <1>7. w[t].task \in {"run", "poll"} => w[t].left # 0
    BY <1>2 DEF HandlerInv
  <1>8. CASE w[t].task = "cancel"
    <2>1. To(t, "cancel_next")
      BY <1>8 DEF TakeResult
    <2>2. Shifted(t, "cancel_next")
      BY <1>2, <2>1, ToMoves DEF WorkflowPhase
    <2>3. HandlerInv(t)'
      BY <1>8, <2>2 DEF Shifted, HandlerInv, StepPhase
    <2> QED BY <1>1, <1>4, <1>5, <2>2, <2>3, CallStep DEF Shifted
  <1>9. CASE w[t].task = "decision"
    <2>1. s # "error"
      BY <1>2, <1>3, <1>9 DEF HandlerInv
    <2>2. Learn(t, "notify", s)
      BY <1>9 DEF TakeResult
    <2>3. Shifted(t, "notify") /\ w'[t].seen = s
      BY <1>2, <1>6, <1>9, <2>1, <2>2, LearnMoves DEF WorkflowPhase
    <2>4. HandlerInv(t)'
      BY <1>5, <1>6, <1>9, <2>1, <2>3 DEF Shifted, HandlerInv, StepPhase
    <2> QED BY <1>1, <1>4, <1>5, <2>3, <2>4, CallStep DEF Shifted
  <1>10. CASE w[t].task \in {"run", "retry"} /\ s = "error"
    <2>1. To(t, "fail")
      BY <1>10 DEF TakeResult
    <2>2. Shifted(t, "fail")
      BY <1>2, <2>1, ToMoves DEF WorkflowPhase
    <2>3. HandlerInv(t)'
      BY <1>2, <1>7, <1>10, <2>2 DEF Shifted, HandlerInv, StepPhase
    <2> QED BY <1>1, <1>4, <1>5, <2>2, <2>3, CallStep DEF Shifted
  <1>11. CASE w[t].task \in {"run", "retry"} /\ s # "error"
    <2>1. Learn(t, "sync", s)
      BY <1>11 DEF TakeResult
    <2>2. Shifted(t, "sync") /\ w'[t].seen = s
      BY <1>2, <1>6, <1>11, <2>1, LearnMoves DEF WorkflowPhase
    <2>3. HandlerInv(t)'
      BY <1>5, <1>6, <1>7, <1>11, <2>2 DEF Shifted, HandlerInv, StepPhase
    <2> QED BY <1>1, <1>4, <1>5, <2>2, <2>3, CallStep DEF Shifted
  <1> QED BY <1>2, <1>8, <1>9, <1>10, <1>11

-----------------------------------------------------------------------------
(* The steps that follow the call *)

(* What the action is synced to is a status of actions. *)
LEMMA SyncedStatusType ==
  ASSUME NEW i, NEW a \in Answer, NEW s \in SyncedStatus(i, a)
  PROVE  s \in ActionStatus
  BY DEF SyncedStatus, Answer, ExecutionStatus, ActionStatus

(* The sync of an action: it waits only for an execution that exists. *)
LEMMA SyncActionInv ==
  ASSUME EngineInv, NEW t \in Thread, SyncAction(t)
  PROVE  EngineInv'
  <1> DEFINE i == w[t].step
  <1>1. /\ w \in [Thread -> WorkflowLocal] /\ HandlerInv(t) /\ i \in Step
        /\ w[t].seen \in Answer /\ status[i] # "absent"
        /\ attempts \in [Step -> Nat] /\ linked \in SUBSET Step
    BY EngineTypes DEF HandlerInv, StepPhase, SyncAction, At
  <1>2. PICK s \in SyncedStatus(i, w[t].seen) : SetAction(i, s)
    BY DEF SyncAction
  <1>3. s \in ActionStatus
    BY <1>1, SyncedStatusType
  <1>4. Shifted(t, "reload")
    BY <1>1, ToMoves DEF SyncAction, WorkflowPhase
  <1>5. /\ UNCHANGED workflow /\ UNCHANGED gatewayVars
        /\ attempts' \in [Step -> Nat] /\ linked' \in SUBSET Step
    BY <1>1 DEF SyncAction
  <1>6. w[t].task \in {"run", "poll"} => w[t].left # 0
    BY <1>1 DEF HandlerInv, SyncAction, At
  <1>7. HandlerInv(t)'
    BY <1>1, <1>4, <1>6 DEF Shifted, HandlerInv, StepPhase
  <1> QED BY <1>1, <1>2, <1>3, <1>4, <1>5, <1>7, SetActionStep DEF Shifted

(* An action whose call has raised has failed. *)
LEMMA FailActionInv ==
  ASSUME EngineInv, NEW t \in Thread, FailAction(t)
  PROVE  EngineInv'
  <1> DEFINE i == w[t].step
  <1>1. /\ w \in [Thread -> WorkflowLocal] /\ HandlerInv(t) /\ i \in Step
        /\ attempts \in [Step -> Nat] /\ linked \in SUBSET Step
        /\ w[t].task \in {"run", "poll"} => w[t].left # 0
    BY EngineTypes DEF HandlerInv, StepPhase, FailAction, At
  <1>2. Shifted(t, "reload")
    BY <1>1, LearnMoves DEF FailAction, WorkflowPhase
  <1>3. HandlerInv(t)'
    BY <1>1, <1>2 DEF Shifted, HandlerInv, StepPhase
  <1>4. SetAction(i, "failed") /\ UNCHANGED <<workflow, attempts, linked, gatewayVars>>
    BY DEF FailAction
  <1> QED BY <1>1, <1>2, <1>3, <1>4, SetActionStep DEF Shifted, ActionStatus

(* The action is read again, and decides how the thread goes on. *)
LEMMA ReloadActionInv ==
  ASSUME EngineInv, NEW t \in Thread, ReloadAction(t)
  PROVE  EngineInv'
  <1> DEFINE s == act[w[t].step]
  <1>1. /\ w \in [Thread -> WorkflowLocal] /\ HandlerInv(t) /\ w[t].step \in Step
        /\ s \in ActionStatus /\ (w[t].task \in {"run", "poll"} => w[t].left # 0)
    BY EngineTypes DEF HandlerInv, StepPhase, ReloadAction, At
  <1>2. UNCHANGED <<gatewayVars, workflowVars>>
    BY DEF ReloadAction
  <1>3. CASE w[t].task = "poll" /\ s = "pending"
    <2> DEFINE l == [w[t] EXCEPT !.pc = "claim", !.task = "run", !.seen = s]
    <2>1. w' = [w EXCEPT ![t].pc = "claim", ![t].task = "run", ![t].seen = s]
      BY <1>3 DEF ReloadAction
    <2>2. /\ l \in WorkflowLocal /\ l.pc = "claim" /\ l.task = "run"
          /\ l.step = w[t].step /\ l.left = w[t].left
      BY <1>1 DEF WorkflowLocal, WorkflowPhase, Task
    <2>3. w' = [w EXCEPT ![t] = l]
      BY <1>1, <2>1 DEF WorkflowLocal
    <2> HIDE DEF l
    <2>4. Others(t) /\ w'[t] = l
      BY <1>1, <2>2, <2>3 DEF Others
    <2>5. HandlerInv(t)'
      BY <1>1, <1>3, <2>2, <2>4 DEF HandlerInv, StepPhase
    <2> QED BY <1>2, <2>4, <2>5, ReadStep
  <1>4. CASE To(t, "resume") /\ w[t].task \in {"retry", "decision"}
    <2>1. Shifted(t, "resume")
      BY <1>1, <1>4, ToMoves DEF WorkflowPhase
    <2> QED BY <1>2, <1>4, <2>1, PlainPhase, ReadStep DEF Shifted
  <1>5. CASE Leave(t)
    BY <1>1, <1>2, <1>5, LeaveMoves, PlainPhase, ReadStep
  <1>6. CASE Learn(t, "mark", s)
    <2>1. Shifted(t, "mark")
      BY <1>1, <1>6, LearnMoves DEF WorkflowPhase
    <2> QED BY <1>1, <1>2, <2>1, PlainPhase, ReadStep DEF Shifted
  <1> QED BY <1>3, <1>4, <1>5, <1>6 DEF ReloadAction

(* What an action makes of its workflow is a status of workflows. *)
LEMMA MarksType ==
  ASSUME workflow \in WorkflowStatus, NEW k, NEW s
  PROVE  Marks(k, s) \in WorkflowStatus
  BY DEF Marks, WorkflowStatus

(* The workflow is marked; the loop goes on to its check, a service returns. *)
LEMMA MarkWorkflowInv ==
  ASSUME EngineInv, NEW t \in Thread, MarkWorkflow(t)
  PROVE  EngineInv'
  <1> DEFINE s == Marks(w[t].task, w[t].seen)
  <1>1. /\ w \in [Thread -> WorkflowLocal] /\ workflow \in WorkflowStatus
        /\ w[t].task \in {"run", "poll"} => w[t].left # 0
    BY EngineTypes DEF HandlerInv, MarkWorkflow, At
  <1>2. s \in WorkflowStatus /\ SetWorkflow(s) /\ UNCHANGED gatewayVars
    BY <1>1, MarksType DEF MarkWorkflow
  <1> HIDE DEF s
  <1>3. CASE w[t].task \in {"run", "poll"} /\ To(t, "check")
    <2>1. Shifted(t, "check")
      BY <1>1, <1>3, ToMoves DEF WorkflowPhase
    <2>2. HandlerInv(t)'
      BY <1>1, <1>3, <2>1 DEF Shifted, HandlerInv, StepPhase
    <2> QED BY <1>2, <2>1, <2>2, SetWorkflowStep DEF Shifted
  <1>4. CASE Leave(t)
    BY <1>1, <1>2, <1>4, LeaveMoves, PlainPhase, SetWorkflowStep
  <1> QED BY <1>3, <1>4 DEF MarkWorkflow

(* A loop that ends falls back to another one, leaves or gives up. *)
LEMMA LeaveLoopInv ==
  ASSUME EngineInv, NEW t \in Thread, LeaveLoop(t), UNCHANGED <<gatewayVars, workflowVars>>
  PROVE  EngineInv'
  <1>1. w \in [Thread -> WorkflowLocal] /\ w[t].scoped \in BOOLEAN
    BY EngineTypes DEF WorkflowLocal
  <1>2. CASE Turn(t, "deterministic", MaxAdvances, w[t].scoped)
    BY <1>1, <1>2, PlanType, TurnMoves, TurnPhase, ReadStep DEF Loop
  <1>3. CASE To(t, "give_up")
    <2>1. Shifted(t, "give_up")
      BY <1>1, <1>3, ToMoves DEF WorkflowPhase
    <2> QED BY <2>1, PlainPhase, ReadStep DEF Shifted
  <1>4. CASE Leave(t)
    BY <1>1, <1>4, LeaveMoves, PlainPhase, ReadStep
  <1> QED BY <1>2, <1>3, <1>4 DEF LeaveLoop

(* The loop goes on with one round less, and at least one. *)
LEMMA CheckWorkflowInv ==
  ASSUME EngineInv, NEW t \in Thread, CheckWorkflow(t)
  PROVE  EngineInv'
  <1> DEFINE n == RoundsAfter(w[t].left)
  <1>1. w \in [Thread -> WorkflowLocal] /\ w[t].loop \in Loop /\ w[t].scoped \in BOOLEAN
    BY EngineTypes DEF WorkflowLocal
  <1>2. w[t].task \in {"run", "poll"}
    BY EngineTypes DEF HandlerInv, CheckWorkflow, At
  <1>3. w[t].left \in 1 .. MaxAdvances
    BY <1>2, RoundsLeft DEF CheckWorkflow, At
  <1>4. n \in 0 .. MaxAdvances
    BY <1>3, WorkflowAssumption DEF RoundsAfter
  <1>5. UNCHANGED <<gatewayVars, workflowVars>>
    BY DEF CheckWorkflow
  <1> HIDE DEF n
  <1>6. CASE Turn(t, w[t].loop, n, w[t].scoped) /\ n # 0
    BY <1>1, <1>4, <1>5, <1>6, TurnMoves, TurnPhase, ReadStep
  <1>7. CASE LeaveLoop(t)
    BY <1>5, <1>7, LeaveLoopInv
  <1>8. CASE Leave(t)
    BY <1>1, <1>5, <1>8, LeaveMoves, PlainPhase, ReadStep
  <1>9. \/ Turn(t, w[t].loop, n, w[t].scoped) /\ n # 0
        \/ LeaveLoop(t) \/ Leave(t)
    <2>1. CASE workflow # "running"
      BY <2>1 DEF CheckWorkflow
    <2>2. CASE workflow = "running" /\ RoundsAfter(w[t].left) = 0
      BY <2>2 DEF CheckWorkflow
    <2>3. CASE workflow = "running" /\ RoundsAfter(w[t].left) # 0
      BY <2>3 DEF CheckWorkflow, n
    <2> QED BY <2>1, <2>2, <2>3
  <1> QED BY <1>6, <1>7, <1>8, <1>9

(* The workflow is given up, or resumed by a retry or a decision. *)
LEMMA SettleEngineInv ==
  ASSUME EngineInv, NEW t \in Thread, GiveUp(t) \/ ResumeWorkflow(t)
  PROVE  EngineInv'
  <1>1. w \in [Thread -> WorkflowLocal]
    BY EngineTypes
  <1>2. CASE GiveUp(t)
    BY <1>1, <1>2, LeaveMoves, PlainPhase, SetWorkflowStep DEF GiveUp, WorkflowStatus
  <1>3. CASE ResumeWorkflow(t)
    <2>1. Shifted(t, "load")
      BY <1>1, <1>3, ToMoves DEF ResumeWorkflow, WorkflowPhase
    <2> QED BY <1>3, <2>1, PlainPhase, SetWorkflowStep DEF Shifted, ResumeWorkflow, WorkflowStatus
  <1> QED BY <1>2, <1>3

-----------------------------------------------------------------------------
(* The other services, and what disturbs them *)

(* A retry starts on the first failed action. *)
LEMMA RetryWorkflowInv ==
  ASSUME EngineInv, NEW t \in Thread, RetryWorkflow(t)
  PROVE  EngineInv'
  <1> DEFINE failed == {j \in Step : act[j] = "failed"}
             i == Min(failed)
             l == [Unoccupied EXCEPT !.pc = "retry_claim", !.task = "retry", !.step = i,
                                     !.todo = {i} \cap linked, !.scoped = InScope]
  <1>1. w \in [Thread -> WorkflowLocal] /\ linked \in SUBSET Step
    BY EngineTypes
  <1>2. i \in Step
    BY FirstOfSteps DEF RetryWorkflow
  <1>3. w' = [w EXCEPT ![t] = l] /\ UNCHANGED <<gatewayVars, workflowVars>>
    BY DEF RetryWorkflow
  <1> HIDE DEF i
  <1>4. l \in WorkflowLocal /\ l.pc = "retry_claim" /\ l.task = "retry" /\ l.step = i
    BY <1>1, <1>2, ScopeIsBoolean, UnoccupiedLocal DEF Unoccupied, WorkflowLocal, WorkflowPhase, Task
  <1> HIDE DEF l
  <1>5. Others(t) /\ w'[t] = l
    BY <1>1, <1>3, <1>4 DEF Others
  <1>6. HandlerInv(t)'
    BY <1>2, <1>4, <1>5 DEF HandlerInv, StepPhase
  <1> QED BY <1>3, <1>5, <1>6, ReadStep

(* The claim of a failed action counts as an attempt. *)
LEMMA ClaimRetryInv ==
  ASSUME EngineInv, NEW t \in Thread, ClaimRetry(t)
  PROVE  EngineInv'
  <1> DEFINE i == w[t].step
             p == IF i \in w[t].todo THEN "retry_call" ELSE "reset"
  <1>1. /\ w \in [Thread -> WorkflowLocal] /\ i \in Step /\ w[t].task = "retry"
        /\ attempts \in [Step -> Nat] /\ linked \in SUBSET Step
    BY EngineTypes DEF HandlerInv, StepPhase, ClaimRetry, At
  <1>2. CASE Retryable(i)
    <2>1. p \in {"retry_call", "reset"} /\ p \in WorkflowPhase
      BY DEF WorkflowPhase
    <2>2. /\ SetAction(i, "running") /\ To(t, p)
          /\ UNCHANGED <<workflow, linked, gatewayVars>>
          /\ attempts' = [attempts EXCEPT ![i] = @ + 1]
      BY <1>2 DEF ClaimRetry
    <2>3. attempts' \in [Step -> Nat]
      BY <1>1, <2>2
    <2> HIDE DEF p
    <2>4. Shifted(t, p)
      BY <1>1, <2>1, <2>2, ToMoves
    <2>5. HandlerInv(t)'
      BY <1>1, <2>1, <2>4 DEF Shifted, HandlerInv, StepPhase
    <2> QED BY <1>1, <2>2, <2>3, <2>4, <2>5, SetActionStep DEF Shifted, ActionStatus
  <1>3. CASE ~Retryable(i)
    <2>1. Leave(t) /\ UNCHANGED <<gatewayVars, workflowVars>>
      BY <1>3 DEF ClaimRetry, workflowVars
    <2> QED BY <1>1, <2>1, LeaveMoves, PlainPhase, ReadStep
  <1> QED BY <1>2, <1>3

(* An action without an execution is made pending again. *)
LEMMA ResetActionInv ==
  ASSUME EngineInv, NEW t \in Thread, ResetAction(t)
  PROVE  EngineInv'
  <1>1. /\ w \in [Thread -> WorkflowLocal] /\ w[t].step \in Step
        /\ attempts \in [Step -> Nat] /\ linked \in SUBSET Step
        /\ w[t].task \in {"run", "poll"} => w[t].left # 0
    BY EngineTypes DEF HandlerInv, StepPhase, ResetAction, At
  <1>2. Shifted(t, "mark")
    BY <1>1, LearnMoves DEF ResetAction, WorkflowPhase, ActionStatus
  <1>3. SetAction(w[t].step, "pending") /\ UNCHANGED <<workflow, attempts, linked, gatewayVars>>
    BY DEF ResetAction
  <1>4. HandlerInv(t)'
    BY <1>1, <1>2, PlainPhase DEF Shifted
  <1> QED BY <1>1, <1>2, <1>3, <1>4, SetActionStep DEF Shifted, ActionStatus

(* A cancellation lists the waiting actions whose approvals it will close. *)
LEMMA CancelWorkflowInv ==
  ASSUME EngineInv, NEW t \in Thread, CancelWorkflow(t)
  PROVE  EngineInv'
  <1> DEFINE d == {i \in linked : act[i] = "waiting_for_approval"}
             l == [Unoccupied EXCEPT !.pc = "cancel_next", !.task = "cancel", !.scoped = InScope,
                                     !.todo = d]
  <1>1. w \in [Thread -> WorkflowLocal] /\ d \subseteq Step
    BY EngineTypes
  <1>2. w' = [w EXCEPT ![t] = l] /\ UNCHANGED <<gatewayVars, workflowVars>>
    BY DEF CancelWorkflow
  <1>3. l \in WorkflowLocal /\ l.pc = "cancel_next" /\ l.task = "cancel"
    BY <1>1, ScopeIsBoolean, UnoccupiedLocal DEF Unoccupied, WorkflowLocal, WorkflowPhase, Task
  <1> HIDE DEF l
  <1>4. Others(t) /\ w'[t] = l
    BY <1>1, <1>2, <1>3 DEF Others
  <1>5. HandlerInv(t)'
    BY <1>3, <1>4 DEF HandlerInv, StepPhase
  <1> QED BY <1>2, <1>4, <1>5, ReadStep

(* The actions are cancelled, and then the workflow. *)
LEMMA CancelInv ==
  ASSUME EngineInv, NEW t \in Thread, CancelActions(t) \/ CancelStatus(t)
  PROVE  EngineInv'
  <1>1. /\ w \in [Thread -> WorkflowLocal] /\ workflow \in WorkflowStatus
        /\ attempts \in [Step -> Nat] /\ linked \in SUBSET Step /\ HandlerInv(t)
        /\ w[t].scoped \in BOOLEAN
    BY EngineTypes DEF WorkflowLocal
  <1>2. CASE CancelActions(t)
    <2>1. Shifted(t, "cancel_workflow")
      BY <1>1, <1>2, ToMoves DEF CancelActions, WorkflowPhase
    <2>2. /\ act' \in [Step -> ActionStatus]
          /\ \A i \in Step : act'[i] # "waiting_for_approval"
      BY <1>2 DEF CancelActions, ActionStatus
    <2>3. UNCHANGED <<workflow, attempts, linked, gatewayVars>>
      BY <1>2 DEF CancelActions
    <2>4. w[t].pc = "cancel_actions"
      BY <1>2 DEF CancelActions, At
    <2>5. HandlerInv(t)'
      BY <1>1, <2>1, <2>4, PlainPhase DEF Shifted, HandlerInv
    <2> QED BY <1>1, <2>1, <2>2, <2>3, <2>5, HandlerStep DEF Shifted, gatewayVars
  <1>3. CASE CancelStatus(t)
    <2>1. CASE Turn(t, "terminal", MaxAdvances, w[t].scoped)
      BY <1>1, <1>3, <2>1, PlanType, TurnMoves, TurnPhase, SetWorkflowStep
      DEF CancelStatus, Loop, WorkflowStatus
    <2>2. CASE Leave(t)
      BY <1>1, <1>3, <2>2, LeaveMoves, PlainPhase, SetWorkflowStep DEF CancelStatus, WorkflowStatus
    <2> QED BY <1>3, <2>1, <2>2 DEF CancelStatus
  <1> QED BY <1>2, <1>3

(* handle_execution_update finds its action and its workflow. *)
LEMMA NotifyInv ==
  ASSUME EngineInv, NEW t \in Thread, NotifyAction(t) \/ NotifyWorkflow(t)
  PROVE  EngineInv'
  <1>1. /\ w \in [Thread -> WorkflowLocal] /\ HandlerInv(t) /\ w[t].step \in Step
        /\ w[t].seen \in Answer /\ status[w[t].step] # "absent"
        /\ w[t].task \in {"run", "poll"} => w[t].left # 0
    BY EngineTypes DEF HandlerInv, StepPhase, NotifyAction, NotifyWorkflow, At
  <1>2. UNCHANGED <<gatewayVars, workflowVars>>
    BY DEF NotifyAction, NotifyWorkflow
  <1>3. CASE Leave(t)
    BY <1>1, <1>2, <1>3, LeaveMoves, PlainPhase, ReadStep
  <1>4. ASSUME NEW p \in {"notify_workflow", "sync"}, To(t, p) PROVE EngineInv'
    <2>1. Shifted(t, p) /\ w'[t].seen = w[t].seen
      BY <1>1, <1>4, ToMoves DEF WorkflowPhase
    <2>2. HandlerInv(t)'
      BY <1>1, <1>2, <2>1 DEF Shifted, HandlerInv, StepPhase, gatewayVars
    <2> QED BY <1>2, <2>1, <2>2, ReadStep DEF Shifted
  <1> QED BY <1>3, <1>4 DEF NotifyAction, NotifyWorkflow

(* A crash ends the call of the gateway too, if the thread is in one. *)
LEMMA AbortInv ==
  ASSUME GatewayInv, EngineInv, NEW t \in Thread, Abort(t)
  PROVE  [GatewayNext]_gatewayVars /\ EngineInv'
  <1>1. /\ w \in [Thread -> WorkflowLocal] /\ th \in [Thread -> Local] /\ PhaseInv(t)
        /\ th' = [th EXCEPT ![t] = Idle]
    BY EngineTypes DEF GatewayInv, GatewayTypeOK, ThreadInv, Abort
  <1>2. [GatewayNext]_gatewayVars
    <2>1. CASE th[t].pc = "idle"
      <3>1. th' = th
        BY <1>1, <2>1 DEF PhaseInv
      <3> QED BY <3>1
              DEF Abort, gatewayVars, executionVars, approvalVars, effectVars
    <2>2. CASE th[t].pc = "returned"
      <3>1. Respond(t)
        BY <2>2 DEF Abort, Respond
      <3> QED BY <3>1 DEF GatewayNext
    <2>3. CASE th[t].pc \notin {"idle", "returned"}
      <3>1. Crash(t)
        BY <2>3 DEF Abort, Crash
      <3> QED BY <3>1 DEF GatewayNext
    <2> QED BY <2>1, <2>2, <2>3
  <1>3. Others(t) /\ HandlerInv(t)' /\ UNCHANGED workflowVars
    BY <1>1, LeaveMoves, PlainPhase DEF Abort
  <1>4. \A s \in Thread \ {t} : th'[s] = th[s]
    BY <1>1
  <1> QED BY <1>2, <1>3, <1>4, CallStep

(* What is raised inside the try makes the action fail. *)
LEMMA CatchRaiseInv ==
  ASSUME GatewayInv, EngineInv, NEW t \in Thread, CatchRaise(t)
  PROVE  [GatewayNext]_gatewayVars /\ EngineInv'
  <1>1. /\ w \in [Thread -> WorkflowLocal] /\ HandlerInv(t) /\ w[t].task \in {"run", "retry"}
        /\ th \in [Thread -> Local] /\ UNCHANGED workflowVars
    BY EngineTypes DEF CatchRaise, GatewayInv, GatewayTypeOK
  <1>2. CASE At(t, "await") /\ Raise(t) /\ UNCHANGED w
    <2>1. [GatewayNext]_gatewayVars
      BY <1>2 DEF GatewayNext
    <2>2. Moved(t, "returned") /\ Others(t)
      BY <1>1, <1>2, ReturnMoves DEF Raise, Others
    <2>3. HandlerInv(t)'
      BY <1>1, <1>2, <2>2 DEF HandlerInv, StepPhase, At, Moved
    <2> QED BY <1>1, <2>1, <2>2, <2>3, CallStep DEF Moved
  <1>3. CASE /\ w[t].pc \in {"request", "retry_call", "sync", "reload"}
             /\ To(t, "fail") /\ UNCHANGED gatewayVars
    <2>1. Shifted(t, "fail")
      BY <1>1, <1>3, ToMoves DEF WorkflowPhase
    <2>2. HandlerInv(t)'
      BY <1>1, <1>3, <2>1 DEF Shifted, HandlerInv, StepPhase
    <2> QED BY <1>1, <1>3, <2>1, <2>2, ReadStep DEF Shifted
  <1> QED BY <1>2, <1>3 DEF CatchRaise, At

(* A change of the owner's authority touches no table of the workflow. *)
LEMMA ChangeOwnerInv ==
  ASSUME EngineInv, NEW a \in Authority, ChangeOwner(a)
  PROVE  [GatewayNext]_gatewayVars /\ EngineInv'
  <1>1. [GatewayNext]_gatewayVars
    BY PlanType DEF ChangeOwner, GatewayNext, Environment
  <1>2. UNCHANGED <<workflow, act, attempts, linked, w, th, status>>
    BY DEF ChangeOwner, ChangeAuthority, workflowVars, executionVars
  <1>3. WorkflowTypeOK' /\ \A t \in Thread : HandlerInv(t)'
    BY <1>2 DEF EngineInv, WorkflowTypeOK, HandlerInv
  <1> QED BY <1>1, <1>2, <1>3 DEF EngineInv

(* Every step of the engine is a step of the gateway or leaves it alone, and *)
(* preserves the invariants of both.                                         *)
LEMMA EngineNext ==
  ASSUME GatewayInv, EngineInv, [WorkflowNext]_engineVars
  PROVE  [GatewayNext]_gatewayVars /\ GatewayInv' /\ EngineInv'
  <1>1. ASSUME NEW t \in Thread, EngineStep(t) PROVE [GatewayNext]_gatewayVars /\ EngineInv'
    <2>1. CASE RequestAction(t) \/ TakeResult(t) \/ RetryAction(t) \/ CancelNext(t)
      BY <2>1, RequestActionStep, RequestActionInv, TakeResultInv, RetryActionStep, RetryActionInv,
         CancelNextStep, CancelNextInv
    <2>2. CASE \/ LoadWorkflow(t) \/ Advance(t) \/ MarkRunning(t) \/ PickAction(t)
               \/ CompleteWorkflow(t) \/ PollExecution(t) \/ ClaimAction(t) \/ SyncAction(t)
               \/ FailAction(t) \/ ReloadAction(t) \/ MarkWorkflow(t) \/ CheckWorkflow(t)
               \/ GiveUp(t) \/ ResumeWorkflow(t) \/ ClaimRetry(t) \/ ResetAction(t)
               \/ CancelActions(t) \/ CancelStatus(t) \/ NotifyAction(t) \/ NotifyWorkflow(t)
      <3>1. UNCHANGED gatewayVars
        BY <2>2 DEF LoadWorkflow, Advance, MarkRunning, PickAction, CompleteWorkflow,
                    PollExecution, ClaimAction, SyncAction, FailAction, ReloadAction,
                    MarkWorkflow, CheckWorkflow, GiveUp, ResumeWorkflow, ClaimRetry, ResetAction,
                    CancelActions, CancelStatus, NotifyAction, NotifyWorkflow
      <3>2. EngineInv'
        BY <2>2, StartEngineInv, AdvanceEngineInv, PickActionInv, PollExecutionInv,
           ClaimActionInv, SyncActionInv, FailActionInv, ReloadActionInv, MarkWorkflowInv,
           CheckWorkflowInv, SettleEngineInv, ClaimRetryInv, ResetActionInv, CancelInv, NotifyInv
      <3> QED BY <3>1, <3>2
    <2> QED BY <1>1, <2>1, <2>2 DEF EngineStep
  <1>2. ASSUME NEW t \in Thread, Serve(t) PROVE [GatewayNext]_gatewayVars /\ EngineInv'
    <2>1. CASE DecideAction(t)
      BY <2>1, DecideActionStep, DecideActionInv
    <2>2. CASE RunWorkflow(t) \/ RetryWorkflow(t) \/ CancelWorkflow(t)
      BY <2>2, StartEngineInv, RetryWorkflowInv, CancelWorkflowInv
      DEF RunWorkflow, RetryWorkflow, CancelWorkflow
    <2> QED BY <1>2, <2>1, <2>2 DEF Serve
  <1>3. ASSUME NEW t \in Thread, BreakLoop(t) PROVE [GatewayNext]_gatewayVars /\ EngineInv'
    BY <1>3, LeaveLoopInv DEF BreakLoop
  <1>4. ASSUME UNCHANGED engineVars PROVE [GatewayNext]_gatewayVars /\ EngineInv'
    <2>1. UNCHANGED <<gatewayVars, workflow, act, attempts, linked, w, th, status>>
      BY <1>4 DEF engineVars, workflowVars, gatewayVars, executionVars
    <2>2. WorkflowTypeOK' /\ \A t \in Thread : HandlerInv(t)'
      BY <2>1 DEF EngineInv, WorkflowTypeOK, HandlerInv
    <2>3. \A i \in Step : act'[i] = "waiting_for_approval" => status'[i] # "absent"
      BY <2>1 DEF EngineInv
    <2> QED BY <2>1, <2>2, <2>3 DEF EngineInv
  <1>5. [GatewayNext]_gatewayVars /\ EngineInv'
    BY <1>1, <1>2, <1>3, <1>4, GatewayStepInv, AbortInv, CatchRaiseInv, ChangeOwnerInv
    DEF WorkflowNext, CalmNext, Proceed
  <1> QED BY <1>5, NextInv

-----------------------------------------------------------------------------
(* EngineInv holds in every state of a workflow: among others the tables     *)
(* have their types, an action that waits has an execution, and a handler    *)
(* that syncs an action holds an answer of that action's execution.          *)
THEOREM EngineInvariance == WorkflowSpec => []EngineInv
  <1>1. WorkflowInit => GatewayInv /\ EngineInv
    BY EngineInit
  <1>2. GatewayInv /\ EngineInv /\ [WorkflowNext]_engineVars => GatewayInv' /\ EngineInv'
    BY EngineNext
  <1> QED BY <1>1, <1>2, PTL DEF WorkflowSpec

(* The tables and locals of the engine have their types in every state. *)
THEOREM EngineTypeCorrect == WorkflowSpec => []WorkflowTypeOK
  <1>1. EngineInv => WorkflowTypeOK
    BY DEF EngineInv
  <1> QED BY <1>1, EngineInvariance, PTL

(* The engine uses the gateway as the gateway expects to be used. *)
THEOREM EngineUsesGateway == WorkflowSpec => UsesGateway
  <1>1. WorkflowInit => GatewayInit /\ GatewayInv /\ EngineInv
    BY EngineInit DEF WorkflowInit
  <1>2. GatewayInv /\ EngineInv /\ [WorkflowNext]_engineVars =>
          GatewayInv' /\ EngineInv' /\ [GatewayNext]_gatewayVars
    BY EngineNext
  <1> QED BY <1>1, <1>2, PTL DEF WorkflowSpec, UsesGateway, GatewaySpec

(* So no action of any workflow has an effect its approval does not cover, or *)
(* the same effect twice, however it is resumed, retried and cancelled.       *)
THEOREM WorkflowGoverned ==
  WorkflowSpec => [](ApprovedBeforeEffect /\ SentOnceAsApproved /\ CompletedWasSent)
  <1>1. UsesGateway => GatewaySpec
    BY PTL DEF UsesGateway
  <1> QED BY <1>1, EngineUsesGateway, Approved, AtMostOnce, CompletedTruthfully, PTL

-----------------------------------------------------------------------------
(***************************************************************************)
(* The order of the actions. OrderInv says what a thread may rely on while *)
(* it works on an action, however old its reading of the rows: a thread    *)
(* that turned to an action found all those before it completed, and an    *)
(* effect on record is never taken back (DoneStays). So a row is inserted, *)
(* and the workflow completed, only after the effects that come first.     *)
(***************************************************************************)

(* The effects of all the actions before i are on record. *)
Prior(i) == \A j \in Step : j < i => Done(j)

(* What a thread in the gateway may rely on. *)
RequestInv(t) ==
  LET l == th[t] IN
  /\ l.pc = "insert" => l.call = Plan[l.at] /\ Prior(l.at)
  /\ l.pc = "finish" /\ l.plan = "completed" => Done(l.at)
  /\ l.pc = "returned" /\ l.seen = "completed" => Done(l.at)

(* What a thread of the engine may rely on, however stale its reads are. *)
TurnInv(t) ==
  LET l == w[t] IN
  /\ l.pc \in {"claim", "request"} \/ l.task = "poll" => Prior(l.step)
  /\ l.pc = "complete" => \A i \in Step : Done(i)
  /\ l.pc \in {"sync", "notify", "notify_workflow"} /\ l.seen = "completed" => Done(l.step)

(* The rows of the gateway that exist were asked for in order. *)
RowsOrdered ==
  \A i \in Step : status[i] # "absent" => hash[i] = Plan[i] /\ Prior(i)

(* What is reported completed has its effect on record. *)
ReportsTrue ==
  /\ \A i \in Step : status[i] = "completed" \/ act[i] = "completed" => Done(i)
  /\ workflow = "completed" => \A i \in Step : Done(i)

OrderInv ==
  RowsOrdered /\ ReportsTrue /\ \A t \in Thread : RequestInv(t) /\ TurnInv(t)

(* Tasks are never taken back. *)
LEMMA TasksStay ==
  ASSUME [GatewayNext]_gatewayVars
  PROVE  tasks \subseteq tasks'
  <1>1. CASE UNCHANGED effectVars
    BY <1>1 DEF effectVars
  <1>2. ASSUME NEW t \in Thread, RunStep(t) PROVE tasks \subseteq tasks'
    BY <1>2 DEF RunStep, RunQuery, LookupTask, InsertTask, LookupReceipt, AccessToken,
                InsertReceipt, CallProvider, SettleReceipt, FinishRun, FailRun, effectVars
  <1>3. ASSUME NEW t \in Thread, Begin(t) \/ Continue(t) \/ Respond(t) \/ Crash(t) \/ Raise(t)
        PROVE  UNCHANGED effectVars \/ RunStep(t)
    BY <1>3 DEF Begin, Continue, Respond, Crash, Raise, RequestExecution, Decide, RetryExecution,
                CancelForExecution, InsertExecution, CreateApproval, LinkApproval, DecideUpdate,
                ApplyApproval, Authorize, WriteStatus, CancelExecution, RereadExecution
  <1>4. Environment => UNCHANGED effectVars
    BY DEF Environment, ChangeAuthority, Tamper
  <1>5. UNCHANGED gatewayVars => UNCHANGED effectVars
    BY DEF gatewayVars, effectVars
  <1> QED BY <1>1, <1>2, <1>3, <1>4, <1>5 DEF GatewayNext

(* An effect on record stays on record. *)
LEMMA DoneStays ==
  ASSUME GatewayInv, [GatewayNext]_gatewayVars, NEW i \in Step, Done(i)
  PROVE  Done(i)'
  <1>1. receipt[i] = "completed" => receipt'[i] = "completed"
    BY ReceiptStep, PlanType
  <1>2. i \in tasks => i \in tasks'
    BY TasksStay
  <1> QED BY <1>1, <1>2 DEF Done

(* What came before an action still did. *)
LEMMA PriorStays ==
  ASSUME GatewayInv, [GatewayNext]_gatewayVars, NEW i, Prior(i)
  PROVE  Prior(i)'
  BY DoneStays DEF Prior

(* The tool of a run is the tool of the planned call, and the effect it   *)
(* leaves is the effect of the action.                                    *)
LEMMA RunIsPlanned ==
  ASSUME GatewayInv, RowsOrdered, NEW t \in Thread, th[t].pc \in RunPhase
  PROVE  /\ th[t].at \in Step /\ status[th[t].at] # "absent"
         /\ hash[th[t].at] = Plan[th[t].at] /\ th[t].call = Plan[th[t].at]
  <1>1. /\ th[t].at \in Execution /\ PhaseInv(t)
        /\ th[t].pc \notin {"idle", "insert", "returned"}
    BY DEF GatewayInv, GatewayTypeOK, ThreadInv, RunPhase
  <1> QED BY <1>1, PlanType DEF PhaseInv, RowsOrdered

(* A thread that comes to the end of its tool has left its effect.         *)
LEMMA RunLeavesEffect ==
  ASSUME GatewayInv, OrderInv, NEW t \in Thread, RunStep(t)
  PROVE  RequestInv(t)'
  <1> SUFFICES ASSUME NEW e, e = th[t].at PROVE RequestInv(t)'
    OBVIOUS
  <1>1. th[t].pc \in RunPhase \cup {"reread"} /\ th \in [Thread -> Local]
    BY DEF RunStep, RunQuery, LookupTask, InsertTask, LookupReceipt, AccessToken, InsertReceipt,
           CallProvider, SettleReceipt, FinishRun, FailRun, Runs, RunPhase, GatewayInv, GatewayTypeOK
  <1>2. th[t].pc \in RunPhase => e \in Step /\ hash[e] = Plan[e] /\ th[t].call = Plan[e]
    BY RunIsPlanned DEF OrderInv
  <1>3. ASSUME NEW p \in Phase, p \notin {"insert", "returned", "finish"},
               Goto(t, p) \/ \E s : GotoWith(t, p, s)
        PROVE  RequestInv(t)'
    BY <1>1, <1>3 DEF Goto, GotoWith, RequestInv, Local
  <1>4. ASSUME GotoWith(t, "finish", "failed") PROVE RequestInv(t)'
    BY <1>1, <1>4 DEF GotoWith, RequestInv, Local
  <1>5. ASSUME NEW s, GotoWith(t, "finish", s), Done(e)' PROVE RequestInv(t)'
    <2>1. th'[t].pc = "finish" /\ th'[t].at = e
      BY <1>1, <1>5 DEF GotoWith, Local
    <2> QED BY <1>5, <2>1 DEF RequestInv
  <1>6. CASE RunQuery(t)
    <2>1. Done(e)' 
      BY <1>2, <1>6 DEF RunQuery, Runs, RunPhase, Done
    <2> QED BY <1>5, <1>6, <2>1 DEF RunQuery
  <1>7. CASE LookupTask(t)
    <2>1. ToolOf[Plan[e]] = "task" /\ tasks' = tasks
      BY <1>2, <1>7 DEF LookupTask, Runs, RunPhase, effectVars
    <2>2. CASE e \in tasks
      BY <1>4, <1>5, <1>7, <2>1, <2>2 DEF LookupTask, Done
    <2>3. CASE e \notin tasks
      BY <1>3, <1>4, <1>7, <2>3 DEF LookupTask, Phase
    <2> QED BY <2>2, <2>3
  <1>8. CASE InsertTask(t)
    <2>1. ToolOf[Plan[e]] = "task"
      BY <1>2, <1>8 DEF InsertTask, RunPhase, GatewayInv, ThreadInv, PhaseInv
    <2>2. CASE e \in tasks'
      BY <1>4, <1>5, <1>8, <2>1, <2>2 DEF InsertTask, Done
    <2>3. CASE e \notin tasks'
      BY <1>4, <1>8, <2>3 DEF InsertTask
    <2> QED BY <2>2, <2>3
  <1>9. CASE LookupReceipt(t)
    <2>1. ToolOf[Plan[e]] = "provider" /\ receipt' = receipt
      BY <1>2, <1>9 DEF LookupReceipt, Runs, RunPhase, effectVars
    <2>2. CASE receipt[e] = "absent"
      BY <1>3, <1>9, <2>2 DEF LookupReceipt, Phase
    <2>3. CASE receipt[e] = "completed"
      <3>1. Done(e)'
        BY <2>1, <2>3 DEF Done
      <3> QED BY <1>5, <1>9, <2>3, <3>1 DEF LookupReceipt
    <2>4. CASE receipt[e] \notin {"absent", "completed"}
      BY <1>4, <1>9, <2>4 DEF LookupReceipt
    <2> QED BY <2>2, <2>3, <2>4
  <1>10. CASE AccessToken(t) \/ InsertReceipt(t) \/ CallProvider(t) \/ FailRun(t)
    BY <1>3, <1>4, <1>10 DEF AccessToken, InsertReceipt, CallProvider, FailRun, Phase
  <1>11. CASE SettleReceipt(t)
    <2>1. e \in Execution /\ ToolOf[Plan[e]] = "provider" /\ receipt \in [Execution -> ReceiptStatus]
      BY <1>2, <1>11 DEF SettleReceipt, RunPhase, GatewayInv, GatewayTypeOK, ThreadInv, PhaseInv
    <2>2. CASE receipt' = [receipt EXCEPT ![e] = th[t].plan] /\ Goto(t, "finish")
      <3>1. th'[t].pc = "finish" /\ th'[t].plan = th[t].plan /\ th'[t].at = e
        BY <1>1, <2>2 DEF Goto, Local
      <3>2. receipt'[e] = th[t].plan
        BY <2>1, <2>2
      <3> QED BY <2>1, <3>1, <3>2 DEF RequestInv, Done
    <2> QED BY <1>4, <1>11, <2>2 DEF SettleReceipt
  <1>12. CASE FinishRun(t)
    BY <1>3, <1>12 DEF FinishRun, Phase
  <1> QED BY <1>6, <1>7, <1>8, <1>9, <1>10, <1>11, <1>12 DEF RunStep

(* The rows after a step were asked for in order, and report what is done. *)
RowsKept ==
  \A i \in Step :
    /\ status'[i] # "absent" => hash'[i] = Plan[i] /\ Prior(i)
    /\ status'[i] = "completed" => Done(i)

(* A step that leaves the rows alone keeps them. *)
LEMMA RowsUnchanged ==
  ASSUME OrderInv, UNCHANGED executionVars
  PROVE  RowsKept
  BY DEF OrderInv, RowsOrdered, ReportsTrue, RowsKept, executionVars

(* A status other than completed, of a row that exists, is no report. *)
LEMMA RowsStatus ==
  ASSUME OrderInv, GatewayInv, NEW e \in Execution, NEW s, status' = [status EXCEPT ![e] = s], hash' = hash,
         status[e] # "absent", s = "completed" => Done(e)
  PROVE  RowsKept
  BY PlanType DEF OrderInv, RowsOrdered, ReportsTrue, RowsKept, GatewayInv, GatewayTypeOK

(* A returned record is completed only if its effect is on record. *)
LEMMA ReturnsTrue ==
  ASSUME GatewayInv, OrderInv, NEW t \in Thread, th[t].at \in Step,
         Return(t, status[th[t].at]), UNCHANGED effectVars
  PROVE  RequestInv(t)'
  <1>1. /\ th'[t].pc = "returned" /\ th'[t].at = th[t].at
        /\ th'[t].seen = status[th[t].at]
    BY DEF Return, GatewayInv, GatewayTypeOK, Local
  <1>2. th'[t].seen = "completed" => Done(th[t].at)
    BY <1>1 DEF OrderInv, ReportsTrue
  <1> SUFFICES ASSUME NEW e, e = th[t].at PROVE RequestInv(t)'
    OBVIOUS
  <1>3. Done(e) => Done(e)'
    BY DEF Done, effectVars
  <1> QED BY <1>1, <1>2, <1>3 DEF RequestInv

(* A phase of the gateway that says nothing of the plan. *)
LEMMA PlainRequest ==
  ASSUME NEW t \in Thread, th'[t].pc \notin {"insert", "finish", "returned"}
  PROVE  RequestInv(t)'
  BY DEF RequestInv

(* A call that goes on in the gateway keeps the order. *)
LEMMA ContinueOrder ==
  ASSUME GatewayInv, OrderInv, NEW t \in Thread, Continue(t)
  PROVE  RowsKept /\ RequestInv(t)'
  <1> DEFINE e == th[t].at
  <1>1. /\ th \in [Thread -> Local] /\ status \in [Execution -> ExecutionStatus] /\ PhaseInv(t)
        /\ hash \in [Execution -> Call \cup {None}]
    BY DEF GatewayInv, GatewayTypeOK, ThreadInv
  <1>2. th[t].pc # "idle" => e \in Step /\ e \in Execution
    BY PlanType DEF GatewayInv, GatewayTypeOK
  <1>3. ASSUME NEW p \in Phase, p \notin {"insert", "finish", "returned"},
               Goto(t, p) \/ \E s : GotoWith(t, p, s)
        PROVE  RequestInv(t)'
    BY <1>1, <1>3 DEF Goto, GotoWith, RequestInv, Local
  <1>4. CASE InsertExecution(t)
    <2>1. e \in Step /\ e \in Execution /\ th[t].call = Plan[e] /\ Prior(e)
      BY <1>2, <1>4 DEF InsertExecution, OrderInv, RequestInv
    <2>2. CASE status[e] # "absent"
      <3>1. Return(t, "error") /\ UNCHANGED executionVars
        BY <1>4, <2>2 DEF InsertExecution
      <3>2. RequestInv(t)'
        BY <1>1, <3>1 DEF Return, RequestInv, Local
      <3> QED BY <3>1, <3>2, RowsUnchanged
    <2>3. CASE status[e] = "absent"
      <3>1. /\ status' = [status EXCEPT ![e] = th[t].plan]
            /\ hash' = [hash EXCEPT ![e] = th[t].call]
        BY <1>4, <2>3 DEF InsertExecution
      <3>2. th[t].plan # "completed"
        BY <1>1, <1>4 DEF InsertExecution, PhaseInv, InitialStatus
      <3>3. RowsKept
        BY <1>1, <2>1, <3>1, <3>2, PlanType DEF RowsKept, OrderInv, RowsOrdered, ReportsTrue
      <3>4. RequestInv(t)'
        BY <1>3, <1>4, <2>3 DEF InsertExecution, Phase
      <3> QED BY <3>3, <3>4
    <2> QED BY <2>2, <2>3
  <1>5. CASE CreateApproval(t) \/ DecideUpdate(t) \/ Authorize(t)
    <2>1. UNCHANGED executionVars
      BY <1>5 DEF CreateApproval, DecideUpdate, Authorize
    <2>2. RequestInv(t)'
      BY <1>3, <1>5 DEF CreateApproval, DecideUpdate, Authorize, Phase
    <2> QED BY <2>1, <2>2, RowsUnchanged
  <1>6. CASE LinkApproval(t) \/ WriteStatus(t)
    <2>1. e \in Execution /\ status[e] # "absent" /\ hash' = hash
      BY <1>1, <1>2, <1>6 DEF LinkApproval, WriteStatus, PhaseInv
    <2>2. PICK s : status' = [status EXCEPT ![e] = s] /\ s # "completed"
      BY <1>1, <1>6 DEF LinkApproval, WriteStatus, PhaseInv
    <2>3. RequestInv(t)'
      BY <1>3, <1>6 DEF LinkApproval, WriteStatus, Phase
    <2> QED BY <2>1, <2>2, <2>3, RowsStatus
  <1>7. CASE ApplyApproval(t) \/ CancelExecution(t) \/ RereadExecution(t)
    <2>1. UNCHANGED executionVars /\ UNCHANGED effectVars
      BY <1>7 DEF ApplyApproval, CancelExecution, RereadExecution
    <2>2. e \in Step
      BY <1>2, <1>7 DEF ApplyApproval, CancelExecution, RereadExecution
    <2>3. CASE Return(t, status[e])
      BY <2>1, <2>2, <2>3, RowsUnchanged, ReturnsTrue
    <2>4. CASE \E s : GotoWith(t, "write", s)
      BY <1>3, <2>1, <2>4, RowsUnchanged DEF Phase
    <2>5. CASE th' = [th EXCEPT ![t].pc = "authorize", ![t].call = args[e]]
      <3>1. th'[t].pc = "authorize"
        BY <1>1, <2>5 DEF Local
      <3> QED BY <2>1, <3>1, PlainRequest, RowsUnchanged
    <2> QED BY <1>7, <2>3, <2>4, <2>5 DEF ApplyApproval, CancelExecution, RereadExecution
  <1>8. CASE RunStep(t)
    <2>1. CASE FinishRun(t)
      <3>1. /\ e \in Execution /\ status[e] # "absent" /\ hash' = hash
            /\ status' = [status EXCEPT ![e] = th[t].plan]
        BY <1>1, <1>2, <2>1 DEF FinishRun, PhaseInv
      <3>2. th[t].plan = "completed" => Done(e)
        BY <2>1 DEF FinishRun, OrderInv, RequestInv
      <3> QED BY <1>8, <3>1, <3>2, RunLeavesEffect, RowsStatus
    <2>2. CASE ~FinishRun(t)
      <3>1. UNCHANGED executionVars
        BY <1>8, <2>2 DEF RunStep, RunQuery, LookupTask, InsertTask, LookupReceipt, AccessToken,
                          InsertReceipt, CallProvider, SettleReceipt, FailRun
      <3> QED BY <1>8, <3>1, RunLeavesEffect, RowsUnchanged
    <2> QED BY <2>1, <2>2
  <1> QED BY <1>4, <1>5, <1>6, <1>7, <1>8 DEF Continue

(* A request for an action after effects on record asks in order. *)
LEMMA RequestOrder ==
  ASSUME GatewayInv, OrderInv, NEW t \in Thread, NEW i \in Step, Prior(i),
         RequestExecution(t, i, Owner, Plan[i])
  PROVE  RowsKept /\ RequestInv(t)'
  <1>1. UNCHANGED executionVars /\ UNCHANGED effectVars /\ th \in [Thread -> Local]
    BY DEF RequestExecution, GatewayInv, GatewayTypeOK
  <1>2. Prior(i)' /\ (Done(i) => Done(i)')
    BY <1>1 DEF Prior, Done, effectVars
  <1>3. CASE status[i] = "absent"
    <2>1. PICK s \in InitialStatus(Plan[i]) :
            th' = [th EXCEPT ![t] =
                     [Start(t, "insert", i, Owner) EXCEPT !.plan = s, !.call = Plan[i]]]
      BY <1>3 DEF RequestExecution
    <2>2. th'[t].pc = "insert" /\ th'[t].at = i /\ th'[t].call = Plan[i]
      BY <1>1, <2>1 DEF Start, Idle
    <2> QED BY <1>1, <1>2, <2>2, RowsUnchanged DEF RequestInv
  <1>4. CASE status[i] # "absent"
    <2>1. \E s \in {status[i], "error"} :
            th' = [th EXCEPT ![t] = [Start(t, "returned", i, Owner) EXCEPT !.seen = s]]
      BY <1>4 DEF RequestExecution
    <2>2. /\ th'[t].pc = "returned" /\ th'[t].at = i
          /\ th'[t].seen \in {status[i], "error"}
      BY <1>1, <2>1 DEF Start, Idle
    <2>3. status[i] = "completed" => Done(i)
      BY DEF OrderInv, ReportsTrue
    <2> QED BY <1>1, <1>2, <2>2, <2>3, RowsUnchanged DEF RequestInv
  <1> QED BY <1>3, <1>4

(* The first of a set of actions comes before all the others. *)
LEMMA FirstIsLeast ==
  ASSUME NEW S \in SUBSET Step, NEW j \in Step, S # {}, j < Min(S)
  PROVE  j \notin S
  <1>1. PICK m : m = Min(S)
    OBVIOUS
  <1>2. m \in Step /\ \A y \in S : m <= y
    BY <1>1, FirstOfSteps
  <1>3. m \in Nat /\ j \in Nat /\ j < m
    BY <1>1, <1>2, WorkflowAssumption DEF Step
  <1> QED BY <1>2, <1>3

(* A step of thread t keeps the order, if it keeps the rows and its own     *)
(* phases in order and reports nothing completed that is not done.          *)
LEMMA OrderStep ==
  ASSUME GatewayInv, EngineInv, OrderInv, [GatewayNext]_gatewayVars, NEW t \in Thread, Others(t),
         \A s \in Thread \ {t} : th'[s] = th[s],
         RowsKept, RequestInv(t)', TurnInv(t)',
         \A i \in Step : act'[i] = "completed" => act[i] = "completed" \/ Done(i),
         workflow' = "completed" => workflow = "completed" \/ \A i \in Step : Done(i)
  PROVE  OrderInv'
  <1>1. \A i \in Step : Done(i) => Done(i)'
    BY DoneStays
  <1>2. RowsOrdered' /\ ReportsTrue'
    BY <1>1, PriorStays DEF OrderInv, RowsKept, RowsOrdered, ReportsTrue
  <1>3. ASSUME NEW s \in Thread, s # t PROVE RequestInv(s)'
    <2>1. RequestInv(s) /\ th'[s] = th[s]
      BY <1>3 DEF OrderInv
    <2>2. th[s].pc # "idle" => th[s].at \in Step
      BY PlanType DEF GatewayInv, GatewayTypeOK
    <2>3. \A e : Prior(e) => Prior(e)'
      BY PriorStays
    <2>4. PICK e : e = th[s].at
      OBVIOUS
    <2> QED BY <1>1, <2>1, <2>2, <2>3, <2>4 DEF RequestInv
  <1>4. ASSUME NEW s \in Thread, s # t PROVE TurnInv(s)'
    <2>1. TurnInv(s) /\ w'[s] = w[s]
      BY <1>4 DEF OrderInv, Others
    <2>2. w[s].pc \in {"sync", "notify", "notify_workflow"} => w[s].step \in Step
      BY EngineTypes DEF HandlerInv, StepPhase
    <2>3. \A e : Prior(e) => Prior(e)'
      BY PriorStays
    <2>4. PICK i : i = w[s].step
      OBVIOUS
    <2> QED BY <1>1, <2>1, <2>2, <2>3, <2>4 DEF TurnInv
  <1> QED BY <1>2, <1>3, <1>4 DEF OrderInv

(* A step of a thread outside the gateway, under the same conditions. *)
LEMMA QuietOrder ==
  ASSUME GatewayInv, EngineInv, OrderInv, UNCHANGED gatewayVars, NEW t \in Thread, Others(t),
         TurnInv(t)',
         \A i \in Step : act'[i] = "completed" => act[i] = "completed" \/ Done(i),
         workflow' = "completed" => workflow = "completed" \/ \A i \in Step : Done(i)
  PROVE  OrderInv'
  <1>1. UNCHANGED executionVars /\ UNCHANGED effectVars /\ th' = th
    BY DEF gatewayVars, executionVars, effectVars
  <1>2. RequestInv(t)'
    <2>1. PICK e : e = th[t].at
      OBVIOUS
    <2>2. (Done(e) => Done(e)') /\ (Prior(e) => Prior(e)')
      BY <1>1 DEF Done, Prior, effectVars
    <2> QED BY <1>1, <2>1, <2>2 DEF RequestInv, OrderInv
  <1> QED BY <1>1, <1>2, RowsUnchanged, OrderStep

(* The phases in which a thread relies on the order of the effects. *)
OrderPhase == {"claim", "request", "complete", "sync", "notify", "notify_workflow"}

(* A thread that is not in one of them, nor polls, relies on nothing. *)
LEMMA FreeTurn ==
  ASSUME NEW t \in Thread, w'[t].pc \notin OrderPhase, w'[t].task # "poll"
  PROVE  TurnInv(t)'
  BY DEF TurnInv, OrderPhase

(* A thread that moves out of them keeps what it relied on. *)
LEMMA MovedTurn ==
  ASSUME GatewayInv, OrderInv, [GatewayNext]_gatewayVars, NEW t \in Thread,
         NEW p \in WorkflowPhase \ OrderPhase, Shifted(t, p)
  PROVE  TurnInv(t)'
  <1>1. w'[t].pc = p /\ w'[t].task = w[t].task /\ w'[t].step = w[t].step
    BY DEF Shifted
  <1>2. PICK i : i = w[t].step
    OBVIOUS
  <1>3. w[t].task = "poll" => Prior(i)'
    BY <1>2, PriorStays DEF OrderInv, TurnInv
  <1> QED BY <1>1, <1>2, <1>3 DEF TurnInv, OrderPhase

(* The moves of a thread that stay clear of the phases that rely on the order. *)
LEMMA ClearMoves ==
  ASSUME GatewayInv, EngineInv, OrderInv, UNCHANGED gatewayVars, NEW t \in Thread,
         \/ Leave(t)
         \/ \E p \in WorkflowPhase \ OrderPhase : To(t, p)
         \/ \E p \in WorkflowPhase \ OrderPhase,
               s \in ExecutionStatus \cup ActionStatus \cup {"error"} : Learn(t, p, s)
         \/ \E o \in Loop, n \in 0 .. MaxAdvances, a \in BOOLEAN : Turn(t, o, n, a)
  PROVE  Others(t) /\ TurnInv(t)'
  <1>1. w \in [Thread -> WorkflowLocal] /\ [GatewayNext]_gatewayVars
    BY EngineTypes
  <1>2. CASE Leave(t)
    BY <1>1, <1>2, LeaveMoves, FreeTurn DEF OrderPhase
  <1>3. ASSUME NEW p \in WorkflowPhase \ OrderPhase,
               \/ To(t, p)
               \/ \E s \in ExecutionStatus \cup ActionStatus \cup {"error"} : Learn(t, p, s)
        PROVE  Others(t) /\ TurnInv(t)'
    <2>1. Shifted(t, p)
      BY <1>1, <1>3, ToMoves, LearnMoves
    <2> QED BY <1>1, <2>1, MovedTurn DEF Shifted
  <1>4. ASSUME NEW o \in Loop, NEW n \in 0 .. MaxAdvances, NEW a \in BOOLEAN, Turn(t, o, n, a)
        PROVE  Others(t) /\ TurnInv(t)'
    BY <1>1, <1>4, TurnMoves, FreeTurn DEF OrderPhase
  <1> QED BY <1>2, <1>3, <1>4

(* The loop around the actions reads the workflow and writes to it. *)
LEMMA LoopOrder ==
  ASSUME GatewayInv, EngineInv, OrderInv, NEW t \in Thread,
         \/ LoadWorkflow(t) \/ Advance(t) \/ MarkRunning(t) \/ CompleteWorkflow(t) \/ MarkWorkflow(t)
         \/ CheckWorkflow(t) \/ GiveUp(t) \/ ResumeWorkflow(t) \/ CancelStatus(t) \/ BreakLoop(t)
  PROVE  OrderInv'
  <1>1. UNCHANGED gatewayVars /\ act' = act
    BY DEF LoadWorkflow, Advance, MarkRunning, CompleteWorkflow, MarkWorkflow, CheckWorkflow, GiveUp,
           ResumeWorkflow, CancelStatus, BreakLoop, SetWorkflow, workflowVars
  <1>2. /\ w[t].scoped \in BOOLEAN /\ w[t].left \in 0 .. MaxAdvances /\ w[t].loop \in Loop
        /\ Engine \in Loop /\ MaxAdvances \in 0 .. MaxAdvances
    BY EngineTypes, WorkflowAssumption DEF WorkflowLocal, Loop
  <1>3. LeaveLoop(t) => Others(t) /\ TurnInv(t)'
    BY <1>1, <1>2, ClearMoves DEF LeaveLoop, WorkflowPhase, OrderPhase, Loop
  <1>4. CASE LoadWorkflow(t) \/ Advance(t) \/ GiveUp(t) \/ ResumeWorkflow(t) \/ CancelStatus(t)
    <2>1. Others(t) /\ TurnInv(t)'
      BY <1>1, <1>2, <1>4, ScopeIsBoolean, ClearMoves
      DEF LoadWorkflow, Advance, GiveUp, ResumeWorkflow, CancelStatus, WorkflowPhase, OrderPhase, Loop
    <2>2. workflow' = workflow \/ workflow' # "completed"
      BY <1>4
      DEF LoadWorkflow, Advance, GiveUp, ResumeWorkflow, CancelStatus, SetWorkflow, workflowVars
    <2> QED BY <1>1, <2>1, <2>2, QuietOrder
  <1>5. CASE MarkRunning(t)
    <2>1. Others(t) /\ TurnInv(t)'
      BY <1>1, <1>5, ClearMoves DEF MarkRunning, WorkflowPhase, OrderPhase
    <2> QED BY <1>1, <1>5, <2>1, QuietOrder DEF MarkRunning, SetWorkflow
  <1>6. CASE CompleteWorkflow(t)
    <2>1. Others(t) /\ TurnInv(t)'
      BY <1>1, <1>6, ClearMoves DEF CompleteWorkflow, WorkflowPhase, OrderPhase
    <2>2. \A i \in Step : Done(i)
      BY <1>6 DEF CompleteWorkflow, At, OrderInv, TurnInv
    <2> QED BY <1>1, <2>1, <2>2, QuietOrder
  <1>7. CASE MarkWorkflow(t)
    <2>1. Others(t) /\ TurnInv(t)'
      BY <1>1, <1>7, ClearMoves DEF MarkWorkflow, WorkflowPhase, OrderPhase
    <2>2. workflow' = workflow \/ workflow' # "completed"
      BY <1>7 DEF MarkWorkflow, SetWorkflow, Marks
    <2> QED BY <1>1, <2>1, <2>2, QuietOrder
  <1>8. CASE CheckWorkflow(t)
    <2>1. w[t].task \in {"run", "poll"} /\ w[t].pc = "check"
      BY <1>8, EngineTypes DEF HandlerInv, CheckWorkflow, At
    <2>2. RoundsAfter(w[t].left) \in 0 .. MaxAdvances
      BY <2>1, RoundsLeft, WorkflowAssumption DEF RoundsAfter
    <2>3. Others(t) /\ TurnInv(t)'
      BY <1>1, <1>2, <1>3, <1>8, <2>2, ClearMoves DEF CheckWorkflow
    <2> QED BY <1>1, <1>8, <2>3, QuietOrder DEF CheckWorkflow, workflowVars
  <1>9. CASE BreakLoop(t)
    BY <1>1, <1>3, <1>9, QuietOrder DEF BreakLoop, workflowVars
  <1> QED BY <1>4, <1>5, <1>6, <1>7, <1>8, <1>9

(* The first open action comes after actions that are all done. *)
LEMMA PickOrder ==
  ASSUME GatewayInv, EngineInv, OrderInv, NEW t \in Thread, PickAction(t)
  PROVE  OrderInv'
  <1> DEFINE open == {i \in Step : Open(i)}
             i == Min(open)
             k == IF act[i] = "waiting_for_approval" THEN "poll" ELSE "run"
             p == CASE act[i] = "waiting_for_approval" -> "poll"
                    [] act[i] = "pending" -> "claim"
                    [] OTHER -> "mark"
  <1>1. UNCHANGED gatewayVars /\ UNCHANGED workflowVars /\ w \in [Thread -> WorkflowLocal]
        /\ w' \in [Thread -> WorkflowLocal]
    BY EngineTypes, PickActionInv DEF PickAction, EngineInv, WorkflowTypeOK
  <1>2. \A j \in Step : j \notin open => Done(j)
    BY DEF Open, OrderInv, ReportsTrue
  <1>3. \A j \in Step : Done(j) => Done(j)'
    BY <1>1 DEF Done, gatewayVars
  <1>4. CASE open = {}
    <2>1. Shifted(t, "complete")
      BY <1>1, <1>4, ToMoves DEF PickAction, WorkflowPhase
    <2>2. w[t].task = "poll" => Prior(w[t].step)
      BY DEF OrderInv, TurnInv
    <2>3. TurnInv(t)'
      BY <1>2, <1>3, <1>4, <2>1, <2>2 DEF Shifted, TurnInv, Prior
    <2> QED BY <1>1, <2>1, <2>3, QuietOrder DEF Shifted, workflowVars
  <1>5. CASE open # {}
    <2>1. w' = [w EXCEPT ![t].step = i, ![t].seen = act[i], ![t].task = k, ![t].pc = p]
      BY <1>5 DEF PickAction
    <2>2. Prior(i)
      BY <1>2, <1>5, FirstIsLeast DEF Prior
    <2>3. p \in {"poll", "claim", "mark"}
      OBVIOUS
    <2> HIDE DEF i, k, p
    <2>4. w'[t].step = i /\ w'[t].pc = p /\ Others(t)
      BY <1>1, <2>1 DEF Others, WorkflowLocal
    <2>5. PICK x : x = i
      OBVIOUS
    <2>6. Prior(x)'
      BY <1>3, <2>2, <2>5 DEF Prior
    <2>7. w'[t].step = x
      BY <2>4, <2>5
    <2>8. TurnInv(t)'
      BY <2>3, <2>4, <2>6, <2>7 DEF TurnInv
    <2> QED BY <1>1, <2>4, <2>8, QuietOrder DEF workflowVars
  <1> QED BY <1>4, <1>5

(* The steps that work on one action outside the gateway. *)
LEMMA ActionOrder ==
  ASSUME GatewayInv, EngineInv, OrderInv, NEW t \in Thread,
         PollExecution(t) \/ ClaimAction(t) \/ SyncAction(t) \/ FailAction(t) \/ ReloadAction(t)
  PROVE  OrderInv'
  <1> DEFINE i == w[t].step
  <1>1. UNCHANGED gatewayVars /\ UNCHANGED workflow
    BY DEF PollExecution, ClaimAction, SyncAction, FailAction, ReloadAction, workflowVars
  <1>2. /\ w \in [Thread -> WorkflowLocal] /\ i \in Step /\ act \in [Step -> ActionStatus]
        /\ [GatewayNext]_gatewayVars
    BY <1>1, EngineTypes
    DEF HandlerInv, StepPhase, PollExecution, ClaimAction, SyncAction, FailAction, ReloadAction, At
  <1>3. PICK x : x = i
    OBVIOUS
  <1>4. (Done(x) => Done(x)') /\ (Prior(x) => Prior(x)')
    BY <1>2, <1>3, DoneStays, PriorStays
  <1>5. (w[t].pc \in {"claim", "request"} \/ w[t].task = "poll") => Prior(x)
    BY <1>3 DEF OrderInv, TurnInv
  <1>6. CASE PollExecution(t)
    <2>1. status[i] \in ExecutionStatus /\ (status[i] = "completed" => Done(x))
      BY <1>2, <1>3, PlanType DEF OrderInv, ReportsTrue, GatewayInv, GatewayTypeOK
    <2>2. Shifted(t, "sync") /\ w'[t].seen = status[i]
      BY <1>2, <1>6, <2>1, LearnMoves DEF PollExecution, WorkflowPhase
    <2>3. TurnInv(t)'
      BY <1>3, <1>4, <1>5, <2>1, <2>2 DEF Shifted, TurnInv
    <2> QED BY <1>1, <1>6, <2>2, <2>3, QuietOrder DEF PollExecution, Shifted, workflowVars
  <1>7. CASE ClaimAction(t)
    <2>1. PICK p \in {"request", "reload"} : To(t, p)
      BY <1>7 DEF ClaimAction
    <2>2. Shifted(t, p)
      BY <1>2, <2>1, ToMoves DEF WorkflowPhase
    <2>3. Prior(x)
      BY <1>5, <1>7 DEF ClaimAction, At
    <2>4. TurnInv(t)'
      BY <1>3, <1>4, <2>2, <2>3 DEF Shifted, TurnInv
    <2>5. \A j \in Step : act'[j] = "completed" => act[j] = "completed"
      BY <1>2, <1>7 DEF ClaimAction, SetAction
    <2> QED BY <1>1, <2>2, <2>4, <2>5, QuietOrder DEF Shifted
  <1>8. CASE SyncAction(t)
    <2>1. Others(t) /\ TurnInv(t)'
      BY <1>1, <1>8, ClearMoves DEF SyncAction, WorkflowPhase, OrderPhase
    <2>2. PICK s \in SyncedStatus(i, w[t].seen) : SetAction(i, s)
      BY <1>8 DEF SyncAction
    <2>3. s = "completed" => w[t].seen = "completed"
      BY DEF SyncedStatus
    <2>4. w[t].seen = "completed" => Done(i)
      BY <1>8 DEF SyncAction, At, OrderInv, TurnInv
    <2>5. \A j \in Step : act'[j] = "completed" => act[j] = "completed" \/ Done(j)
      BY <1>2, <2>2, <2>3, <2>4 DEF SetAction
    <2> QED BY <1>1, <2>1, <2>5, QuietOrder
  <1>9. CASE FailAction(t)
    <2>1. Others(t) /\ TurnInv(t)'
      BY <1>1, <1>9, ClearMoves DEF FailAction, WorkflowPhase, OrderPhase
    <2>2. \A j \in Step : act'[j] = "completed" => act[j] = "completed"
      BY <1>2, <1>9 DEF FailAction, SetAction
    <2> QED BY <1>1, <2>1, <2>2, QuietOrder
  <1>10. CASE ReloadAction(t)
    <2> DEFINE s == act[i]
    <2>1. CASE w[t].task = "poll" /\ s = "pending"
      <3>1. w' = [w EXCEPT ![t].pc = "claim", ![t].task = "run", ![t].seen = s]
        BY <1>10, <2>1 DEF ReloadAction
      <3>2. w'[t].pc = "claim" /\ w'[t].task = "run" /\ w'[t].step = i
        BY <1>2, <3>1 DEF WorkflowLocal
      <3>3. Others(t)
        <4>1. w' \in [Thread -> WorkflowLocal]
          BY <1>10, ReloadActionInv, EngineTypes DEF EngineInv, WorkflowTypeOK
        <4> QED BY <3>1, <4>1 DEF Others
      <3>4. TurnInv(t)'
        BY <1>3, <1>4, <1>5, <2>1, <3>2 DEF TurnInv
      <3> QED BY <1>1, <1>10, <3>3, <3>4, QuietOrder DEF ReloadAction, workflowVars
    <2>2. CASE \/ Leave(t) \/ To(t, "resume") \/ Learn(t, "mark", s)
      <3>1. s \in ActionStatus
        BY <1>2
      <3>2. Others(t) /\ TurnInv(t)'
        BY <1>1, <2>2, <3>1, ClearMoves DEF WorkflowPhase, OrderPhase
      <3> QED BY <1>1, <1>10, <3>2, QuietOrder DEF ReloadAction, workflowVars
    <2> QED BY <1>10, <2>1, <2>2 DEF ReloadAction
  <1> QED BY <1>6, <1>7, <1>8, <1>9, <1>10

(* The claim of a retry, its reset, and the end of a cancellation. *)
LEMMA RetryOrder ==
  ASSUME GatewayInv, EngineInv, OrderInv, NEW t \in Thread,
         ClaimRetry(t) \/ ResetAction(t) \/ CancelActions(t)
  PROVE  OrderInv'
  <1>1. UNCHANGED gatewayVars /\ UNCHANGED workflow /\ act \in [Step -> ActionStatus]
    BY EngineTypes DEF ClaimRetry, ResetAction, CancelActions
  <1>2. Others(t) /\ TurnInv(t)'
    <2>1. Leave(t) \/ \E p \in {"retry_call", "reset", "cancel_workflow"} : To(t, p)
          \/ Learn(t, "mark", "failed")
      BY DEF ClaimRetry, ResetAction, CancelActions
    <2> QED BY <1>1, <2>1, ClearMoves DEF WorkflowPhase, OrderPhase, ActionStatus
  <1>3. \A i \in Step : act'[i] = "completed" => act[i] = "completed"
    BY <1>1 DEF ClaimRetry, ResetAction, CancelActions, SetAction
  <1> QED BY <1>1, <1>2, <1>3, QuietOrder

(* A service that starts outside the gateway relies on nothing yet. *)
LEMMA ServeOrder ==
  ASSUME GatewayInv, EngineInv, OrderInv, NEW t \in Thread,
         RunWorkflow(t) \/ RetryWorkflow(t) \/ CancelWorkflow(t)
  PROVE  OrderInv'
  <1>1. UNCHANGED <<gatewayVars, workflowVars>> /\ w \in [Thread -> WorkflowLocal]
    BY EngineTypes DEF RunWorkflow, RetryWorkflow, CancelWorkflow
  <1>2. w' \in [Thread -> WorkflowLocal]
    BY StartEngineInv, RetryWorkflowInv, CancelWorkflowInv DEF EngineInv, WorkflowTypeOK
  <1>3. \E l : w' = [w EXCEPT ![t] = l] /\ l.pc \notin OrderPhase /\ l.task # "poll"
    <2>1. CASE RunWorkflow(t)
      <3> DEFINE l == [Unoccupied EXCEPT !.pc = "load", !.task = "run", !.step = None]
      <3>1. l.pc = "load" /\ l.task = "run"
        BY DEF Unoccupied
      <3>2. w' = [w EXCEPT ![t] = l]
        BY <2>1 DEF RunWorkflow, Enter
      <3> QED BY <3>1, <3>2 DEF OrderPhase
    <2>2. CASE RetryWorkflow(t)
      <3> DEFINE l == [Unoccupied EXCEPT !.pc = "retry_claim", !.task = "retry",
                         !.step = Min({j \in Step : act[j] = "failed"}),
                         !.todo = {Min({j \in Step : act[j] = "failed"})} \cap linked,
                         !.scoped = InScope]
      <3>1. l.pc = "retry_claim" /\ l.task = "retry"
        BY DEF Unoccupied
      <3>2. w' = [w EXCEPT ![t] = l]
        BY <2>2 DEF RetryWorkflow
      <3> QED BY <3>1, <3>2 DEF OrderPhase
    <2>3. CASE CancelWorkflow(t)
      <3> DEFINE l == [Unoccupied EXCEPT !.pc = "cancel_next", !.task = "cancel", !.scoped = InScope,
                         !.todo = {i \in linked : act[i] = "waiting_for_approval"}]
      <3>1. l.pc = "cancel_next" /\ l.task = "cancel"
        BY DEF Unoccupied
      <3>2. w' = [w EXCEPT ![t] = l]
        BY <2>3 DEF CancelWorkflow
      <3> QED BY <3>1, <3>2 DEF OrderPhase
    <2> QED BY <2>1, <2>2, <2>3
  <1>4. Others(t) /\ w'[t].pc \notin OrderPhase /\ w'[t].task # "poll"
    BY <1>1, <1>2, <1>3 DEF Others
  <1> QED BY <1>1, <1>4, FreeTurn, QuietOrder DEF workflowVars

(* handle_execution_update keeps the answer it was given. *)
LEMMA NotifyOrder ==
  ASSUME GatewayInv, EngineInv, OrderInv, NEW t \in Thread, NotifyAction(t) \/ NotifyWorkflow(t)
  PROVE  OrderInv'
  <1>1. UNCHANGED <<gatewayVars, workflowVars>> /\ w \in [Thread -> WorkflowLocal]
    BY EngineTypes DEF NotifyAction, NotifyWorkflow
  <1>2. CASE Leave(t)
    BY <1>1, <1>2, ClearMoves, QuietOrder DEF workflowVars
  <1>3. ASSUME NEW p \in {"notify_workflow", "sync"}, To(t, p) PROVE OrderInv'
    <2>1. Shifted(t, p) /\ w'[t].seen = w[t].seen
      BY <1>1, <1>3, ToMoves DEF WorkflowPhase
    <2>2. PICK x : x = w[t].step
      OBVIOUS
    <2>3. (Done(x) => Done(x)') /\ (Prior(x) => Prior(x)')
      BY <1>1 DEF Prior, Done, gatewayVars
    <2>4. /\ w[t].task = "poll" => Prior(x)
          /\ w[t].seen = "completed" => Done(x)
      BY <2>2 DEF OrderInv, TurnInv, NotifyAction, NotifyWorkflow, At
    <2>5. TurnInv(t)'
      BY <2>1, <2>2, <2>3, <2>4 DEF Shifted, TurnInv
    <2> QED BY <1>1, <2>1, <2>5, QuietOrder DEF Shifted, workflowVars
  <1> QED BY <1>2, <1>3 DEF NotifyAction, NotifyWorkflow

(* A call of the gateway by a thread that then relies on nothing else. *)
LEMMA CallOrder ==
  ASSUME GatewayInv, EngineInv, OrderInv, [GatewayNext]_gatewayVars, NEW t \in Thread,
         UNCHANGED workflowVars, Others(t), \A s \in Thread \ {t} : th'[s] = th[s],
         RowsKept, RequestInv(t)', TurnInv(t)'
  PROVE  OrderInv'
  BY OrderStep DEF workflowVars

(* A thread that is idle in the gateway relies on nothing there. *)
LEMMA IdleRequest ==
  ASSUME GatewayInv, NEW t \in Thread, th' = [th EXCEPT ![t] = Idle]
  PROVE  RequestInv(t)' /\ \A s \in Thread \ {t} : th'[s] = th[s]
  BY DEF GatewayInv, GatewayTypeOK, Idle, RequestInv

(* Only an action whose turn it is is requested. *)
LEMMA RequestActionOrder ==
  ASSUME GatewayInv, EngineInv, OrderInv, NEW t \in Thread, RequestAction(t)
  PROVE  OrderInv'
  <1> DEFINE i == w[t].step
  <1>1. /\ w \in [Thread -> WorkflowLocal] /\ i \in Step /\ [GatewayNext]_gatewayVars
        /\ UNCHANGED workflowVars
    BY EngineTypes, RequestActionStep DEF HandlerInv, StepPhase, RequestAction, At
  <1>2. Prior(i)
    BY DEF RequestAction, At, OrderInv, TurnInv
  <1>3. CASE RequestExecution(t, i, Owner, Plan[i]) /\ To(t, "await")
    <2>1. RowsKept /\ RequestInv(t)'
      BY <1>1, <1>2, <1>3, RequestOrder
    <2>2. Shifted(t, "await") /\ TurnInv(t)'
      BY <1>1, <1>3, ToMoves, MovedTurn DEF WorkflowPhase, OrderPhase
    <2>3. \A s \in Thread \ {t} : th'[s] = th[s]
      <3>1. \E l : th' = [th EXCEPT ![t] = l]
        BY <1>3 DEF RequestExecution
      <3> QED BY <3>1 DEF GatewayInv, GatewayTypeOK
    <2> QED BY <1>1, <2>1, <2>2, <2>3, CallOrder DEF Shifted
  <1>4. CASE To(t, "fail") /\ UNCHANGED gatewayVars
    <2>1. Others(t) /\ TurnInv(t)'
      BY <1>4, ClearMoves DEF WorkflowPhase, OrderPhase
    <2> QED BY <1>1, <1>4, <2>1, QuietOrder DEF workflowVars
  <1> QED BY <1>3, <1>4 DEF RequestAction

(* A retry runs an execution that exists already. *)
LEMMA RetryActionOrder ==
  ASSUME GatewayInv, EngineInv, OrderInv, NEW t \in Thread, RetryAction(t)
  PROVE  OrderInv'
  <1> DEFINE i == w[t].step
  <1>1. /\ w \in [Thread -> WorkflowLocal] /\ i \in Step /\ [GatewayNext]_gatewayVars
        /\ UNCHANGED workflowVars
    BY EngineTypes, RetryActionStep DEF HandlerInv, StepPhase, RetryAction, At
  <1>2. CASE RetryExecution(t, i, Owner) /\ To(t, "await")
    <2>1. UNCHANGED executionVars
      BY <1>2 DEF RetryExecution
    <2>2. Shifted(t, "await") /\ TurnInv(t)'
      BY <1>1, <1>2, ToMoves, MovedTurn DEF WorkflowPhase, OrderPhase
    <2>3. th'[t].pc = "write" /\ \A s \in Thread \ {t} : th'[s] = th[s]
      BY <1>2 DEF RetryExecution, Start, Idle, GatewayInv, GatewayTypeOK
    <2> QED BY <1>1, <2>1, <2>2, <2>3, RowsUnchanged, PlainRequest, CallOrder DEF Shifted
  <1>3. CASE To(t, "fail") /\ UNCHANGED gatewayVars
    <2>1. Others(t) /\ TurnInv(t)'
      BY <1>3, ClearMoves DEF WorkflowPhase, OrderPhase
    <2> QED BY <1>1, <1>3, <2>1, QuietOrder DEF workflowVars
  <1> QED BY <1>2, <1>3 DEF RetryAction

(* The answer of the gateway says completed only of what is done. *)
LEMMA TakeResultOrder ==
  ASSUME GatewayInv, EngineInv, OrderInv, NEW t \in Thread, TakeResult(t)
  PROVE  OrderInv'
  <1> DEFINE s == th[t].seen
  <1>1. /\ w \in [Thread -> WorkflowLocal] /\ [GatewayNext]_gatewayVars /\ UNCHANGED workflowVars
        /\ UNCHANGED executionVars /\ RequestInv(t)' /\ \A r \in Thread \ {t} : th'[r] = th[r]
    BY EngineTypes, TakeResultInv, IdleRequest DEF TakeResult, Respond
  <1>2. RowsKept
    BY <1>1, RowsUnchanged
  <1>3. PICK x : x = w[t].step
    OBVIOUS
  <1>4. Prior(x) => Prior(x)'
    BY <1>1, PriorStays
  <1>5. w[t].task = "poll" => Prior(x)
    BY <1>3 DEF OrderInv, TurnInv
  <1>6. CASE w[t].task # "cancel" /\ s # "error"
    <2>1. x \in Step /\ th[t].at = x /\ s \in ExecutionStatus
      BY <1>3, <1>6
      DEF TakeResult, Respond, At, EngineInv, HandlerInv, GatewayInv, ThreadInv, PhaseInv
    <2>2. s = "completed" => Done(x)'
      BY <1>1, <2>1, DoneStays DEF TakeResult, Respond, OrderInv, RequestInv
    <2>3. PICK p \in {"sync", "notify"} : Learn(t, p, s)
      BY <1>6 DEF TakeResult
    <2>4. Shifted(t, p) /\ w'[t].seen = s
      BY <1>1, <2>1, <2>3, LearnMoves DEF WorkflowPhase
    <2>5. TurnInv(t)'
      BY <1>3, <1>4, <1>5, <2>2, <2>4 DEF Shifted, TurnInv
    <2> QED BY <1>1, <1>2, <2>4, <2>5, CallOrder DEF Shifted
  <1>7. CASE w[t].task = "cancel" \/ s = "error"
    <2>1. \/ w[t].task # "decision"
          \/ s # "error"
      BY <1>7 DEF TakeResult, Respond, At, EngineInv, HandlerInv
    <2>2. PICK p \in {"cancel_next", "fail"} : To(t, p)
      BY <1>7, <2>1 DEF TakeResult
    <2>3. Shifted(t, p) /\ TurnInv(t)'
      BY <1>1, <2>2, ToMoves, MovedTurn DEF WorkflowPhase, OrderPhase
    <2> QED BY <1>1, <1>2, <2>3, CallOrder DEF Shifted
  <1> QED BY <1>6, <1>7

(* Cancelling and deciding an approval touches no row of an execution yet. *)
LEMMA CancelNextOrder ==
  ASSUME GatewayInv, EngineInv, OrderInv, NEW t \in Thread, CancelNext(t)
  PROVE  OrderInv'
  <1>1. /\ w \in [Thread -> WorkflowLocal] /\ [GatewayNext]_gatewayVars /\ UNCHANGED workflowVars
        /\ w[t].task = "cancel"
    BY EngineTypes, CancelNextStep DEF CancelNext, HandlerInv, At
  <1>2. CASE To(t, "cancel_actions") /\ UNCHANGED gatewayVars
    <2>1. Others(t) /\ TurnInv(t)'
      BY <1>2, ClearMoves DEF WorkflowPhase, OrderPhase
    <2> QED BY <1>1, <1>2, <2>1, QuietOrder DEF workflowVars
  <1>3. ASSUME NEW i \in w[t].todo, NEW u \in Reviewer \cup {Owner}, CancelForExecution(t, i, u),
               w' = [w EXCEPT ![t].pc = "await", ![t].todo = @ \ {i}]
        PROVE  OrderInv'
    <2>1. UNCHANGED executionVars
      BY <1>3 DEF CancelForExecution
    <2>2. th'[t].pc = "cancel" /\ \A s \in Thread \ {t} : th'[s] = th[s]
      BY <1>3 DEF CancelForExecution, Start, Idle, GatewayInv, GatewayTypeOK
    <2>3. Others(t) /\ w'[t].pc = "await" /\ w'[t].task = "cancel"
      BY <1>1, <1>3, CancelNextInv, EngineTypes DEF Others, WorkflowLocal, EngineInv, WorkflowTypeOK
    <2>4. TurnInv(t)'
      BY <2>3, FreeTurn DEF OrderPhase
    <2> QED BY <1>1, <2>1, <2>2, <2>3, <2>4, RowsUnchanged, PlainRequest, CallOrder
  <1> QED BY <1>2, <1>3 DEF CancelNext

(* A decision touches the approval only, when it starts. *)
LEMMA DecideActionOrder ==
  ASSUME GatewayInv, EngineInv, OrderInv, NEW t \in Thread, DecideAction(t)
  PROVE  OrderInv'
  <1>1. /\ w \in [Thread -> WorkflowLocal] /\ [GatewayNext]_gatewayVars /\ UNCHANGED workflowVars
    BY EngineTypes, DecideActionStep DEF DecideAction
  <1>2. PICK i \in Step, r \in Reviewer, v \in {"approved", "rejected"} :
          Decide(t, i, r, v) /\ Enter(t, "await", "decision", i)
    BY DEF DecideAction
  <1>3. UNCHANGED executionVars /\ th'[t].pc = "decide" /\ \A s \in Thread \ {t} : th'[s] = th[s]
    BY <1>2 DEF Decide, Start, Idle, GatewayInv, GatewayTypeOK
  <1>4. Others(t) /\ w'[t].pc = "await" /\ w'[t].task = "decision"
    BY <1>1, <1>2, EnterMoves DEF WorkflowPhase, Task
  <1> QED BY <1>1, <1>3, <1>4, RowsUnchanged, PlainRequest, FreeTurn, CallOrder DEF OrderPhase

(* The gateway goes on. *)
LEMMA GatewayOrder ==
  ASSUME GatewayInv, EngineInv, OrderInv, NEW t \in Thread, GatewayStep(t)
  PROVE  OrderInv'
  <1>1. /\ [GatewayNext]_gatewayVars /\ UNCHANGED workflowVars /\ Others(t)
        /\ \A s \in Thread \ {t} : th'[s] = th[s]
    BY GatewayStepInv, ContinueMoves, EngineTypes DEF GatewayStep, Others
  <1>2. RowsKept /\ RequestInv(t)'
    BY ContinueOrder DEF GatewayStep
  <1>3. Shifted(t, "await")
    BY <1>1, EngineTypes DEF GatewayStep, Shifted, At
  <1>4. TurnInv(t)'
    BY <1>1, <1>3, MovedTurn DEF WorkflowPhase, OrderPhase
  <1> QED BY <1>1, <1>2, <1>4, CallOrder

(* A crash, or an exception that ends a call or an attempt. *)
LEMMA FailureOrder ==
  ASSUME GatewayInv, EngineInv, OrderInv, NEW t \in Thread, Abort(t) \/ CatchRaise(t)
  PROVE  OrderInv'
  <1>1. /\ w \in [Thread -> WorkflowLocal] /\ th \in [Thread -> Local]
        /\ [GatewayNext]_gatewayVars /\ UNCHANGED workflowVars
    BY EngineTypes, AbortInv, CatchRaiseInv DEF Abort, CatchRaise, GatewayInv, GatewayTypeOK
  <1>2. CASE Abort(t)
    <2>1. Others(t) /\ TurnInv(t)'
      BY <1>1, <1>2, LeaveMoves, FreeTurn DEF Abort, OrderPhase
    <2> QED BY <1>1, <1>2, <2>1, IdleRequest, RowsUnchanged, CallOrder DEF Abort
  <1>3. CASE At(t, "await") /\ Raise(t) /\ UNCHANGED w
    <2>1. /\ th'[t].pc = "returned" /\ th'[t].seen = "error"
          /\ \A s \in Thread \ {t} : th'[s] = th[s]
      BY <1>1, <1>3 DEF Raise, Return, Local
    <2>2. RequestInv(t)' /\ UNCHANGED executionVars
      BY <1>3, <2>1 DEF RequestInv, Raise
    <2>3. Shifted(t, "await")
      BY <1>1, <1>3 DEF Shifted, Others, At
    <2>4. TurnInv(t)'
      BY <1>1, <2>3, MovedTurn DEF WorkflowPhase, OrderPhase
    <2> QED BY <1>1, <2>1, <2>2, <2>3, <2>4, RowsUnchanged, CallOrder DEF Shifted
  <1>4. CASE To(t, "fail") /\ UNCHANGED gatewayVars
    <2>1. Others(t) /\ TurnInv(t)'
      BY <1>4, ClearMoves DEF WorkflowPhase, OrderPhase
    <2> QED BY <1>1, <1>4, <2>1, QuietOrder DEF workflowVars
  <1> QED BY <1>2, <1>3, <1>4 DEF CatchRaise

(* A step of no thread: the owner's authority changes, or nothing does. *)
LEMMA StillOrder ==
  ASSUME OrderInv, UNCHANGED <<executionVars, effectVars, th, w, workflowVars>>
  PROVE  OrderInv'
  <1>1. RowsOrdered' /\ ReportsTrue'
    BY DEF OrderInv, RowsOrdered, ReportsTrue, Prior, Done, executionVars, effectVars, workflowVars
  <1>2. ASSUME NEW t \in Thread PROVE RequestInv(t)' /\ TurnInv(t)'
    BY DEF OrderInv, RequestInv, TurnInv, Prior, Done, effectVars
  <1> QED BY <1>1, <1>2 DEF OrderInv

(* Every step of the engine keeps the order. *)
LEMMA OrderNext ==
  ASSUME GatewayInv, EngineInv, OrderInv, [WorkflowNext]_engineVars
  PROVE  OrderInv'
  <1>1. ASSUME NEW t \in Thread, Proceed(t) PROVE OrderInv'
    BY <1>1, LoopOrder, PickOrder, ActionOrder, RetryOrder, NotifyOrder, RequestActionOrder,
       RetryActionOrder, TakeResultOrder, CancelNextOrder, GatewayOrder
    DEF Proceed, EngineStep
  <1>2. ASSUME NEW t \in Thread, Serve(t) PROVE OrderInv'
    BY <1>2, ServeOrder, DecideActionOrder DEF Serve
  <1>3. ASSUME NEW a \in Authority, ChangeOwner(a) PROVE OrderInv'
    BY <1>3, StillOrder DEF ChangeOwner, ChangeAuthority
  <1>4. CASE UNCHANGED engineVars
    BY <1>4, StillOrder DEF engineVars, gatewayVars, executionVars, effectVars, workflowVars
  <1> QED BY <1>1, <1>2, <1>3, <1>4, LoopOrder, FailureOrder DEF WorkflowNext, CalmNext

(* Nothing has been requested, done or reported at the start. *)
LEMMA OrderInit == WorkflowInit => OrderInv
  <1> SUFFICES ASSUME WorkflowInit PROVE OrderInv
    OBVIOUS
  <1>1. RowsOrdered /\ ReportsTrue
    BY PlanType DEF WorkflowInit, GatewayInit, RowsOrdered, ReportsTrue
  <1>2. ASSUME NEW t \in Thread PROVE RequestInv(t) /\ TurnInv(t)
    BY DEF WorkflowInit, GatewayInit, RequestInv, TurnInv, Idle, Unoccupied
  <1> QED BY <1>1, <1>2 DEF OrderInv

(* The order holds in every behaviour of the engine. *)
LEMMA OrderInvariance == WorkflowSpec => []OrderInv
  <1>1. GatewayInv /\ EngineInv /\ OrderInv /\ [WorkflowNext]_engineVars =>
          GatewayInv' /\ EngineInv' /\ OrderInv'
    BY EngineNext, OrderNext
  <1> QED BY <1>1, EngineInit, OrderInit, PTL DEF WorkflowSpec

(* The rows the engine creates follow the plan: an action has an execution *)
(* only when the effects of all the actions before it are on record,       *)
(* whichever threads requested them and however stale their reads were.    *)
THEOREM EffectsInOrder == WorkflowSpec => []ActionsInOrder
  <1>1. OrderInv => ActionsInOrder
    BY DEF OrderInv, RowsOrdered, Prior, ActionsInOrder
  <1> QED BY <1>1, OrderInvariance, PTL

(* A workflow row says completed only when every action of the plan has its *)
(* effect on record, whatever retries, polls and cancellations raced.       *)
THEOREM CompletedWorkflowsAreDone == WorkflowSpec => []CompletedWorkflowDone
  <1>1. OrderInv => CompletedWorkflowDone
    BY DEF OrderInv, ReportsTrue, CompletedWorkflowDone
  <1> QED BY <1>1, OrderInvariance, PTL

-----------------------------------------------------------------------------
(***************************************************************************)
(* The attempts of an action. An action without an execution has at most   *)
(* one owner, a thread that claimed or resets it, so it is claimed once    *)
(* for every time it is made pending. AttemptInv counts what others must   *)
(* have done before a thread, which read in retry_workflow that the action *)
(* had no execution, comes to claim it: by the time the action has one,    *)
(* three attempts are spent and the claim is refused.                      *)
(***************************************************************************)

(* Thread t may execute the action i, or make it pending again. *)
Owns(t, i) ==
  /\ w[t].step = i
  /\ \/ w[t].pc \in {"request", "fail", "reset"}
     \/ w[t].pc \in {"await", "sync"} /\ w[t].task = "run"

(* Thread t read that the action i had failed and had no execution. *)
Stale(t, i) == At(t, "retry_claim") /\ w[t].step = i /\ i \notin w[t].todo

(* The threads that go on with an execution have one to go on with. *)
LinkInv(t) ==
  LET l == w[t] IN
  /\ l.pc = "claim" => l.seen = "pending"
  /\ l.pc \in {"poll", "notify_workflow", "retry_call"} => l.step \in linked
  /\ l.pc \in {"sync", "fail"} /\ l.task # "run" => l.step \in linked
  /\ l.pc = "await" /\ l.task = "retry" => l.step \in linked
  /\ l.pc = "reload" /\ l.seen \in ExecutionStatus => l.step \in linked
  /\ l.pc = "retry_claim" => l.todo \subseteq linked

(* An action is pending only within its attempts, and without an execution. *)
ActionInv(i) ==
  /\ attempts[i] <= MaxAttempts + 1
  /\ act[i] = "pending" => i \notin linked /\ attempts[i] <= MaxAttempts
  /\ act[i] = "failed" \/ i \in linked => attempts[i] >= 1
  /\ act[i] = "waiting_for_approval" => i \in linked

(* One thread at a time executes an action that has no execution yet. *)
OwnerInv(t, i) ==
  Owns(t, i) =>
    /\ i \notin linked =>
         /\ act[i] \notin {"pending", "failed"} /\ attempts[i] >= 1
         /\ \A s \in Thread : Owns(s, i) => s = t
    /\ At(t, "reset") => i \notin linked /\ attempts[i] <= MaxAttempts

(* While a thread holds such a reading, the attempts that others make count. *)
StaleInv(t, i) ==
  Stale(t, i) =>
    /\ attempts[i] >= 1
    /\ act[i] = "pending" => attempts[i] >= 2
    /\ i \in linked => attempts[i] >= 3
    /\ \A s \in Thread : Owns(s, i) => attempts[i] >= (IF At(s, "reset") THEN 2 ELSE 3)

AttemptInv ==
  /\ \A t \in Thread : LinkInv(t)
  /\ \A i \in Step :
       ActionInv(i) /\ \A t \in Thread : OwnerInv(t, i) /\ StaleInv(t, i)

(* A thread that has not moved does what it did. *)
LEMMA OthersStay ==
  ASSUME NEW t \in Thread, Others(t), NEW s \in Thread \ {t}, NEW i
  PROVE  /\ Owns(s, i)' <=> Owns(s, i)
         /\ Stale(s, i)' <=> Stale(s, i)
         /\ At(s, "reset")' <=> At(s, "reset")
         /\ linked \subseteq linked' /\ LinkInv(s) => LinkInv(s)'
  BY DEF Others, Owns, Stale, At, LinkInv

(* A step of thread t that touches no action but i. *)
LEMMA AttemptStep ==
  ASSUME AttemptInv, NEW t \in Thread, Others(t), NEW i \in Step, LinkInv(t)',
         linked \subseteq linked',
         \A j \in Step \ {i} :
            /\ act'[j] = act[j] /\ attempts'[j] = attempts[j]
            /\ j \in linked' <=> j \in linked
            /\ ~Owns(t, j)' /\ ~Stale(t, j)',
         ActionInv(i)', \A s \in Thread : OwnerInv(s, i)' /\ StaleInv(s, i)'
  PROVE  AttemptInv'
  <1>1. \A s \in Thread : LinkInv(s)'
    BY OthersStay DEF AttemptInv
  <1>2. ASSUME NEW j \in Step \ {i}
        PROVE  ActionInv(j)' /\ \A s \in Thread : OwnerInv(s, j)' /\ StaleInv(s, j)'
    <2>1. /\ act'[j] = act[j] /\ attempts'[j] = attempts[j]
          /\ j \in linked' <=> j \in linked
          /\ ~Owns(t, j)' /\ ~Stale(t, j)'
          /\ ActionInv(j) /\ \A s \in Thread : OwnerInv(s, j) /\ StaleInv(s, j)
      BY DEF AttemptInv
    <2>2. \A s \in Thread \ {t} : /\ Owns(s, j)' <=> Owns(s, j)
                                  /\ Stale(s, j)' <=> Stale(s, j)
                                  /\ At(s, "reset")' <=> At(s, "reset")
      BY OthersStay
    <2>3. ActionInv(j)'
      BY <2>1 DEF ActionInv
    <2>4. \A s \in Thread : OwnerInv(s, j)'
      BY <2>1, <2>2 DEF OwnerInv
    <2>5. \A s \in Thread : StaleInv(s, j)'
      BY <2>1, <2>2 DEF StaleInv
    <2> QED BY <2>3, <2>4, <2>5
  <1> QED BY <1>1, <1>2 DEF AttemptInv

(* A step that changes no action, and by which the thread takes none on *)
(* that has no execution.                                               *)
LEMMA AttemptMove ==
  ASSUME AttemptInv, NEW t \in Thread, Others(t), LinkInv(t)', UNCHANGED <<act, attempts, linked>>,
         \A i \in Step : Owns(t, i)' => i \in linked \/ Owns(t, i),
         \A i \in Step : ~Stale(t, i)',
         ~At(t, "reset")', ~At(t, "reset") \/ \A i \in Step : ~Owns(t, i)'
  PROVE  AttemptInv'
  <1>1. \A s \in Thread : LinkInv(s)'
    BY OthersStay DEF AttemptInv
  <1>2. ASSUME NEW j \in Step
        PROVE  ActionInv(j)' /\ \A s \in Thread : OwnerInv(s, j)' /\ StaleInv(s, j)'
    <2>1. ActionInv(j) /\ \A s \in Thread : OwnerInv(s, j) /\ StaleInv(s, j)
      BY DEF AttemptInv
    <2>2. \A s \in Thread \ {t} : /\ Owns(s, j)' <=> Owns(s, j)
                                  /\ Stale(s, j)' <=> Stale(s, j)
                                  /\ At(s, "reset")' <=> At(s, "reset")
      BY OthersStay
    <2>3. ActionInv(j)'
      BY <2>1 DEF ActionInv
    <2>4. \A s \in Thread : OwnerInv(s, j)'
      BY <2>1, <2>2 DEF OwnerInv
    <2>5. \A s \in Thread : StaleInv(s, j)'
      BY <2>1, <2>2 DEF StaleInv
    <2> QED BY <2>3, <2>4, <2>5
  <1> QED BY <1>1, <1>2 DEF AttemptInv

(* The types of what the counting reads. *)
LEMMA AttemptTypes ==
  ASSUME EngineInv
  PROVE  /\ w \in [Thread -> WorkflowLocal] /\ act \in [Step -> ActionStatus]
         /\ attempts \in [Step -> Nat] /\ linked \in SUBSET Step /\ MaxAttempts \in Nat \ {0}
         /\ \A t \in Thread : HandlerInv(t)
  BY EngineTypes, WorkflowAssumption

(* The phases in which a thread owns an action, or relies on a reading of it. *)
CountPhase ==
  {"claim", "poll", "notify_workflow", "request", "await", "sync", "fail", "reload",
   "retry_claim", "retry_call", "reset"}

(* A thread that goes to another phase, and changes no action. *)
LEMMA AttemptLeave ==
  ASSUME AttemptInv, NEW t \in Thread, Others(t), UNCHANGED <<act, attempts, linked>>,
         w'[t].pc \notin CountPhase
  PROVE  AttemptInv'
  <1>1. LinkInv(t)' /\ \A i \in Step : ~Owns(t, i)' /\ ~Stale(t, i)'
    BY DEF LinkInv, Owns, Stale, At, CountPhase
  <1>2. ~At(t, "reset")'
    BY DEF At, CountPhase
  <1> QED BY <1>1, <1>2, AttemptMove

(* The claim of a pending action: it has no execution and no owner yet. *)
LEMMA ClaimAttempt ==
  ASSUME EngineInv, AttemptInv, NEW t \in Thread, ClaimAction(t)
  PROVE  AttemptInv'
  <1> DEFINE i == w[t].step
  <1>1. /\ w \in [Thread -> WorkflowLocal] /\ act \in [Step -> ActionStatus]
        /\ attempts \in [Step -> Nat] /\ linked \in SUBSET Step /\ MaxAttempts \in Nat
        /\ i \in Step /\ w[t].task = "run" /\ w[t].pc = "claim" /\ LinkInv(t)
    BY AttemptTypes DEF HandlerInv, StepPhase, ClaimAction, At, AttemptInv
  <1>2. CASE act[i] # "pending"
    <2>1. Shifted(t, "reload") /\ w'[t].seen = w[t].seen /\ UNCHANGED <<act, attempts, linked>>
      BY <1>1, <1>2, ToMoves DEF ClaimAction, WorkflowPhase
    <2>2. LinkInv(t)'
      BY <1>1, <2>1 DEF Shifted, LinkInv, ExecutionStatus
    <2> QED BY <1>1, <2>1, <2>2, AttemptMove DEF Shifted, Owns, Stale, At
  <1>3. CASE act[i] = "pending"
    <2>1. PICK x \in Step : x = i
      BY <1>1
    <2>2. /\ Shifted(t, "request") /\ act' = [act EXCEPT ![x] = "running"]
          /\ attempts' = [attempts EXCEPT ![x] = @ + 1] /\ linked' = linked
      BY <1>1, <1>3, <2>1, ToMoves DEF ClaimAction, SetAction, WorkflowPhase
    <2>3. /\ ActionInv(x) /\ \A s \in Thread : OwnerInv(s, x) /\ StaleInv(s, x)
      BY DEF AttemptInv
    <2>4. x \notin linked /\ attempts[x] <= MaxAttempts /\ \A s \in Thread : ~Owns(s, x)
      BY <1>3, <2>1, <2>3 DEF ActionInv, OwnerInv
    <2>5. /\ act'[x] = "running" /\ attempts'[x] = attempts[x] + 1 /\ attempts[x] \in Nat
          /\ \A j \in Step \ {x} : act'[j] = act[j] /\ attempts'[j] = attempts[j]
      BY <1>1, <2>2
    <2>6. /\ Others(t) /\ LinkInv(t)' /\ Owns(t, x)' /\ ~At(t, "reset")'
          /\ \A j \in Step : ~Stale(t, j)'
          /\ \A j \in Step \ {x} : ~Owns(t, j)'
      BY <1>1, <2>1, <2>2 DEF Shifted, LinkInv, Owns, Stale, At
    <2>7. \A s \in Thread \ {t} : ~Owns(s, x)' /\ (Stale(s, x)' <=> Stale(s, x))
      BY <2>4, <2>6, OthersStay
    <2>8. ActionInv(x)'
      BY <1>1, <2>2, <2>4, <2>5 DEF ActionInv
    <2>9. \A s \in Thread : OwnerInv(s, x)'
      BY <1>1, <2>2, <2>4, <2>5, <2>6, <2>7 DEF OwnerInv
    <2>10. \A s \in Thread : StaleInv(s, x)'
      BY <1>1, <1>3, <2>1, <2>2, <2>3, <2>4, <2>5, <2>6, <2>7 DEF StaleInv
    <2> QED BY <2>2, <2>5, <2>6, <2>8, <2>9, <2>10, AttemptStep
  <1> QED BY <1>2, <1>3

(* The claim of a retry is refused to a thread whose reading is so old that *)
(* the action has an execution by now: three attempts were made meanwhile.  *)
LEMMA ClaimRetryAttempt ==
  ASSUME MaxAttempts <= 3, EngineInv, AttemptInv, NEW t \in Thread, ClaimRetry(t)
  PROVE  AttemptInv'
  <1> DEFINE i == w[t].step
  <1>1. /\ w \in [Thread -> WorkflowLocal] /\ act \in [Step -> ActionStatus]
        /\ attempts \in [Step -> Nat] /\ linked \in SUBSET Step /\ MaxAttempts \in Nat
        /\ i \in Step /\ w[t].task = "retry" /\ w[t].pc = "retry_claim" /\ LinkInv(t)
    BY AttemptTypes DEF HandlerInv, StepPhase, ClaimRetry, At, AttemptInv
  <1>2. CASE ~Retryable(i)
    BY <1>1, <1>2, LeaveMoves, AttemptLeave DEF ClaimRetry, CountPhase
  <1>3. CASE Retryable(i)
    <2>1. PICK x \in Step : x = i
      BY <1>1
    <2> DEFINE p == IF x \in w[t].todo THEN "retry_call" ELSE "reset"
    <2>2. To(t, p) /\ p \in WorkflowPhase
      BY <1>3, <2>1 DEF ClaimRetry, WorkflowPhase
    <2>3. /\ Shifted(t, p) /\ act' = [act EXCEPT ![x] = "running"]
          /\ attempts' = [attempts EXCEPT ![x] = @ + 1] /\ linked' = linked
      BY <1>1, <1>3, <2>1, <2>2, ToMoves DEF ClaimRetry, SetAction
    <2>4. act[x] = "failed" /\ attempts[x] < MaxAttempts
      BY <1>3, <2>1 DEF Retryable
    <2>5. /\ ActionInv(x) /\ \A s \in Thread : OwnerInv(s, x) /\ StaleInv(s, x)
      BY DEF AttemptInv
    <2>6. /\ act'[x] = "running" /\ attempts'[x] = attempts[x] + 1 /\ attempts[x] \in Nat
          /\ \A j \in Step \ {x} : act'[j] = act[j] /\ attempts'[j] = attempts[j]
      BY <1>1, <2>3
    <2>7. x \in linked => x \in w[t].todo
      <3>1. x \in linked /\ x \notin w[t].todo => attempts[x] >= 3
        BY <1>1, <2>1, <2>5 DEF StaleInv, Stale, At
      <3> QED BY <1>1, <2>4, <2>6, <3>1
    <2>8. x \in w[t].todo => x \in linked
      BY <1>1, <2>1 DEF LinkInv
    <2>9. /\ Others(t) /\ LinkInv(t)' /\ (\A j \in Step : ~Stale(t, j)')
          /\ Owns(t, x)' <=> x \notin linked
          /\ At(t, "reset")' <=> x \notin linked
          /\ \A j \in Step \ {x} : ~Owns(t, j)'
      BY <1>1, <2>1, <2>3, <2>7, <2>8 DEF Shifted, LinkInv, Owns, Stale, At
    <2>10. \A s \in Thread \ {t} : /\ Owns(s, x)' <=> Owns(s, x)
                                   /\ Stale(s, x)' <=> Stale(s, x)
                                   /\ At(s, "reset")' <=> At(s, "reset")
      BY <2>9, OthersStay
    <2>11. x \notin linked => \A s \in Thread : ~Owns(s, x)
      BY <2>4, <2>5 DEF OwnerInv
    <2>12. ActionInv(x)'
      BY <1>1, <2>3, <2>4, <2>6 DEF ActionInv
    <2>13. \A s \in Thread : OwnerInv(s, x)'
      BY <1>1, <2>3, <2>4, <2>5, <2>6, <2>9, <2>10, <2>11 DEF OwnerInv
    <2>14. \A s \in Thread : StaleInv(s, x)'
      BY <1>1, <2>3, <2>4, <2>5, <2>6, <2>9, <2>10, <2>11 DEF StaleInv
    <2> QED BY <2>3, <2>6, <2>9, <2>12, <2>13, <2>14, AttemptStep
  <1> QED BY <1>2, <1>3

(* A thread that has worked on action x lets go of it. *)
LEMMA AttemptRelease ==
  ASSUME EngineInv, AttemptInv, NEW t \in Thread, NEW x \in Step, Others(t),
         NEW s \in ActionStatus, act' = [act EXCEPT ![x] = s],
         UNCHANGED attempts, linked \subseteq linked', linked' \subseteq linked \cup {x},
         LinkInv(t)',
         \A j \in Step : ~Owns(t, j)' /\ ~Stale(t, j)',
         Owns(t, x) \/ x \in linked,
         s = "pending" => At(t, "reset") /\ x \notin linked',
         s = "waiting_for_approval" => x \in linked',
         x \in linked' => x \in linked \/ ~At(t, "reset")
  PROVE  AttemptInv'
  <1>1. /\ act \in [Step -> ActionStatus] /\ attempts \in [Step -> Nat] /\ MaxAttempts \in Nat
        /\ ActionInv(x) /\ \A r \in Thread : OwnerInv(r, x) /\ StaleInv(r, x)
    BY AttemptTypes DEF AttemptInv
  <1>2. /\ act'[x] = s /\ attempts'[x] = attempts[x] /\ attempts[x] \in Nat
        /\ \A j \in Step \ {x} : /\ act'[j] = act[j] /\ attempts'[j] = attempts[j]
                                 /\ j \in linked' <=> j \in linked
    BY <1>1
  <1>3. \A r \in Thread \ {t} : /\ Owns(r, x)' <=> Owns(r, x)
                                /\ Stale(r, x)' <=> Stale(r, x)
                                /\ At(r, "reset")' <=> At(r, "reset")
    BY OthersStay
  <1>4. x \notin linked => \A r \in Thread : ~Owns(r, x)'
    BY <1>1, <1>3 DEF OwnerInv
  <1>5. ActionInv(x)'
    BY <1>1, <1>2 DEF ActionInv, OwnerInv
  <1>6. \A r \in Thread : OwnerInv(r, x)'
    BY <1>1, <1>2, <1>3, <1>4 DEF OwnerInv
  <1>7. \A r \in Thread : StaleInv(r, x)'
    <2> SUFFICES ASSUME NEW r \in Thread \ {t} PROVE StaleInv(r, x)'
      BY DEF StaleInv
    <2>1. CASE x \in linked
      BY <1>1, <1>2, <1>3, <2>1 DEF StaleInv
    <2>2. CASE x \notin linked
      BY <1>1, <1>2, <1>3, <1>4, <2>2 DEF StaleInv
    <2> QED BY <2>1, <2>2
  <1> QED BY <1>2, <1>5, <1>6, <1>7, AttemptStep

(* The action gets its execution, fails, or is made pending again. *)
LEMMA SettleAttempt ==
  ASSUME EngineInv, AttemptInv, NEW t \in Thread, SyncAction(t) \/ FailAction(t) \/ ResetAction(t)
  PROVE  AttemptInv'
  <1> DEFINE i == w[t].step
  <1>1. /\ w \in [Thread -> WorkflowLocal] /\ i \in Step /\ linked \in SUBSET Step
        /\ HandlerInv(t) /\ LinkInv(t) /\ w[t].task \in Task /\ OwnerInv(t, i)
    BY AttemptTypes DEF HandlerInv, StepPhase, SyncAction, FailAction, ResetAction, At, AttemptInv,
                        WorkflowLocal
  <1>2. CASE SyncAction(t)
    <2>1. PICK s \in SyncedStatus(i, w[t].seen) : SetAction(i, s)
      BY <1>2 DEF SyncAction
    <2>2. s \in ActionStatus \ {"pending"}
      BY <1>1, <1>2 DEF SyncedStatus, SyncAction, At, HandlerInv, Answer, ExecutionStatus, ActionStatus
    <2>3. Shifted(t, "reload") /\ linked' = linked \cup {i}
      BY <1>1, <1>2, ToMoves DEF SyncAction, WorkflowPhase
    <2>4. /\ LinkInv(t)' /\ \A j \in Step : ~Owns(t, j)' /\ ~Stale(t, j)'
      BY <1>1, <2>3 DEF Shifted, LinkInv, Owns, Stale, At
    <2>5. (Owns(t, i) \/ i \in linked) /\ ~At(t, "reset")
      BY <1>1, <1>2 DEF SyncAction, LinkInv, Owns, At
    <2> QED BY <1>1, <1>2, <2>1, <2>2, <2>3, <2>4, <2>5, AttemptRelease
            DEF SetAction, Shifted, SyncAction
  <1>3. CASE FailAction(t)
    <2>1. Shifted(t, "reload") /\ w'[t].seen = "error" /\ linked' = linked
      BY <1>1, <1>3, LearnMoves DEF FailAction, WorkflowPhase
    <2>2. /\ LinkInv(t)' /\ \A j \in Step : ~Owns(t, j)' /\ ~Stale(t, j)'
      BY <1>1, <2>1 DEF Shifted, LinkInv, Owns, Stale, At, ExecutionStatus
    <2>3. Owns(t, i) /\ ~At(t, "reset")
      BY <1>3 DEF FailAction, Owns, At
    <2> QED BY <1>1, <1>3, <2>1, <2>2, <2>3, AttemptRelease
            DEF SetAction, Shifted, FailAction, ActionStatus
  <1>4. CASE ResetAction(t)
    <2>1. Shifted(t, "mark") /\ linked' = linked
      BY <1>1, <1>4, LearnMoves DEF ResetAction, WorkflowPhase, ActionStatus
    <2>2. /\ LinkInv(t)' /\ \A j \in Step : ~Owns(t, j)' /\ ~Stale(t, j)'
      BY <2>1 DEF Shifted, LinkInv, Owns, Stale, At
    <2>3. Owns(t, i) /\ At(t, "reset") /\ i \notin linked
      BY <1>1, <1>4 DEF ResetAction, Owns, At, OwnerInv
    <2> QED BY <1>1, <1>4, <2>1, <2>2, <2>3, AttemptRelease
            DEF SetAction, Shifted, ResetAction, ActionStatus
  <1> QED BY <1>2, <1>3, <1>4

(* A cancelled action is neither pending nor failed, nor waits. *)
LEMMA CancelAttempt ==
  ASSUME EngineInv, AttemptInv, NEW t \in Thread, CancelActions(t)
  PROVE  AttemptInv'
  <1>1. /\ w \in [Thread -> WorkflowLocal] /\ UNCHANGED <<attempts, linked>>
        /\ \A i \in Step : act'[i] \in {"completed", "cancelled"}
        /\ w[t].pc = "cancel_actions"
    BY AttemptTypes DEF CancelActions, At
  <1>2. Shifted(t, "cancel_workflow")
    BY <1>1, ToMoves DEF CancelActions, WorkflowPhase
  <1>3. /\ LinkInv(t)' /\ Others(t)
        /\ \A i \in Step : ~Owns(t, i)' /\ ~Stale(t, i)'
    BY <1>2 DEF Shifted, LinkInv, Owns, Stale, At
  <1>4. \A s \in Thread : LinkInv(s)'
    BY <1>1, <1>3, OthersStay DEF AttemptInv
  <1>5. ASSUME NEW i \in Step
        PROVE  ActionInv(i)' /\ \A s \in Thread : OwnerInv(s, i)' /\ StaleInv(s, i)'
    <2>1. ActionInv(i) /\ \A s \in Thread : OwnerInv(s, i) /\ StaleInv(s, i)
      BY DEF AttemptInv
    <2>2. \A s \in Thread \ {t} : /\ Owns(s, i)' <=> Owns(s, i)
                                  /\ Stale(s, i)' <=> Stale(s, i)
                                  /\ At(s, "reset")' <=> At(s, "reset")
      BY <1>3, OthersStay
    <2>3. ActionInv(i)'
      BY <1>1, <2>1 DEF ActionInv
    <2>4. \A s \in Thread : OwnerInv(s, i)'
      BY <1>1, <1>3, <2>1, <2>2 DEF OwnerInv
    <2>5. \A s \in Thread : StaleInv(s, i)'
      BY <1>1, <1>3, <2>1, <2>2 DEF StaleInv
    <2> QED BY <2>3, <2>4, <2>5
  <1> QED BY <1>4, <1>5 DEF AttemptInv

(* A retry reads a failed action: nobody executes it, if it has no execution. *)
LEMMA RetryWorkflowAttempt ==
  ASSUME EngineInv, AttemptInv, NEW t \in Thread, RetryWorkflow(t)
  PROVE  AttemptInv'
  <1> DEFINE failed == {j \in Step : act[j] = "failed"}
             m == Min(failed)
  <1>1. m \in failed
    BY FirstOfSteps DEF RetryWorkflow
  <1>2. PICK x \in Step : x = m /\ act[x] = "failed"
    BY <1>1
  <1> DEFINE l == [Unoccupied EXCEPT !.pc = "retry_claim", !.task = "retry", !.step = x,
                                     !.todo = {x} \cap linked, !.scoped = InScope]
  <1>3. w' = [w EXCEPT ![t] = l] /\ UNCHANGED <<act, attempts, linked>>
    BY <1>2 DEF RetryWorkflow, workflowVars
  <1>4. l.pc = "retry_claim" /\ l.step = x /\ l.todo = {x} \cap linked
    BY DEF Unoccupied
  <1> HIDE DEF l
  <1>5. w' \in [Thread -> WorkflowLocal] /\ w'[t] = l /\ Others(t)
    BY <1>3, RetryWorkflowInv, EngineTypes DEF Others, EngineInv, WorkflowTypeOK
  <1>6. /\ LinkInv(t)' /\ (\A i \in Step : ~Owns(t, i)') /\ ~At(t, "reset")'
        /\ Stale(t, x)' <=> x \notin linked
        /\ \A j \in Step \ {x} : ~Stale(t, j)'
    BY <1>3, <1>4, <1>5 DEF LinkInv, Owns, Stale, At
  <1>7. \A s \in Thread \ {t} : /\ Owns(s, x)' <=> Owns(s, x)
                                /\ Stale(s, x)' <=> Stale(s, x)
                                /\ At(s, "reset")' <=> At(s, "reset")
    BY <1>5, OthersStay
  <1>8. ActionInv(x) /\ \A s \in Thread : OwnerInv(s, x) /\ StaleInv(s, x)
    BY DEF AttemptInv
  <1>9. ActionInv(x)' /\ act'[x] = "failed"
    BY <1>2, <1>3, <1>8 DEF ActionInv
  <1>10. \A s \in Thread : OwnerInv(s, x)'
    BY <1>3, <1>6, <1>7, <1>8 DEF OwnerInv
  <1>11. StaleInv(t, x)'
    <2>1. x \notin linked => \A s \in Thread : ~Owns(s, x)'
      BY <1>2, <1>6, <1>7, <1>8 DEF OwnerInv
    <2> QED BY <1>3, <1>6, <1>9, <2>1 DEF StaleInv, ActionInv
  <1>12. \A s \in Thread : StaleInv(s, x)'
    BY <1>3, <1>6, <1>7, <1>8, <1>11 DEF StaleInv
  <1> QED BY <1>3, <1>5, <1>6, <1>9, <1>10, <1>12, AttemptStep

(* The steps around the actions, and those that end the work on one. *)
LEMMA LoopAttempt ==
  ASSUME EngineInv, AttemptInv, NEW t \in Thread,
         \/ RunWorkflow(t) \/ LoadWorkflow(t) \/ Advance(t) \/ MarkRunning(t) \/ CompleteWorkflow(t)
         \/ MarkWorkflow(t) \/ CheckWorkflow(t) \/ GiveUp(t) \/ ResumeWorkflow(t)
         \/ CancelWorkflow(t) \/ CancelStatus(t) \/ BreakLoop(t) \/ Abort(t)
  PROVE  AttemptInv'
  <1>1. UNCHANGED <<act, attempts, linked>> /\ w \in [Thread -> WorkflowLocal]
    BY AttemptTypes
    DEF RunWorkflow, LoadWorkflow, Advance, MarkRunning, CompleteWorkflow, MarkWorkflow,
        CheckWorkflow, GiveUp, ResumeWorkflow, CancelWorkflow, CancelStatus, BreakLoop, Abort,
        SetWorkflow, workflowVars
  <1>2. /\ w[t].scoped \in BOOLEAN /\ w[t].left \in 0 .. MaxAdvances /\ w[t].loop \in Loop
        /\ Engine \in Loop /\ MaxAdvances \in 0 .. MaxAdvances
    BY AttemptTypes, WorkflowAssumption DEF WorkflowLocal, Loop
  <1>3. CASE Leave(t)
    BY <1>1, <1>3, LeaveMoves, AttemptLeave DEF CountPhase
  <1>4. ASSUME NEW p \in WorkflowPhase \ CountPhase, To(t, p) PROVE AttemptInv'
    BY <1>1, <1>4, ToMoves, AttemptLeave DEF Shifted
  <1>5. ASSUME NEW o \in Loop, NEW n \in 0 .. MaxAdvances, NEW a \in BOOLEAN, Turn(t, o, n, a)
        PROVE  AttemptInv'
    BY <1>1, <1>5, TurnMoves, AttemptLeave DEF CountPhase
  <1>6. LeaveLoop(t) => AttemptInv'
    BY <1>2, <1>3, <1>4, <1>5 DEF LeaveLoop, WorkflowPhase, CountPhase, Loop
  <1>7. CASE RunWorkflow(t)
    BY <1>1, <1>7, EnterMoves, AttemptLeave DEF RunWorkflow, WorkflowPhase, Task, CountPhase
  <1>8. CASE CancelWorkflow(t)
    <2> DEFINE l == [Unoccupied EXCEPT !.pc = "cancel_next", !.task = "cancel", !.scoped = InScope,
                       !.todo = {i \in linked : act[i] = "waiting_for_approval"}]
    <2>1. l.pc = "cancel_next"
      BY DEF Unoccupied
    <2>2. w' = [w EXCEPT ![t] = l]
      BY <1>8 DEF CancelWorkflow
    <2> HIDE DEF l
    <2>3. Others(t) /\ w'[t].pc = "cancel_next"
      BY <1>1, <1>8, <2>1, <2>2, CancelWorkflowInv, EngineTypes DEF Others, EngineInv, WorkflowTypeOK
    <2> QED BY <1>1, <2>3, AttemptLeave DEF CountPhase
  <1>9. CASE CheckWorkflow(t)
    <2>1. w[t].task \in {"run", "poll"} /\ w[t].pc = "check"
      BY <1>9, EngineTypes DEF HandlerInv, CheckWorkflow, At
    <2>2. RoundsAfter(w[t].left) \in 0 .. MaxAdvances
      BY <2>1, RoundsLeft, WorkflowAssumption DEF RoundsAfter
    <2> QED BY <1>2, <1>3, <1>5, <1>6, <1>9, <2>2 DEF CheckWorkflow
  <1>10. CASE \/ LoadWorkflow(t) \/ Advance(t) \/ MarkRunning(t) \/ CompleteWorkflow(t)
              \/ MarkWorkflow(t) \/ GiveUp(t) \/ ResumeWorkflow(t) \/ CancelStatus(t)
    BY <1>2, <1>3, <1>4, <1>5, <1>10, ScopeIsBoolean
    DEF LoadWorkflow, Advance, MarkRunning, CompleteWorkflow, MarkWorkflow, GiveUp, ResumeWorkflow,
        CancelStatus, WorkflowPhase, CountPhase, Loop
  <1>11. CASE BreakLoop(t)
    BY <1>6, <1>11 DEF BreakLoop
  <1>12. CASE Abort(t)
    BY <1>3, <1>12 DEF Abort
  <1> QED BY <1>7, <1>8, <1>9, <1>10, <1>11, <1>12

(* The action that the loop turns to: if it waits, it has an execution. *)
LEMMA PickAttempt ==
  ASSUME EngineInv, AttemptInv, NEW t \in Thread, PickAction(t)
  PROVE  AttemptInv'
  <1> DEFINE open == {i \in Step : Open(i)}
             i == Min(open)
             k == IF act[i] = "waiting_for_approval" THEN "poll" ELSE "run"
             p == CASE act[i] = "waiting_for_approval" -> "poll"
                    [] act[i] = "pending" -> "claim"
                    [] OTHER -> "mark"
  <1>1. /\ UNCHANGED <<act, attempts, linked>> /\ w \in [Thread -> WorkflowLocal]
        /\ w' \in [Thread -> WorkflowLocal]
    BY AttemptTypes, PickActionInv DEF PickAction, EngineInv, WorkflowTypeOK, workflowVars
  <1>2. CASE open = {}
    BY <1>1, <1>2, ToMoves, AttemptLeave DEF PickAction, WorkflowPhase, CountPhase, Shifted
  <1>3. CASE open # {}
    <2>1. w' = [w EXCEPT ![t].step = i, ![t].seen = act[i], ![t].task = k, ![t].pc = p]
      BY <1>3 DEF PickAction
    <2>2. i \in Step
      BY <1>3, FirstOfSteps
    <2>3. /\ p \in {"poll", "claim", "mark"}
          /\ p = "poll" => i \in linked
          /\ p = "claim" => act[i] = "pending"
      BY <2>2 DEF AttemptInv, ActionInv
    <2> HIDE DEF i, k, p
    <2>4. /\ w'[t].step = i /\ w'[t].pc = p /\ w'[t].seen = act[i] /\ Others(t)
      BY <1>1, <2>1 DEF Others, WorkflowLocal
    <2>5. LinkInv(t)'
      BY <1>1, <2>3, <2>4 DEF LinkInv
    <2> QED BY <1>1, <2>3, <2>4, <2>5, AttemptMove DEF Owns, Stale, At
  <1> QED BY <1>2, <1>3

(* Reading the execution or the action again, and the update of a decision. *)
LEMMA ReadAttempt ==
  ASSUME GatewayInv, EngineInv, AttemptInv, NEW t \in Thread,
         PollExecution(t) \/ ReloadAction(t) \/ NotifyAction(t) \/ NotifyWorkflow(t)
  PROVE  AttemptInv'
  <1> DEFINE i == w[t].step
  <1>1. /\ UNCHANGED <<act, attempts, linked>> /\ w \in [Thread -> WorkflowLocal]
        /\ w' \in [Thread -> WorkflowLocal] /\ i \in Step /\ act \in [Step -> ActionStatus]
        /\ HandlerInv(t) /\ LinkInv(t)
    <2>1. EngineInv'
      BY PollExecutionInv, ReloadActionInv, NotifyInv
    <2> QED BY <2>1, AttemptTypes
            DEF PollExecution, ReloadAction, NotifyAction, NotifyWorkflow, EngineInv, WorkflowTypeOK,
                HandlerInv, StepPhase, At, workflowVars, AttemptInv
  <1>2. CASE PollExecution(t)
    <2>1. w' = [w EXCEPT ![t].pc = "sync", ![t].seen = status[i]] /\ i \in linked
      BY <1>1, <1>2 DEF PollExecution, Learn, LinkInv, At
    <2>2. w'[t].pc = "sync" /\ w'[t].step = i /\ Others(t)
      BY <1>1, <2>1 DEF WorkflowLocal, Others
    <2>3. LinkInv(t)'
      BY <1>1, <2>1, <2>2 DEF LinkInv
    <2> QED BY <1>1, <1>2, <2>1, <2>2, <2>3, AttemptMove DEF Owns, Stale, At, PollExecution
  <1>3. CASE Leave(t)
    BY <1>1, <1>3, LeaveMoves, AttemptLeave DEF CountPhase
  <1>4. CASE ReloadAction(t)
    <2>1. CASE w[t].task = "poll" /\ act[i] = "pending"
      <3>1. w' = [w EXCEPT ![t].pc = "claim", ![t].task = "run", ![t].seen = act[i]]
        BY <1>4, <2>1 DEF ReloadAction
      <3>2. w'[t].pc = "claim" /\ w'[t].seen = "pending" /\ Others(t)
        BY <1>1, <2>1, <3>1 DEF WorkflowLocal, Others
      <3>3. LinkInv(t)'
        BY <3>2 DEF LinkInv
      <3> QED BY <1>1, <3>2, <3>3, AttemptMove DEF Owns, Stale, At
    <2>2. CASE To(t, "resume")
      BY <1>1, <2>2, ToMoves, AttemptLeave DEF WorkflowPhase, CountPhase, Shifted
    <2>3. CASE Learn(t, "mark", act[i])
      BY <1>1, <2>3, LearnMoves, AttemptLeave DEF WorkflowPhase, CountPhase, Shifted
    <2> QED BY <1>3, <1>4, <2>1, <2>2, <2>3 DEF ReloadAction
  <1>5. CASE NotifyAction(t)
    <2>1. CASE To(t, "notify_workflow") /\ i \in linked
      <3>1. Shifted(t, "notify_workflow")
        BY <1>1, <2>1, ToMoves DEF WorkflowPhase
      <3>2. LinkInv(t)'
        BY <1>1, <2>1, <3>1 DEF Shifted, LinkInv
      <3> QED BY <1>1, <3>1, <3>2, AttemptMove DEF Shifted, Owns, Stale, At
    <2> QED BY <1>3, <1>5, <2>1 DEF NotifyAction
  <1>6. CASE NotifyWorkflow(t)
    <2>1. CASE To(t, "sync")
      <3>1. Shifted(t, "sync") /\ i \in linked
        BY <1>1, <1>6, <2>1, ToMoves DEF WorkflowPhase, NotifyWorkflow, At, LinkInv
      <3>2. LinkInv(t)'
        BY <1>1, <3>1 DEF Shifted, LinkInv
      <3> QED BY <1>1, <1>6, <3>1, <3>2, AttemptMove DEF Shifted, Owns, Stale, At, NotifyWorkflow
    <2> QED BY <1>3, <1>6, <2>1 DEF NotifyWorkflow
  <1> QED BY <1>2, <1>4, <1>5, <1>6

(* The thread moves on to p with the action it works on, if it had it before *)
(* or the action has an execution.                                          *)
LEMMA CallAttempt ==
  ASSUME EngineInv, AttemptInv, NEW t \in Thread, NEW p \in {"await", "sync", "fail"},
         UNCHANGED workflowVars, Shifted(t, p), w[t].pc \in StepPhase \cup {"await"},
         w[t].task \in {"run", "retry"}, w[t].pc \notin {"reset", "retry_claim"},
         w[t].task = "run" => Owns(t, w[t].step) \/ w[t].step \in linked,
         w[t].task = "retry" => w[t].step \in linked
  PROVE  AttemptInv'
  <1>1. /\ Others(t) /\ w'[t].pc = p /\ w'[t].task = w[t].task /\ w'[t].step = w[t].step
        /\ UNCHANGED <<act, attempts, linked>>
    BY DEF Shifted, workflowVars
  <1>2. LinkInv(t)'
    BY <1>1 DEF LinkInv
  <1> QED BY <1>1, <1>2, AttemptMove DEF Owns, Stale, At

(* The calls of the gateway, and what they return or raise. *)
LEMMA ExecuteAttempt ==
  ASSUME GatewayInv, EngineInv, AttemptInv, NEW t \in Thread,
         RequestAction(t) \/ RetryAction(t) \/ TakeResult(t) \/ CatchRaise(t)
  PROVE  AttemptInv'
  <1>1. /\ w \in [Thread -> WorkflowLocal] /\ UNCHANGED workflowVars /\ HandlerInv(t) /\ LinkInv(t)
        /\ UNCHANGED <<act, attempts, linked>>
    BY AttemptTypes DEF RequestAction, RetryAction, TakeResult, CatchRaise, AttemptInv, workflowVars
  <1>2. CASE RequestAction(t)
    <2>1. PICK p \in {"await", "fail"} : To(t, p)
      BY <1>2 DEF RequestAction
    <2>2. Shifted(t, p)
      BY <1>1, <2>1, ToMoves DEF WorkflowPhase
    <2> QED BY <1>1, <1>2, <2>2, CallAttempt DEF RequestAction, At, HandlerInv, Owns, StepPhase
  <1>3. CASE RetryAction(t)
    <2>1. PICK p \in {"await", "fail"} : To(t, p)
      BY <1>3 DEF RetryAction
    <2>2. Shifted(t, p)
      BY <1>1, <2>1, ToMoves DEF WorkflowPhase
    <2> QED BY <1>1, <1>3, <2>2, CallAttempt DEF RetryAction, At, HandlerInv, LinkInv, StepPhase
  <1>4. CASE TakeResult(t)
    <2> DEFINE s == th[t].seen
    <2>1. w[t].pc = "await" /\ w[t].task \in {"run", "retry", "decision", "cancel"}
      BY <1>1, <1>4 DEF TakeResult, At, HandlerInv
    <2>2. CASE w[t].task = "cancel"
      BY <1>1, <1>4, <2>2, ToMoves, AttemptLeave
      DEF TakeResult, WorkflowPhase, CountPhase, Shifted
    <2>3. s \in ExecutionStatus \cup {"error"}
      BY <1>4 DEF TakeResult, Respond, GatewayInv, ThreadInv, PhaseInv
    <2>4. CASE w[t].task = "decision"
      <3>1. Shifted(t, "notify")
        BY <1>1, <1>4, <2>3, <2>4, LearnMoves DEF TakeResult, WorkflowPhase
      <3> QED BY <1>1, <3>1, AttemptLeave DEF Shifted, CountPhase
    <2>5. CASE w[t].task \in {"run", "retry"}
      <3>1. PICK p \in {"sync", "fail"} : To(t, p) \/ Learn(t, p, s)
        BY <1>4, <2>5 DEF TakeResult
      <3>2. Shifted(t, p)
        BY <1>1, <2>3, <3>1, ToMoves, LearnMoves DEF WorkflowPhase
      <3> QED BY <1>1, <2>1, <2>5, <3>2, CallAttempt DEF Owns, LinkInv
    <2> QED BY <2>1, <2>2, <2>4, <2>5
  <1>5. CASE CatchRaise(t)
    <2>1. w[t].task \in {"run", "retry"}
      BY <1>5 DEF CatchRaise
    <2>2. CASE At(t, "await") /\ UNCHANGED w
      <3>1. Shifted(t, "await")
        BY <1>1, <2>2 DEF Shifted, Others, At
      <3> QED BY <1>1, <2>1, <2>2, <3>1, CallAttempt DEF At, Owns, LinkInv
    <2>3. CASE /\ \/ w[t].pc \in {"request", "retry_call", "sync"}
                  \/ At(t, "reload") /\ w[t].seen \in ExecutionStatus
               /\ To(t, "fail")
      <3>1. Shifted(t, "fail")
        BY <1>1, <2>3, ToMoves DEF WorkflowPhase
      <3> QED BY <1>1, <2>1, <2>3, <3>1, CallAttempt DEF At, Owns, LinkInv, StepPhase, HandlerInv
    <2> QED BY <1>5, <2>2, <2>3 DEF CatchRaise
  <1> QED BY <1>2, <1>3, <1>4, <1>5

(* The calls that close or decide an approval. *)
LEMMA ApprovalAttempt ==
  ASSUME EngineInv, AttemptInv, GatewayInv, NEW t \in Thread,
         CancelNext(t) \/ DecideAction(t) \/ GatewayStep(t)
  PROVE  AttemptInv'
  <1>1. /\ w \in [Thread -> WorkflowLocal] /\ UNCHANGED <<act, attempts, linked>>
        /\ w' \in [Thread -> WorkflowLocal]
    <2>1. EngineInv'
      BY CancelNextInv, DecideActionInv, GatewayStepInv
    <2> QED BY <2>1, AttemptTypes
            DEF CancelNext, DecideAction, GatewayStep, workflowVars, EngineInv, WorkflowTypeOK
  <1>2. CASE CancelNext(t)
    <2>1. w[t].task = "cancel" /\ w[t].pc = "cancel_next"
      BY <1>2, AttemptTypes DEF CancelNext, At, HandlerInv
    <2>2. CASE To(t, "cancel_actions")
      BY <1>1, <2>2, ToMoves, AttemptLeave DEF WorkflowPhase, CountPhase, Shifted
    <2>3. ASSUME NEW i \in w[t].todo, w' = [w EXCEPT ![t].pc = "await", ![t].todo = @ \ {i}]
          PROVE  AttemptInv'
      <3>1. Others(t) /\ w'[t].pc = "await" /\ w'[t].task = "cancel"
        BY <1>1, <2>1, <2>3 DEF Others, WorkflowLocal
      <3>2. LinkInv(t)'
        BY <3>1 DEF LinkInv
      <3> QED BY <1>1, <2>1, <3>1, <3>2, AttemptMove DEF Owns, Stale, At
    <2> QED BY <1>2, <2>2, <2>3 DEF CancelNext
  <1>3. CASE DecideAction(t)
    <2>1. PICK i \in Step : Enter(t, "await", "decision", i)
      BY <1>3 DEF DecideAction
    <2>2. Others(t) /\ w'[t].pc = "await" /\ w'[t].task = "decision" /\ w[t].pc = "idle"
      BY <1>1, <1>3, <2>1, EnterMoves DEF WorkflowPhase, Task, DecideAction, At
    <2>3. LinkInv(t)'
      BY <2>2 DEF LinkInv
    <2> QED BY <1>1, <2>2, <2>3, AttemptMove DEF Owns, Stale, At
  <1>4. CASE GatewayStep(t)
    <2>1. w' = w /\ Others(t) /\ w[t].pc = "await"
      BY <1>1, <1>4 DEF GatewayStep, Others, At
    <2>2. LinkInv(t)'
      BY <1>1, <2>1 DEF AttemptInv, LinkInv
    <2> QED BY <1>1, <2>1, <2>2, AttemptMove DEF Owns, Stale, At
  <1> QED BY <1>2, <1>3, <1>4

(* A step of no thread. *)
LEMMA StillAttempt ==
  ASSUME AttemptInv, UNCHANGED <<w, workflowVars>>
  PROVE  AttemptInv'
  BY DEF AttemptInv, LinkInv, ActionInv, OwnerInv, StaleInv, Owns, Stale, At, workflowVars

(* Every step of the engine keeps count. *)
LEMMA AttemptNext ==
  ASSUME MaxAttempts <= 3, GatewayInv, EngineInv, AttemptInv, [WorkflowNext]_engineVars
  PROVE  AttemptInv'
  <1>1. ASSUME NEW t \in Thread, Proceed(t) PROVE AttemptInv'
    BY <1>1, LoopAttempt, PickAttempt, ReadAttempt, ClaimAttempt, ClaimRetryAttempt, SettleAttempt,
       CancelAttempt, ExecuteAttempt, ApprovalAttempt
    DEF Proceed, EngineStep
  <1>2. ASSUME NEW t \in Thread, Serve(t) PROVE AttemptInv'
    BY <1>2, LoopAttempt, RetryWorkflowAttempt, ApprovalAttempt DEF Serve
  <1>3. ASSUME NEW a \in Authority, ChangeOwner(a) PROVE AttemptInv'
    BY <1>3, StillAttempt DEF ChangeOwner
  <1>4. CASE UNCHANGED engineVars
    BY <1>4, StillAttempt DEF engineVars
  <1> QED BY <1>1, <1>2, <1>3, <1>4, LoopAttempt, ExecuteAttempt DEF WorkflowNext, CalmNext

(* No attempt has been made at the start. *)
LEMMA AttemptInit == WorkflowInit => AttemptInv
  <1> SUFFICES ASSUME WorkflowInit PROVE AttemptInv
    OBVIOUS
  <1>1. ASSUME NEW t \in Thread
        PROVE  LinkInv(t) /\ \A i \in Step : ~Owns(t, i) /\ ~Stale(t, i)
    BY DEF WorkflowInit, LinkInv, Owns, Stale, At, Unoccupied
  <1>2. \A i \in Step : ActionInv(i)
    BY WorkflowAssumption DEF WorkflowInit, ActionInv
  <1> QED BY <1>1, <1>2 DEF AttemptInv, OwnerInv, StaleInv

(* The attempts of an action end: with at most three of them, the number   *)
(* the code allows, every claim is counted and no thread claims an action  *)
(* on a reading so old that it would get an attempt too many.              *)
THEOREM RetriesEnd ==
  ASSUME MaxAttempts <= 3
  PROVE  WorkflowSpec => []AttemptsBounded
  <1>1. GatewayInv /\ EngineInv /\ AttemptInv /\ [WorkflowNext]_engineVars =>
          GatewayInv' /\ EngineInv' /\ AttemptInv'
    BY EngineNext, AttemptNext
  <1>2. AttemptInv => AttemptsBounded
    BY DEF AttemptInv, ActionInv, AttemptsBounded
  <1> QED BY <1>1, <1>2, EngineInit, AttemptInit, PTL DEF WorkflowSpec

-----------------------------------------------------------------------------
(***************************************************************************)
(* What is left running. Under the deterministic engine no thread leaves   *)
(* while it reads that the workflow runs, and whoever makes it run goes on *)
(* to such a reading (CarryInv). Who makes an action run writes what came  *)
(* of it, unless others wrote on it meanwhile: those act on an approval,   *)
(* since without one an action has one thread at a time (RunningInv).      *)
(***************************************************************************)

(* Thread t has taken the action i on, and has yet to write what became of it. *)
Works(t, i) ==
  /\ w[t].step = i
  /\ \/ w[t].pc \in {"request", "sync", "fail", "retry_call", "reset"}
     \/ w[t].pc = "await" /\ w[t].task \in {"run", "retry"}

(* Thread t waits for the tool to run. *)
InTool(t) == At(t, "await") /\ th[t].pc \in RunPhase

(* Thread t has yet to look at the workflow, or to end it. *)
Carries(t) ==
  /\ ~At(t, "idle")
  /\ w[t].task \in {"run", "poll"} \/ w[t].pc \in {"resume", "load", "give_up"}

(* What a thread of the engine knows of the approval of its action. *)
HoldInv(t) ==
  LET l == w[t] IN
  /\ l.task \in {"poll", "decision"} => l.step \in gated
  /\ l.task = "cancel" => l.todo \subseteq gated
  /\ l.pc = "await" /\ l.task = "cancel" => th[t].at \in gated
  /\ l.pc \in {"sync", "notify", "notify_workflow"} =>
       /\ l.seen = "pending_approval" => l.step \in gated
       /\ l.seen = "running" => decision[l.step] = "approved"

(* What the answer of the gateway says of the approval of its execution. *)
AnswerInv(t) ==
  LET l == th[t] IN
  /\ l.pc = "link" => l.at \in gated
  /\ l.pc = "returned" /\ l.seen = "pending_approval" => l.at \in gated
  /\ l.pc = "returned" /\ l.seen = "running" => decision[l.at] = "approved"

(* An action that runs was approved, or has a thread that works on it; and *)
(* one thread at a time works on what needs no approval.                   *)
WorkInv(i) ==
  /\ act[i] = "waiting_for_approval" \/ status[i] = "pending_approval" => i \in gated
  /\ act[i] = "running" => decision[i] = "approved" \/ \E t \in Thread : Works(t, i)
  /\ i \notin gated =>
       /\ status[i] = "running" => \E t \in Thread : Works(t, i) /\ InTool(t)
       /\ \A t \in Thread : Works(t, i) =>
            /\ act[i] \in {"running", "cancelled"}
            /\ \A s \in Thread : Works(s, i) => s = t

(* A loop that is not the one after a cancellation, and writes that end. *)
LoopInv(t) ==
  LET l == w[t] IN
  /\ l.loop # "terminal"
  /\ l.pc = "poll" => l.task = "poll"
  /\ l.pc \in {"notify", "notify_workflow"} => l.task = "decision"
  /\ l.pc = "reset" => l.task = "retry"
  /\ l.pc \in {"sync", "fail", "reload", "mark"} => l.task \in {"run", "poll", "retry", "decision"}
  /\ l.pc = "mark" /\ l.task \in {"retry", "decision"} => l.seen # "completed"

CarryInv ==
  /\ authority[Owner] = "scoped"
  /\ \A t \in Thread : LoopInv(t)
  /\ workflow = "running" => \E t \in Thread : Carries(t)

RunningInv == (\A t \in Thread : HoldInv(t) /\ AnswerInv(t)) /\ \A i \in Step : WorkInv(i)

(* The other locals of the thread are as they were. *)
Keeps(t) ==
  /\ Others(t)
  /\ w'[t].task = w[t].task /\ w'[t].step = w[t].step
  /\ w'[t].todo = w[t].todo /\ w'[t].loop = w[t].loop

(* The moves of a thread, with all of its locals. *)
LEMMA MovesKeep ==
  ASSUME w \in [Thread -> WorkflowLocal], NEW t \in Thread
  PROVE  /\ Leave(t) => Others(t) /\ w'[t] = Unoccupied
         /\ \A p \in WorkflowPhase : To(t, p) => Keeps(t) /\ w'[t].pc = p /\ w'[t].seen = w[t].seen
         /\ \A p \in WorkflowPhase, s \in ExecutionStatus \cup ActionStatus \cup {"error"} :
              Learn(t, p, s) => Keeps(t) /\ w'[t].pc = p /\ w'[t].seen = s
         /\ \A o \in Loop, n \in 0 .. MaxAdvances, a \in BOOLEAN :
              Turn(t, o, n, a) =>
                /\ Others(t) /\ w'[t].pc = "advance" /\ w'[t].task = "run" /\ w'[t].loop = o
                /\ w'[t].step = None /\ w'[t].todo = {}
         /\ \A p \in WorkflowPhase, k \in Task, i \in Step \cup {None} :
              Enter(t, p, k, i) =>
                /\ Others(t) /\ w'[t].pc = p /\ w'[t].task = k /\ w'[t].step = i
                /\ w'[t].loop = "none" /\ w'[t].todo = {}
  <1>1. Leave(t) => Others(t) /\ w'[t] = Unoccupied
    BY LeaveMoves DEF Leave
  <1>2. ASSUME NEW p \in WorkflowPhase, To(t, p)
        PROVE  Keeps(t) /\ w'[t].pc = p /\ w'[t].seen = w[t].seen
    BY <1>2 DEF To, Keeps, Others, WorkflowLocal
  <1>3. ASSUME NEW p \in WorkflowPhase, NEW s \in ExecutionStatus \cup ActionStatus \cup {"error"},
               Learn(t, p, s)
        PROVE  Keeps(t) /\ w'[t].pc = p /\ w'[t].seen = s
    BY <1>3 DEF Learn, Keeps, Others, WorkflowLocal
  <1>4. ASSUME NEW o \in Loop, NEW n \in 0 .. MaxAdvances, NEW a \in BOOLEAN, Turn(t, o, n, a)
        PROVE  /\ Others(t) /\ w'[t].pc = "advance" /\ w'[t].task = "run" /\ w'[t].loop = o
               /\ w'[t].step = None /\ w'[t].todo = {}
    <2>1. Others(t)
      BY <1>4, TurnMoves
    <2>2. w'[t] = [Unoccupied EXCEPT !.pc = "advance", !.task = "run", !.loop = o, !.left = n,
                                     !.scoped = a]
      BY <1>4 DEF Turn
    <2> QED BY <2>1, <2>2 DEF Unoccupied
  <1>5. ASSUME NEW p \in WorkflowPhase, NEW k \in Task, NEW i \in Step \cup {None}, Enter(t, p, k, i)
        PROVE  /\ Others(t) /\ w'[t].pc = p /\ w'[t].task = k /\ w'[t].step = i
               /\ w'[t].loop = "none" /\ w'[t].todo = {}
    <2>1. Others(t)
      BY <1>5, EnterMoves
    <2>2. w'[t] = [Unoccupied EXCEPT !.pc = p, !.task = k, !.step = i]
      BY <1>5 DEF Enter
    <2> QED BY <2>1, <2>2 DEF Unoccupied
  <1> QED BY <1>1, <1>2, <1>3, <1>4, <1>5

(* A step of thread t, which is left with a thread that carries on. *)
LEMMA CarryStep ==
  ASSUME CarryInv, NEW t \in Thread, Others(t), UNCHANGED authority, LoopInv(t)',
         workflow' # "running" \/ Carries(t)' \/ (workflow = "running" /\ ~Carries(t))
  PROVE  CarryInv'
  <1>1. \A s \in Thread \ {t} : (LoopInv(s) => LoopInv(s)') /\ (Carries(s) => Carries(s)')
    BY DEF Others, LoopInv, Carries, At
  <1>2. \A s \in Thread : LoopInv(s)'
    BY <1>1 DEF CarryInv
  <1>3. workflow' = "running" => \E s \in Thread : Carries(s)'
    BY <1>1 DEF CarryInv
  <1> QED BY <1>2, <1>3 DEF CarryInv

(* What the steps of a thread find. *)
LEMMA CarryTypes ==
  ASSUME EngineInv, CarryInv, NEW t \in Thread
  PROVE  /\ w \in [Thread -> WorkflowLocal] /\ HandlerInv(t) /\ LoopInv(t)
         /\ authority[Owner] = "scoped"
         /\ w[t].scoped \in BOOLEAN /\ InScope \in BOOLEAN /\ Engine \in Loop
         /\ MaxAdvances \in 0 .. MaxAdvances
  BY EngineTypes, WorkflowAssumption DEF CarryInv, WorkflowLocal, InScope, Loop

(* The loop of the deterministic engine: it leaves no workflow that runs. *)
LEMMA LoopCarry ==
  ASSUME Engine = "deterministic", EngineInv, CarryInv, NEW t \in Thread,
         \/ RunWorkflow(t) \/ LoadWorkflow(t) \/ Advance(t) \/ MarkRunning(t)
         \/ CompleteWorkflow(t) \/ CheckWorkflow(t) \/ GiveUp(t) \/ ResumeWorkflow(t)
  PROVE  CarryInv'
  <1>1. /\ w \in [Thread -> WorkflowLocal] /\ HandlerInv(t) /\ LoopInv(t)
        /\ authority[Owner] = "scoped"
        /\ w[t].scoped \in BOOLEAN /\ InScope \in BOOLEAN /\ Engine \in Loop
        /\ MaxAdvances \in 0 .. MaxAdvances /\ UNCHANGED authority
    BY CarryTypes DEF RunWorkflow, LoadWorkflow, Advance, MarkRunning, CompleteWorkflow,
                      CheckWorkflow, GiveUp, ResumeWorkflow, gatewayVars
  <1>2. CASE Leave(t) /\ workflow' # "running"
    BY <1>1, <1>2, MovesKeep, CarryStep DEF LoopInv, Unoccupied
  <1>3. ASSUME NEW p \in {"start", "pick", "check", "load", "give_up"}, To(t, p),
               p \in {"start", "pick", "check"} => w[t].task \in {"run", "poll"}
        PROVE  CarryInv'
    <2>1. Keeps(t) /\ w'[t].pc = p
      BY <1>1, <1>3, MovesKeep DEF WorkflowPhase
    <2>2. LoopInv(t)' /\ Carries(t)'
      BY <1>1, <1>3, <2>1 DEF Keeps, LoopInv, Carries, At
    <2> QED BY <1>1, <2>1, <2>2, CarryStep DEF Keeps
  <1>4. ASSUME NEW o \in Loop \ {"terminal"}, NEW n \in 0 .. MaxAdvances, NEW a \in BOOLEAN,
               Turn(t, o, n, a)
        PROVE  CarryInv'
    <2>1. Others(t) /\ w'[t].pc = "advance" /\ w'[t].task = "run" /\ w'[t].loop = o
      BY <1>1, <1>4, MovesKeep
    <2>2. LoopInv(t)' /\ Carries(t)'
      BY <2>1 DEF LoopInv, Carries, At
    <2> QED BY <1>1, <2>1, <2>2, CarryStep
  <1>5. CASE RunWorkflow(t)
    <2>1. Others(t) /\ w'[t].pc = "load" /\ w'[t].task = "run" /\ w'[t].loop = "none"
      BY <1>1, <1>5, MovesKeep DEF RunWorkflow, WorkflowPhase, Task
    <2>2. LoopInv(t)' /\ Carries(t)'
      BY <2>1 DEF LoopInv, Carries, At
    <2> QED BY <1>1, <2>1, <2>2, CarryStep
  <1>6. CASE LoadWorkflow(t)
    BY <1>1, <1>2, <1>3, <1>4, <1>6 DEF LoadWorkflow, workflowVars, Ended
  <1>7. CASE Advance(t)
    BY <1>1, <1>2, <1>3, <1>7 DEF Advance, At, HandlerInv, workflowVars, Ended
  <1>8. CASE MarkRunning(t) \/ CompleteWorkflow(t)
    BY <1>1, <1>3, <1>8 DEF MarkRunning, CompleteWorkflow, At, HandlerInv
  <1>9. CASE CheckWorkflow(t)
    <2>1. w[t].task \in {"run", "poll"} /\ w[t].pc = "check"
      BY <1>1, <1>9 DEF HandlerInv, CheckWorkflow, At
    <2>2. RoundsAfter(w[t].left) \in 0 .. MaxAdvances /\ w[t].loop \in Loop \ {"terminal"}
      BY <1>1, <2>1, RoundsLeft, WorkflowAssumption DEF RoundsAfter, LoopInv, WorkflowLocal
    <2>3. CASE LeaveLoop(t)
      BY <1>1, <1>3, <1>4, <2>2, <2>3 DEF LeaveLoop, Loop
    <2> QED BY <1>1, <1>2, <1>4, <1>9, <2>2, <2>3 DEF CheckWorkflow, workflowVars
  <1>10. CASE GiveUp(t)
    BY <1>2, <1>10 DEF GiveUp, SetWorkflow
  <1>11. CASE ResumeWorkflow(t)
    BY <1>3, <1>11 DEF ResumeWorkflow
  <1> QED BY <1>5, <1>6, <1>7, <1>8, <1>9, <1>10, <1>11

(* The steps of a thread that carries nothing, or goes on carrying. *)
LEMMA OnCarry ==
  ASSUME EngineInv, CarryInv, NEW t \in Thread, Keeps(t) \/ Leave(t), UNCHANGED authority,
         LoopInv(t)' \/ w'[t].pc \notin {"poll", "notify", "notify_workflow", "reset", "sync", "fail",
                                         "reload", "mark"},
         workflow' = workflow \/ workflow' # "running",
         w[t].pc \notin {"resume", "load", "give_up"},
         w[t].task \notin {"run", "poll"} \/ (Keeps(t) /\ w'[t].pc # "idle")
  PROVE  CarryInv'
  <1>1. /\ w \in [Thread -> WorkflowLocal] /\ HandlerInv(t) /\ LoopInv(t)
    BY CarryTypes
  <1>2. Others(t) /\ (Keeps(t) \/ w'[t] = Unoccupied)
    BY <1>1, MovesKeep DEF Keeps
  <1>3. LoopInv(t)'
    BY <1>1, <1>2 DEF Keeps, LoopInv, Unoccupied
  <1>4. workflow' # "running" \/ Carries(t)' \/ (workflow = "running" /\ ~Carries(t))
    BY <1>1, <1>2 DEF Keeps, Carries, At
  <1> QED BY <1>2, <1>3, <1>4, CarryStep

(* The action that the loop turns to. *)
LEMMA PickCarry ==
  ASSUME EngineInv, CarryInv, NEW t \in Thread, PickAction(t)
  PROVE  CarryInv'
  <1> DEFINE open == {i \in Step : Open(i)}
             i == Min(open)
             k == IF act[i] = "waiting_for_approval" THEN "poll" ELSE "run"
             p == CASE act[i] = "waiting_for_approval" -> "poll"
                    [] act[i] = "pending" -> "claim"
                    [] OTHER -> "mark"
  <1>1. /\ w \in [Thread -> WorkflowLocal] /\ HandlerInv(t) /\ LoopInv(t)
        /\ w[t].pc = "pick" /\ w[t].task \in {"run", "poll"} /\ UNCHANGED <<authority, workflow>>
    BY CarryTypes DEF PickAction, At, HandlerInv, gatewayVars, workflowVars
  <1>2. CASE open = {}
    <2>1. To(t, "complete")
      BY <1>2 DEF PickAction
    <2>2. Keeps(t) /\ w'[t].pc = "complete"
      BY <1>1, <2>1, MovesKeep DEF WorkflowPhase
    <2> QED BY <1>1, <2>2, OnCarry
  <1>3. CASE open # {}
    <2>1. w' = [w EXCEPT ![t].step = i, ![t].seen = act[i], ![t].task = k, ![t].pc = p]
      BY <1>3 DEF PickAction
    <2>2. k \in {"run", "poll"} /\ p \in {"poll", "claim", "mark"} /\ (p = "poll" => k = "poll")
      OBVIOUS
    <2> HIDE DEF i, k, p
    <2>3. /\ w'[t].pc = p /\ w'[t].task = k /\ w'[t].loop = w[t].loop
          /\ \A s \in Thread \ {t} : w'[s] = w[s]
      BY <1>1, <2>1 DEF WorkflowLocal
    <2>4. Others(t)
      BY <2>3, PickActionInv DEF Others, EngineInv, WorkflowTypeOK
    <2>5. LoopInv(t)' /\ Carries(t)'
      BY <1>1, <2>2, <2>3 DEF LoopInv, Carries, At
    <2> QED BY <1>1, <2>4, <2>5, CarryStep
  <1> QED BY <1>2, <1>3

(* Executions, actions and what threads have seen of them, with their types. *)
LEMMA SeenTypes ==
  ASSUME GatewayInv, EngineInv, NEW t \in Thread
  PROVE  /\ w[t].step \in Step => status[w[t].step] \in ExecutionStatus /\ act[w[t].step] \in ActionStatus
         /\ th[t].seen \in ExecutionStatus \cup {"error", None}
         /\ th[t].pc = "returned" => th[t].seen \in ExecutionStatus \cup {"error"}
  <1>1. th[t] \in Local /\ status \in [Execution -> ExecutionStatus] /\ PhaseInv(t)
    BY DEF GatewayInv, GatewayTypeOK, ThreadInv
  <1>2. Step = Execution /\ act \in [Step -> ActionStatus]
    BY PlanType, EngineTypes
  <1> QED BY <1>1, <1>2 DEF Local, PhaseInv

(* The steps that deal with an action. *)
LEMMA ActionCarry ==
  ASSUME GatewayInv, EngineInv, CarryInv, NEW t \in Thread,
         \/ PollExecution(t) \/ ClaimAction(t) \/ SyncAction(t) \/ FailAction(t)
         \/ ClaimRetry(t) \/ ResetAction(t) \/ NotifyAction(t) \/ NotifyWorkflow(t)
  PROVE  CarryInv'
  <1>1. /\ w \in [Thread -> WorkflowLocal] /\ HandlerInv(t) /\ LoopInv(t)
        /\ UNCHANGED <<authority, workflow>>
    BY CarryTypes DEF PollExecution, ClaimAction, SyncAction, FailAction, ClaimRetry, ResetAction,
                      NotifyAction, NotifyWorkflow, gatewayVars, workflowVars
  <1>2. w[t].pc \in StepPhase /\ w[t].step \in Step
    BY <1>1 DEF PollExecution, ClaimAction, SyncAction, FailAction, ClaimRetry, ResetAction,
                NotifyAction, NotifyWorkflow, At, HandlerInv, StepPhase
  <1>3. CASE Leave(t) /\ w[t].task \notin {"run", "poll"}
    BY <1>1, <1>2, <1>3, MovesKeep, OnCarry DEF Unoccupied, StepPhase
  <1>4. ASSUME NEW p \in {"sync", "fail", "reload", "retry_call", "reset", "request", "notify_workflow"},
               To(t, p) \/ \E s \in ExecutionStatus \cup ActionStatus \cup {"error"} : Learn(t, p, s),
               LoopInv(t) /\ Keeps(t) /\ w'[t].pc = p => LoopInv(t)'
        PROVE  CarryInv'
    <2>1. Keeps(t) /\ w'[t].pc = p
      BY <1>1, <1>4, MovesKeep DEF WorkflowPhase
    <2> QED BY <1>1, <1>2, <1>4, <2>1, OnCarry DEF StepPhase
  <1>5. CASE PollExecution(t)
    <2>1. Learn(t, "sync", status[w[t].step]) /\ w[t].task = "poll"
      BY <1>1, <1>5 DEF PollExecution, At, LoopInv
    <2> QED BY <1>2, <1>4, <2>1, SeenTypes DEF LoopInv, Keeps
  <1>6. CASE ClaimAction(t)
    <2>1. w[t].task = "run"
      BY <1>1, <1>6 DEF ClaimAction, At, HandlerInv
    <2> QED BY <1>4, <1>6, <2>1 DEF ClaimAction, LoopInv, Keeps
  <1>7. CASE SyncAction(t)
    BY <1>4, <1>7 DEF SyncAction, LoopInv, Keeps, At
  <1>8. CASE FailAction(t)
    BY <1>4, <1>8 DEF FailAction, LoopInv, Keeps, At
  <1>9. CASE ClaimRetry(t)
    <2>1. w[t].task = "retry"
      BY <1>1, <1>9 DEF ClaimRetry, At, HandlerInv
    <2> QED BY <1>3, <1>4, <1>9, <2>1 DEF ClaimRetry, LoopInv, Keeps
  <1>10. CASE ResetAction(t)
    <2>1. Learn(t, "mark", "failed") /\ w[t].task = "retry"
      BY <1>1, <1>10 DEF ResetAction, At, LoopInv
    <2>2. Keeps(t) /\ w'[t].pc = "mark" /\ w'[t].seen = "failed"
      BY <1>1, <2>1, MovesKeep DEF WorkflowPhase, ActionStatus
    <2> QED BY <1>1, <1>2, <2>1, <2>2, OnCarry DEF StepPhase, LoopInv, Keeps
  <1>11. CASE NotifyAction(t) \/ NotifyWorkflow(t)
    <2>1. w[t].task = "decision"
      BY <1>1, <1>11 DEF NotifyAction, NotifyWorkflow, At, LoopInv
    <2> QED BY <1>3, <1>4, <1>11, <2>1 DEF NotifyAction, NotifyWorkflow, LoopInv, Keeps
  <1> QED BY <1>5, <1>6, <1>7, <1>8, <1>9, <1>10, <1>11

(* After the action has been read again, and the workflow marked. *)
LEMMA MarkCarry ==
  ASSUME GatewayInv, EngineInv, CarryInv, NEW t \in Thread, ReloadAction(t) \/ MarkWorkflow(t)
  PROVE  CarryInv'
  <1>1. /\ w \in [Thread -> WorkflowLocal] /\ HandlerInv(t) /\ LoopInv(t)
        /\ UNCHANGED authority /\ authority[Owner] = "scoped"
    BY CarryTypes DEF ReloadAction, MarkWorkflow, gatewayVars
  <1>2. CASE ReloadAction(t)
    <2> DEFINE s == act[w[t].step]
    <2>1. s \in ActionStatus /\ w[t].pc = "reload" /\ workflow' = workflow
      BY <1>1, <1>2, SeenTypes DEF ReloadAction, At, HandlerInv, StepPhase, workflowVars
    <2>2. CASE w[t].task = "poll" /\ s = "pending"
      <3>1. w' = [w EXCEPT ![t].pc = "claim", ![t].task = "run", ![t].seen = s]
        BY <1>2, <2>2 DEF ReloadAction
      <3>2. w'[t].pc = "claim" /\ w'[t].task = "run" /\ w'[t].loop = w[t].loop
        BY <1>1, <3>1 DEF WorkflowLocal
      <3>3. Others(t)
        BY <1>2, <3>1, ReloadActionInv DEF Others, EngineInv, WorkflowTypeOK
      <3>4. LoopInv(t)' /\ Carries(t)'
        BY <1>1, <3>2 DEF LoopInv, Carries, At
      <3> QED BY <1>1, <3>3, <3>4, CarryStep
    <2>3. CASE To(t, "resume") /\ w[t].task \in {"retry", "decision"}
      <3>1. Keeps(t) /\ w'[t].pc = "resume"
        BY <1>1, <2>3, MovesKeep DEF WorkflowPhase
      <3> QED BY <1>1, <2>1, <2>3, <3>1, OnCarry
    <2>4. CASE Learn(t, "mark", s) /\ ~(w[t].task \in {"retry", "decision"} /\ s = "completed")
      <3>1. Keeps(t) /\ w'[t].pc = "mark" /\ w'[t].seen = s
        BY <1>1, <2>1, <2>4, MovesKeep DEF WorkflowPhase
      <3> QED BY <1>1, <2>1, <2>4, <3>1, OnCarry DEF LoopInv, Keeps
    <2> QED BY <1>1, <1>2, <2>2, <2>3, <2>4 DEF ReloadAction
  <1>3. CASE MarkWorkflow(t)
    <2>1. w[t].pc = "mark" /\ workflow' = Marks(w[t].task, w[t].seen)
      BY <1>3 DEF MarkWorkflow, SetWorkflow, At
    <2>2. CASE w[t].task \in {"run", "poll"}
      <3>1. Keeps(t) /\ w'[t].pc = "check"
        BY <1>1, <1>3, <2>2, MovesKeep DEF MarkWorkflow, WorkflowPhase
      <3>2. LoopInv(t)' /\ Carries(t)'
        BY <1>1, <2>2, <3>1 DEF Keeps, LoopInv, Carries, At
      <3> QED BY <1>1, <3>1, <3>2, CarryStep DEF Keeps
    <2>3. CASE w[t].task \notin {"run", "poll"}
      <3>1. workflow' = workflow \/ workflow' # "running"
        BY <1>1, <2>1, <2>3 DEF Marks, LoopInv
      <3>2. Leave(t) /\ w'[t].pc = "idle"
        BY <1>1, <1>3, <2>3, MovesKeep DEF MarkWorkflow, Unoccupied
      <3> QED BY <1>1, <2>1, <2>3, <3>1, <3>2, OnCarry
    <2> QED BY <2>2, <2>3
  <1> QED BY <1>2, <1>3

(* The gateway leaves the authorities alone. *)
LEMMA AuthorityFrame ==
  ASSUME NEW t \in Thread,
         \/ Continue(t) \/ Respond(t)
         \/ \E e, u, c : RequestExecution(t, e, u, c) \/ Decide(t, e, u, c)
         \/ \E e, u : RetryExecution(t, e, u) \/ CancelForExecution(t, e, u)
  PROVE  UNCHANGED authority
  BY DEF Continue, RunStep, Respond, RequestExecution, Decide, RetryExecution, CancelForExecution,
         InsertExecution, CreateApproval, LinkApproval, DecideUpdate, ApplyApproval, Authorize,
         WriteStatus, CancelExecution, RunQuery, LookupTask, InsertTask, LookupReceipt, AccessToken,
         InsertReceipt, CallProvider, SettleReceipt, FinishRun, FailRun, RereadExecution

(* The calls of the gateway. *)
LEMMA CallCarry ==
  ASSUME GatewayInv, EngineInv, CarryInv, NEW t \in Thread,
         RequestAction(t) \/ RetryAction(t) \/ TakeResult(t) \/ GatewayStep(t)
  PROVE  CarryInv'
  <1>1. /\ w \in [Thread -> WorkflowLocal] /\ HandlerInv(t) /\ LoopInv(t)
        /\ UNCHANGED <<authority, workflow>>
    BY CarryTypes, AuthorityFrame
    DEF RequestAction, RetryAction, TakeResult, GatewayStep, gatewayVars, workflowVars
  <1>2. w[t].pc \in {"request", "retry_call", "await"}
    BY DEF RequestAction, RetryAction, TakeResult, GatewayStep, At
  <1>3. ASSUME NEW p \in {"await", "fail", "cancel_next"}, To(t, p),
               p = "fail" => w[t].task \in {"run", "retry"}
        PROVE  CarryInv'
    <2>1. Keeps(t) /\ w'[t].pc = p
      BY <1>1, <1>3, MovesKeep DEF WorkflowPhase
    <2> QED BY <1>1, <1>2, <1>3, <2>1, OnCarry DEF LoopInv, Keeps
  <1>4. ASSUME NEW p \in {"sync", "notify"}, NEW s \in ExecutionStatus \cup {"error"}, Learn(t, p, s),
               p = "sync" => w[t].task \in {"run", "retry"},
               p = "notify" => w[t].task = "decision"
        PROVE  CarryInv'
    <2>1. Keeps(t) /\ w'[t].pc = p
      BY <1>1, <1>4, MovesKeep DEF WorkflowPhase
    <2> QED BY <1>1, <1>2, <1>4, <2>1, OnCarry DEF LoopInv, Keeps
  <1>5. CASE RequestAction(t) \/ RetryAction(t)
    BY <1>1, <1>3, <1>5 DEF RequestAction, RetryAction, At, HandlerInv
  <1>6. CASE TakeResult(t)
    <2>1. th[t].seen \in ExecutionStatus \cup {"error"}
      BY <1>6, SeenTypes DEF TakeResult, Respond
    <2>2. w[t].task \in {"run", "retry", "decision", "cancel"}
      BY <1>1, <1>6 DEF TakeResult, At, HandlerInv
    <2> QED BY <1>3, <1>4, <1>6, <2>1, <2>2 DEF TakeResult
  <1>7. CASE GatewayStep(t)
    <2>1. Keeps(t) /\ w'[t].pc = "await"
      BY <1>1, <1>7 DEF GatewayStep, Keeps, Others, At
    <2> QED BY <1>1, <1>2, <2>1, OnCarry
  <1> QED BY <1>5, <1>6, <1>7

(* A decision, a retry and a cancellation; the latter ends the workflow. *)
LEMMA ServeCarry ==
  ASSUME Engine = "deterministic", GatewayInv, EngineInv, CarryInv, NEW t \in Thread,
         \/ RetryWorkflow(t) \/ CancelWorkflow(t) \/ DecideAction(t)
         \/ CancelNext(t) \/ CancelActions(t) \/ CancelStatus(t)
  PROVE  CarryInv'
  <1>1. /\ w \in [Thread -> WorkflowLocal] /\ HandlerInv(t) /\ LoopInv(t) /\ UNCHANGED authority
    BY CarryTypes, AuthorityFrame DEF RetryWorkflow, CancelWorkflow, DecideAction, CancelNext,
         CancelActions, CancelStatus, gatewayVars
  <1>2. Others(t)
    <2>1. EngineInv'
      BY RetryWorkflowInv, CancelWorkflowInv, DecideActionInv, CancelNextInv, CancelInv
    <2>2. \A s \in Thread \ {t} : w'[s] = w[s]
      BY <1>1 DEF RetryWorkflow, CancelWorkflow, DecideAction, CancelNext, CancelActions, CancelStatus,
                  Enter, To, Leave, Turn
    <2> QED BY <2>1, <2>2 DEF Others, EngineInv, WorkflowTypeOK
  <1>3. ASSUME w'[t].loop = "none", w'[t].pc \in {"retry_claim", "cancel_next", "await"},
               w[t].pc = "idle", workflow' = workflow
        PROVE  CarryInv'
    <2>1. LoopInv(t)' /\ ~Carries(t)
      BY <1>3 DEF LoopInv, Carries, At
    <2> QED BY <1>1, <1>2, <1>3, <2>1, CarryStep
  <1>4. CASE RetryWorkflow(t)
    BY <1>1, <1>3, <1>4 DEF RetryWorkflow, Free, At, workflowVars, Unoccupied
  <1>5. CASE CancelWorkflow(t)
    BY <1>1, <1>3, <1>5 DEF CancelWorkflow, Free, At, workflowVars, Unoccupied
  <1>6. CASE DecideAction(t)
    <2>1. PICK i \in Step : Enter(t, "await", "decision", i)
      BY <1>6 DEF DecideAction
    <2>2. w'[t].loop = "none" /\ w'[t].pc = "await"
      BY <1>1, <2>1, MovesKeep DEF WorkflowPhase, Task
    <2> QED BY <1>3, <1>6, <2>2 DEF DecideAction, At, workflowVars
  <1>7. CASE CancelNext(t)
    <2>1. w[t].pc = "cancel_next" /\ w[t].task = "cancel" /\ workflow' = workflow
      BY <1>1, <1>7 DEF CancelNext, At, HandlerInv, workflowVars
    <2>2. w'[t].pc \in {"await", "cancel_actions"} /\ w'[t].loop = w[t].loop
      BY <1>1, <1>7 DEF CancelNext, To, WorkflowLocal
    <2>3. LoopInv(t)' /\ ~Carries(t)
      BY <1>1, <2>1, <2>2 DEF LoopInv, Carries, At
    <2> QED BY <1>1, <1>2, <2>1, <2>3, CarryStep
  <1>8. CASE CancelActions(t)
    <2>1. To(t, "cancel_workflow") /\ w[t].pc = "cancel_actions" /\ workflow' = workflow
      BY <1>8 DEF CancelActions, At
    <2>2. Keeps(t) /\ w'[t].pc = "cancel_workflow"
      BY <1>1, <2>1, MovesKeep DEF WorkflowPhase
    <2> QED BY <1>1, <2>1, <2>2, OnCarry
  <1>9. CASE CancelStatus(t)
    <2>1. Leave(t) /\ workflow' = "cancelled"
      BY <1>9 DEF CancelStatus, SetWorkflow
    <2>2. LoopInv(t)'
      BY <1>1, <2>1, MovesKeep DEF LoopInv, Unoccupied
    <2> QED BY <1>1, <1>2, <2>1, <2>2, CarryStep
  <1> QED BY <1>4, <1>5, <1>6, <1>7, <1>8, <1>9

(* Every step without a crash keeps a thread with a workflow that runs. *)
LEMMA CarryNext ==
  ASSUME Engine = "deterministic", GatewayInv, EngineInv, CarryInv, [CalmNext]_engineVars
  PROVE  CarryInv'
  <1>1. ASSUME NEW t \in Thread, Proceed(t) PROVE CarryInv'
    BY <1>1, LoopCarry, PickCarry, ActionCarry, MarkCarry, CallCarry, ServeCarry
    DEF Proceed, EngineStep
  <1>2. ASSUME NEW t \in Thread, Serve(t) PROVE CarryInv'
    BY <1>2, LoopCarry, ServeCarry DEF Serve
  <1>3. CASE UNCHANGED engineVars
    BY <1>3 DEF engineVars, gatewayVars, workflowVars, CarryInv, LoopInv, Carries, At
  <1> QED BY <1>1, <1>2, <1>3 DEF CalmNext

(* At the start nothing runs. *)
LEMMA CarryInit == WorkflowInit => CarryInv
  BY PlanType DEF WorkflowInit, GatewayInit, CarryInv, LoopInv, Unoccupied

(* A step of thread t deals with the action i: the thread takes it on, works *)
(* on it still, or writes what became of it.                                 *)
Dealt(t, i) ==
  /\ act'[i] = "waiting_for_approval" => act[i] = "waiting_for_approval" \/ i \in gated
  /\ act'[i] = "running" =>
       decision[i] = "approved" \/ Works(t, i)' \/ (act[i] = "running" /\ ~Works(t, i))
  /\ i \notin gated =>
       \/ Works(t, i)' /\ act'[i] \in {"running", "cancelled"}
            /\ (Works(t, i) \/ act[i] \notin {"running", "cancelled"})
       \/ ~Works(t, i)' /\ (Works(t, i) \/ act'[i] = act[i] \/ act'[i] = "cancelled")

(* An approval stays what it is for as long as a thread may hold it. *)
LEMMA ApprovedStays ==
  ASSUME GatewayInv, [GatewayNext]_gatewayVars, NEW e \in Execution, decision[e] = "approved"
  PROVE  decision'[e] = "approved"
  BY DecisionStep

(* The other threads know what they knew. *)
LEMMA OthersHold ==
  ASSUME GatewayInv, EngineInv, RunningInv, [GatewayNext]_gatewayVars, gated \subseteq gated',
         NEW t \in Thread, Others(t), NEW s \in Thread \ {t}, th'[s] = th[s]
  PROVE  HoldInv(s)' /\ AnswerInv(s)'
  <1>1. HoldInv(s) /\ AnswerInv(s) /\ HandlerInv(s) /\ w'[s] = w[s] /\ th'[s] = th[s]
    BY EngineTypes DEF RunningInv, Others
  <1>2. w[s].pc \in {"sync", "notify", "notify_workflow"} => w[s].step \in Execution
    BY <1>1, PlanType DEF HandlerInv, StepPhase
  <1>3. th[s].pc = "returned" => th[s].at \in Execution
    BY DEF GatewayInv, GatewayTypeOK
  <1>4. PICK i : i = w[s].step
    OBVIOUS
  <1>5. PICK e : e = th[s].at
    OBVIOUS
  <1>6. HoldInv(s)'
    BY <1>1, <1>2, <1>4, <1>5, ApprovedStays DEF HoldInv
  <1>7. AnswerInv(s)'
    BY <1>1, <1>3, <1>5, ApprovedStays DEF AnswerInv
  <1> QED BY <1>6, <1>7

(* A step that leaves the rows of the gateway alone, and is dealt with. *)
LEMMA WorkStep ==
  ASSUME GatewayInv, EngineInv, RunningInv, [GatewayNext]_gatewayVars, UNCHANGED <<status, gated>>,
         NEW t \in Thread, Others(t), \A s \in Thread \ {t} : th'[s] = th[s], ~InTool(t),
         HoldInv(t)', AnswerInv(t)', \A i \in Step : Dealt(t, i)
  PROVE  RunningInv'
  <1>1. \A s \in Thread : HoldInv(s)' /\ AnswerInv(s)'
    BY OthersHold
  <1>2. ASSUME NEW i \in Step PROVE WorkInv(i)'
    <2>1. Dealt(t, i) /\ WorkInv(i) /\ i \in Execution
      BY PlanType DEF RunningInv
    <2>2. \A s \in Thread \ {t} : /\ Works(s, i)' <=> Works(s, i)
                                  /\ InTool(s)' <=> InTool(s)
      BY DEF Works, InTool, At, Others
    <2>3. act'[i] = "waiting_for_approval" \/ status'[i] = "pending_approval" => i \in gated'
      BY <2>1 DEF Dealt, WorkInv
    <2>4. act'[i] = "running" => decision'[i] = "approved" \/ \E s \in Thread : Works(s, i)'
      <3>1. decision[i] = "approved" => decision'[i] = "approved"
        BY <2>1, ApprovedStays
      <3> QED BY <2>1, <2>2, <3>1 DEF Dealt, WorkInv
    <2>5. i \notin gated' /\ status'[i] = "running" => \E s \in Thread : Works(s, i)' /\ InTool(s)'
      BY <2>1, <2>2 DEF WorkInv
    <2>6. ASSUME i \notin gated', NEW s \in Thread, Works(s, i)'
          PROVE  /\ act'[i] \in {"running", "cancelled"}
                 /\ \A r \in Thread : Works(r, i)' => r = s
      <3>1. CASE Works(t, i)' /\ Works(t, i)
        BY <2>1, <2>2, <2>6, <3>1 DEF Dealt, WorkInv
      <3>2. CASE Works(t, i)' /\ ~Works(t, i)
        BY <2>1, <2>2, <2>6, <3>2 DEF Dealt, WorkInv
      <3>3. CASE ~Works(t, i)'
        BY <2>1, <2>2, <2>6, <3>3 DEF Dealt, WorkInv
      <3> QED BY <3>1, <3>2, <3>3
    <2> QED BY <2>3, <2>4, <2>5, <2>6 DEF WorkInv
  <1> QED BY <1>1, <1>2 DEF RunningInv

(* A step that changes no action, and takes on none but of those approved. *)
LEMMA PassStep ==
  ASSUME GatewayInv, EngineInv, RunningInv, [GatewayNext]_gatewayVars, UNCHANGED <<status, gated>>,
         NEW t \in Thread, Others(t), \A s \in Thread \ {t} : th'[s] = th[s], ~InTool(t),
         HoldInv(t)', AnswerInv(t)', UNCHANGED act,
         \A i \in Step : Works(t, i) => Works(t, i)',
         \A i \in Step : Works(t, i)' => i \in gated \/ Works(t, i)
  PROVE  RunningInv'
  <1>1. ASSUME NEW i \in Step PROVE Dealt(t, i)
    BY DEF Dealt, RunningInv, WorkInv
  <1> QED BY <1>1, WorkStep

(* A step in which the gateway does nothing. *)
LEMMA QuietStep ==
  ASSUME GatewayInv, EngineInv, RunningInv, UNCHANGED gatewayVars,
         NEW t \in Thread, Others(t), ~At(t, "await"), HoldInv(t)', \A i \in Step : Dealt(t, i)
  PROVE  RunningInv'
  <1>1. /\ [GatewayNext]_gatewayVars /\ UNCHANGED <<status, gated, decision, th>> /\ ~InTool(t)
        /\ \A s \in Thread \ {t} : th'[s] = th[s]
    BY DEF gatewayVars, InTool
  <1>2. AnswerInv(t)'
    BY <1>1 DEF RunningInv, AnswerInv
  <1> QED BY <1>1, <1>2, WorkStep

(* ... and no action is touched. *)
LEMMA IdleStep ==
  ASSUME GatewayInv, EngineInv, RunningInv, UNCHANGED gatewayVars, UNCHANGED act,
         NEW t \in Thread, Others(t), HoldInv(t)',
         w[t].pc \notin {"request", "sync", "fail", "retry_call", "reset", "await"},
         w'[t].pc \in {"sync", "await", "fail", "request", "retry_call", "reset"} => w'[t].step \in gated
  PROVE  RunningInv'
  <1>1. ~At(t, "await")
    BY DEF At
  <1>2. ASSUME NEW i \in Step PROVE Dealt(t, i)
    <2>1. ~Works(t, i) /\ (Works(t, i)' => i \in gated)
      BY DEF Works
    <2> QED BY <2>1 DEF Dealt
  <1> QED BY <1>1, <1>2, QuietStep

(* A thread that keeps its locals, and does not come to an answer, holds on. *)
LEMMA HoldOn ==
  ASSUME NEW t \in Thread, RunningInv, UNCHANGED gated, Keeps(t),
         w'[t].pc \notin {"await", "sync", "notify", "notify_workflow"}
  PROVE  HoldInv(t)'
  BY DEF RunningInv, HoldInv, Keeps

(* A thread that holds nothing. *)
LEMMA HoldNothing ==
  ASSUME NEW t \in Thread, w'[t].pc \notin {"await", "sync", "notify", "notify_workflow"},
         w'[t].task \notin {"poll", "decision", "cancel"}
  PROVE  HoldInv(t)'
  BY DEF HoldInv

(* What the steps of a thread find here. *)
LEMMA WorkTypes ==
  ASSUME GatewayInv, EngineInv, RunningInv, NEW t \in Thread
  PROVE  /\ w \in [Thread -> WorkflowLocal] /\ act \in [Step -> ActionStatus]
         /\ HandlerInv(t) /\ HoldInv(t) /\ AnswerInv(t) /\ Step = Execution
         /\ w[t].scoped \in BOOLEAN /\ InScope \in BOOLEAN /\ Engine \in Loop
         /\ MaxAdvances \in 0 .. MaxAdvances
         /\ w[t].pc \in StepPhase => w[t].step \in Step
  BY EngineTypes, PlanType, WorkflowAssumption
  DEF RunningInv, WorkflowLocal, InScope, Loop, HandlerInv

(* The loop around the actions. *)
LEMMA LoopWork ==
  ASSUME GatewayInv, EngineInv, RunningInv, NEW t \in Thread,
         \/ RunWorkflow(t) \/ LoadWorkflow(t) \/ Advance(t) \/ MarkRunning(t) \/ CompleteWorkflow(t)
         \/ MarkWorkflow(t) \/ CheckWorkflow(t) \/ GiveUp(t) \/ ResumeWorkflow(t) \/ CancelStatus(t)
  PROVE  RunningInv'
  <1>1. /\ w \in [Thread -> WorkflowLocal] /\ UNCHANGED gatewayVars /\ UNCHANGED act /\ HandlerInv(t)
        /\ w[t].scoped \in BOOLEAN /\ InScope \in BOOLEAN /\ Engine \in Loop
        /\ MaxAdvances \in 0 .. MaxAdvances /\ UNCHANGED gated
    BY WorkTypes
    DEF RunWorkflow, LoadWorkflow, Advance, MarkRunning, CompleteWorkflow, MarkWorkflow, CheckWorkflow,
        GiveUp, ResumeWorkflow, CancelStatus, SetWorkflow, workflowVars, gatewayVars
  <1>2. w[t].pc \in {"idle", "load", "advance", "start", "complete", "mark", "check", "give_up", "resume",
                     "cancel_workflow"}
    BY DEF RunWorkflow, LoadWorkflow, Advance, MarkRunning, CompleteWorkflow, MarkWorkflow,
           CheckWorkflow, GiveUp, ResumeWorkflow, CancelStatus, Free, At
  <1>3. CASE Leave(t)
    <2>1. Others(t) /\ w'[t].pc = "idle" /\ w'[t].task = "none"
      BY <1>1, <1>3, LeaveMoves
    <2> QED BY <1>1, <1>2, <2>1, HoldNothing, IdleStep
  <1>4. ASSUME NEW p \in {"start", "pick", "check", "load", "give_up"}, To(t, p) PROVE RunningInv'
    <2>1. Keeps(t) /\ w'[t].pc = p
      BY <1>1, <1>4, MovesKeep DEF WorkflowPhase
    <2> QED BY <1>1, <1>2, <2>1, HoldOn, IdleStep DEF Keeps
  <1>5. ASSUME NEW o \in Loop, NEW n \in 0 .. MaxAdvances, NEW a \in BOOLEAN, Turn(t, o, n, a)
        PROVE  RunningInv'
    <2>1. Others(t) /\ w'[t].pc = "advance" /\ w'[t].task = "run"
      BY <1>1, <1>5, MovesKeep
    <2> QED BY <1>1, <1>2, <2>1, HoldNothing, IdleStep
  <1>6. CASE RunWorkflow(t)
    <2>1. Others(t) /\ w'[t].pc = "load" /\ w'[t].task = "run"
      BY <1>1, <1>6, MovesKeep DEF RunWorkflow, WorkflowPhase, Task
    <2> QED BY <1>1, <1>2, <2>1, HoldNothing, IdleStep
  <1>7. CASE CheckWorkflow(t)
    <2>1. w[t].task \in {"run", "poll"} /\ w[t].pc = "check"
      BY <1>1, <1>7 DEF HandlerInv, CheckWorkflow, At
    <2>2. RoundsAfter(w[t].left) \in 0 .. MaxAdvances /\ w[t].loop \in Loop
      BY <1>1, <2>1, RoundsLeft, WorkflowAssumption DEF RoundsAfter, WorkflowLocal
    <2>3. LeaveLoop(t) => RunningInv'
      BY <1>1, <1>3, <1>4, <1>5 DEF LeaveLoop, Loop
    <2> QED BY <1>1, <1>3, <1>5, <1>7, <2>2, <2>3 DEF CheckWorkflow
  <1>8. CASE \/ LoadWorkflow(t) \/ Advance(t) \/ MarkRunning(t) \/ CompleteWorkflow(t)
             \/ MarkWorkflow(t) \/ GiveUp(t) \/ ResumeWorkflow(t) \/ CancelStatus(t)
    BY <1>1, <1>3, <1>4, <1>5, <1>8
    DEF LoadWorkflow, Advance, MarkRunning, CompleteWorkflow, MarkWorkflow, GiveUp, ResumeWorkflow,
        CancelStatus, Loop
  <1> QED BY <1>6, <1>7, <1>8

(* The action that the loop turns to: one that waits needs an approval. *)
LEMMA PickWork ==
  ASSUME GatewayInv, EngineInv, RunningInv, NEW t \in Thread, PickAction(t)
  PROVE  RunningInv'
  <1> DEFINE open == {i \in Step : Open(i)}
             i == Min(open)
             k == IF act[i] = "waiting_for_approval" THEN "poll" ELSE "run"
             p == CASE act[i] = "waiting_for_approval" -> "poll"
                    [] act[i] = "pending" -> "claim"
                    [] OTHER -> "mark"
  <1>1. /\ w \in [Thread -> WorkflowLocal] /\ UNCHANGED gatewayVars /\ UNCHANGED act
        /\ UNCHANGED gated /\ w[t].pc = "pick"
    BY WorkTypes DEF PickAction, workflowVars, gatewayVars, At
  <1>2. CASE open = {}
    <2>1. To(t, "complete")
      BY <1>2 DEF PickAction
    <2>2. Keeps(t) /\ w'[t].pc = "complete"
      BY <1>1, <2>1, MovesKeep DEF WorkflowPhase
    <2> QED BY <1>1, <2>2, HoldOn, IdleStep DEF Keeps
  <1>3. CASE open # {}
    <2>1. w' = [w EXCEPT ![t].step = i, ![t].seen = act[i], ![t].task = k, ![t].pc = p]
      BY <1>3 DEF PickAction
    <2>2. i \in Step
      BY <1>3, FirstOfSteps
    <2>3. p \in {"poll", "claim", "mark"} /\ k \in {"run", "poll"} /\ (k = "poll" => i \in gated)
      BY <2>2 DEF RunningInv, WorkInv
    <2> HIDE DEF i, k, p
    <2>4. w'[t].step = i /\ w'[t].pc = p /\ w'[t].task = k
      BY <1>1, <2>1 DEF WorkflowLocal
    <2>5. Others(t)
      BY <1>1, <2>1, PickActionInv DEF Others, EngineInv, WorkflowTypeOK
    <2>6. HoldInv(t)'
      BY <1>1, <2>3, <2>4 DEF HoldInv
    <2> QED BY <1>1, <2>3, <2>4, <2>5, <2>6, IdleStep
  <1> QED BY <1>2, <1>3

(* A row that reads running is that of an approved execution, for who is *)
(* not the one that runs it.                                             *)
LEMMA RunningApproved ==
  ASSUME GatewayInv, EngineInv, RunningInv, NEW t \in Thread, NEW i \in Step, status[i] = "running",
         i \in gated \/ (Works(t, i) /\ ~InTool(t))
  PROVE  decision[i] = "approved"
  <1>1. i \in Execution
    BY PlanType
  <1>2. i \in gated => decision[i] = "approved"
    BY <1>1 DEF GatewayInv, RowInv, MayRun
  <1>3. i \in gated
    BY DEF RunningInv, WorkInv
  <1> QED BY <1>2, <1>3

(* Reading the execution or the action, and following a decision. *)
LEMMA ReadWork ==
  ASSUME GatewayInv, EngineInv, CarryInv, RunningInv, NEW t \in Thread,
         PollExecution(t) \/ ReloadAction(t) \/ NotifyAction(t) \/ NotifyWorkflow(t)
  PROVE  RunningInv'
  <1> DEFINE i == w[t].step
  <1>1. /\ w \in [Thread -> WorkflowLocal] /\ UNCHANGED gatewayVars /\ UNCHANGED act
        /\ UNCHANGED <<gated, decision>> /\ i \in Step /\ HoldInv(t) /\ LoopInv(t)
        /\ w[t].pc \in {"poll", "reload", "notify", "notify_workflow"}
    BY WorkTypes DEF PollExecution, ReloadAction, NotifyAction, NotifyWorkflow, At, StepPhase,
                     workflowVars, gatewayVars, CarryInv
  <1>2. CASE Leave(t)
    <2>1. Others(t) /\ w'[t].pc = "idle" /\ w'[t].task = "none"
      BY <1>1, <1>2, LeaveMoves
    <2> QED BY <1>1, <2>1, HoldNothing, IdleStep
  <1>3. CASE PollExecution(t)
    <2>1. Learn(t, "sync", status[i]) /\ w[t].task = "poll"
      BY <1>1, <1>3 DEF PollExecution, At, LoopInv
    <2>2. Keeps(t) /\ w'[t].pc = "sync" /\ w'[t].seen = status[i] /\ i \in gated
      BY <1>1, <2>1, MovesKeep, SeenTypes DEF WorkflowPhase, HoldInv
    <2>3. status[i] = "running" => decision[i] = "approved"
      BY <1>1, <2>2, RunningApproved
    <2>4. HoldInv(t)'
      BY <1>1, <2>1, <2>2, <2>3 DEF HoldInv, Keeps
    <2> QED BY <1>1, <2>2, <2>4, IdleStep DEF Keeps
  <1>4. CASE ReloadAction(t)
    <2> DEFINE s == act[i]
    <2>1. s \in ActionStatus
      BY <1>1, WorkTypes
    <2>2. CASE w[t].task = "poll" /\ s = "pending"
      <3>1. w' = [w EXCEPT ![t].pc = "claim", ![t].task = "run", ![t].seen = s]
        BY <1>4, <2>2 DEF ReloadAction
      <3>2. w'[t].pc = "claim" /\ w'[t].task = "run"
        BY <1>1, <3>1 DEF WorkflowLocal
      <3>3. Others(t)
        BY <1>4, <3>1, ReloadActionInv DEF Others, EngineInv, WorkflowTypeOK
      <3> QED BY <1>1, <3>2, <3>3, HoldNothing, IdleStep
    <2>3. CASE To(t, "resume") \/ Learn(t, "mark", s)
      <3>1. Keeps(t) /\ w'[t].pc \in {"resume", "mark"}
        BY <1>1, <2>1, <2>3, MovesKeep DEF WorkflowPhase
      <3> QED BY <1>1, <3>1, HoldOn, IdleStep DEF Keeps
    <2> QED BY <1>2, <1>4, <2>2, <2>3 DEF ReloadAction
  <1>5. CASE NotifyAction(t) \/ NotifyWorkflow(t)
    <2>1. ASSUME NEW p \in {"notify_workflow", "sync"}, To(t, p) PROVE RunningInv'
      <3>1. Keeps(t) /\ w'[t].pc = p /\ w'[t].seen = w[t].seen
        BY <1>1, <2>1, MovesKeep DEF WorkflowPhase
      <3>2. w[t].pc \in {"notify", "notify_workflow"} /\ w[t].task = "decision"
        BY <1>1, <1>5 DEF NotifyAction, NotifyWorkflow, At, LoopInv
      <3>3. HoldInv(t)'
        BY <1>1, <3>1, <3>2 DEF HoldInv, Keeps
      <3> QED BY <1>1, <3>1, <3>2, <3>3, IdleStep DEF Keeps, HoldInv
    <2> QED BY <1>2, <1>5, <2>1 DEF NotifyAction, NotifyWorkflow
  <1> QED BY <1>3, <1>4, <1>5

(* An action is claimed by one thread, and by none that works on it. *)
LEMMA ClaimWork ==
  ASSUME GatewayInv, EngineInv, RunningInv, NEW t \in Thread, ClaimAction(t) \/ ClaimRetry(t)
  PROVE  RunningInv'
  <1> DEFINE i == w[t].step
  <1>1. /\ w \in [Thread -> WorkflowLocal] /\ act \in [Step -> ActionStatus] /\ UNCHANGED gatewayVars
        /\ UNCHANGED gated /\ i \in Step /\ HandlerInv(t)
        /\ w[t].pc \in {"claim", "retry_claim"} /\ w[t].task \in {"run", "retry"}
    BY WorkTypes DEF ClaimAction, ClaimRetry, At, StepPhase, gatewayVars, HandlerInv
  <1>2. CASE UNCHANGED act
    <2>1. CASE Leave(t)
      <3>1. Others(t) /\ w'[t].pc = "idle" /\ w'[t].task = "none"
        BY <1>1, <2>1, LeaveMoves
      <3> QED BY <1>1, <1>2, <3>1, HoldNothing, IdleStep
    <2>2. CASE To(t, "reload")
      <3>1. Keeps(t) /\ w'[t].pc = "reload"
        BY <1>1, <2>2, MovesKeep DEF WorkflowPhase
      <3> QED BY <1>1, <1>2, <3>1, HoldOn, IdleStep DEF Keeps
    <2>3. CASE act[i] \in {"pending", "failed"} /\ SetAction(i, "running")
      <3>1. act'[i] = "running"
        BY <1>1, <2>3 DEF SetAction
      <3> QED BY <1>2, <2>3, <3>1
    <2> QED BY <2>1, <2>2, <2>3 DEF ClaimAction, ClaimRetry, Retryable
  <1>3. ASSUME act[i] \in {"pending", "failed"}, SetAction(i, "running"),
               NEW p \in {"request", "retry_call", "reset"}, To(t, p)
        PROVE  RunningInv'
    <2>1. Keeps(t) /\ w'[t].pc = p
      BY <1>1, <1>3, MovesKeep DEF WorkflowPhase
    <2>2. HoldInv(t)'
      BY <1>1, <2>1, HoldOn
    <2>3. act'[i] = "running" /\ \A j \in Step \ {i} : act'[j] = act[j]
      BY <1>1, <1>3 DEF SetAction
    <2>4. ASSUME NEW j \in Step PROVE Dealt(t, j)
      <3>1. ~Works(t, j) /\ (Works(t, j)' <=> j = i)
        BY <1>1, <2>1 DEF Works, Keeps
      <3> QED BY <1>3, <2>3, <3>1 DEF Dealt
    <2>5. ~At(t, "await")
      BY <1>1 DEF At
    <2> QED BY <1>1, <2>1, <2>2, <2>4, <2>5, QuietStep DEF Keeps
  <1> QED BY <1>2, <1>3 DEF ClaimAction, ClaimRetry, Retryable

(* What became of an action is written, and it does not run without approval. *)
LEMMA SettleWork ==
  ASSUME GatewayInv, EngineInv, RunningInv, NEW t \in Thread,
         SyncAction(t) \/ FailAction(t) \/ ResetAction(t)
  PROVE  RunningInv'
  <1> DEFINE i == w[t].step
  <1>1. /\ w \in [Thread -> WorkflowLocal] /\ act \in [Step -> ActionStatus] /\ UNCHANGED gatewayVars
        /\ UNCHANGED gated /\ i \in Step /\ HandlerInv(t) /\ HoldInv(t)
        /\ w[t].pc \in {"sync", "fail", "reset"}
    BY WorkTypes DEF SyncAction, FailAction, ResetAction, At, StepPhase, gatewayVars
  <1>2. PICK s : /\ SetAction(i, s)
                 /\ s = "waiting_for_approval" => i \in gated
                 /\ s = "running" => decision[i] = "approved"
    <2>1. CASE SyncAction(t)
      <3>1. PICK s \in SyncedStatus(i, w[t].seen) : SetAction(i, s)
        BY <2>1 DEF SyncAction
      <3>2. w[t].pc = "sync" /\ w[t].seen \in Answer
        BY <1>1, <2>1 DEF SyncAction, At, HandlerInv
      <3>3. /\ s = "waiting_for_approval" => w[t].seen = "pending_approval"
            /\ s = "running" => w[t].seen = "running"
        BY <3>1, <3>2 DEF SyncedStatus, Answer, ExecutionStatus
      <3> QED BY <1>1, <3>1, <3>2, <3>3 DEF HoldInv
    <2> QED BY <2>1 DEF FailAction, ResetAction
  <1>3. Keeps(t) /\ w'[t].pc \in {"reload", "mark"}
    BY <1>1, MovesKeep DEF SyncAction, FailAction, ResetAction, WorkflowPhase, ActionStatus
  <1>4. HoldInv(t)'
    BY <1>1, <1>3, HoldOn
  <1>5. act'[i] = s /\ \A j \in Step \ {i} : act'[j] = act[j]
    BY <1>1, <1>2 DEF SetAction
  <1>6. ASSUME NEW j \in Step PROVE Dealt(t, j)
    <2>1. ~Works(t, j)' /\ (Works(t, j) <=> j = i)
      BY <1>1, <1>3 DEF Works, Keeps
    <2> QED BY <1>2, <1>5, <2>1 DEF Dealt
  <1>7. ~At(t, "await")
    BY <1>1 DEF At
  <1> QED BY <1>1, <1>3, <1>4, <1>6, <1>7, QuietStep DEF Keeps

(* A retry, and a cancellation: it closes approvals, and cancels actions. *)
LEMMA ServeWork ==
  ASSUME GatewayInv, EngineInv, RunningInv, NEW t \in Thread,
         RetryWorkflow(t) \/ CancelWorkflow(t) \/ CancelActions(t)
  PROVE  RunningInv'
  <1>1. /\ w \in [Thread -> WorkflowLocal] /\ act \in [Step -> ActionStatus] /\ UNCHANGED gatewayVars
        /\ UNCHANGED gated /\ w[t].pc \in {"idle", "cancel_actions"}
    BY WorkTypes DEF RetryWorkflow, CancelWorkflow, CancelActions, Free, At, gatewayVars
  <1>2. Others(t)
    <2>1. EngineInv'
      BY RetryWorkflowInv, CancelWorkflowInv, CancelInv
    <2>2. \A s \in Thread \ {t} : w'[s] = w[s]
      BY <1>1 DEF RetryWorkflow, CancelWorkflow, CancelActions, To
    <2> QED BY <2>1, <2>2 DEF Others, EngineInv, WorkflowTypeOK
  <1>3. CASE RetryWorkflow(t)
    <2>1. w'[t].pc = "retry_claim" /\ w'[t].task = "retry" /\ UNCHANGED act
      BY <1>1, <1>3 DEF RetryWorkflow, Unoccupied, workflowVars
    <2> QED BY <1>1, <1>2, <2>1, HoldNothing, IdleStep
  <1>4. CASE CancelWorkflow(t)
    <2>1. /\ w'[t].pc = "cancel_next" /\ w'[t].task = "cancel" /\ UNCHANGED act
          /\ w'[t].todo = {i \in linked : act[i] = "waiting_for_approval"}
      BY <1>1, <1>4 DEF CancelWorkflow, Unoccupied, workflowVars
    <2>2. w'[t].todo \subseteq gated
      BY <2>1, EngineTypes DEF RunningInv, WorkInv
    <2>3. HoldInv(t)'
      BY <1>1, <2>1, <2>2 DEF HoldInv
    <2> QED BY <1>1, <1>2, <2>1, <2>3, IdleStep
  <1>5. CASE CancelActions(t)
    <2>1. To(t, "cancel_workflow") /\ w[t].pc = "cancel_actions"
      BY <1>5 DEF CancelActions, At
    <2>2. Keeps(t) /\ w'[t].pc = "cancel_workflow"
      BY <1>1, <2>1, MovesKeep DEF WorkflowPhase
    <2>3. ASSUME NEW j \in Step PROVE Dealt(t, j)
      <3>1. ~Works(t, j) /\ ~Works(t, j)'
        BY <2>1, <2>2 DEF Works
      <3>2. act'[j] = IF act[j] = "completed" THEN "completed" ELSE "cancelled"
        BY <1>5 DEF CancelActions
      <3> QED BY <3>1, <3>2 DEF Dealt
    <2>4. HoldInv(t)' /\ ~At(t, "await")
      BY <1>1, <2>1, <2>2, HoldOn DEF At
    <2> QED BY <1>1, <1>2, <2>3, <2>4, QuietStep
  <1> QED BY <1>3, <1>4, <1>5

(* The calls of the gateway, and its answers. *)
LEMMA CallWork ==
  ASSUME GatewayInv, EngineInv, RunningInv, NEW t \in Thread,
         RequestAction(t) \/ RetryAction(t) \/ TakeResult(t) \/ CancelNext(t) \/ DecideAction(t)
  PROVE  RunningInv'
  <1> DEFINE i == w[t].step
  <1>1. /\ w \in [Thread -> WorkflowLocal] /\ UNCHANGED act /\ HandlerInv(t) /\ HoldInv(t)
        /\ AnswerInv(t) /\ UNCHANGED <<status, gated>> /\ Step = Execution
        /\ th \in [Thread -> Local]
    BY WorkTypes
    DEF RequestAction, RetryAction, TakeResult, CancelNext, DecideAction, RequestExecution,
        RetryExecution, Respond, CancelForExecution, Decide, workflowVars, gatewayVars, executionVars,
        GatewayInv, GatewayTypeOK
  <1>2. [GatewayNext]_gatewayVars
    BY RequestActionStep, RetryActionStep, CancelNextStep, DecideActionStep
    DEF TakeResult, GatewayNext
  <1>3. \A s \in Thread \ {t} : th'[s] = th[s]
    BY <1>1 DEF RequestAction, RetryAction, TakeResult, CancelNext, DecideAction, RequestExecution,
        RetryExecution, Respond, CancelForExecution, Decide, gatewayVars
  <1>4. ~InTool(t)
    BY DEF RequestAction, RetryAction, TakeResult, CancelNext, DecideAction, InTool, At, Respond,
           RunPhase
  <1>5. ASSUME w[t].pc \in {"request", "retry_call", "await"}, Keeps(t), w[t].task \in {"run", "retry"},
               w'[t].pc \in {"await", "sync", "fail"}, HoldInv(t)', AnswerInv(t)'
        PROVE  RunningInv'
    <2>1. \A j \in Step : Works(t, j)' <=> Works(t, j)
      BY <1>5 DEF Works, Keeps
    <2> QED BY <1>1, <1>2, <1>3, <1>4, <1>5, <2>1, PassStep DEF Keeps
  <1>6. ASSUME Others(t), w[t].pc \in {"await", "idle", "cancel_next"},
               w[t].task \notin {"run", "retry"} \/ w[t].pc = "idle",
               \/ w'[t].pc \notin {"await", "request", "sync", "fail", "retry_call", "reset"}
               \/ w'[t].pc = "await" /\ w'[t].task \in {"cancel", "decision"},
               HoldInv(t)', AnswerInv(t)'
        PROVE  RunningInv'
    <2>1. \A j \in Step : ~Works(t, j)' /\ ~Works(t, j)
      BY <1>6 DEF Works
    <2> QED BY <1>1, <1>2, <1>3, <1>4, <1>6, <2>1, PassStep
  <1>7. CASE RequestAction(t)
    <2>1. w[t].pc = "request" /\ w[t].task = "run" /\ i \in Step
      BY <1>1, <1>7 DEF RequestAction, At, HandlerInv, StepPhase
    <2>2. CASE To(t, "fail") /\ UNCHANGED gatewayVars
      <3>1. Keeps(t) /\ w'[t].pc = "fail"
        BY <1>1, <2>2, MovesKeep DEF WorkflowPhase
      <3>2. HoldInv(t)' /\ AnswerInv(t)'
        BY <1>1, <2>1, <2>2, <3>1 DEF HoldInv, AnswerInv, Keeps, gatewayVars
      <3> QED BY <1>5, <2>1, <3>1, <3>2
    <2>3. CASE RequestExecution(t, i, Owner, Plan[i]) /\ To(t, "await")
      <3>1. Keeps(t) /\ w'[t].pc = "await"
        BY <1>1, <2>3, MovesKeep DEF WorkflowPhase
      <3>2. /\ th'[t].at = i
            /\ th'[t].pc \in {"insert", "returned"}
            /\ th'[t].pc = "returned" => th'[t].seen \in {status[i], "error"}
            /\ UNCHANGED decision
        BY <1>1, <2>3 DEF RequestExecution, Start, Idle, approvalVars
      <3>3. Works(t, i) /\ WorkInv(i)
        BY <2>1 DEF Works, RunningInv
      <3>4. status[i] = "running" => decision[i] = "approved"
        BY <1>4, <2>1, <3>3, RunningApproved
      <3>5. HoldInv(t)'
        BY <2>1, <3>1 DEF HoldInv, Keeps
      <3>6. AnswerInv(t)'
        BY <1>1, <3>2, <3>3, <3>4 DEF AnswerInv, WorkInv
      <3> QED BY <1>5, <2>1, <3>1, <3>5, <3>6
    <2> QED BY <1>7, <2>2, <2>3 DEF RequestAction
  <1>8. CASE RetryAction(t)
    <2>1. w[t].pc = "retry_call" /\ w[t].task = "retry"
      BY <1>1, <1>8 DEF RetryAction, At, HandlerInv
    <2>2. PICK p \in {"await", "fail"} : To(t, p) /\ (UNCHANGED gatewayVars \/ RetryExecution(t, i, Owner))
      BY <1>8 DEF RetryAction
    <2>3. Keeps(t) /\ w'[t].pc = p
      BY <1>1, <2>2, MovesKeep DEF WorkflowPhase
    <2>4. HoldInv(t)'
      BY <2>1, <2>3 DEF HoldInv, Keeps
    <2>5. AnswerInv(t)'
      BY <1>1, <2>2 DEF AnswerInv, RetryExecution, Start, Idle, gatewayVars
    <2> QED BY <1>5, <2>1, <2>3, <2>4, <2>5
  <1>9. CASE TakeResult(t)
    <2> DEFINE s == th[t].seen
    <2>1. /\ w[t].pc = "await" /\ w[t].task \in {"run", "retry", "decision", "cancel"}
          /\ w[t].task # "cancel" => i = th[t].at
      BY <1>1, <1>9 DEF TakeResult, At, HandlerInv
    <2>2. th[t].pc = "returned" /\ th'[t].pc = "idle" /\ UNCHANGED decision
      BY <1>1, <1>9 DEF TakeResult, Respond, Idle, approvalVars
    <2>3. AnswerInv(t)' /\ s \in ExecutionStatus \cup {"error"}
      BY <2>2, SeenTypes DEF AnswerInv
    <2>4. CASE w[t].task = "cancel"
      <3>1. Keeps(t) /\ w'[t].pc = "cancel_next"
        BY <1>1, <1>9, <2>4, MovesKeep DEF TakeResult, WorkflowPhase
      <3>2. HoldInv(t)'
        BY <1>1, <2>4, <3>1 DEF HoldInv, Keeps
      <3> QED BY <1>6, <2>1, <2>3, <2>4, <3>1, <3>2 DEF Keeps
    <2>5. CASE w[t].task = "decision"
      <3>1. Keeps(t) /\ w'[t].pc = "notify" /\ w'[t].seen = s
        BY <1>1, <1>9, <2>3, <2>5, MovesKeep DEF TakeResult, WorkflowPhase
      <3>2. HoldInv(t)'
        BY <1>1, <2>1, <2>2, <2>5, <3>1 DEF HoldInv, AnswerInv, Keeps
      <3> QED BY <1>6, <2>1, <2>3, <2>5, <3>1, <3>2 DEF Keeps
    <2>6. CASE w[t].task \in {"run", "retry"}
      <3>1. CASE To(t, "fail")
        <4>1. Keeps(t) /\ w'[t].pc = "fail"
          BY <1>1, <3>1, MovesKeep DEF WorkflowPhase
        <4>2. HoldInv(t)'
          BY <2>6, <4>1 DEF HoldInv, Keeps
        <4> QED BY <1>5, <2>1, <2>3, <2>6, <4>1, <4>2
      <3>2. CASE Learn(t, "sync", s)
        <4>1. Keeps(t) /\ w'[t].pc = "sync" /\ w'[t].seen = s
          BY <1>1, <2>3, <3>2, MovesKeep DEF WorkflowPhase
        <4>2. HoldInv(t)'
          BY <1>1, <2>1, <2>2, <2>6, <4>1 DEF HoldInv, AnswerInv, Keeps
        <4> QED BY <1>5, <2>1, <2>3, <2>6, <4>1, <4>2
      <3> QED BY <1>9, <2>6, <3>1, <3>2 DEF TakeResult
    <2> QED BY <2>1, <2>4, <2>5, <2>6
  <1>10. CASE CancelNext(t)
    <2>1. w[t].pc = "cancel_next" /\ w[t].task = "cancel"
      BY <1>1, <1>10 DEF CancelNext, At, HandlerInv
    <2>2. CASE To(t, "cancel_actions") /\ UNCHANGED gatewayVars
      <3>1. Keeps(t) /\ w'[t].pc = "cancel_actions"
        BY <1>1, <2>2, MovesKeep DEF WorkflowPhase
      <3>2. HoldInv(t)' /\ AnswerInv(t)'
        BY <1>1, <2>1, <2>2, <3>1 DEF HoldInv, AnswerInv, Keeps, gatewayVars
      <3> QED BY <1>6, <2>1, <3>1, <3>2 DEF Keeps
    <2>3. ASSUME NEW j \in w[t].todo, NEW u, CancelForExecution(t, j, u),
                 w' = [w EXCEPT ![t].pc = "await", ![t].todo = @ \ {j}]
          PROVE  RunningInv'
      <3>1. /\ w'[t].pc = "await" /\ w'[t].task = "cancel" /\ w'[t].todo = w[t].todo \ {j}
            /\ Others(t)
        BY <1>1, <2>1, <2>3 DEF Others, WorkflowLocal, WorkflowPhase
      <3>2. th'[t].at = j /\ th'[t].pc = "cancel"
        BY <1>1, <2>3 DEF CancelForExecution, Start, Idle
      <3>3. HoldInv(t)' /\ AnswerInv(t)'
        BY <1>1, <2>1, <3>1, <3>2 DEF HoldInv, AnswerInv
      <3> QED BY <1>6, <2>1, <3>1, <3>3
    <2> QED BY <1>10, <2>2, <2>3 DEF CancelNext
  <1>11. CASE DecideAction(t)
    <2>1. PICK j \in Step, r \in Reviewer, v \in {"approved", "rejected"} :
                 Decide(t, j, r, v) /\ Enter(t, "await", "decision", j)
      BY <1>11 DEF DecideAction
    <2>2. /\ Others(t) /\ w'[t].pc = "await" /\ w'[t].task = "decision" /\ w'[t].step = j
          /\ w[t].pc = "idle"
      BY <1>1, <1>11, <2>1, MovesKeep DEF WorkflowPhase, Task, DecideAction, At
    <2>3. th'[t].pc = "decide" /\ j \in gated
      BY <1>1, <2>1 DEF Decide, Undecided, Start, Idle, GatewayInv, LedgerInv
    <2>4. HoldInv(t)' /\ AnswerInv(t)'
      BY <1>1, <2>2, <2>3 DEF HoldInv, AnswerInv
    <2> QED BY <1>6, <2>2, <2>4
  <1> QED BY <1>7, <1>8, <1>9, <1>10, <1>11

(* What a call that goes on in the gateway does to its row and its thread. *)
LEMMA ContinueWork ==
  ASSUME GatewayInv, NEW t \in Thread, Continue(t)
  PROVE  LET e == th[t].at IN
         /\ gated \subseteq gated' /\ gated' \subseteq gated \cup {e}
         /\ e \in Execution /\ \A f \in Execution \ {e} : status'[f] = status[f]
         /\ \/ status'[e] = status[e] /\ (th[t].pc \in RunPhase => th'[t].pc \in RunPhase)
            \/ status'[e] \notin {"running", "pending_approval"}
            \/ status'[e] = "running" /\ th'[t].pc \in RunPhase
            \/ status'[e] = "pending_approval" /\ (e \in gated' \/ th[t].pc = "link")
         /\ th'[t].pc = "link" => e \in gated
         /\ th'[t].pc = "returned" =>
              /\ th'[t].seen \in {status[e], "error"} /\ th[t].pc \notin RunPhase
              /\ UNCHANGED <<status, gated, decision>>
  <1> DEFINE e == th[t].at
  <1> DEFINE Goal ==
        /\ gated \subseteq gated' /\ gated' \subseteq gated \cup {e}
        /\ e \in Execution /\ \A f \in Execution \ {e} : status'[f] = status[f]
        /\ \/ status'[e] = status[e] /\ (th[t].pc \in RunPhase => th'[t].pc \in RunPhase)
           \/ status'[e] \notin {"running", "pending_approval"}
           \/ status'[e] = "running" /\ th'[t].pc \in RunPhase
           \/ status'[e] = "pending_approval" /\ (e \in gated' \/ th[t].pc = "link")
        /\ th'[t].pc = "link" => e \in gated
        /\ th'[t].pc = "returned" =>
             /\ th'[t].seen \in {status[e], "error"} /\ th[t].pc \notin RunPhase
             /\ UNCHANGED <<status, gated, decision>>
  <1> SUFFICES Goal
    OBVIOUS
  <1>1. /\ th \in [Thread -> Local] /\ status \in [Execution -> ExecutionStatus] /\ PhaseInv(t)
        /\ th[t].pc # "idle"
    BY DEF Continue, RunStep, InsertExecution, CreateApproval, LinkApproval,
         DecideUpdate, ApplyApproval, Authorize, WriteStatus, CancelExecution, RunQuery, LookupTask,
         InsertTask, LookupReceipt, AccessToken, InsertReceipt, CallProvider, SettleReceipt, FinishRun,
         FailRun, RereadExecution, Runs, GatewayInv, GatewayTypeOK, ThreadInv
  <1>2. e \in Execution
    BY <1>1 DEF GatewayInv, GatewayTypeOK
  <1>3. CASE InsertExecution(t)
    BY <1>1, <1>2, <1>3 DEF InsertExecution, Goto, Return, Local, RunPhase, approvalVars, executionVars
  <1>4. CASE CreateApproval(t) \/ LinkApproval(t)
    BY <1>1, <1>2, <1>4 DEF CreateApproval, LinkApproval, Goto, Local, RunPhase, executionVars, PhaseInv
  <1>5. CASE WriteStatus(t)
    BY <1>1, <1>2, <1>5 DEF WriteStatus, Goto, Local, RunPhase, PhaseInv
  <1>6. CASE FinishRun(t)
    BY <1>1, <1>2, <1>6 DEF FinishRun, Goto, Local, RunPhase, PhaseInv
  <1>7. CASE DecideUpdate(t) \/ ApplyApproval(t) \/ Authorize(t) \/ CancelExecution(t) \/ RereadExecution(t)
    BY <1>1, <1>2, <1>7 DEF DecideUpdate, ApplyApproval, Authorize, CancelExecution, RereadExecution,
         Goto, GotoWith, Return, Local, RunPhase, executionVars, approvalVars
  <1>8. CASE RunQuery(t) \/ LookupTask(t) \/ InsertTask(t) \/ LookupReceipt(t) \/ AccessToken(t)
    BY <1>1, <1>2, <1>8 DEF RunQuery, LookupTask, InsertTask, LookupReceipt, AccessToken, Runs,
         Goto, GotoWith, Local, RunPhase, executionVars
  <1>9. CASE InsertReceipt(t) \/ CallProvider(t) \/ SettleReceipt(t) \/ FailRun(t)
    BY <1>1, <1>2, <1>9 DEF InsertReceipt, CallProvider, SettleReceipt, FailRun,
         Goto, GotoWith, Local, RunPhase, executionVars
  <1> QED BY <1>3, <1>4, <1>5, <1>6, <1>7, <1>8, <1>9 DEF Continue, RunStep

(* A call that goes on in the gateway: its thread runs what it makes running. *)
LEMMA GatewayWork ==
  ASSUME GatewayInv, EngineInv, RunningInv, NEW t \in Thread, GatewayStep(t)
  PROVE  RunningInv'
  <1>1. /\ w \in [Thread -> WorkflowLocal] /\ HandlerInv(t) /\ HoldInv(t) /\ AnswerInv(t)
        /\ Step = Execution /\ w' = w /\ act' = act /\ w[t].pc = "await" /\ Continue(t)
    BY WorkTypes DEF GatewayStep, At, workflowVars
  <1>2. /\ [GatewayNext]_gatewayVars /\ Others(t) /\ \A s \in Thread \ {t} : th'[s] = th[s]
        /\ th'[t].at = th[t].at
    BY <1>1, ContinueMoves DEF GatewayNext, Others
  <1>3. PICK e : e = th[t].at
    OBVIOUS
  <1>4. /\ gated \subseteq gated' /\ gated' \subseteq gated \cup {e}
        /\ e \in Execution /\ \A f \in Execution \ {e} : status'[f] = status[f]
        /\ \/ status'[e] = status[e] /\ (th[t].pc \in RunPhase => th'[t].pc \in RunPhase)
           \/ status'[e] \notin {"running", "pending_approval"}
           \/ status'[e] = "running" /\ th'[t].pc \in RunPhase
           \/ status'[e] = "pending_approval" /\ (e \in gated' \/ th[t].pc = "link")
        /\ th'[t].pc = "link" => e \in gated
        /\ th'[t].pc = "returned" =>
             /\ th'[t].seen \in {status[e], "error"} /\ th[t].pc \notin RunPhase
             /\ UNCHANGED <<status, gated, decision>>
    BY <1>1, <1>3, ContinueWork
  <1>5. e \notin gated => Works(t, e)
    BY <1>1, <1>3 DEF HandlerInv, HoldInv, Works
  <1>6. AnswerInv(t)'
    <2>1. ASSUME th'[t].pc = "returned", status[e] = "running" PROVE decision[e] = "approved"
      <3>1. ~InTool(t)
        BY <1>4, <2>1 DEF InTool
      <3> QED BY <1>1, <1>4, <1>5, <2>1, <3>1, RunningApproved
    <2>2. WorkInv(e)
      BY <1>1, <1>4 DEF RunningInv
    <2> QED BY <1>2, <1>3, <1>4, <2>1, <2>2 DEF AnswerInv, WorkInv
  <1>7. HoldInv(t)'
    BY <1>1, <1>2, <1>3, <1>4 DEF HoldInv
  <1>8. \A s \in Thread : HoldInv(s)' /\ AnswerInv(s)'
    BY <1>2, <1>4, <1>6, <1>7, OthersHold
  <1>9. ASSUME NEW i \in Step PROVE WorkInv(i)'
    <2>1. WorkInv(i) /\ \A s \in Thread : Works(s, i)' <=> Works(s, i)
      BY <1>1 DEF RunningInv, Works
    <2>2. decision[i] = "approved" => decision'[i] = "approved"
      BY <1>1, <1>2, ApprovedStays
    <2>3. \A s \in Thread \ {t} : InTool(s)' <=> InTool(s)
      BY <1>1, <1>2 DEF InTool, At
    <2>4. CASE i # e
      <3>1. status'[i] = status[i] /\ (i \in gated' <=> i \in gated) /\ ~Works(t, i)
        BY <1>1, <1>3, <1>4, <2>4 DEF Works, HandlerInv
      <3> QED BY <1>1, <2>1, <2>2, <2>3, <3>1 DEF WorkInv
    <2>5. CASE i = e
      <3>1. status'[e] = "pending_approval" => e \in gated'
        BY <1>1, <1>3, <1>4, <2>1, <2>5 DEF WorkInv, AnswerInv
      <3>2. ASSUME status'[e] = "running", e \notin gated'
            PROVE  \E s \in Thread : Works(s, e)' /\ InTool(s)'
        <4>1. Works(t, e)'
          BY <1>4, <1>5, <2>1, <2>5, <3>2
        <4>2. CASE th'[t].pc \in RunPhase
          BY <1>1, <4>1, <4>2 DEF InTool, At
        <4>3. CASE status[e] = "running" /\ th[t].pc \notin RunPhase
          BY <1>4, <2>1, <2>3, <2>5, <3>2, <4>3 DEF WorkInv, InTool
        <4> QED BY <1>4, <3>2, <4>2, <4>3
      <3> QED BY <1>1, <1>4, <2>1, <2>2, <2>5, <3>1, <3>2 DEF WorkInv
    <2> QED BY <2>4, <2>5
  <1> QED BY <1>8, <1>9 DEF RunningInv

(* Every step without a crash keeps those who work on an action with it. *)
LEMMA RunningNext ==
  ASSUME GatewayInv, EngineInv, CarryInv, RunningInv, [CalmNext]_engineVars
  PROVE  RunningInv'
  <1>1. ASSUME NEW t \in Thread, Proceed(t) PROVE RunningInv'
    BY <1>1, LoopWork, PickWork, ReadWork, ClaimWork, SettleWork, ServeWork, CallWork, GatewayWork
    DEF Proceed, EngineStep
  <1>2. ASSUME NEW t \in Thread, Serve(t) PROVE RunningInv'
    BY <1>2, LoopWork, ServeWork, CallWork DEF Serve
  <1>3. CASE UNCHANGED engineVars
    BY <1>3 DEF engineVars, gatewayVars, workflowVars, RunningInv, HoldInv, AnswerInv, WorkInv, Works,
                InTool, At
  <1> QED BY <1>1, <1>2, <1>3 DEF CalmNext

(* At the start no thread works, and nothing has been asked for. *)
LEMMA RunningInit == WorkflowInit => RunningInv
  BY PlanType DEF WorkflowInit, GatewayInit, RunningInv, HoldInv, AnswerInv, WorkInv, Works, Unoccupied,
                  Idle

(* When all requests have been answered and none has crashed, a workflow of  *)
(* the deterministic engine does not say running, and an action says so only *)
(* if it was approved.                                                       *)
THEOREM NothingIsLeftRunning ==
  ASSUME Engine = "deterministic"
  PROVE  CalmSpec => []NothingLeftRunning
  <1>1. CalmSpec => WorkflowInit /\ [][CalmNext]_engineVars
    BY PTL DEF CalmSpec
  <1>2. WorkflowInit => GatewayInv /\ EngineInv /\ CarryInv /\ RunningInv
    BY EngineInit, CarryInit, RunningInit
  <1>3. GatewayInv /\ EngineInv /\ CarryInv /\ RunningInv /\ [CalmNext]_engineVars =>
          GatewayInv' /\ EngineInv' /\ CarryInv' /\ RunningInv'
    <2>1. [CalmNext]_engineVars => [WorkflowNext]_engineVars
      BY DEF WorkflowNext
    <2> QED BY <2>1, EngineNext, CarryNext, RunningNext
  <1>4. CarryInv /\ RunningInv => NothingLeftRunning
    BY DEF CarryInv, RunningInv, Carries, WorkInv, Works, NothingLeftRunning, Quiet, At
  <1> QED BY <1>1, <1>2, <1>3, <1>4, PTL

-----------------------------------------------------------------------------
(***************************************************************************)
(* The engine implements OrderedEffects. An effect changes only in a step  *)
(* of the gateway inside a call of the engine: the insert of a task and    *)
(* the call of a provider begin an effect, the update of a receipt records *)
(* it, and OrderInv says that the earlier effects are on record. Any other *)
(* step reports the workflow completed, takes that back, or stutters.      *)
(***************************************************************************)

(* Effects change only where the gateway runs a tool for the engine. *)
LEMMA EffectsChangeInRun ==
  ASSUME [WorkflowNext]_engineVars
  PROVE  \/ UNCHANGED effectVars
         \/ /\ UNCHANGED workflow
            /\ \E t \in Thread : InsertTask(t) \/ InsertReceipt(t) \/ CallProvider(t) \/ SettleReceipt(t)
  <1> DEFINE Goal == \/ UNCHANGED effectVars
                     \/ /\ UNCHANGED workflow
                        /\ \E t \in Thread : \/ InsertTask(t) \/ InsertReceipt(t)
                                             \/ CallProvider(t) \/ SettleReceipt(t)
  <1>1. ASSUME UNCHANGED gatewayVars PROVE Goal
    BY <1>1 DEF gatewayVars, effectVars
  <1>2. ASSUME NEW t \in Thread, GatewayStep(t) PROVE Goal
    BY <1>2 DEF GatewayStep, Continue, RunStep, RunQuery, LookupTask, LookupReceipt, AccessToken,
                FinishRun, FailRun, InsertExecution, CreateApproval, LinkApproval, DecideUpdate,
                ApplyApproval, Authorize, WriteStatus, CancelExecution, RereadExecution, workflowVars
  <1>3. ASSUME NEW t \in Thread,
               RequestAction(t) \/ TakeResult(t) \/ RetryAction(t) \/ CancelNext(t) \/ DecideAction(t)
        PROVE  UNCHANGED effectVars
    BY <1>1, <1>3 DEF RequestAction, TakeResult, RetryAction, CancelNext, DecideAction,
                RequestExecution, Respond, RetryExecution, CancelForExecution, Decide,
                gatewayVars, effectVars
  <1>4. ASSUME NEW t \in Thread, EngineStep(t) PROVE Goal
    BY <1>1, <1>3, <1>4 DEF EngineStep, LoadWorkflow, Advance, MarkRunning, PickAction,
                CompleteWorkflow, PollExecution, ClaimAction, SyncAction, FailAction, ReloadAction,
                MarkWorkflow, CheckWorkflow, GiveUp, ResumeWorkflow, ClaimRetry, ResetAction,
                CancelActions, CancelStatus, NotifyAction, NotifyWorkflow
  <1>5. ASSUME NEW t \in Thread, Serve(t) PROVE Goal
    BY <1>1, <1>3, <1>5 DEF Serve, RunWorkflow, RetryWorkflow, CancelWorkflow
  <1>6. ASSUME NEW t \in Thread, Abort(t) \/ CatchRaise(t) \/ BreakLoop(t) PROVE Goal
    BY <1>1, <1>6 DEF Abort, CatchRaise, BreakLoop, Raise
  <1>7. ASSUME NEW a \in Authority, ChangeOwner(a) PROVE Goal
    BY <1>7 DEF ChangeOwner, ChangeAuthority
  <1>8. UNCHANGED engineVars => Goal
    BY <1>1 DEF engineVars
  <1> QED BY <1>2, <1>4, <1>5, <1>6, <1>7, <1>8 DEF WorkflowNext, CalmNext, Proceed

(* A step that leaves the effects alone reports, retracts or stutters. *)
LEMMA ReportStep ==
  ASSUME OrderInv', UNCHANGED effectVars
  PROVE  [Ordered!Next]_(Ordered!vars)
  <1>1. /\ Begun' = Begun /\ \A i \in Step : Done(i)' <=> Done(i)
    BY DEF Begun, Done, effectVars
  <1>2. {i \in Effective : Done(i)}' = {i \in Effective : Done(i)}
    BY <1>1 DEF Effective
  <1>3. CASE (workflow' = "completed") = (workflow = "completed")
    BY <1>1, <1>2, <1>3 DEF Ordered!vars
  <1>4. CASE workflow' = "completed"
    <2>1. {i \in Effective : Done(i)} = Effective
      BY <1>1, <1>4 DEF OrderInv, ReportsTrue, Effective
    <2>2. Ordered!Report
      BY <1>1, <1>2, <1>4, <2>1 DEF Ordered!Report
    <2> QED BY <2>2 DEF Ordered!Next
  <1>5. CASE workflow' # "completed"
    <2>1. Ordered!Retract
      BY <1>1, <1>2, <1>5 DEF Ordered!Retract
    <2> QED BY <2>1 DEF Ordered!Next
  <1> QED BY <1>3, <1>4, <1>5

(* What a step does that changes the effects of one action only. *)
LEMMA OneEffectStep ==
  ASSUME GatewayInv, OrderInv, NEW t \in Thread, th[t].pc \in RunPhase, UNCHANGED workflow,
         NEW e \in Effective, th[t].at = e,
         \A i \in Effective \ {e} : (i \in Begun' <=> i \in Begun) /\ (Done(i)' <=> Done(i)),
         e \in Begun => e \in Begun',
         Done(e) => Done(e)',
         Done(e)' /\ ~Done(e) => e \in Begun'
  PROVE  [Ordered!Next]_(Ordered!vars)
  <1> DEFINE D == {i \in Effective : Done(i)}
  <1>1. Effective' = Effective /\ Begun \subseteq Effective /\ Begun' \subseteq Effective
    BY DEF Effective, Begun
  <1>2. \A j \in Effective : j < e => j \in D
    BY RunIsPlanned DEF OrderInv, RowsOrdered, Prior, Effective
  <1>3. Begun' \in {Begun, Begun \cup {e}} /\ D' \in {D, D \cup {e}}
    BY <1>1
  <1>4. CASE Begun' = Begun /\ D' = D
    BY <1>4 DEF Ordered!vars
  <1>5. CASE e \notin Begun /\ Begun' = Begun \cup {e}
    <2>1. Ordered!Begin(e)
      BY <1>2, <1>3, <1>5 DEF Ordered!Begin
    <2> QED BY <2>1 DEF Ordered!Next
  <1>6. CASE Begun' = Begun /\ D' = D \cup {e} /\ e \notin D
    <2>1. e \in Begun
      BY <1>6
    <2>2. Ordered!Record(e)
      BY <1>6, <2>1 DEF Ordered!Record
    <2> QED BY <2>2 DEF Ordered!Next
  <1> QED BY <1>3, <1>4, <1>5, <1>6

(* The insert of a task begins its effect and records it. *)
LEMMA TaskStep ==
  ASSUME GatewayInv, OrderInv, UNCHANGED workflow, NEW t \in Thread, InsertTask(t)
  PROVE  [Ordered!Next]_(Ordered!vars)
  <1> SUFFICES ASSUME NEW e, e = th[t].at PROVE [Ordered!Next]_(Ordered!vars)
    OBVIOUS
  <1>1. th[t].pc \in RunPhase /\ tasks' \in {tasks, tasks \cup {e}} /\ UNCHANGED <<receipt, sent>>
    BY DEF InsertTask, RunPhase
  <1>2. e \in Step /\ ToolOf[Plan[e]] = "task"
    BY RunIsPlanned DEF InsertTask, RunPhase, OrderInv, GatewayInv, ThreadInv, PhaseInv
  <1>3. e \in Effective
    BY <1>2 DEF Effective
  <1>4. \A i \in Effective \ {e} : (i \in Begun' <=> i \in Begun) /\ (Done(i)' <=> Done(i))
    BY <1>1 DEF Effective, Begun, Done
  <1>5. (e \in Begun <=> Done(e)) /\ (e \in Begun' <=> Done(e)') /\ (Done(e) => Done(e)')
    BY <1>1, <1>2, <1>3 DEF Effective, Begun, Done
  <1> QED BY <1>1, <1>3, <1>4, <1>5, OneEffectStep

(* What has been appended to is not empty. *)
LEMMA AppendIsNotEmpty ==
  ASSUME NEW s \in Seq(Call), NEW c \in Call
  PROVE  Append(s, c) # <<>>
  <1>1. Len(Append(s, c)) = Len(s) + 1 /\ Len(s) \in Nat
    OBVIOUS
  <1> QED BY <1>1

(* The claim of a receipt is no effect, the provider call begins one, and  *)
(* the update of the receipt records it, if it happened.                   *)
LEMMA ProviderStep ==
  ASSUME GatewayInv, OrderInv, UNCHANGED workflow, NEW t \in Thread,
         InsertReceipt(t) \/ CallProvider(t) \/ SettleReceipt(t)
  PROVE  [Ordered!Next]_(Ordered!vars)
  <1> SUFFICES ASSUME NEW e, e = th[t].at PROVE [Ordered!Next]_(Ordered!vars)
    OBVIOUS
  <1>1. /\ th[t].pc \in RunPhase /\ tasks' = tasks
        /\ receipt \in [Execution -> ReceiptStatus] /\ sent \in [Execution -> Seq(Call)]
    BY DEF InsertReceipt, CallProvider, SettleReceipt, RunPhase, GatewayInv, GatewayTypeOK
  <1>2. e \in Step /\ e \in Execution /\ ToolOf[Plan[e]] = "provider" /\ th[t].call \in Call
    <2>1. PhaseInv(t) /\ th[t].pc \in {"insert_receipt", "call", "settle"}
      BY DEF InsertReceipt, CallProvider, SettleReceipt, GatewayInv, ThreadInv
    <2>2. e \in Step /\ ToolOf[hash[e]] = "provider" /\ hash[e] = Plan[e] /\ th[t].call = Plan[e]
      BY <1>1, <2>1, RunIsPlanned DEF OrderInv, PhaseInv
    <2> QED BY <2>2, PlanType
  <1>3. e \in Effective /\ (e \in Begun <=> sent[e] # <<>>) /\ (Done(e) <=> receipt[e] = "completed")
    BY <1>2 DEF Effective, Begun, Done
  <1>4. (e \in Begun' <=> sent'[e] # <<>>) /\ (Done(e)' <=> receipt'[e] = "completed")
    BY <1>2, <1>3 DEF Effective, Begun, Done
  <1>5. \A i \in Execution \ {e} : receipt'[i] = receipt[i] /\ sent'[i] = sent[i]
    BY <1>1, <1>2 DEF InsertReceipt, CallProvider, SettleReceipt
  <1>6. \A i \in Effective \ {e} : (i \in Begun' <=> i \in Begun) /\ (Done(i)' <=> Done(i))
    BY <1>1, <1>5, PlanType DEF Effective, Begun, Done
  <1>7. CASE InsertReceipt(t)
    <2>1. sent' = sent /\ receipt'[e] \in {receipt[e], "running"} /\ (receipt[e] = "completed" => receipt' = receipt)
      BY <1>1, <1>2, <1>7 DEF InsertReceipt, Unclaimed
    <2> QED BY <1>1, <1>3, <1>4, <1>6, <2>1, OneEffectStep
  <1>8. CASE CallProvider(t)
    <2>1. receipt' = receipt /\ (sent'[e] = sent[e] \/ sent'[e] = Append(sent[e], th[t].call))
      BY <1>1, <1>2, <1>8 DEF CallProvider
    <2>2. sent[e] \in Seq(Call) /\ Append(sent[e], th[t].call) # <<>>
      BY <1>1, <1>2, AppendIsNotEmpty
    <2> QED BY <1>1, <1>3, <1>4, <1>6, <2>1, <2>2, OneEffectStep
  <1>9. CASE SettleReceipt(t)
    <2>1. /\ receipt[e] = "running" /\ th[t].plan \in {"completed", "failed"}
          /\ th[t].plan = "completed" => sent[e] # <<>>
      BY <1>9 DEF SettleReceipt, GatewayInv, ThreadInv, PhaseInv
    <2>2. sent' = sent /\ (receipt'[e] = "completed" => sent[e] # <<>>)
      BY <1>1, <1>2, <1>9, <2>1 DEF SettleReceipt
    <2> QED BY <1>1, <1>3, <1>4, <1>6, <2>1, <2>2, OneEffectStep
  <1> QED BY <1>7, <1>8, <1>9

(* The steps of every workflow are those of OrderedEffects, or stutter. *)
LEMMA OrderedStep ==
  ASSUME GatewayInv, OrderInv, OrderInv', [WorkflowNext]_engineVars
  PROVE  [Ordered!Next]_(Ordered!vars)
  BY EffectsChangeInRun, ReportStep, TaskStep, ProviderStep

(* No effect has begun at the start. *)
LEMMA OrderedInit == WorkflowInit => Ordered!Init
  <1> SUFFICES ASSUME WorkflowInit PROVE Ordered!Init
    OBVIOUS
  <1>1. \A i \in Execution : receipt[i] = "absent" /\ sent[i] = <<>> /\ i \notin tasks
    BY DEF WorkflowInit, GatewayInit
  <1>2. \A i \in Effective : i \in Execution /\ ToolOf[Plan[i]] # "query"
    BY PlanType DEF Effective
  <1>3. Begun = {}
    BY <1>1, <1>2 DEF Begun
  <1>4. \A i \in Effective : ToolOf[Plan[i]] \in {"provider", "task"} /\ ~Done(i)
    BY <1>1, <1>2, PlanType, GatewayAssumption DEF Effective, Done
  <1> QED BY <1>3, <1>4 DEF WorkflowInit, Ordered!Init

(* The engine implements OrderedEffects: whatever retries, crashes and stale *)
(* reads there are, effects begin in the order of the plan, each after the   *)
(* record of all earlier ones, no record is taken back, and completed is     *)
(* reported only when all are on record.                                     *)
THEOREM EngineOrdersEffects == WorkflowSpec => ImplementsOrderedEffects
  <1>1. GatewayInv /\ EngineInv /\ OrderInv /\ [WorkflowNext]_engineVars =>
          GatewayInv' /\ EngineInv' /\ OrderInv' /\ [Ordered!Next]_(Ordered!vars)
    BY EngineNext, OrderNext, OrderedStep
  <1> QED BY <1>1, EngineInit, OrderInit, OrderedInit, PTL
          DEF WorkflowSpec, ImplementsOrderedEffects, Ordered!Spec

(* Every workflow, whichever threads serve it, keeps the promise of the     *)
(* gateway: the refinement of GovernedEffect carries over to its calls.     *)
THEOREM EngineGovernsEffects == WorkflowSpec => ImplementsGovernedEffect
  <1>1. UsesGateway => GatewaySpec
    BY PTL DEF UsesGateway
  <1> QED BY <1>1, EngineUsesGateway, Refinement, PTL
=============================================================================

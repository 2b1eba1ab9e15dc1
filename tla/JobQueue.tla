------------------------------ MODULE JobQueue -------------------------------
(***************************************************************************)
(* One background job: its row (jobs.py), its entry in the Redis queue, the *)
(* task that runs it (tasks.py, background_tasks.py, worker.py) and the     *)
(* documents the task ingests (RagService.ingest_file).                    *)
(*                                                                         *)
(* Two runs of the task can exist: the route's own, when jobs are not      *)
(* asynchronous or the queue refuses, and the worker's.  Each action is one *)
(* transaction, file or object operation.  faults names what may go wrong  *)
(* in a behaviour, so that a property says which faults it survives.       *)
(***************************************************************************)
EXTENDS Integers

CONSTANTS
  MaxAttempts,  \* settings.job_max_attempts
  Imported,     \* the items of a connector import
  FaultSets     \* what may go wrong together

FaultKind ==
  {"task",     \* a call within the try of the task raises
   "start",    \* job_service.start raises though attempts are left
   "record",   \* recording the failure raises
   "kill",     \* the process of the worker's run dies
   "handler",  \* nothing is recorded of that death
   "timeout",  \* the job timeout strikes when the work is committed
   "route",    \* the process of the route dies, or cannot stage the file
   "delay",    \* the retry intervals are positive, as they are by default
   "unsure"}   \* the queue accepts the job and the answer is lost

ASSUME JobAssumption ==
  /\ MaxAttempts \in Nat \ {0}
  /\ Imported \in Nat
  /\ FaultSets \subseteq SUBSET FaultKind

VARIABLES
  faults,    \* what may go wrong, chosen once
  kind,      \* background_jobs.job_type
  job,       \* background_jobs.status
  attempts,  \* background_jobs.attempt_count
  queue,     \* where the queue has the job
  left,      \* the queue's retries_left
  staged,    \* the uploaded file is in the staging directory
  document,  \* items with a row in documents, by the document_id of the job
  object,    \* items with an object in the store, by the same id
  run        \* the two runs of the task

vars == <<faults, kind, job, attempts, queue, left, staged, document, object, run>>
storeVars == <<staged, document, object>>
queueVars == <<queue, left>>

Run == {"route", "worker"}
Kind == {"upload", "import", "reindex"}
JobStatus == {"absent", "queued", "running", "completed", "failed", "dead_lettered"}
EndStatus == {"completed", "failed", "dead_lettered"}

(* The documents a task ingests.  A reindex replaces the chunks of one that *)
(* exists: to the job it is one call that returns or raises.               *)
Total(k) == CASE k = "upload" -> 1 [] k = "import" -> Imported [] k = "reindex" -> 0
Item == 1 .. Total(kind)

(* Within the try of the task, in order. *)
TryPhase ==
  {"read", "progress", "lookup", "put", "insert", "discard", "get", "report", "complete", "reload"}
Phase ==
  TryPhase \cup {"idle", "stage", "dispatch", "start", "unlink", "record", "drop",
                 "returned", "raised", "lost"}

TypeOK ==
  /\ faults \in FaultSets
  /\ kind \in Kind
  /\ job \in JobStatus
  /\ attempts \in 0 .. MaxAttempts
  /\ queue \in {"absent", "waiting", "scheduled", "started", "finished", "failed"}
  /\ left \in 0 .. MaxAttempts - 1
  /\ staged \in BOOLEAN
  /\ document \in SUBSET Item
  /\ object \in SUBSET Item
  /\ run \in [Run -> [pc : Phase, item : Nat, done : BOOLEAN]]

Init ==
  /\ faults \in FaultSets
  /\ kind \in Kind
  /\ job = "absent"
  /\ attempts = 0
  /\ queue = "absent"
  /\ left = 0
  /\ staged = FALSE
  /\ document = {}
  /\ object = {}
  /\ run = [x \in Run |-> [pc |-> "idle", item |-> 1, done |-> FALSE]]

At(x, p) == run[x].pc = p
Go(x, p) == run' = [run EXCEPT ![x].pc = p]
GoOn(x, p) == run' = [run EXCEPT ![x].pc = p, ![x].item = @ + 1]
-----------------------------------------------------------------------------
(* The route: create the row, stage the file, hand the task to the queue.  *)

CreateJob ==
  /\ At("route", "idle")
  /\ job' = "queued"
  /\ Go("route", IF kind = "upload" THEN "stage" ELSE "dispatch")
  /\ UNCHANGED <<kind, attempts, queueVars, storeVars>>

StageFile ==
  /\ At("route", "stage")
  /\ staged' = TRUE
  /\ Go("route", "dispatch")
  /\ UNCHANGED <<kind, job, attempts, queueVars, document, object>>

(* async_jobs_enabled is off: the route runs the task. *)
DispatchInline ==
  /\ At("route", "dispatch")
  /\ Go("route", "start")
  /\ UNCHANGED <<kind, job, attempts, queueVars, storeVars>>

(* With a fault: the number of attempts taken for the number of retries. *)
AcceptFault == queue' = "waiting" /\ left' = MaxAttempts

(* The queue allows one run and MaxAttempts - 1 retries. *)
Accept == queue' = "waiting" /\ left' = MaxAttempts - 1

DispatchQueued ==
  /\ At("route", "dispatch")
  /\ Accept
  /\ Go("route", "returned")
  /\ UNCHANGED <<kind, job, attempts, storeVars>>

(* The enqueue raises, also for malformed retry intervals: the route runs  *)
(* the task (async_jobs_fallback_sync), or fails the job and drops the file. *)
DispatchRefused ==
  /\ At("route", "dispatch")
  /\ \/ UNCHANGED queueVars
     \/ "unsure" \in faults /\ Accept
  /\ \/ Go("route", "start") /\ UNCHANGED job
     \/ Go("route", "drop") /\ job' = "failed"
  /\ UNCHANGED <<kind, attempts, storeVars>>

(* The process of the route dies, or the file cannot be staged. *)
Abandon ==
  /\ "route" \in faults
  /\ run["route"].pc \notin {"idle", "returned", "raised"}
  /\ Go("route", "raised")
  /\ UNCHANGED <<kind, job, attempts, queueVars, storeVars>>
-----------------------------------------------------------------------------
(* The task.                                                               *)

FirstPhase ==
  CASE kind = "upload" -> "read" [] kind = "import" /\ Imported > 0 -> "lookup" [] OTHER -> "complete"

(* With a fault: the UPDATE of start without its limit. *)
ClaimFault ==
  /\ job' = "running"
  /\ attempts' = attempts + 1

Claim ==
  /\ attempts < MaxAttempts
  /\ job' = "running"
  /\ attempts' = attempts + 1

(* start is outside the try of the task: when it raises, so does the task. *)
Start(x) ==
  /\ At(x, "start")
  /\ \/ Claim /\ Go(x, FirstPhase)
     \/ attempts >= MaxAttempts /\ Go(x, "raised") /\ UNCHANGED <<job, attempts>>
  /\ UNCHANGED <<kind, queueVars, storeVars>>

(* The database fails before the UPDATE, or when start reads the row back. *)
StartFails(x) ==
  /\ "start" \in faults
  /\ At(x, "start")
  /\ Claim \/ UNCHANGED <<job, attempts>>
  /\ Go(x, "raised")
  /\ UNCHANGED <<kind, queueVars, storeVars>>

ReadFile(x) ==
  /\ At(x, "read")
  /\ Go(x, IF staged THEN "progress" ELSE "record")
  /\ UNCHANGED <<kind, job, attempts, queueVars, storeVars>>

Progress(x) ==
  /\ At(x, "progress")
  /\ job' = "running"
  /\ Go(x, "lookup")
  /\ UNCHANGED <<kind, attempts, queueVars, storeVars>>

(* ingest_file: a document with this id is returned as it is. *)
AfterItem == IF kind = "upload" THEN "complete" ELSE "report"

(* With a fault: ingest_file does not look for the document first. *)
LookupFault(x) ==
  /\ At(x, "lookup")
  /\ Go(x, "put")
  /\ UNCHANGED <<kind, job, attempts, queueVars, storeVars>>

Lookup(x) ==
  /\ At(x, "lookup")
  /\ Go(x, IF run[x].item \in document THEN AfterItem ELSE "put")
  /\ UNCHANGED <<kind, job, attempts, queueVars, storeVars>>

PutObject(x) ==
  /\ At(x, "put")
  /\ object' = object \cup {run[x].item}
  /\ Go(x, "insert")
  /\ UNCHANGED <<kind, job, attempts, queueVars, staged, document>>

(* The row and its chunks, in one transaction; document_id is the key. *)
InsertDocument(x) ==
  /\ At(x, "insert")
  /\ document' = document \cup {run[x].item}
  /\ Go(x, IF run[x].item \in document THEN "discard" ELSE "get")
  /\ UNCHANGED <<kind, job, attempts, queueVars, staged, object>>

(* _delete_storage_safely: a failure to delete is ignored. *)
DiscardObject(x) ==
  /\ At(x, "discard")
  /\ object' \in {object, object \ {run[x].item}}
  /\ Go(x, "record")
  /\ UNCHANGED <<kind, job, attempts, queueVars, staged, document>>

GetDocument(x) ==
  /\ At(x, "get")
  /\ Go(x, AfterItem)
  /\ UNCHANGED <<kind, job, attempts, queueVars, storeVars>>

Report(x) ==
  /\ At(x, "report")
  /\ job' = "running"
  /\ GoOn(x, IF run[x].item < Imported THEN "lookup" ELSE "complete")
  /\ UNCHANGED <<kind, attempts, queueVars, storeVars>>

Complete(x) ==
  /\ At(x, "complete")
  /\ job' = "completed"
  /\ Go(x, "reload")
  /\ UNCHANGED <<kind, attempts, queueVars, storeVars>>

(* update reads the row it wrote. *)
Reload(x) ==
  /\ At(x, "reload")
  /\ run' = [run EXCEPT ![x].pc = "unlink", ![x].done = TRUE]
  /\ UNCHANGED <<kind, job, attempts, queueVars, storeVars>>

(* The finally of a completed upload; the other tasks have no file. *)
Unlink(x) ==
  /\ At(x, "unlink")
  /\ staged' = FALSE
  /\ Go(x, "returned")
  /\ UNCHANGED <<kind, job, attempts, queueVars, document, object>>
-----------------------------------------------------------------------------
(* Failures of the task.                                                   *)

(* With a fault: an item that fails is passed over. *)
TaskFailsFault(x) ==
  /\ "task" \in faults
  /\ run[x].pc \in TryPhase \ {"discard"}
  /\ Go(x, IF At(x, "insert") THEN "discard" ELSE AfterItem)
  /\ UNCHANGED <<kind, job, attempts, queueVars, storeVars>>

(* A call within the try raises; the discarding of the object cannot. *)
TaskFails(x) ==
  /\ "task" \in faults
  /\ run[x].pc \in TryPhase \ {"discard"}
  /\ Go(x, IF At(x, "insert") THEN "discard" ELSE "record")
  /\ UNCHANGED <<kind, job, attempts, queueVars, storeVars>>

(* The timeout strikes after the commit of the INSERT and before its try   *)
(* ends, after completed is set, or within the finally.                    *)
LateTimeout ==
  /\ "timeout" \in faults
  /\ \/ At("worker", "get") /\ Go("worker", "discard") /\ UNCHANGED staged
     \/ At("worker", "unlink") /\ Go("worker", "record") /\ UNCHANGED staged
     \/ At("worker", "unlink") /\ Go("worker", "raised") /\ staged' = FALSE
  /\ UNCHANGED <<kind, job, attempts, queueVars, document, object>>

(* _record_task_failure: only a worker has a current job. *)
Retrying(x) == x = "worker" /\ left > 0
Verdict(x) ==
  IF Retrying(x) THEN "queued" ELSE IF x = "worker" THEN "dead_lettered" ELSE "failed"

(* With a fault: the file is removed after every failure. *)
RecordFault(x) ==
  /\ At(x, "record")
  /\ job' = Verdict(x)
  /\ Go(x, "drop")
  /\ UNCHANGED <<kind, attempts, queueVars, storeVars>>

Record(x) ==
  /\ At(x, "record")
  /\ job' = Verdict(x)
  /\ Go(x, IF Retrying(x) /\ ~run[x].done THEN "raised" ELSE "drop")
  /\ UNCHANGED <<kind, attempts, queueVars, storeVars>>

(* It raises before or after its UPDATE: only the finally is left to run. *)
RecordFails(x) ==
  /\ "record" \in faults
  /\ At(x, "record")
  /\ job' \in {job, Verdict(x)}
  /\ Go(x, IF run[x].done THEN "drop" ELSE "raised")
  /\ UNCHANGED <<kind, attempts, queueVars, storeVars>>

Drop(x) ==
  /\ At(x, "drop")
  /\ staged' = FALSE
  /\ Go(x, "raised")
  /\ UNCHANGED <<kind, job, attempts, queueVars, document, object>>
-----------------------------------------------------------------------------
(* The queue and its worker.                                               *)

(* The worker takes what waits in the queue.  It is started without a       *)
(* scheduler, and no other process runs one: what is scheduled stays so.   *)
Dequeue ==
  /\ queue = "waiting"
  /\ queue' = "started"
  /\ run' = [run EXCEPT !["worker"] = [pc |-> "start", item |-> 1, done |-> FALSE]]
  /\ UNCHANGED <<kind, job, attempts, left, storeVars>>

(* With a fault: a lost worker is always recorded as to be retried. *)
LoseWorkerFault ==
  /\ "kill" \in faults
  /\ run["worker"].pc \notin {"idle", "lost"}
  /\ job' = "queued"
  /\ Go("worker", "lost")
  /\ UNCHANGED <<kind, attempts, queueVars, storeVars>>

(* The process dies: handle_work_horse_killed runs before the queue spends *)
(* a retry.  With the parent dead too, or the database down, it records    *)
(* nothing.                                                                *)
LoseWorker ==
  /\ "kill" \in faults
  /\ run["worker"].pc \notin {"idle", "lost"}
  /\ \/ job' = IF left > 0 THEN "queued" ELSE "dead_lettered"
     \/ "handler" \in faults /\ UNCHANGED job
  /\ Go("worker", "lost")
  /\ UNCHANGED <<kind, attempts, queueVars, storeVars>>

Finish ==
  /\ At("worker", "returned")
  /\ queue' = "finished"
  /\ Go("worker", "idle")
  /\ UNCHANGED <<kind, job, attempts, left, storeVars>>

(* A retry with an interval is scheduled, one without goes back at once;   *)
(* each retry has an interval of its own.                                  *)
RetryTo == {"waiting"} \cup IF "delay" \in faults THEN {"scheduled"} ELSE {}

Requeue ==
  /\ run["worker"].pc \in {"raised", "lost"}
  /\ \/ left > 0 /\ left' = left - 1 /\ queue' \in RetryTo
     \/ left = 0 /\ queue' = "failed" /\ UNCHANGED left
  /\ Go("worker", "idle")
  /\ UNCHANGED <<kind, job, attempts, storeVars>>
-----------------------------------------------------------------------------
TaskStep(x) ==
  \/ Start(x) \/ ReadFile(x) \/ Progress(x) \/ Lookup(x) \/ PutObject(x) \/ InsertDocument(x)
  \/ DiscardObject(x) \/ GetDocument(x) \/ Report(x) \/ Complete(x) \/ Reload(x) \/ Unlink(x)
  \/ Record(x) \/ Drop(x)

RouteStep == CreateJob \/ StageFile \/ DispatchInline \/ DispatchQueued \/ DispatchRefused
QueueStep == Dequeue \/ Finish \/ Requeue
Failure ==
  \/ Abandon \/ LoseWorker \/ LateTimeout
  \/ \E x \in Run : StartFails(x) \/ TaskFails(x) \/ RecordFails(x)

Next ==
  /\ RouteStep \/ QueueStep \/ Failure \/ \E x \in Run : TaskStep(x)
  /\ UNCHANGED faults

Spec == Init /\ [][Next]_vars

(* The processes of the route and of the worker are scheduled while they   *)
(* live: a created job is dispatched, and one that waits is taken.         *)
FairSpec ==
  /\ Spec
  /\ WF_vars(RouteStep /\ ~At("route", "idle") /\ UNCHANGED faults)
  /\ WF_vars(QueueStep /\ UNCHANGED faults)
  /\ \A x \in Run : WF_vars(TaskStep(x) /\ UNCHANGED faults)
-----------------------------------------------------------------------------
(* How far a run is: every item before its own has a document, and it says *)
(* completed only after the last.                                          *)
ItemsDone(x) ==
  LET i == run[x].item
  IN /\ run[x].pc \in {"stage", "dispatch", "start", "read", "progress"} => i = 1
     /\ run[x].pc \in {"read", "progress"} => kind = "upload"
     /\ run[x].pc \in {"lookup", "put", "insert", "get", "report"} =>
          i \in Item /\ 1 .. i - 1 \subseteq document
     /\ run[x].pc = "report" => kind = "import"
     /\ run[x].pc \in {"get", "report"} => i \in document
     /\ run[x].pc = "complete" => document = Item

JobInv ==
  /\ TypeOK
  /\ \A x \in Run : ItemsDone(x)
  /\ At("route", "idle") => run["route"].item = 1
  /\ job = "completed" => document = Item

(* Without a lost answer of the queue only one process has the job: the    *)
(* route until it is accepted, then the worker, while it is "started".  The *)
(* attempts made and the retries left add up to no more than the limit.    *)
OneRun == "unsure" \notin faults =>
  /\ run["route"].pc \notin {"returned", "raised"} => queue = "absent"
  /\ queue = "started" <=> run["worker"].pc # "idle"
  /\ run["route"].pc \in {"idle", "stage", "dispatch"} => attempts = 0
  /\ queue = "waiting" \/ At("worker", "start") => attempts + left < MaxAttempts
  /\ queue = "started" => attempts + left <= MaxAttempts

(* The item a run is about to insert has its object and no row, and the    *)
(* object it discards belongs to no row.                                   *)
ObjectInv == faults \cap {"unsure", "timeout"} = {} =>
  /\ document \subseteq object
  /\ \A x \in Run :
       /\ run[x].pc \in {"put", "insert", "discard"} => run[x].item \in Item \ document
       /\ run[x].pc = "insert" => run[x].item \in object

(* Until its last failure is recorded an upload keeps the file that the     *)
(* route staged: only a run with no retries left comes to drop it.         *)
FileInv == (faults \subseteq {"task", "start", "record", "delay"} /\ kind = "upload") =>
  /\ At("route", "dispatch") \/ queue \in {"waiting", "scheduled"} => staged
  /\ run["worker"].pc \in TryPhase \cup {"start", "record"} => staged /\ ~run["worker"].done
  /\ At("worker", "raised") => left = 0 \/ staged
  /\ ~At("worker", "lost")
  /\ At("worker", "drop") => left = 0

(* A completed job has a document for each of its items, whatever fails and *)
(* however often the task runs: ingest_file is idempotent by document_id.  *)
CompletedHasDocuments == job = "completed" => document = Item

(* A document that can be listed can be downloaded: no run, in a retry or  *)
(* in its cleanup, removes the object of a row that is committed, as long  *)
(* as the task does not run twice at once and the timeout does not strike  *)
(* between a commit and the end of its try.                                *)
DocumentHasObject == faults \cap {"unsure", "timeout"} = {} => document \subseteq object

(* The queue never starts a run that start refuses: the retries it has left *)
(* and the attempts of the row, kept in two stores, never disagree that way *)
(* unless an enqueue was accepted and reported as failed.                  *)
NoAttemptRefused ==
  "unsure" \notin faults => (At("worker", "start") => attempts < MaxAttempts)

(* When calls raise and no process dies, an upload that is to be tried     *)
(* again still has its file: only the last failure and success remove it.  *)
StagedForRetry ==
  faults \subseteq {"task", "start", "record", "delay"} =>
    (kind = "upload" /\ queue \in {"waiting", "scheduled"} => staged)

(* README.md:25 promises a durable dead-letter state: a job the queue gave *)
(* up is dead-lettered in its row, not queued or running for ever.         *)
DeadLetterRecorded == queue = "failed" => job = "dead_lettered"

(* Tasks may fail and workers die: a job that was created comes to an end  *)
(* in its row and stays there, or its row says queued for good and its     *)
(* retry lies among the scheduled ones, which takes a retry interval.      *)
EveryJobEnds ==
  (job # "absent" /\ faults \subseteq {"task", "kill", "delay"})
    ~> ([](job \in EndStatus) \/ [](job = "queued" /\ queue = "scheduled" /\ "delay" \in faults))

(* README.md:317 promises to retry worker failures up to three times: a    *)
(* job put back to queued after a failed attempt leaves that state.        *)
FailuresRetried == (job = "queued" /\ attempts > 0) ~> (job # "queued")
=============================================================================

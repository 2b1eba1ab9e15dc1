# A TLA+ model of the governed work OS

The repository is a FastAPI backend (`src/backend/app`) in which agents propose
work and people approve it: tools are called through a gateway that keeps every
call on record, high-risk calls wait for the decision of a reviewer, and
multi-step workflows go on when the decision comes. This directory models the
parts of it in which several requests, crashes and outside systems meet: what
the code does, transaction by transaction, what it promises, and where the two
differ.

Run everything here with TLC (`tlc -config X.cfg M`) and TLAPS (`tlapm M.tla`).

## The system

### Components

`S/` is `src/backend/app/services/`.

| component | source | state | operations |
|---|---|---|---|
| MCP tool gateway | `S/mcp_gateway.py`, `api/routes/mcp.py` | `mcp_tool_executions`, `workspace_tasks` | request, apply an approval, run, retry, cancel |
| approval ledger | `S/approval.py`, `api/routes/approvals.py` | `approval_requests` | create, decide, cancel for an execution |
| provider actions | `execute_action` of `S/connectors.py`, `S/connector_providers.py` | `connector_action_receipts` | look up, claim, call, settle |
| workflow engine | `S/workflows.py`, `api/routes/agent.py` | `agent_workflows`, `workflow_actions` | create, run (resume), retry, cancel, follow a decision |
| LangGraph orchestration | `S/langgraph_workflows.py` | checkpoints, `workflow_graph_events` | run the advance loop, record the end |
| background jobs | `S/jobs.py`, `S/background_tasks.py`, `S/tasks.py`, `worker.py` | `background_jobs`, the Redis queue, staged files | enqueue, start, retry, fail, dead-letter, worker loss |
| document store | `S/rag.py`, `S/object_storage.py` | `documents`, `document_chunks`, objects | ingest, replace, reindex, update, delete |
| connector accounts | `S/connectors.py` | `connector_accounts`, `oauth_states` | start and finish OAuth, refresh, disconnect |
| connector sync, webhooks | `S/connectors.py` | sync states and items, subscriptions, deliveries | sync, receive a webhook |
| identity | `S/users.py`, `core/security.py`, `S/oidc.py` | users, memberships, sessions, invitations | log in, rotate, revoke, invite, accept, change a membership |
| OpenClaw clients | `S/openclaw.py` | `openclaw_clients` | create, authenticate, revoke |
| budgets, observations | `S/observability.py`, `S/model_gateway.py` | `runtime_observations`, `cost_budgets` | check, call, record |
| rate limiting | `S/rate_limit.py` | windows in memory or Redis | consume |
| policies, content controls | `S/policies.py`, `S/security_controls.py`, `S/prompt_guard.py` | policies, security events | evaluate, inspect |
| planning agent | `S/agent.py` | none | plan |
| retrieval, answers | `S/rag.py`, `S/retrieval.py`, `S/grounded_answers.py`, `S/embeddings.py` | none of their own | ask: search what the asker may read, generate, validate, fall back |
| evaluation | `S/rag_evaluation.py` | `rag_evaluation_datasets`, `_runs`, `_results` | create a dataset, run it per provider |
| document parsing | `S/document_parsing.py` | none | extract text |
| protocol adapter, operations, metrics, audit, configuration | `S/mcp_protocol.py`, `S/operations.py`, ... | append-only records | report |
| frontend | `src/frontend` | the browser's | calls the routes |

### How they interact

The routes are plain functions, so FastAPI serves them in a thread pool and any
two of them overlap. There is no lock around the database: a service opens one
connection per `with get_connection()` block, so a block is a transaction and
what lies between two blocks is where others get in. Records are read in one
block, passed around as Pydantic values, and used for decisions and writes in
later ones. The guards that survive this are in the database: a `WHERE status =
...` whose row count is looked at, or a unique column.

    resume / retry / cancel ──► WorkflowService ──► MCPGatewayService ──► execute_action ──► provider
                                     ▲   │                │    ▲                │
      decide_approval ───────────────┘   │                │    │        receipts (unique)
            │        handle_execution_update              ▼    │
            └──────────► ApprovalService.decide ──► apply_approval

* A workflow step asks the gateway to `request_execution` under an idempotency
  key; a gated tool comes back as `pending_approval` and the workflow waits.
* A decision updates the ledger, then `apply_approval` authorises and runs the
  execution, then `handle_execution_update` finds the workflow action by its
  `execution_id` and goes on with the workflow, in the reviewer's request.
* A retry of a workflow may run the same execution again; a cancellation closes
  approvals one by one.

Around the documents there is a second knot:

    upload / reindex / delete ──► threads and jobs ──┐
                                                     ├──► rows, chunks ── objects
    sync_connector ──► event loop ── ingest/replace ─┘           │
         │  ▲                                                    ▼
      cursor, items      webhook ──► pending      ask / evaluate ──► budget, model

* `sync_connector` and the OAuth callback are `async`: they run in the event
  loop of the one server process, which gives way only where they `await`. Two
  syncs overlap while they wait for the provider and nowhere else; beside them,
  threads reindex and delete the documents they write.
* A connector item is stored as a document by `ingest_file` or
  `replace_file_content`, and then recorded with its hash in a transaction of
  its own; the cursor is stored when the whole page is done.
* An answer is made from what a search found, by a model that is paid for when
  the budget, read before, allows it; what it cost is recorded afterwards.

### What is hard, and what makes each part correct

* **Gateway and ledger.** Checks are made on what was read and every status is
  written unconditionally. Correct means: nothing gated runs before another
  person approved exactly these arguments, a provider acts at most once per
  execution whatever is retried, and what is reported completed has happened.
* **Workflow engine.** A resume, a retry, a cancellation and a decision advance
  one workflow at once, from stale records. Correct means: actions in order,
  completed only when every effect exists, attempts bounded, no call that turns
  forever, a waiting workflow has something to wait for, a cancelled one has
  nothing left to approve.
* **Jobs.** The attempt count is in the row and the retries in the queue; a
  worker may die after it wrote the end. Correct means: attempts within the
  limit, a finished job stays finished, a staged file lives as long as a retry
  may need it.
* **Documents.** Objects and rows are written apart, and a replacement, a
  reindex and a deletion of one document may meet. Correct means: what a row
  names is in the store, and its chunks are made from it, once.
* **Connectors.** Two syncs, failures in the middle of a page, a refresh during
  a disconnection, a delivery that comes again. Correct means: an item is one
  document and nothing is passed over; a state is exchanged once; a connected
  account can be refreshed and a disconnected one has no credentials; a delivery
  counts once.
* **Identity.** Counting before writing, looking up before revoking. Correct
  means: an active admin remains, a sign-in has one session, a person joins by
  one invitation.
* **Answers, budgets, rate limits.** Read, ask somebody, write. Correct means:
  an answer cites what its asker may read and the controls let through, a budget
  is exceeded by no more than what is in flight, a limit holds in every window,
  and an evaluation run ends with all of its results or none.

`PROJECT.json` lists each of these at its line under `hazards`, with the
properties that cover it or, for the few that none covers, why.

## The modules

| module | models |
|---|---|
| `GovernedEffect` | the abstract specification: ask, submit, decide, claim, perform, settle |
| `ApprovalGateway` | gateway, ledger and receipts, with threads, crashes and the environment |
| `OrderedEffects` | the abstract specification of a workflow: effects begin in order, are recorded, and are reported when all are |
| `WorkflowEngine` | a workflow, over `ApprovalGateway` |
| `JobQueue` | a background job, its queue entry and the task that runs it |
| `DocumentStore` | rows, chunks and objects of documents, written by the event loop and by threads |
| `ProviderFeeds` | what one incremental read of each provider returns: pure operators |
| `ConnectorSync` | syncs of one resource, over `DocumentStore` and `ProviderFeeds` |
| `ConnectorAccount` | one account: authorization, refresh, disconnection, key rotation, webhooks |
| `Identity` | one organization: members, invitations, sessions |
| `RateLimit` | the limit on requests, in memory and in Redis |
| `Answers` | inspection, paid calls and questions, over `RateLimit` |
| `Evaluation` | datasets and runs, over `Answers` |
| `ApprovalGatewayProofs`, `WorkflowEngineProofs`, `JobQueueProofs`, `DocumentStoreProofs`, `ConnectorSyncProofs`, `ConnectorAccountProofs`, `IdentityProofs`, `EvaluationProofs` | the theorems about each |
| `MCApprovalGateway`, `MCWorkflowEngine`, `MCJobQueue`, `MCConnectorSync`, `MCConnectorAccount`, `MCIdentity`, `MCAnswers` | the instances TLC checks |

`WorkflowEngine`, `ConnectorSync` and `Evaluation` extend the modules below
them, whose actions are steps of theirs. What is proved of the gateway and of the
store alone holds in the compositions because every step of these is a step of
the part or leaves it alone (`UsesGateway`, `UsesStore`, both proved).

### ApprovalGateway

The tables are functions of the execution: `status`, `requester`, `args`,
`hash`, `approvalRef` are columns of `mcp_tool_executions`; `decision`,
`decidedBy`, `approvedHash` of its row of `approval_requests`; `receipt` and
`receiptHash` of its row of `connector_action_receipts`; `tasks` are the
executions that have a `workspace_tasks` row. `sent` is the provider's side:
what it was made to do. `authority` is what `user_service` and
`openclaw_service` answer about a principal. `gated` records which executions
were inserted as `pending_approval`, for the properties only.

`th[t]` holds the Python locals of thread `t`: where it is (`pc`), the execution
it works on, the arguments it read, the status it will write. An action is one
transaction, so `request_execution` of a gated tool is `RequestExecution` (the
key lookup), `InsertExecution`, `CreateApproval`, `LinkApproval` (which writes
`pending_approval` a second time), `RereadExecution`, `Respond`; a decision is
`Decide` (the `SELECT`), `DecideUpdate`, `ApplyApproval`, `Authorize`,
`WriteStatus` and `_run`, in which every handler of a tool may raise (`LookupTask`
and `InsertTask`: before or after its statement). `decide` is one block of the code and two actions,
because its two statements see different snapshots at READ COMMITTED, and its
`UPDATE ... AND status = 'pending'` is not checked for the number of rows.

Around them: `Crash` (the process stops, or nobody catches what the database
raised), `Raise` (the caller catches it), `ChangeAuthority`, `Tamper`
(`arguments_json` edited in the table, as `test_security_mcp.py` does), and a
provider that acts or not and answers or not.

Abstractions. Arguments are values of `Call`, equal exactly if their hashes
are; a call has one kind of tool (`provider`, `task`, `query`). Policies,
settings and prompt guards may give any answer at any time, except that a
provider tool has `approval_required=True` in the code. All tools need one
scope. A crash inside SQLite or PostgreSQL loses or keeps a whole transaction.
The executions of `Keyed` have idempotency keys; the others get a fresh name.
`ApplyApproval` reads the approval and the execution in one step: the decision
is final by then, so only the second read matters. The two reads of a row by
`_update_execution`'s callers are one.

### WorkflowEngine

`workflow` is `agent_workflows.status`; `act`, `attempts`, `linked` are the
status, the `attempt_count` and "`execution_id` is set" of each
`workflow_actions` row. Execution `i` of the gateway is that of action `i`
(key `workflow:<id>:action:<i>`). `w[t]` holds the locals of thread `t` in
`workflows.py`: the service function (`task`), the action, the status it holds,
the loop and the rounds it has left, the scopes of the requester as it read
them. While `w[t].pc = "await"` the thread is inside a gateway call and the
actions of `ApprovalGateway` are its steps (`GatewayStep`); every other action
leaves the gateway alone or begins or ends a call.

`run_workflow` is `RunWorkflow`, `LoadWorkflow`; a round of
`_advance_workflow_once` is `Advance`, `MarkRunning`, `PickAction`, then
`CompleteWorkflow`, or `PollExecution` / `ClaimAction`, `RequestAction`,
`TakeResult`, `SyncAction` or `FailAction`, `ReloadAction`, `MarkWorkflow`; then
`CheckWorkflow` decides on another round. `LeaveLoop` is what follows the last
one: the LangGraph engine raises at its recursion limit and `run_workflow` falls
back to `_run_deterministic`, or gives up, by configuration;
`checkpoint_terminal` swallows everything. `RetryWorkflow`..`ResetAction`,
`CancelWorkflow`..`CancelStatus` and `DecideAction`, `NotifyAction`,
`NotifyWorkflow` are the other three routes.

`Ordered` is the instance of `OrderedEffects` the engine implements: an effect
has `begun` when the task's row is inserted or the provider has been made to act,
is `done` when it is on record (a task's row, a completed receipt), and is
`reported` while the workflow reads `completed`. A stale `running` may take the
report back (`Retract`), never an effect.

Abstractions. `get_workflow` reads a row and then its actions; this is one step,
as nothing is decided between. The hydrate node of the graph reads the workflow
and `advance` reads it again: one step. The plan, a list of calls, is a
constant; building the arguments can fail (`Abort`) and is otherwise the call.
A manager who cancels for an owner who left goes on, in `checkpoint_terminal`,
as the owner. Checkpoints and graph events are written and never read to decide.
No code writes the action status `skipped`.

### JobQueue

`job`, `attempts` are `status` and `attempt_count` of the job's row; `queue` and
`left` the place of its entry in Redis and RQ's `retries_left`; `staged` the
uploaded file; `document` and `object` the items of the job that have a row in
`documents` and an object in the store. `run` holds the two runs of the task
that can exist: `"route"`, when jobs are synchronous or the queue refuses
(`_dispatch` falls back), and `"worker"`. `kind` is the type of the job: an
upload ingests one document from a staged file, a connector import `Imported`
ones with a progress report after each, a reindex none.

`CreateJob`, `StageFile`, `DispatchInline` / `DispatchQueued` / `DispatchRefused`
are `BackgroundTaskService`; `Start`, then `ReadFile`, `Progress` (uploads),
`Lookup`, `PutObject`, `InsertDocument`, `DiscardObject`, `GetDocument`
(`ingest_file`), `Report`, `Complete`, `Reload`, `Unlink` are the task statement
by statement; `TaskFails`, `Record`, `Drop` its `except`. `Dequeue`, `Finish`,
`Requeue` are what RQ does as `worker.py` and `_dispatch` set it up: it takes an
entry that waits, and after a run that raised or was lost it spends a retry or
gives up. A retry without an interval waits again at once; one with an interval,
as they have by default (`5,30`), is put among the scheduled ones (`RetryTo`), and
there it stays, because the worker is started without a scheduler
(`worker.py:26`) and no other process runs one. `LoseWorker` is the death of the
work-horse, with `handle_work_horse_killed` before RQ counts the retry, as RQ
calls it.

`faults`, a constant of each behaviour, names what may go wrong in it, and each
property says which faults it survives: a call within the task's `try` (`task`), `start` before it (`start`),
the recording of a failure (`record`), the process of the run (`kill`) with or
without its handler (`handler`), RQ's timeout after a commit (`timeout`), the
route (`route`), positive retry intervals (`delay`), an enqueue accepted and
reported as failed (`unsure`).

Abstractions. Extraction, scanning and embedding are between `Lookup` and
`PutObject` and can only raise. Nobody deletes a document meanwhile. A reindex
is one call that returns or raises, between `Start` and `Complete`. The reads
that `update`, `retry` and the others make after their `UPDATE` matter where
their failure does: after `Complete` (`Reload`), in `StartFails`, `RecordFails`.

### DocumentStore

`row[d]` is `documents.storage_key`, `chunk[d]` the rows of `document_chunks`
(each set by who wrote it and from which content), `object[d][k]` the file under
a key: the plain `document_key` or, for a replacement, the same with a uuid
(`NewKeys`). `writer` holds the locals of `ingest_file` or
`replace_file_content`, of which the event loop runs one at a time; `op[u]`
those of `reindex_document` or `delete_document` in thread `u`.

`StartIngest` / `StartReplace`, `PutFile`, `CommitWrite`, then `DropReplaced`, or
`DiscardFile` where the transaction failed, are the writer; `BeginReindex`,
`ReadFile`, `OpenReindex`, `CommitReindex` and `BeginDelete`, `DeleteRow`,
`DropFile` the threads; `StoreCrash` ends all of them and keeps the files. A
replacing transaction is two actions, `Open...` and `Commit...`: under READ
COMMITTED its `DELETE` sees the chunks of that moment (`seen`), and its `INSERT`s
come on top of what another transaction has committed since. `overtaken` marks a
call whose reading another one's commit has made old; `late` are the documents
such a call wrote last. Both are for the property only.

Abstractions. One content stands for a file and for the text extracted from it.
Inspection, embedding and any other exception are the failing branch of a step.
`update_document` touches neither chunks nor files; it is in `Answers`. Deleting
an object may fail, and the code passes over that.

### ProviderFeeds and ConnectorSync

`ProviderFeeds` gives for each adapter of `connector_providers.py` the pages it
may return for a cursor and the cursor it hands back: GitHub and Jira in
ascending order from the cursor on (`IssueReads`), for which Jira's query takes
the cursor without its fraction of a second and without its offset
(`JiraSince`; `zone` is by how much the time zone that Jira reads the query in is
ahead of the one it answers in), Google Calendar with its sync
token (`CalendarReads`), Gmail's history (`GmailReads`), Slack newest first with
one cursor for all channels (`SlackReads`), Notion filtered after the page was
cut (`NotionReads`). Calendar and Notion mark what was deleted (`Reporting`); the
lists of the others do not have it any more (`Listed`).

`cursor` and `status` are the row of `connector_sync_states`, `item` the rows of
`connector_sync_items` with hash (`content`), `document_id` and deletion;
`content`, `gone`, `stamp`, `now` are the provider. `sync[s]` holds the locals of
one `sync_connector`: `BeginSync`, `Fetch` or `FetchFails`, `Receive`, then
`Persist` for each item (`RecordDeletion`, `PassUnchanged`, or `StoreItem`, which
starts the writer of `DocumentStore` and ends with `StoreReturns`, `RecordItem`),
and `CompleteSync` or `FailSync`, which is any exception after the answer: in
writing the document, after its commit, or at a statement of the item. `Take`
keeps the `document_id` that the `SELECT` of the item found (`StoredDoc`), with
which the item is recorded, or fails when that document is gone. `LoopFree` is the event loop: nothing is
awaited from `Receive` to the end. `BeginCall`, `DeleteDocument` and `StoreWorks`
are the steps of the store; deleting a document sets the `document_id` of its
item to NULL. `torn`, `stray` and `regressed` record, for the properties, what a
failure in the middle of an item left behind and that a sync stored what it had
read before another one ended.

Abstractions. One resource of one account; resources share nothing. The order
within a page is free. A document's title and classification are left out here:
`replace_file_content` gives the connector's classification back to a document
whatever an administrator has made of it since, which nothing promises
otherwise. What a webhook makes `pending` is set back by `_complete_sync_state`
even when it came after the provider's answer; the delivery itself is in
`ConnectorAccount`.

### ConnectorAccount

`account` is the row of `connector_accounts` (status, the two tokens, the key
they are sealed with), `oauthState` the rows of `oauth_states`, `subscribed` and
`duplicates` the subscription and its deliveries. The provider's half is `live`:
of each grant, the refresh token it would take. `exchanged`, `accepted` and
`requested` count what was done.

A callback is `ReadState`, `DeleteState` (one call of the event loop, so
`LoopFree` again), `Exchange`, `Connect`; a refresh `BeginRefresh`, `Refresh` or
`RefreshRefused`, `StoreRefreshed`; a disconnection `BeginDisconnect`,
`RevokeRemote`, `Wipe`; the rotation of keys `BeginReseal`, `Reseal`; a webhook
`BeginDelivery`, then `ReceiveWebhook` (`FirstDelivery` or `Duplicate`) or
`RejectWebhook`. Every write of the row is by its id alone, whatever it has
become; `crossed` marks that such a write was made by a call that had read an
older row, or that a rotated token was lost, until the account is connected
again. `Crash` may bring another active key, as a new configuration does.

Abstractions. One account of one provider; a code is its state. Every exchange
brings a refresh token, as the authorization asks for one (`offline`, `consent`):
an account that has none is never refreshed, and the `COALESCE` of `Connect` has
nothing to keep. The signature of a webhook is right or not. `expires_at` and
`last_error` are left out: a token may be due whenever it is asked for.

### Identity

`member`, `invitation`, `session` are the rows of `organization_memberships`,
`organization_invitations`, `auth_sessions`, the last with the sign-in it goes
back to (`login`), which the code does not keep and the property needs.

A sign-in is `SignIn` (the password), `Switch`, `StartOIDC`, `ConsumeState`,
`VerifyIdentity`, or an accepted invitation, then `LoadUser` and `CreateSession`;
a refresh is `BeginRefresh`, `RotateSession` (an `UPDATE` whose row count is
looked at), `LoadUser`, `CreateSession`; `BeginLogout`, `Logout`;
`update_membership` is `BeginUpdate` (authorized), `CountAdmins` or
`RefuseUpdate`, `WriteMember`; invitations are `BeginInvite`, `InsertInvitation`,
`InvitationLapses`, `ListInvitations`, `BeginAccept`, `Accept`. `crossed` marks
that a membership was written from a count or a row that another update had
changed meanwhile.

Abstractions. One organization, two roles (who is an admin and who is not is all
the rules look at). A password or a token is right or not. The marking of an
overdue invitation as expired by `accept_invitation` is rolled back by the
exception that reports it, so it is no step.

### RateLimit, Answers and Evaluation

`RateLimit` is `consume`: a fixed window from the first request on in the memory
of the process (`ConsumeMemory`, with `Evicted` beyond its capacity), windows of
the clock in Redis (`ConsumeRedis`), Redis with the memory to fall back on, or
without it in production. Redis may have counted a request (`Counted`) whose
answer never came. `now` is the clock; `Tick` moves it; `admitted` keeps the times
at which requests of an identifier were let in, for the property.

`Answers` has `doc`, each document with its flags, what is in its file, and its
`passages` (the chunks of one indexing: what is in them, the policy they were
inspected under, the number of the transaction that wrote them), `policy`, the
budget (`limit`) and what was recorded (`spent`). An upload or a replacement is
`BeginUpload` (`preflight_upload`), `InspectText`, an embedding, and its
transaction, `OpenIndex` and `CommitIndex`; `BeginReindex` comes in at the same
place with the file of the row. As in `DocumentStore` the `DELETE` of the
transaction sees the chunks that were committed when it began (`seen`): those that
come after (`Unseen`) stay beside the ones it inserts, and the mark it writes
covers all of them (`Indexed`). A paid call is
`CheckEmbedding`, `Embedding` or `CheckGeneration`, `Generate`: the budget is read
in one transaction and the cost recorded in another, which may fail unnoticed
(`Record`). A question is `BeginQuestion` (the middleware's limit), an embedding,
`Retrieve`, `CheckGeneration`, `Generate` or `ExtractiveFallback`, `Answered`.
`Searchable` is the `WHERE` clause of the searches; `Grounded` is
`_validate_citations`. The model may cite anything there is.

`Evaluation` has `dataset` and `runs`, and `work[c]`, the locals of
`run_dataset`: `BeginEvaluation` (the corpus is read once), for each provider
`CreateRun`, for each case `NextCase`, an embedding, `ScoreCase`, then
`FinishRun` (results and status in one transaction, of which the acknowledgement
may be lost: the request then takes it for failed) or `FinishWithoutResults`,
and `Report`. `cut` are the runs whose request was gone before they were
settled: nothing takes those up again, and they stay `running`.

Abstractions. A text is the set of things a control looks for in it; the chunks of
one indexing are one passage; the numbers of a ranking are a choice among what may
be read. Objects and their keys are in `DocumentStore`; here a row has the file
that its reindexing reads. One budget stands
for the lowest of those that apply. Only `classification` and the `unsafe` flag
decide what a search returns, as in the SQL; the editable `document_access`
policies are not consulted there.

## What is checked

Each passing property has a mutant: an operator `...Fault` beside the one it
replaces, with the kind of slip the property is there to catch.

| run | bounds | states | shows |
|---|---|---|---|
| `gateway` | 2 threads, 1 execution, 2 users who may both review, 4 calls; crashes, refused transactions, tampering, changes of authority | 951,450 | `ApprovedBeforeEffect`, `SentOnceAsApproved`, `CompletedWasSent`, `DecisionFinal`, `ReceiptFinal`, the inductive invariant, and that the gateway implements `GovernedEffect` |
| `faults` | 1 thread, plan task-mail, 2 attempts, 2 rounds; crashes, exceptions at every transaction, failures of the graph, an owner who changes | 222,843 | `ActionsInOrder`, `AttemptsBounded`, the inductive invariant, that the engine is a well-behaved client of the gateway (`UsesGateway`) and implements `OrderedEffects`, which implies `CompletedWorkflowDone` |
| `threads` | 2 threads, the same plan, LangGraph | 6,489,344 | `ActionsInOrder`, `CompletedWorkflowDone`, `AttemptsBounded` with every interleaving of two requests |
| `deterministic` | 2 threads, the same plan, `_run_deterministic` | 3,044,641 | `NothingLeftRunning` |
| `liveness` | 2 threads, one mail, LangGraph | 678,298 | `EveryCallReturns`, under fairness |
| `jobs` | 3 attempts, imports of 2 items, four sets of faults, each with retry intervals and without | 53,411 | `CompletedHasDocuments`, also with two runs at once; `NoAttemptRefused`, `DocumentHasObject`, `StagedForRetry`, `EveryJobEnds` under the faults each names; the inductive invariant |
| `sync` | 2 syncs, 2 items, 3 documents, 2 contents, 1 thread; GitHub with pages of 2, Jira and Calendar with pages of 1; three scopes | 2,910,158 | `RowHasObject`, `IndexMatchesObject`, `NothingSkipped`, `ItemMatchesDocument`, `OneDocumentPerItem`, and that a sync uses the store as it allows (`UsesStore`) |
| `accounts` | 3 requests, 2 authorizations, 1 delivery, rotating tokens; three scopes | 29,189 | `StateUsedOnce`, `CredentialsFollowStatus`, `DeliveryCountsOnce` |
| `identity` | 3 requests, 2 persons, 4 sessions, 2 passwords, 1 OIDC state, 2 invitations; three scopes | 236,435 | `OneSessionPerLogin`, `InvitationGrantsOnce`, `AdminRetained` |
| `answers` | 2 documents, 2 requests, budgets 0 to 2, 1 case, 2 providers, a window of 2 ticks in 3; fourteen settings | 1,352,231 | `AnswersFromVetted`, `SpendBounded`, `AdmittedWithinLimit`, `RunsSettle` |
| `cancel`, `disconnect` | as above | | the findings below |

**Bounds, and why they are enough.** Executions do not share any row, so one
execution with two threads shows what two threads can do to it; two suffice to
race every check against every write, and the theorems cover any number of all
of these. Both users may review and one requests, so self-approval is possible
as far as the roles go. Four calls give a provider call, a flagged one (also a
tampered argument), a task and a query. Nothing bounds the number of requests,
decisions, retries or crashes of a run: the state space is finite by itself.
A plan of a task and a mail has an action that runs at once before one that
waits. `MaxAttempts = 2` stands for 3 and `MaxAdvances = 2` for the 100 rounds
of `_run_deterministic` and the recursion limit of the graph: an action still
`running` after its round is met in the next one already, and a workflow of two
actions may need more rounds than that, so the limit is reached in good and in
bad cases. `Thread` is a symmetry set where no liveness is checked.

Three attempts are the default of the settings and give a first, a middle and a
last one; two items give one that is done before a failure and one after. A job
shares nothing with another.

The other modules have counters that grow with every call: the provider's clock,
token numbers, counts of deliveries. There a budget (`left`) says how often each
kind of event may begin in a behaviour, and the instance gives several of them,
each for one sort of meeting, so that all together stay small:

* `MCScopes`: three changes and three syncs, two of which overlap; two syncs
  with a deletion or a reindex and a crash; two syncs beside two such calls.
  Pages of one item make an item wait for the next page, pages of two have one
  item stored and one not when a failure comes. Three documents are one more
  than items, for one that is left over.
* `MCBounds` of the accounts: two authorizations, two refreshes and a
  disconnection at once; one of each with a crash and a new key; three copies of
  a delivery with a crash. Three requests meet at a row: one that has read it,
  one that writes over it, one that refreshes in between.
* `MCBounds` of `Identity`: sessions (two sign-ins, two refreshes, a logout, a
  crash), invitations (two invitations, three acceptances), members (three
  updates beside an invitation).
* `MCSettings`: two uploads, or an upload, its reindexing and a reclassification,
  under each of three policies and a change of it, beside a question; a replacement
  that overlaps with a reindexing, before a question (`MCOverlap`); a question
  the budget allows beside two uploads; two questions while the budget changes
  and is forgotten; four requests over three ticks of the clock and a restart,
  with each backend; an evaluation of one case by two providers, cut by a
  restart.

The gateway and `faults` runs check deadlock. The others do not
(`CHECK_DEADLOCK FALSE`): a completed workflow refuses every request, and when
no thread is busy nothing is left to do; a job that ended does nothing more; and
where events are counted, a behaviour stops when they are spent.

**Fairness.** `CalmSpec` has weak fairness of `Proceed(t)` for each thread: a
thread of the pool that is in the middle of a request gets its turn, and each
of its steps is a database statement with a busy timeout or a provider call
with a request timeout. Nothing forces a route to be called or a reviewer to
decide, and there is no fairness in the specifications with crashes. No step
waits for another thread, so weak fairness is all that is needed. For jobs,
`FairSpec` has weak fairness of the route once the job is created, of the queue,
and of each run: processes that live are scheduled, RQ takes what waits. It has
none of a step that puts a scheduled retry back, because nothing takes that step:
`EveryJobEnds` says that a job comes to an end for good or lies there for good, and
`MCJobQueueRetry.cfg` shows the second. A worker may die in every attempt; the retries
are finite. The other modules make
no liveness claims: a request there is a straight line of steps that waits for
nobody.

### What the properties leave open

Each exception in a property is a case that the code does not guard against, and
the history variable that marks it (`overtaken` and `late`, `torn`, `stray`,
`regressed`, `crossed`, `cut`) is set by exactly the steps that bring it about.

* **Jobs.** With `unsure` or `timeout` a document can lose its object
  (`rag.py:217` deletes it when the `INSERT` is refused or the timeout strikes
  after the commit), so `DocumentHasObject` excludes both. With `kill` a job that
  wrote `completed` can be put back to `queued` or `dead_lettered` with the
  message that its worker stopped before completing (`jobs.py:149`), and an
  upload whose file is gone then fails its retries: `StagedForRetry` excludes it.
  With `route`, `start`, `record` or `handler` a row can stay `queued` or
  `running`, so `EveryJobEnds` excludes them. With `delay`, which is the default, a
  retry is never tried: it says so.
* **Gateway.** A crash between the `INSERT` of a gated execution and that of its
  approval (`mcp_gateway.py:301`) leaves an execution that nobody can decide.
  Nothing runs because of it, and nothing collects it.
* **Workflows.** `NothingLeftRunning` holds for the deterministic engine. Under
  LangGraph `checkpoint_terminal` may pick up a workflow that a stale write has
  revived after its cancellation, stop at its limit, and leave it `running`. An
  action may be left `running` by an approval that overtakes the request for it,
  and the property says so.
* **Documents.** A reindex that read the file before a replacement writes the
  chunks of the old text after it, and two reindexings leave two sets of chunks
  (`rag.py:531`): `late` in `IndexMatchesObject`. The mark of the document is then
  that of the transaction that came last, whatever chunks it left beside its own:
  `Vetted` excepts a marked passage beside which a later transaction put an
  unmarked one, and `MCAnswersMarked.cfg` shows that case. Objects that a crash or a
  failed deletion leaves behind are collected by nobody; no property says they
  are.
* **Syncs.** A sync that was overtaken by another one stores an older cursor and
  older items (`connectors.py:1483`): `regressed`. A crash between a document and
  its item leaves a document without an item, and the next sync makes another
  one (`connectors.py:1627`): `stray`, `torn`. A deletion that the adapter does not
  report is not recorded: `NothingSkipped` speaks of those that are reported.
* **Accounts.** A refresh, a key rotation or a disconnection writes over a row
  it has not read, and a rotated refresh token whose answer is lost cannot be
  had again: `crossed` in `CredentialsFollowStatus`.
* **Identity.** Two updates of memberships that both counted two admins leave
  none (`MCIdentityAdmin.cfg`), and an update that names only the role writes back the
  status it read: `crossed` in `AdminRetained`. `InvitationGrantsOnce` counts the
  invitations that read accepted, and so not one that was revoked while it was
  accepted (`MCIdentityInvitation.cfg`). A logout revokes the session it was made with;
  a refresh at the same time that had revoked it first opens its successor,
  which stays usable, though the README of the repository has refresh tokens
  "invalidated on logout" (line 186).
* **Budgets.** `SpendBounded` speaks of what is recorded. An answer of the model
  that does not validate is paid for and recorded at no cost, a record may fail,
  and the retention of observations can delete those of the current month, which
  a monthly budget then no longer counts.
* **Evaluation.** A run whose process stops, or whose last write fails, stays
  `running`: `cut` in `RunsSettle`.

### Findings

1. **`cancel`** (`workflows.py:384`). A cancellation closes the approvals of the
   actions as it read them; an action submitted meanwhile keeps an open approval
   in a cancelled workflow.
2. **`disconnect`** (`connectors.py:1389`). A refresh that was waiting for the
   provider's token endpoint while the account was disconnected writes its new
   tokens into the disconnected row, although "Disconnect always removes local
   credentials" (README of the repository, line 462).

Further configurations beside the runs show what else was met; each has a
property that TLC finds violated:

* **`MCApprovalGatewayVerdict.cfg`** (`approval.py:119`). Two reviewers read the
  approval as pending; the second `UPDATE` changes no row, which nobody looks at,
  and its reviewer is answered 200 for a decision that was not taken. The code
  means to answer "This approval request has already been decided.".
* **`MCApprovalGatewayDecision.cfg`** (`mcp_gateway.py:316`). The approval exists
  before its identifier is stored with the execution, and that second update
  writes `pending_approval` again. A decision in between is undone: the
  execution reads `pending_approval`, its approval is decided, nobody can decide
  it again.
* **`MCWorkflowEngineRetry.cfg`** (`workflows.py:353`). Retrying a failed action
  that has no execution resets it to `pending`, and then marks the workflow
  failed because the record in hand still says so. A failed workflow without a
  failed action can be neither resumed nor retried.
* **`MCWorkflowEngineWait.cfg`** (`workflows.py:457`). A decision made before the
  action knows its `execution_id` finds no action to advance; the requesting
  thread then stores `waiting_for_approval` from its stale record, and the
  workflow waits for a decision that was made.
* **`MCJobQueueDeadLetter.cfg`** (`tasks.py:34`). `start` is called before the
  `try` of each task. When the database is away then, nothing records the
  failure, and when the queue has given up the row is still `queued` or
  `running`, although the README promises a durable dead-letter state.
* **`MCJobQueueRetry.cfg`** (`worker.py:26`). The retries of a job have intervals by
  default, so that RQ schedules them, and nothing runs its scheduler: a job whose
  first attempt raised stays `queued`, although jobs "retry worker failures up to
  three times" (README of the repository, line 317).
* **`MCConnectorSyncDeletions.cfg`** (`connector_providers.py:538`). A deleted GitHub
  or Jira issue is in no list the adapters ask for: its record keeps saying that it
  is there, although "provider deletion events are recorded" (line 464). That the
  document stays is meant.
* **`MCConnectorSyncJira.cfg`** (`connector_providers.py:596`). Jira's cursor goes
  into the query without its offset. Where the query is read in a time zone behind
  that of the answers, it asks for what was changed later than the cursor and passes
  what was changed in between.
* **`MCAnswersMarked.cfg`** (`rag.py:536`). A reindexing of the old file whose `DELETE`
  came before the commit of a replacement, and whose `UPDATE` comes after it, leaves
  the marked chunks of the replacement under its own clean mark; they are searched
  and cited, although "Audit mode marks the document unsafe so retrieval excludes
  it" (line 202).
* **`MCConnectorSyncSlack.cfg`** (`connector_providers.py:482`). Slack lists the
  newest messages first and one page is read, so that a page smaller than what
  is new moves the cursor past messages nobody has stored; Gmail's history and
  Notion's filter after the page do the like. Slack's adapter also takes the notice
  of a deletion for a deleted message. `NothingSkipped` holds for the other three.
* **`MCIdentityAdmin.cfg`** (`users.py:409`). Two updates that count before
  either writes leave no active admin, although "An organization must retain at
  least one active admin." (`users.py:415`).
* **`MCIdentityInvitation.cfg`** (`users.py:582`). An invitation that is revoked by a
  newer one while it is being accepted still makes a member, with its own role,
  although one that is not pending is refused (`users.py:526`); the `UPDATE` that
  would mark it accepted changes no row, which nobody looks at.

None of those about workflows lets anything happen unapproved or twice: that is
what the passing runs and the theorems say.

## What is proved

`ApprovalGatewayProofs` proves, for every set of threads, executions, users and
calls, from `GatewayAssumption` alone (subsets, kinds of tools, and that `None`
is none of the values):

* `TypeCorrect`, `Invariance`: `GatewaySpec => []GatewayInv`;
* `Approved`, `AtMostOnce`, `CompletedTruthfully`: the three safety invariants;
* `DecisionsStand`, `ReceiptsStand`: the two action properties;
* `Refinement`: `GatewaySpec => Governed!Spec` under the mapping of the ledger
  to decisions, receipts to claims and `sent` to what was done.

The argument is the inductive invariant

    GatewayInv == GatewayTypeOK /\ RowInv /\ LedgerInv /\ EffectInv /\ ThreadInv /\ ClaimInv

The properties are not inductive by themselves: every status is written
unconditionally, so that `running` follows an approval depends on what a thread
knew when it decided to write it. `PhaseInv(t)` says, for each phase, which of a
thread's stale knowledge is still true, and it is, because the facts in it
(`MayRun`, a row exists, a decision is final, a receipt is taken) never become
false again. `ClaimInv` says that the unique receipt lets one thread near the
provider; `EffectInv` ties receipts to decisions and effects to receipts. One
lemma per action shows that it preserves all six parts; `LocalStep`,
`EffectStepInv` and their like say once what steps of one kind leave alone.

`WorkflowEngineProofs` adds `WorkflowAssumption` (the plan is a sequence of
calls, its positions name the executions, two positive limits):

* `EngineTypeCorrect`, `EngineInvariance`: `WorkflowSpec => []EngineInv`;
* `EngineUsesGateway`: `WorkflowSpec => GatewaySpec`, every behaviour of the
  engine is one of the gateway, so everything above holds of it;
  `EngineGovernsEffects`: and implements `GovernedEffect`;
* `WorkflowGoverned`: hence, whatever a workflow does, its effects are approved
  beforehand, happen at most once and are reported truthfully.

`EngineInv` says which action a handler is at in each phase, that an answer it
holds is one the gateway gives, and that an action which waits has an execution:
what makes the guards of the gateway's actions (a decision is about an existing
approval, a cancellation about a returned request) true where the engine calls
them.

* `EffectsInOrder`, `CompletedWorkflowsAreDone`, and `EngineOrdersEffects`:
  `WorkflowSpec => ImplementsOrderedEffects`, all from `OrderInv`. It says what a
  thread may rely on however old its readings are: a thread that claims, requests
  or polls an action, or is about to insert its row, found the effects of all
  earlier ones on record (`TurnInv`, `RequestInv`), and what it will write as
  `completed` is. This stays true because no effect on record is taken back
  (`DoneStays`, from the gateway's invariant). In the refinement only the insert
  of a task, the provider call and the update of a receipt change an effect
  (`EffectsChangeInRun`); every other step reports, retracts or stutters.
* `RetriesEnd`: `AttemptsBounded` **for `MaxAttempts <= 3`**, which is the default
  of the row and of the record (`max_attempts: int = 3`, `schemas.py:743`; no code
  sets another). `AttemptInv` gives an action without an execution one owner at a
  time (`OwnerInv`) and counts, for a thread that read in `retry_workflow` that the
  action had no execution, what others must have done before it can still claim
  it (`StaleInv`). The hypothesis is needed. With a limit of five, two threads with
  such a reading, each claiming the action after another thread has stored a stale
  `failed` over it, both reset it, and it is executed twice beyond the limit.
* `NothingIsLeftRunning`: `CalmSpec => []NothingLeftRunning` for the deterministic
  engine. `CarryInv`: while the workflow reads `running` there is a thread that has
  yet to look at it or to end it. `RunningInv`: an action that reads `running` has
  an approval, or a thread that works on it, and what was never gated is worked on
  by one thread at a time. Both rest on `EngineInv` and `GatewayInv`.

TLC found each of these inductive invariants true before its proof: `OrderInv` and
`AttemptInv` with one thread, three attempts and all faults (336,330 states) and
with two calm threads (12.7 million); `CarryInv` and `RunningInv` on the instance
of `deterministic` and with three threads and a single action (6.7 and 8.0
million).

`JobQueueProofs` uses `JobAssumption` (at least one attempt, a number of items)
and nothing of `faults` but what a property says of it:

* `JobInvariance`, `CompletedImported`: `Spec => []JobInv`, for all faults. A
  run's place in its task says which items have documents (`ItemsDone`): that is
  what makes `completed` true, and it survives a second run, since rows of
  documents are only added. One lemma per group of actions; `QuietStep` serves
  the steps that add no document.
* `AttemptsSuffice`: without `unsure`, `OneRun` holds: the route has the job
  until the queue has it, and attempts made plus retries left stay within the
  limit, strictly while an attempt is still to be counted.
* `DocumentsDownload`: without `unsure` and `timeout`, `ObjectInv` holds too: an
  item about to be inserted has its object and no row, and one discarded belongs
  to no row. It needs `OneRun`, since another run could insert it in between.
* `RetriesHaveTheirFile`: while calls raise and no process dies, `FileInv` holds
  too: the file is there in every phase before the last failure is recorded, and a
  run that comes to drop it has no retries left.

`DocumentStoreProofs` uses `StoreAssumption` (uuids are not the plain key, `None`
is no value). `StoreInvariance` is `StoreSpec => []StoreInv`, whose parts are the
types, the two properties, and `Known`: what a caller knows. The event loop knows
that the row names the file it read or is gone (`Preparing`), that what it put is
there as long as a row could name it (`Stored`), and that what it drops is named
no more (`Dropping`); a thread knows what it read unless it was overtaken
(`OpFresh`), and a transaction that was not overtaken has all chunks in sight
(`WriterSees`, `OpSees`).

* `RowsHaveObjects`, `IndexesMatch`, for any documents, contents, uuids, threads.

`ConnectorSyncProofs` adds `FeedAssumption` (finitely many items) and
`SyncAssumption`, and rests on `DocumentStoreProofs`: `SyncInv` has `StoreInv` as
a part, so that the lemmas about the store serve in the composition, and `Turns`,
which is the event loop: one sync has an answer in hand, the writer works for
the item that it is at, and is idle otherwise.

* `SyncUsesStore`: `SyncSpec => UsesStore`, every sync step is a step of the store.
* `CursorPassesNothing`: `NothingSkipped` for GitHub, Calendar, and Jira with
  `zone >= 0` (`InOrder`), where the query asks for no later time than the cursor
  (`SinceBehind`). A deletion counts where the adapter reports it; one that it does
  not is `Silent`, and takes the item out of the lists (`ListedTimes`). `ReadsInOrder` says of these adapters that an item they leave out
  is not before the cursor they return; `PassInv` follows such an item from the
  provider's answer (`Answered`) over the page in hand (`InHand`) into its record.
* `ItemsMatch` and `OneDocument`: `Names` says whose document the writer writes,
  `Contents` that it is what the item will record.

`ConnectorAccountProofs` uses `AccountAssumption`, with rotating tokens and
without, and no bound on what happens (`Bounds` are any numbers).

* `StatesUsedOnce`: `CodeInv` gives each authorization one way, and nobody a token
  of its grant before `Connect`.
* `CredentialsKept`: `CredInv` says, while nothing has crossed, which request can
  have the newest token of the grant, and that all others know they are behind.
* `DeliveriesCountOnce` is inductive with the types.

`IdentityProofs` uses `IdentityAssumption`.

* `SessionsOncePerLogin`: `SessionInv` says that a sign-in is in one hand: of one
  request that is to open its session, or of one session that is not revoked.
* `InvitationsGrantOnce` is inductive with the types.
* `AdminStays`: `AdminInv` says that a request about to write from a reading that
  still holds leaves an active admin, itself or another one.

`EvaluationProofs` is about `EvaluationSpec`, `Answers` and `Evaluation` together,
under the assumptions of `RateLimit`, `Answers` and `Evaluation`.

* `AnswersAreVetted`: `SoundInv` follows a text from its inspection (`Inspected`) into
  the passages of its document and from there into what a request may cite
  (`Readably`). `RowsSound` says of every row that the controls let its passages in,
  that the newest is numbered like the row and has the row's mark, so that a marked
  passage in an unmarked row has a later, unmarked one beside it (`RowSound`).
* `SpendingBounded`: `BudgetInv` counts: spending is within the highest budget
  plus one call for each request that is not at a paid call; entering one spends
  that allowance before the call does.
* `RunsAreSettled`: `RunInv` says that a run that is `running` belongs to one
  request at work on it, which has its cases scored in order, or was cut off; one
  that its request has yet to finish without results (`Unsettled`) may have all of
  them already.
* `RequestsAreLimited`: the count in `AdmittedWithinLimit` is bounded by labels.
  `RateInv` gives every request that was let in the window that counted it and its
  number there, at most the allowance, and no two the same; the windows of one
  process do not overlap and those of the next come later (`Apart`). A stretch of
  time meets few windows, so few labels, so few requests: an injection, and no
  induction on a sum.

**Only model-checked:** `EveryCallReturns` and `EveryJobEnds`, as liveness is out of
the prover's reach. Every invariant and every action property of the runs is
proved. No operator defined by recursion is used in a module that is proved about.

## Plan

Done, in this order, because the first govern what the system does to the
outside and the others feed them: `ApprovalGateway`, `WorkflowEngine`, `JobQueue`,
`DocumentStore`, `ConnectorSync`, `ConnectorAccount`, `Identity`, `RateLimit`,
`Answers`, `Evaluation`, each with its run and its theorems (those about
`RateLimit` and `Answers` are in `EvaluationProofs`).

Left:

1. `pending` of a webhook as a state of `ConnectorSync`, with the property that a
   delivery is followed by a sync that began after it, or is found pending.
2. Several resources of one account, which share the token and the event loop.

## What is not modelled

* **Document parsing** is done by libraries, without state; it returns a text or
  raises, which is a failing branch of the steps that call it.
* **The MCP protocol adapter** translates one stateless request into one gateway
  call.
* **Operations, metrics, audit, configuration** report and decide nothing.
* **Migrations** run once and alone. The tables they create are what the
  variables stand for, and the map names them.
* **The frontend** keeps no state that the server relies on.
* **Numbers and patterns**: the scores of retrieval and reranking, the metrics of
  an evaluation, embeddings, the patterns of the prompt guard and the scanners
  appear as a choice among what they may return, or as a verdict.
* **The planning agent** is the constant `Plan`; the language model that writes it
  is outside.
* **OpenClaw clients** are requesters whose authority may end at any time;
  creating, expiring and revoking one are single statements with that effect.

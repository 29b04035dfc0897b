# inLUMEN: a TLA+ verification project

TLA+ models of the parts of inLUMEN that decide who executes a piece of work,
how often, and what is recorded about it, and of the parts that keep the design
of a workspace while several of them write it; TLC configurations that check
them on small instances; and TLAPS proofs of their main properties for every
value of the constants. Paths below are relative to the repository (`src/`).

1. [Inventory](#1-inventory)  2. [Modules](#2-modules)  3. [Runs](#3-runs)
4. [Fairness](#4-fairness)  5. [Proofs](#5-proofs)
6. [Divergences found](#6-divergences-found)  7. [Limits](#7-what-is-not-modelled)

## 1. Inventory

inLUMEN lets a user draw a data pipeline, generates code for its tasks with
language models, and executes the compiled pipeline in containers.

```
browser (React) --> gateway (Flask) --> runner (asyncio, replicas) --> codegen service (FastAPI, replicas)
                        |                   |  records, leases             |  receipts, generation jobs
                      Neo4j, MinIO      PostgreSQL / SQLite            worker threads -> Docker
                                            +--> Neo4j (run summaries)
```

| Component | State | Operations | What makes it correct | Hard behaviour |
| --- | --- | --- | --- | --- |
| Worker leases, `shared/leases.py` (copied to runner and codegen) | table `worker_leases` | claim, renew, release, active | one executor per run, admission limits, no lease taken before it expires | clock read before a lock, stalls, crashes, several replicas |
| Execution receipts, `codegen/app/execution_store.py` and the endpoint in `codegen/app/main.py` | table `deployment_executions`, `DEPLOYMENT_TASKS` | submit, finish, get | a submission is executed at most once, results are final | duplicate and late submissions, crashes, deadlines |
| Pipeline run manager, `runner/app/manager.py`, `store.py`, `dagster_executor.py` | tables `pipeline_runs`, `pipeline_runs_deleted`, leases, `tasks`, summary in Neo4j | start, execute, recover, cancel, clear_all, reconcile | a run ends once, in a status that is true; purged runs stay purged; capacity | coroutines of one process, several processes, crashes, a service that may not answer |
| Resource admission, `packages/agents/.../codegen/resource_policy.py` | `_active`, `_waiting` | enqueue, acquire, release | no overcommit, FIFO, nobody stuck | threads, lost notifications, double release |
| Deployment worker, `codegen/app/deployment_validation.py` | cancel flags, progress, threads | prepare, cancel, materialize | ends, releases what it holds | cancel before start, failing clean-up, restart |
| Generation jobs, `codegen/app/main.py`, `job_store.py` | job table, copies per replica, tasks, leases, sandbox threads | start, resume, progress, cancel, clear, list, recover | cleared jobs stay cleared, results are kept, every job ends | threads that outlive their task, whole rows written from stale copies, restart |
| Graph and versions, `backend/neo4j_api.py`, `graph_revision.py`, `minio_api.py` | Neo4j graph, version rows, revision, objects in MinIO | save, restore, promote, delete, sync, clear, file actions | what a version names can be read and does not change | two stores and one transaction, actions outside the lock |
| Design turns, `backend/conversations.py`, `analytics_api.py`, `pipeline_agent/` | rows of turns, cancel requests, registry per process | send, start, heartbeat, cancel, roll back, finish, reset | one editor at a time, a turn runs once, answers are final and true | cancellation at any point and on any backend, late heartbeats, crashes |
| Editor persistence, `frontend/src/features/flow` | drafts, known revision, write queue | edit, save, reload | no unsaved draft is overwritten | late responses |
| Step cache, `codegen/app/step_cache.py` | objects in MinIO | stage, record, prune | a staged entry is complete | prune against stage |
| Plugin store, `backend/plugins/store.py` | table and 5 s cache | install, remove, list | bounded staleness | replicas |
| Graph rules, `packages/agents/.../contracts` | none | validate, map scopes, port types | agree with their definition | boundary cases |
| Code generation and design libraries, deployment artifacts | none shared | model calls, rendering | budget | - |
| Gateway, frontend views, scripts | none authoritative | forwarding, display | - | - |

The runner calls the codegen service over HTTP (POST to submit, GET to poll,
DELETE to cancel) with the run id as execution id. Runner replicas share only
the database; so do codegen replicas, and so do the backends, whose gateway
calls the graph adapter, the object store and the agent in its own process. All
writers of a workspace meet in its graph: people through the gateway, design
turns through the agent's tools. `PROJECT.json` lists every component with its
status and every hazard with its line.

## 2. Modules

### WorkerLeases

The lease table and the protocol around it. `claim` and `renew` read
`time.time()` in Python and only then wait for the lock of the database, so a
call is two actions: `StartClaim`/`StartRenew` read the clock into `call`,
`CommitClaim`/`CommitRenew` evaluate the statement with that, perhaps stale,
value. `task[w][r]` is the coroutine that executes a run, `beat` the time of its
last heartbeat. A worker is one process incarnation (`WorkerLeases.__init__`
draws a new owner). `via` is a history field; it tells leases gained by
submission from those gained by recovery, which the code claims without limits.

`Timely` selects one of two worlds. If TRUE, `Tick` waits for live workers that
have a statement or a heartbeat due (`Delay`, `Beat`), and the assumption
`Beat + 2 * Delay < TTL` says what room the protocol needs: one delay for the
statement whose clock value starts the lease, one for the renewal. The code
has 15 s, 60 s and no bound on statements, so the assumption reads "statements
take less than 22.5 s". If FALSE, workers stall for any time. With stalls,
`ExclusiveExecution` and `AdmissionBound` are violated (TLC refutes both when
they are added to `MCWorkerLeasesStalled.cfg`): the timing is a real
precondition of the deployment, not a convenience of the model.

### LeaseHolders

The leases as the managers see them: `lease` says who holds a run, without
clocks, rows or statements. Claim, Release, Abandon, Die, Lapse. A task that is
cancelled a second time while its `finally` clause awaits the end of the heartbeat
skips the release; its row is an orphan, as that of a dead process is.
WorkerLeases implements it (`Holder` reads the holder of a run from an unexpired
row and from whether a task of its owner renews it); PipelineRuns and GenerationJobs, which have such a `lease` of
their own, use it in no other way. This is what joins the two levels: what they
assume of leases is proved of the table (section 5).

### ExecutionReceipts

`receipt` is the status column, with "overdue" for a running row past its
deadline, which readers are told is `interrupted`. `Submit` is the whole
endpoint for a fresh submission; one that is not fresh changes nothing and is
the stutter. `Complete` is the unconditional UPDATE of `finish` and therefore
possible from "overdue" as well. `CompleteUnrecorded` is a worker whose UPDATEs
fail, `CompleteUnanswered` an UPDATE that took effect although its connection
reported an error: the handler then stores a failure over it, or fails to.
`ServerCrash` loses the workers and keeps the table. `started` is a history
variable: how many workers an execution got.

The constant `Acknowledged` excludes unanswered commits. A result is `Settled`
when nobody will write it any more: at once if commits are acknowledged, else
when its worker is gone. `ReceiptsAreFinal` is about settled results. It is
checked without the assumption in `executions`; PipelineRuns is checked with it,
because a runner may otherwise read an "ok" that turns into a failure.

### RunLifecycle

The abstract promise about a run: one variable `status`, actions Accept, Begin,
RequestCancel, End, Purge. Ending statuses do not change, a run whose
cancellation was requested ends cancelled, and purging takes all runs at once.

### PipelineRuns

The manager, composed with ExecutionReceipts (an execution is a run, `Runs ==
Executions`). A replica is an asyncio process; an action is what a coroutine
does between two awaits.

| Variable | Code |
| --- | --- |
| `rec` | `status` of the record; "purged" is a row of `pipeline_runs_deleted` |
| `summary` | the `PIPELINE_RUN_SUMMARY` node |
| `lease` | holder of the row in `worker_leases` |
| `task[p][r]` | the coroutine in `manager.tasks` and how far it is |
| `cancels[p]` | calls of `cancel` that await the DELETE |
| `clear[p]` | the `clear_all` that holds `_submission_lock` |
| `busy[p]` | the stretch of code p is inside, if it makes several database calls |
| `listed[p]` | runs that `reconcile_interrupted` listed and has not claimed yet |
| `post[r]` | the submission on its way to the service |

| Action | Code |
| --- | --- |
| `StartClaim`, `StartSave` | `start`: the capacity tests and the claim; then the record and the task |
| `TaskBegin`, `PostAccepted`, `PostFails`, `ReadResult`, `PollEnds`, `TaskEnds` | `_execute_with_lease`, `_execute_dagster`, `CodegenDagsterExecutor.execute` |
| `Heartbeat` | the heartbeat that finds the record gone |
| `Recover`, `ReadResult`, `RecoveryEnds`, `TaskEnds` | `_recover_execution` |
| `Finish`, `Settle` | `_finish_failed`, `_finish_cancelled`, success; `_save_terminal_record` |
| `CancelRequest`, `CancelReturn` | `cancel` before and after the DELETE |
| `ClearBegin`, `ClearStop`, `ClearPurge` | `clear_all` |
| `Reconcile`, `Recover`, `PublishLate` | `reconcile_interrupted` |
| `Crash`, `LeaseExpires`, `PostLost`, `PostArrives` | environment |

Decisions a reader should know:

- Within one stretch, reading and saving a record is one step. On one replica
  this is exact. Between replicas it hides interleavings of a read and a save of
  the same stretch, so no property here would catch a save that undoes what
  another replica saved since the read. `busy` and `listed` split the stretches
  in which others matter: claim and save of a start; save, release and
  publication of a terminal record; listing and claiming of a reconciliation.
- Leases are those of LeaseHolders, which WorkerLeases implements under its
  timing assumption: a live replica keeps its leases, a crashed one leaves
  "orphan" rows that expire at any moment.
- `TaskEnds` releases the lease unless the task, cancelled by its heartbeat, is
  cancelled again by `clear_all` while it awaits the end of that heartbeat
  (`Unrenewed`): the lease is then an orphan.
- `ClearPurge` waits only for the tasks that `ClearStop` cancelled. A recovery
  that the scan starts meanwhile may be alive at the purge, on this replica too.
- "preparing" is "running": both are saved in one stretch and no test tells
  them apart.
- A restarted replica is the same member of `Replicas`; that it has a new owner
  id is the "orphan" its old leases become.
- One workspace, hence one `Capacity`, stands for both limits; WorkerLeases has
  several workspaces.
- `cancels` holds a run at most once per replica (repeated DELETEs while one is
  under way behave like the first).
- `Activities` switches cancellation, clear_all and reconciliation off in
  instances that ask a question without them.

Definitions marked "Fault" are wrong variants of the definition after them, in
the way a plausible bug would be wrong (a dropped guard, a skipped re-read, a
swapped case). No action uses them. Put in place of the right definition, each
one breaks the property that `PROJECT.json` names beside it; this shows that the
property depends on the code.

### ResourceAdmission and DeploymentExecutions

ResourceAdmission is the controller's two lists and the worker threads, one
critical section or one test outside of it per action. `Enqueue` happens in the
endpoint, `Acquire` later in a thread, `Check`/`Try`/`Wake` are the loop of
`acquire`, `Finish` and `Leave` the two releases. `Wake` is always possible: the
wait has a timeout of a second, so notifications only make it faster and are not
modelled. `Cancel` is the flag a DELETE sets, which `Enqueue` forgets when it
came before the POST, as the code does. `arrived` is a history variable.
Allocations are clamped as in `profile_allocation`.

DeploymentExecutions puts it behind the endpoint together with
ExecutionReceipts: `SubmitHere` is a fresh submission that is recorded,
registered and given a task in one stretch, `Conclude` the end of its coroutine,
which stores the result or fails to and releases what is left,
`ConcludeUnanswered` a write of it that raises although it took effect.
`Results`: what a thread that passed delivered is stored as a failure, too, when
the first UPDATE raised. `Restart` is the end of the process, which loses queue,
reservations and flags and keeps the receipts. Other servers (`Elsewhere`) share only the receipts.

### GenerationJobs

Pipeline generation in the codegen service. A job is a durable row and a copy in
every replica that has seen it; writes change the copy and then replace the
whole row (`Save`, `Update`), unless a deletion marker forbids it.

| Variable | Code |
| --- | --- |
| `row`, `copy` | `pipeline_generation_jobs` and its deletion markers; `PIPELINE_GENERATION_JOBS` |
| `task[p][r]` | the task in `PIPELINE_GENERATION_TASKS` and how far it is |
| `thread[p][r]` | the sandbox thread of the run: past a cancel check ("checked"), or past a stage it announced ("called") |
| `stopped`, `purged` | `_CANCELLED_SANDBOX_RUNS`, `PIPELINE_GENERATION_PURGED_RUN_IDS` |
| `cancels`, `clear` | requests that wait for the teardown of sandboxes or for tasks |
| `scan`, `claimed` | the loop of `recover_interrupted_pipeline_jobs` |
| `listing` | rows a list request has read and not yet copied |
| `answered` | history: cancellations that were answered |

An action is a stretch between two awaits. Three things split stretches because
other replicas or threads come between: the recovery loop reads, claims and
fails in separate transactions; `Generated` and `Publish` are the two saves at
the end of a generation; list requests run in a thread of their own.
`StageCallback` is the coroutine that a sandbox thread schedules on the event
loop: it runs whatever became of the task. Leases are those of LeaseHolders, as
in PipelineRuns; the heartbeat that finds its lease lost (`main.py:411`) has
therefore no action: with live replicas on time, WorkerLeases shows, it never
does.

### WorkspaceVersions

The canvas, the versions and their files. A graph maps each file to the object
that holds it: `Live` is the object in the bucket of its node, which uploads
replace; a snapshot has an owner, the version it was copied for, and a
generation, since every attempt to copy uses a fresh name. An adapter request is
one transaction under the revision lock: `Begin...` reads what it needs into
`tx`, `CopyBack`, `CopySnapshot` and `RemoveObject` are its effects on MinIO, one
object at a time and visible at once, `Commit...` publishes graph, rows, active
version and revision, and `Abort` is any failure before that, which undoes
nothing in MinIO. `BeginFileAction`, `StoreObject` and `FinishFileAction` are an
upload or removal of the gateway, which compares the revision before and after
it changed the object; `WipeFile`, `WipeSnapshot` and `EndWipe` are the second
half of Clear all, which empties the buckets object by object and may leave any
of them behind. Both run outside the lock. `seen` is every canvas a client was
ever shown, the graph of Main that a promotion answers with included: clients
save and sync any of them, in any order, which stands for undo, stale tabs and
single edits. `removed` is a history variable: references whose objects a
deletion or Clear all set out to remove.

### DesignTurns

A message starts a turn in which an agent edits the graph of the workspace.

| Variable | Code |
| --- | --- |
| `turn`, `flagged`, `overdue` | status, `cancel_requested` and age of `heartbeat_at` in `chat_turns` |
| `requests` | `chat_cancel_requests` |
| `handler[p][t]` | the request thread that executes t: its step, whether its task was cancelled and has not noticed, whether its monitor lives, the snapshot for a rollback, the outcome |
| `entries`, `stopping` | the registry of a process; cancel requests between the row and the registry |
| `design` | the graph of the workspace, as the set of turns whose edits it shows |
| `clearing` | the reset that holds the lock of the workspace |
| `starts` | history: executions of a turn since the last reset |

A turn is `StartTurn` (row), `Register`, `FirstBeat`, `SyncCanvas`,
`TakeSnapshot`, any number of `BeginWrite`/`EndWrite`, `Verdict`, perhaps
`EndRestore`, `EndSave`, `Unregister`, `FinishTurn`. Tools run in threads that a
cancelled turn waits for, so "writing" cannot be interrupted and "thinking",
"judged", "saving" can. Outcomes are the answers of the endpoint: completed,
restored ("the pipeline from before this request was restored"), unrestored,
unstarted ("Stopped before the agent turn started"), failed. A handler that
stalls past 120 seconds, a backend that crashes and a client that posts again are
actions of the environment. `HeartbeatTurn` renews a pending row, which a reset of
the workspace locks; the first one may fail and then ends the turn. A graph that
was restored for a question and is invalid is repaired: "judged" goes back to
"thinking". The rows that `clear_guard` expires in its transaction are deleted
at its end or, if the graph could not be cleared, as they were, so
`BeginClearing` changes none and keeps them locked.

### MC modules

`MCWorkerLeases`, `MCPipelineRuns`, `MCPipelineReplicas`,
`MCDeploymentExecutions`, `MCGenerationJobs`, `MCDesignTurns`, `MCWorkspaceGraph`
and `MCBackgroundWork` hold values of constants, bounds and symmetries. Some
put two instances into one run, chosen in the initial state: `load` in
`MCWorkerLeases`, the run that was purged long ago in `MCPipelineReplicas`,
`work` and `writers` in `MCBackgroundWork` and `MCWorkspaceGraph`. The two share
a question, not state.

## 3. Runs

| Run | Instance | Shows |
| --- | --- | --- |
| `leases` | TTL 4, Beat 1, Delay 1; either 2 workers and 4 runs in 3 workspaces with Limit 1 and GlobalLimit 2, time to 5, or 3 workers and 2 runs, time to 7, where a task that was cancelled twice may leave one lease behind, before time 2 | `AdmissionBound`, `ExclusiveExecution`, the refinement of `LeaseHolders` with timely workers: both limits can bind, leases run out after a crash, two workers race for what a third left |
| `leases_stalled` | 2 workers, 2 runs, TTL 2, time to 4, no timing | `NoSteal` even with arbitrary stalls |
| `executions` | 2 servers, 3 executions, PendingLimit 3, 4 CPUs and 3 GiB, clamped and unclamped wants; one execution may go to the other server with a second bundle and have commits that go unanswered | receipts (`NoReplay`, `ReceiptsAreFinal`), admission (`NoOvercommit`, `Accounted`, `NoOvertaking`, `AllServed`) and both together (`HeldByWork`) through cancellations, deadlines, failures to record, unanswered commits and a restart |
| `runs_one` | 1 replica, 2 runs, PendingLimit 1, 1 crash; cancel, clear_all | the refinement of `RunLifecycle`, `SummaryAgrees` |
| `runs_replicas` | 2 replicas; either 2 runs with one key and clear_all, or 1 run, 2 crashes and everything else, then a third crash with neither a cancellation nor a recovery scan after it | `OneRunPerKey`, `ExecutionHoldsLease`, `SuccessHasReceipt`, `NoResurrection`, `NoResubmission` |
| `runs_live` | 1 replica, 2 runs, Capacity 1, 1 crash; cancel, scan | `AcceptedRunsEnd`, `CapacityBound` |
| `runs_recovery_error` | 1 replica, 1 run, 1 crash | violates `RecoveryErrorStays` (section 6) |
| `runs_cancel_elsewhere` | 2 replicas, 1 run, no crash | violates `CancelledStays` (section 6) |
| `background_work` | a generation job on 1 replica with list and clear, or on 2; or the turns of `MCDesignTurns`, one of them stopped; 1 crash | `NoRecreation`, `RecoverySparesLive`, `ResultKept`, `CancelIsEffective`, `JobsEnd`, `CancelledTurnsEnd` |
| `jobs_cancel_revived` | the same job | violates `CancelledStays` (section 6) |
| `workspace_graph` | versions: 2 files, 2 contents, 2 versions (two of one kind at a time), 1 user, 2 generations, 3 revisions; turns: 2 turns of 2 users on 2 backends, one fault or reset | `NamedFilesReadable`, `VersionsKept`, `RestoredExactly`; `OneEditor`, `RanOnce`, `ReceiptIsFinal`, `RolledBack` |
| `turns_stopped` | 2 turns on 2 backends, no fault | violates `StoppedBeforeStart` (section 6) |

Why the bounds suffice. Two workers, replicas or backends are the actors of every
race in the code, and a third is there where one must have crashed before:
nothing counts replicas. Four runs let two workspaces meet the global limit
while a third is refused. Time up to 5 or 7 with TTL 4 lets a lease run out and
be claimed again; the proofs cover all times. Two crashes let both replicas
fail, or one fail again during recovery. Runs are independent but for capacity,
keys and clear_all, for which there are two. `MaxActive` does not bind in
`executions` before memory does; `NoOvercommit` states both. Generation jobs
share nothing but capacity, which counts leases as WorkerLeases does, so one job
meets every interleaving. A version is affected by one request at a time and by
uploads: two generations are a good copy and a failed one, three revisions are a
save, what follows it and a restore; two files let a request fail between them.
Two turns are the one that is stopped and the one of somebody else; one fault at
a time, because the properties excuse the others' combinations; the proofs of
section 5 have none of these bounds.

`CHECK_DEADLOCK FALSE` is set everywhere: the system stops when all runs have
ended and their ids are used up, or when a clock or revision is at its bound.

`CapacityBound` is stated for one replica. Two replicas can exceed it after a
crash: the record of an orphan counts in the first test only, the lease in the
second only, and two replicas may pass the first test together. The lease limit
(`AdmissionBound`) holds for any number of them.

`ImplementsLifecycle` is checked with a crash and without reconciliation. With
both reconciliation and cancellation TLC refutes it, twice: in the window of
`clear_all` between a cancelled task's release of its lease and the purge, a scan
starts to recover a run that was marked cancelling; and after a crash recovery
concludes a run as failed although its cancellation was requested (the finding
`RecoveryErrorStays` is the sequel). Without clear_all and crashes it holds with
both. `NoOverruling` in `PipelineRunsProofs` is exactly this condition; what must
hold in spite of it is `NoResurrection` and `ExecutionHoldsLease`.

`ResultKept` and `CancelIsEffective` are stated for one replica of the codegen
service (`Alone`), which is what `docs/production-multi-user.md` prescribes; with
two, TLC refutes both (section 6). `OneEditor` excuses turns that missed their
heartbeats for two minutes, and `RolledBack` those and resets: the code has no
defence there.

## 4. Fairness

`PipelineRuns!Fairness`: weak fairness for stretches of code that began
(`Settle`, `StartSave`, `Recover`), strong fairness for task steps and the scan.
asyncio runs ready coroutines in order, so a coroutine that is ready again and
again gets its turn although another stretch of the same process disables it in
between; every wait of a task has a timeout (30 s for the POST, a deadline for
polling, 400 rounds of recovery), so each has a step without an answer; the scan
sleeps 20 s between rounds. Leases of crashed processes expire. Nothing is
assumed of users, the network, Neo4j or the execution service, and a task's
fairness does not prefer any outcome.

`DeploymentExecutions!ServiceFairness`: weak fairness for each worker thread and
coroutine, including that a container ends (its timeout kills it). No fairness
for cancellations and deadlines: `AllServed` does not lean on them.

`GenerationJobs!JobsFairness`: strong fairness for the steps of a task, of a
clear and for the scan, for the reason given above; sandbox threads end, because
containers have timeouts; the recovery loop goes on; leases expire. A generation
ends because it has a budget of requests and of time.

`DesignTurns!TurnsFairness`: weak fairness for the steps of a turn that need no
decision of the agent, for its monitor, for the end of a reset; a turn nobody
executes grows late, and its client polls. The agent itself may think and edit
for ever: `CancelledTurnsEnd` does not rely on it.

## 5. Proofs

`WorkerLeasesProofs` (for all workers, runs, workspaces, limits and times):

- `TypeCorrect`: `TypeOK`.
- `ExclusiveExecutionHolds`: needs `Timely`. The inductive invariant says that
  every task that runs is *secure*: its worker is alive and owns the row, whose
  expiry lies far enough beyond its last heartbeat (or beyond the clock value of
  the renewal under way) that it cannot pass before the next commit. Two secure
  tasks of one run would own the same row. `ExclusiveExecution` alone is not
  inductive: it says nothing of a claim under way with an old clock value.
- `AdmissionBoundHolds`: from the same invariant. A claim counts rows with a
  clock value in the past, which can only make it count more; a row that is
  renewed was still unexpired.
- `NoStealHolds`: an action property that needs only the base invariant and no
  timing, so it holds for stalled workers too.
- `ImplementsHoldersHolds`: the refinement of LeaseHolders, under `Timely` (TLC
  refutes it for stalled workers: a live owner's lease runs out). A tick can only
  make orphans lapse, because the row of an owner that executes the run is
  unexpired; a row without such a task is an orphan; a claim that commits late
  finds a free run and writes a row that is not expired already; a renewal
  changes no holder.

`ExecutionReceiptsProofs`: `ReceiptsTypeCorrect`, `NoReplayHolds` (the invariant:
an execution without a row has no worker and never had one, and one with a row
had at most one) and `ReceiptsAreFinalHolds` (a second worker for an execution
would be needed to replace a settled result, so the invariant adds that an
execution is in the table of one server at most and, if commits are
acknowledged, in none when it is completed).

`PipelineRunsProofs` (for all replicas, runs, keys, capacities, crashes and
servers), from one inductive invariant, `RunsInv`:

- `RunnerInv` ties the pieces of state a replica keeps to each other.
  `ExecutionHoldsLease` is part of it and not inductive alone. `Settling` says
  that a replica that settles a terminal record has no executing task of that
  run, so the release in `_save_terminal_record` cannot take the lease from one.
  `Started` says that a start between its claim and its save holds the lease of
  a run without a record, so that the task it creates holds it too. `Unborn`
  says that a run without a record has no POST, task, cancellation or recovery,
  and that only a start may hold its lease. `CreatedUnsent` says that a task that has
  yet to submit belongs to a run that was not submitted; recovery never makes
  such a task.
- `ReceiptsInv` holds because every step of the composition is a step of
  ExecutionReceipts or leaves it alone (`ImplementsReceipts`), so that what is
  proved of the service alone holds inside the system. A stored "ok" therefore
  stays while a success is being recorded, provided commits are acknowledged:
  this is the hypothesis `Acknowledged` of `SuccessHasReceiptHolds`.
- `KeysUnique` holds because only `StartSave` turns a run that is gone into one
  on record (`GoneStays`), and it does so under the test of the key.

From it follow, for any number of replicas, `RunsTypeCorrect`,
`ExecutionHoldsLeaseHolds`, `SuccessHasReceiptHolds`, `OneRunPerKeyHolds`,
`NoResurrectionHolds`, `NoResubmissionHolds`, `ImplementsReceipts` and
`RunsImplementHolders`. The rest is about one replica (`OneReplica`):

- `CapacityBoundHolds`: `CapacityInv` adds to the bound that there is room while
  a submission is between its claim and its save. The only replica is in the
  middle of that stretch, and no other step makes a run active
  (`ActiveShrinks`), so what it counted still holds when it saves.
- `ImplementsLifecycleHolds` and `SummaryAgreesHolds`: `LifeInv` ties the record of
  a run to everything that may still write it. An executing task has an active
  run or a purged one; a cancellation that waits leaves its run cancelling,
  cancelled or purged; a scan lists active runs only; a record that is being
  settled is the one that was saved. The hypothesis is `NoOverruling`: no
  cancellation, or no reconciliation, or an instance without clear_all and
  crashes (`Undisturbed`). In the last case a further invariant, `Attended`, says
  that every active run has a working task, so its lease is taken and the scan
  recovers nothing.

`WorkspaceVersionsProofs` (for all files, versions, contents, users and bounds),
from `VInv`, the conjunction of three parts:

- `Types` is `VersionsTypeOK` with the types of what it leaves out.
- `Named`: each reference of the canvas or of a version is readable or was given
  up by a request that removes it. `NamedFilesReadable` follows.
- `InTx` says what the request under way has still to do: copies go to a
  generation greater than any that is named, so a copy overwrites nothing that
  a version has (`VersionsKept`); what is doomed belongs to references already
  given up; a file that was copied reads like its source, so that the commit of
  a restore or a promotion publishes those bytes (`RestoredExactly`). A Clear all
  that is still emptying MinIO may take either copy of a promotion before it is
  committed: `Promoted` and the property except files it took.

`DesignTurnsProofs` (for all backends, turns, owners and faults): every step of a
turn is an *effect* on its handler (`Tracked`), which carries most actions at
once. `RanOnceHolds` needs that a row keeps its place until a reset counts anew;
`ReceiptIsFinalHolds` that `_finish` and `_expire` act on pending rows only;
`OneEditorHolds` comes from `SoleInv`: while no heartbeat was late, whoever
executes a turn has a live pending row, and there is one such row at a time and
none during a reset; `RolledBackHolds` from `CleanInv`: the snapshot of a turn
does not show the turn, so a restored graph does not either.

`ResourceAdmissionProofs` (for all capacities, requests and wants), from
`AdmissionInv`: `TypeOK`, `Accounted` and `Ordered`, which says that the queue is
sorted by arrival and nobody arrives twice. `Accounted` is preserved by every
release because `RemoveWaiter` leaves the queue without one element and disturbs
nothing else (`RemoveFirstWithout`, `TailWithout`). `NoOvertakingHolds` follows
from `Ordered`: only the head is admitted, and the head arrived first of all who
wait. `NoOvercommitHolds` is about sums over the set of executions that hold
resources, which the module writes as folds. The proofs need three facts of such
a sum: it is a natural number, it is 0 over the empty set, and it loses exactly
the summand of an element that is taken away (`SumType`, `SumOfNothing`,
`SumWithout`). They are proved from the definition of the fold by taking a least
counterexample among the sizes of finite sets, since the induction theorems are
out of reach. `WithinHost`, the inductive invariant, says that the sums over the
executions with a reservation fit the host. Its parts are the two places where
reservations change: `AdmittingFits` and `ReleasingFits`.

`DeploymentExecutionsProofs` composes the two: `ServiceImplementsReceipts` maps
each step of the service to a step of ExecutionReceipts or a stutter, so that
`ServiceNoReplay` and `ServiceReceiptsAreFinal` are inherited. `ServiceInv` adds
to the invariants of the parts
`Housed` (the task table holds exactly the executions under way here) and
`WithinLimit`; `HeldByWorkHolds`, `ServiceAccounted`, `ServiceNoOvertaking` and
`ServiceNoOvercommit` follow, restarts included.

`GenerationJobsProofs` (for all replicas, runs and crashes): `Leased` in `JobsInv`
says that a live task and a recovery between its claim and its write both hold
the lease of the job, so they exclude each other; `LiveJobIsLeasedHolds` and
`RecoverySparesLiveHolds` follow. `NoRecreationHolds` needs that every write goes
through the test of the deletion marker. `CancelIsEffectiveHolds`, for one
replica, adds `CancelInv`: a job that any replica has a copy, a listed row or a
purge mark of, or whose cancellation was answered, has a row (`Seen`), so no new
task starts for it, and after the answer none is left (`Quiet`); only a task
delivers a result. `ResultKeptHolds`, also for one replica, needs the longest
invariant, `ResultInv`. `ResultsRest`: where a result is known, in the row, a copy or
a row that a list request holds, the job is at rest, that is terminal, with no
task that could still write it and no recovery that has it listed.
`StretchInv`: a task has no sandbox thread where it begins and where it publishes,
and while it publishes no recovery is under way on its replica; each of these
could write an old copy over the result that is about to be saved.
`JobsImplementHolders` is the refinement of LeaseHolders.

Assumptions are those named in the modules (`LeaseAssumption`,
`TimelyAssumption`, `ReceiptAssumption`, `AdmissionAssumption`, `HereAssumption`,
`RunsAssumption`, `JobsAssumption`, `VersionsAssumption`, `TurnsAssumption`); TLC
evaluates them on every run.

Model-checked only: liveness (`AcceptedRunsEnd`, `AllServed`, `JobsEnd`,
`CancelledTurnsEnd`), which is outside the prover's reach, as are ENABLED and
induction over recursive definitions. Every other property that a run shows to
hold is a theorem, under the hypotheses named above: `Timely` for
`ExclusiveExecution`, `AdmissionBound` and `ImplementsHolders`, `Acknowledged` for
`SuccessHasReceipt`, `OneReplica` for
`CapacityBound`, and `OneReplica` with `NoOverruling` for `ImplementsLifecycle` and
`SummaryAgrees`. No module declares a RECURSIVE operator.

Definitions marked "Fault" in any module are used by no action; see PipelineRuns
above.

## 6. Divergences found

Shown by a run:

- `RecoveryErrorStays`: an explicit recovery error can be replaced by
  "cancelled". Crash; a user cancels, and the DELETE is slow; the scan recovers
  the run; recovery gives up and records `execution_outcome_unknown`; its task
  ends; the DELETE returns, `cancel` finds no task and finishes the run again
  (`runner/app/manager.py:403`). The summary stays "failed".
- `CancelledStays` (PipelineRuns): with two replicas, a cancellation served by
  the one that does not run the task reports "cancelled" at once, and the other
  one stores the real outcome over it.
- `CancelledStays` (GenerationJobs): a cancelled job comes back to "running". A
  sandbox thread that passed its last cancel check announces its next stage
  after the cancellation was answered, and `update_progress` writes whatever it
  is given. The job is later failed as "interrupted by a service restart".
  `CancelIsEffective` shows that no result is delivered all the same, `JobsEnd`
  that it ends.
- `StoppedBeforeStart`: "Stopped before the agent turn started" is also the
  answer to a turn whose work is done and saved, when the cancellation reaches
  the outer task while it waits for its monitor; and, when the registry and the
  monitor both cancel a turn, to one whose rollback failed.

Met while modelling, without a run of their own:

- Generation jobs on two replicas (`docs/production-multi-user.md` says to keep
  one): recovery by a stale copy overwrites a valid result, a cancellation
  served elsewhere is overwritten by progress, and a crash between the last
  progress and the result leaves "valid" without a result.
- A file action that is refused with 409 has already replaced or removed the
  object (`backend/inlumen_api.py`, `node_files`).
- Deleting a version leaves canvases that were made from it with references to
  nothing; `neo4j_sync_graph` accepts an active version that no longer exists.
- The sync at the start of a turn and the rollback at its end send no If-Match:
  edits of others in between are lost. The rollback of a turn that expired may
  overwrite the turn that came after it.
- A cancellation that arrives after a turn left the registry leaves an entry
  there for its retention time.
- Containers of a crashed execution service run on while the new process counts
  no reservation for them, so "cannot collectively overcommit the host"
  (`docs/adr/0002-native-background-execution.md`) speaks of one process life.

## 7. What is not modelled

- Runner: redaction, artifact files, events, live progress, the recovery branch
  for executors without receipt lookup (`manager.py` 459-487; the repository's
  only executor has it), the choice of a resource profile.
- Graph: edits of single nodes and edges (a sync of the whole canvas stands for
  them), text, variables, templates, reusable pipelines and provenance; dry runs.
- Turns: preview turns, which edit a workspace of their own; messages,
  proposals and what the agent says; edits of people during a turn.
- Jobs: what stages and events contain; downloads.
- Step cache, plugin store: caches whose staleness costs a rebuild or five
  seconds.
- Editor persistence: the browser's queue of writes; WorkspaceVersions allows
  every order of them.
- Graph rules, code generation and design libraries, deployment artifacts and
  agents: algorithms over text and graphs without shared state, most of the
  repository's lines. Their verdicts are nondeterministic choices here.
- Gateway authentication and proxying, views, scripts: no state that the others
  depend on.

---------------------------- MODULE PipelineRuns ----------------------------
(***************************************************************************)
(* Pipeline runs in the runner: PipelineRunManager of                       *)
(* src/runner/app/manager.py over its store (store.py), its leases and the  *)
(* HTTP client of the execution service (dagster_executor.py), composed     *)
(* with the service itself (ExecutionReceipts; an execution id is a run).   *)
(*                                                                          *)
(* A replica is an asyncio process.  An action is what a coroutine does     *)
(* between two awaits; where such a stretch makes several database calls,   *)
(* `busy' and `listed' split it, so that other replicas interleave with it  *)
(* and a crash can fall between the calls.                                  *)
(*                                                                          *)
(* Leases are taken from WorkerLeases under its timing assumption: a live   *)
(* replica keeps its lease, a crashed one leaves an orphan that expires.    *)
(*                                                                          *)
(* Here and in the other modules a definition marked "Fault" is a wrong     *)
(* variant of the one after it.  Nothing uses it: put in place of the right *)
(* one, it breaks a property.                                               *)
(***************************************************************************)
EXTENDS ExecutionReceipts

CONSTANTS
    Replicas,     \* runner processes that share the database
    Keys, KeyOf,  \* idempotency key of the submission that creates a run
    Capacity,     \* max_outstanding_runs
    Activities,   \* of "cancel", "clear" and "scan", those an instance has
    MaxCrashes,   \* bound on replica crashes
    Nobody

Runs == Executions  \* a run is one execution of the service

ASSUME RunsAssumption ==
    /\ KeyOf \in [Runs -> Keys]
    /\ Capacity \in Nat /\ MaxCrashes \in Nat
    /\ Activities \subseteq {"cancel", "clear", "scan"}
    /\ Nobody \notin Replicas \cup Runs /\ "orphan" \notin Replicas

VARIABLES
    rec,      \* status of the record in the store; "purged" has a deletion marker
    summary,  \* status of the run's PIPELINE_RUN_SUMMARY in Neo4j
    lease,    \* holder of the run's lease
    task,     \* task[p][r]: progress of the task in manager.tasks
    cancels,  \* cancels[p]: runs with a cancel request that awaits the service
    clear,    \* clear[p]: the clear_all in progress
    busy,     \* busy[p]: the stretch of code replica p is in the middle of
    listed,   \* listed[p]: runs the reconciliation scan of p still has to claim
    post,     \* the POST that submits the run to the service
    crashes

runnerVars == <<rec, summary, lease, task, cancels, clear, busy, listed, post, crashes>>
vars == <<runnerVars, receiptVars>>

(* "preparing" and "running" are saved in one stretch and mean the same to  *)
(* every test of the manager; the model has "running" for both.             *)
Active == {"queued", "running", "cancelling"}
Terminal == {"succeeded", "failed", "cancelled"}
Gone == {"none", "purged"}

Free == [op |-> "free", run |-> Nobody, status |-> "none"]
NoClear == [phase |-> "none", ids |-> {}]
Executing == {"created", "posting", "polling", "recovering"}

RunnerTypeOK ==
    /\ rec \in [Runs -> Active \cup Terminal \cup Gone]
    /\ summary \in [Runs -> Terminal \cup {"none"}]
    /\ lease \in [Runs -> Replicas \cup {"orphan", Nobody}]
    /\ task \in [Replicas -> [Runs -> Executing \cup {"ending", "none"}]]
    /\ cancels \in [Replicas -> SUBSET Runs]
    /\ clear \in [Replicas -> [phase : {"none", "signal", "stop"}, ids : SUBSET Runs]]
    /\ busy \in [Replicas -> {Free} \cup
          [op : {"start", "settle"}, run : Runs, status : Terminal \cup {"none"}]]
    /\ listed \in [Replicas -> SUBSET Runs]
    /\ post \in [Runs -> {"unsent", "sent", "arrived", "lost"}]
    /\ crashes \in 0..MaxCrashes

TypeOK == RunnerTypeOK /\ ReceiptsTypeOK

----------------------------------------------------------------------------
(* Helpers                                                                  *)

(* Fault: save does not look for the deletion marker. *)
SavedAnyway(r, status) == [rec EXCEPT ![r] = status]

(* PipelineRunStore.save: a run with a deletion marker stays deleted. *)
Saved(r, status) == IF rec[r] = "purged" THEN rec ELSE [rec EXCEPT ![r] = status]
Save(r, status) == rec' = Saved(r, status)

(* Fault: release deletes the row of any owner. *)
UnleasedAnyone(p, r) == [lease EXCEPT ![r] = Nobody]

(* leases.release deletes the row only of its owner. *)
Unleased(p, r) == IF lease[r] = p THEN [lease EXCEPT ![r] = Nobody] ELSE lease

ActiveRuns == {r \in Runs : rec[r] \in Active}
Leased == {r \in Runs : lease[r] # Nobody}

(* Fault: only leases are counted against the limit. *)
AnyRoom == TRUE

(* The two tests of capacity: _outstanding_run_count, and leases.claim. *)
HasRoom == Cardinality(ActiveRuns) < Capacity
LeaseRoom == Cardinality(Leased) < Capacity

(* The event loop of p can run another coroutine. *)
AtAwait(p) == busy[p] = Free /\ listed[p] = {}

SetTask(p, r, pc) == task' = [task EXCEPT ![p][r] = pc]

(* A _finish_... method: the terminal record is saved; _save_terminal_record *)
(* goes on to release the lease and to publish the summary (Settle).        *)
Finish(p, r, status) ==
    /\ Save(r, status)
    /\ busy' = [busy EXCEPT ![p] = [op |-> "settle", run |-> r, status |-> status]]

(* Faults: the record is not read again; the receipt's word is recorded. *)
ConcludeUnread(p, r, outcome) == Finish(p, r, outcome)
ConcludeByReceipt(p, r, outcome) ==
    IF rec[r] \in Gone THEN UNCHANGED <<rec, busy>>
    ELSE Finish(p, r, IF rec[r] = "cancelling" THEN "cancelled" ELSE receipt[r])

(* The end of _execute_dagster, on a response or in its exception handler:  *)
(* the record is read again and a requested cancellation wins.              *)
Conclude(p, r, outcome) ==
    \/ rec[r] \in Gone /\ UNCHANGED <<rec, busy>>
    \/ rec[r] = "cancelling" /\ Finish(p, r, "cancelled")
    \/ rec[r] \notin Gone \cup {"cancelling"} /\ Finish(p, r, outcome)

----------------------------------------------------------------------------
Init ==
    /\ rec = [r \in Runs |-> "none"]
    /\ summary = [r \in Runs |-> "none"]
    /\ lease = [r \in Runs |-> Nobody]
    /\ task = [p \in Replicas |-> [r \in Runs |-> "none"]]
    /\ cancels = [p \in Replicas |-> {}]
    /\ clear = [p \in Replicas |-> NoClear]
    /\ busy = [p \in Replicas |-> Free]
    /\ listed = [p \in Replicas |-> {}]
    /\ post = [r \in Runs |-> "unsent"]
    /\ crashes = 0
    /\ ReceiptsInit

(* start: under the submission lock, with a fresh run id.  A known key would *)
(* return the record it has and change nothing.                              *)
StartClaim(p, r) ==
    /\ AtAwait(p)
    /\ clear[p] = NoClear
    /\ rec[r] = "none" /\ lease[r] = Nobody
    /\ \A q \in Runs : KeyOf[q] = KeyOf[r] => rec[q] \in Gone
    /\ HasRoom
    /\ LeaseRoom
    /\ lease' = [lease EXCEPT ![r] = p]
    /\ busy' = [busy EXCEPT ![p] = [op |-> "start", run |-> r, status |-> "none"]]
    /\ UNCHANGED <<rec, summary, task, cancels, clear, listed, post, crashes, receiptVars>>

(* Fault: the idempotency key has no UNIQUE constraint. *)
KeyFree(r) == r \notin Runs

(* The record is saved, unless another replica took the key meanwhile and   *)
(* the UNIQUE constraint refuses it; then the task is created.              *)
KeyTaken(r) == \E q \in Runs : KeyOf[q] = KeyOf[r] /\ rec[q] \notin Gone
StartSave(p, r) ==
    /\ busy[p].op = "start" /\ busy[p].run = r
    /\ \/ /\ KeyTaken(r)
          /\ lease' = Unleased(p, r)
          /\ UNCHANGED <<rec, task>>
       \/ /\ ~KeyTaken(r)
          /\ Save(r, "queued")
          /\ SetTask(p, r, "created")
          /\ UNCHANGED lease
    /\ busy' = [busy EXCEPT ![p] = Free]
    /\ UNCHANGED <<summary, cancels, clear, listed, post, crashes, receiptVars>>

(* The task runs up to the POST of executor.execute. *)
TaskBegin(p, r) ==
    /\ AtAwait(p)
    /\ task[p][r] = "created"
    /\ \/ /\ rec[r] \in Gone
          /\ SetTask(p, r, "ending")
          /\ UNCHANGED <<rec, busy, post>>
       \/ /\ rec[r] = "cancelling"
          /\ Finish(p, r, "cancelled")
          /\ SetTask(p, r, "ending")
          /\ UNCHANGED post
       \/ /\ rec[r] \notin Gone \cup {"cancelling"}
          /\ IF rec[r] \in Terminal THEN UNCHANGED rec ELSE Save(r, "running")
          /\ post' = [post EXCEPT ![r] = "sent"]
          /\ SetTask(p, r, "posting")
          /\ UNCHANGED busy
    /\ UNCHANGED <<summary, lease, cancels, clear, listed, crashes, receiptVars>>

(* The response of the POST: 202. *)
PostAccepted(p, r) ==
    /\ AtAwait(p)
    /\ task[p][r] = "posting"
    /\ post[r] = "arrived"
    /\ SetTask(p, r, "polling")
    /\ UNCHANGED <<rec, summary, lease, cancels, clear, busy, listed, post, crashes,
                   receiptVars>>

(* The POST is refused, lost, or answered after the 30 s of the client: it  *)
(* may arrive later, and is never repeated.                                 *)
PostFails(p, r) ==
    /\ AtAwait(p)
    /\ task[p][r] = "posting"
    /\ Conclude(p, r, "failed")
    /\ SetTask(p, r, "ending")
    /\ UNCHANGED <<summary, lease, cancels, clear, listed, post, crashes, receiptVars>>

(* Fault: a completed receipt counts as a success. *)
ReadCompleted(p, r) ==
    /\ AtAwait(p)
    /\ task[p][r] \in {"polling", "recovering"}
    /\ Observed(r) = "completed"
    /\ Conclude(p, r, "succeeded")
    /\ SetTask(p, r, "ending")
    /\ UNCHANGED <<summary, lease, cancels, clear, listed, post, crashes, receiptVars>>

(* A poll finds the completed receipt.  Storing the outputs may fail.  The  *)
(* recovery task hands the receipt to the same code.                        *)
ReadResult(p, r) ==
    /\ AtAwait(p)
    /\ task[p][r] \in {"polling", "recovering"}
    /\ Observed(r) = "completed"
    /\ \/ receipt[r] = "ok" /\ Conclude(p, r, "succeeded")
       \/ Conclude(p, r, "failed")
    /\ SetTask(p, r, "ending")
    /\ UNCHANGED <<summary, lease, cancels, clear, listed, post, crashes, receiptVars>>

(* A poll finds the execution interrupted, or the deadline of the loop is   *)
(* reached: an exception of execute.                                        *)
PollEnds(p, r) ==
    /\ AtAwait(p)
    /\ task[p][r] = "polling"
    /\ Conclude(p, r, "failed")
    /\ SetTask(p, r, "ending")
    /\ UNCHANGED <<summary, lease, cancels, clear, listed, post, crashes, receiptVars>>

(* Recovery reads "interrupted", or gives up after 400 polls that failed or *)
(* found no receipt: the record fails with execution_outcome_unknown.       *)
RecoveryEnds(p, r) ==
    /\ AtAwait(p)
    /\ task[p][r] = "recovering"
    /\ Finish(p, r, "failed")
    /\ SetTask(p, r, "ending")
    /\ UNCHANGED <<summary, lease, cancels, clear, listed, post, crashes, receiptVars>>

(* The rest of _save_terminal_record: release the lease, publish to Neo4j   *)
(* unless published before, and save the record with the outcome of that.   *)
Settle(p) ==
    LET r == busy[p].run
        status == busy[p].status
    IN
    /\ busy[p].op = "settle"
    /\ lease' = Unleased(p, r)
    /\ IF summary[r] = "none"
         THEN /\ summary' \in {summary, [summary EXCEPT ![r] = status]}
              /\ Save(r, status)
         ELSE UNCHANGED <<summary, rec>>
    /\ busy' = [busy EXCEPT ![p] = Free]
    /\ UNCHANGED <<task, cancels, clear, listed, post, crashes, receiptVars>>

(* The lease of a task that its heartbeat cancelled and that clear_all       *)
(* cancelled again while it awaited the end of the heartbeat: the release   *)
(* is skipped, and nothing renews it any more.                              *)
Unrenewed(p, r) ==
    /\ rec[r] \in Gone
    /\ clear[p].phase = "stop" /\ r \in clear[p].ids
    /\ lease[r] = p
    /\ lease' = [lease EXCEPT ![r] = "orphan"]

(* The finally clauses of the task, and its removal from manager.tasks. *)
TaskEnds(p, r) ==
    /\ AtAwait(p)
    /\ task[p][r] = "ending"
    /\ lease' = Unleased(p, r) \/ Unrenewed(p, r)
    /\ SetTask(p, r, "none")
    /\ UNCHANGED <<rec, summary, cancels, clear, busy, listed, post, crashes, receiptVars>>

(* The heartbeat finds the record gone and cancels the task it belongs to;  *)
(* a recovery task has no heartbeat.                                        *)
Heartbeat(p, r) ==
    /\ AtAwait(p)
    /\ task[p][r] \in {"posting", "polling"}
    /\ rec[r] \in Gone
    /\ SetTask(p, r, "ending")
    /\ UNCHANGED <<rec, summary, lease, cancels, clear, busy, listed, post, crashes,
                   receiptVars>>

----------------------------------------------------------------------------
(* Cancel                                                                   *)

(* cancel, up to the DELETE it sends to the service. *)
CancelRequest(p, r) ==
    /\ "cancel" \in Activities
    /\ AtAwait(p)
    /\ r \notin cancels[p]
    /\ rec[r] \in Active
    /\ Save(r, "cancelling")
    /\ cancels' = [cancels EXCEPT ![p] = @ \cup {r}]
    /\ UNCHANGED <<summary, lease, task, clear, busy, listed, post, crashes, receiptVars>>

(* Fault: cancel finishes the run although its task goes on. *)
CancelAtOnce(p, r) ==
    /\ AtAwait(p)
    /\ r \in cancels[p]
    /\ cancels' = [cancels EXCEPT ![p] = @ \ {r}]
    /\ Finish(p, r, "cancelled")
    /\ UNCHANGED <<summary, lease, task, clear, listed, post, crashes, receiptVars>>

(* The DELETE was answered or failed.  Without a task of this replica for   *)
(* the run, cancel finishes the run itself.                                 *)
CancelReturn(p, r) ==
    /\ AtAwait(p)
    /\ r \in cancels[p]
    /\ cancels' = [cancels EXCEPT ![p] = @ \ {r}]
    /\ IF task[p][r] = "none" THEN Finish(p, r, "cancelled") ELSE UNCHANGED <<rec, busy>>
    /\ UNCHANGED <<summary, lease, task, clear, listed, post, crashes, receiptVars>>

----------------------------------------------------------------------------
(* Clear all                                                                *)

(* clear_all takes the submission lock and signals the active runs. *)
ClearBegin(p) ==
    /\ "clear" \in Activities
    /\ AtAwait(p)
    /\ clear[p] = NoClear
    /\ clear' = [clear EXCEPT ![p] = [phase |-> "signal", ids |-> ActiveRuns]]
    /\ UNCHANGED <<rec, summary, lease, task, cancels, busy, listed, post, crashes,
                   receiptVars>>

(* The signals are answered; the tasks that this replica has now are        *)
(* cancelled, and these are waited for.  A created task has had its first   *)
(* step by then.                                                            *)
ClearStop(p) ==
    /\ AtAwait(p)
    /\ clear[p].phase = "signal"
    /\ \A r \in clear[p].ids : task[p][r] # "created"
    /\ task' = [task EXCEPT ![p] = [r \in Runs |->
          IF r \in clear[p].ids /\ @[r] # "none" THEN "ending" ELSE @[r]]]
    /\ clear' = [clear EXCEPT ![p] =
          [phase |-> "stop", ids |-> {r \in @.ids : task[p][r] # "none"}]]
    /\ UNCHANGED <<rec, summary, lease, cancels, busy, listed, post, crashes, receiptVars>>

(* These tasks ended, if not the recoveries that took over from them;       *)
(* markers are inserted and the records deleted.                            *)
ClearPurge(p) ==
    /\ AtAwait(p)
    /\ clear[p].phase = "stop"
    /\ \A r \in clear[p].ids : task[p][r] # "ending"
    /\ rec' = [r \in Runs |-> IF rec[r] = "none" THEN "none" ELSE "purged"]
    /\ clear' = [clear EXCEPT ![p] = NoClear]
    /\ UNCHANGED <<summary, lease, task, cancels, busy, listed, post, crashes, receiptVars>>

----------------------------------------------------------------------------
(* Crash and reconciliation                                                 *)

(* The process dies and is started again under a new lease owner. *)
Crash(p) ==
    /\ crashes < MaxCrashes
    /\ crashes' = crashes + 1
    /\ task' = [task EXCEPT ![p] = [r \in Runs |-> "none"]]
    /\ cancels' = [cancels EXCEPT ![p] = {}]
    /\ clear' = [clear EXCEPT ![p] = NoClear]
    /\ busy' = [busy EXCEPT ![p] = Free]
    /\ listed' = [listed EXCEPT ![p] = {}]
    /\ lease' = [r \in Runs |-> IF lease[r] = p THEN "orphan" ELSE lease[r]]
    /\ UNCHANGED <<rec, summary, post, receiptVars>>

(* 60 s after its last renewal. *)
LeaseExpires(r) ==
    /\ lease[r] = "orphan"
    /\ lease' = [lease EXCEPT ![r] = Nobody]
    /\ UNCHANGED <<rec, summary, task, cancels, clear, busy, listed, post, crashes,
                   receiptVars>>

(* Fault: the scan looks for running records only. *)
ReconcileRunning(p) ==
    LET running == {r \in Runs : rec[r] = "running"} IN
    /\ "scan" \in Activities
    /\ AtAwait(p)
    /\ running # {}
    /\ listed' = [listed EXCEPT ![p] = running]
    /\ UNCHANGED <<rec, summary, lease, task, cancels, clear, busy, post, crashes,
                   receiptVars>>

(* reconcile_interrupted lists the records that are active now ... *)
Reconcile(p) ==
    /\ "scan" \in Activities
    /\ AtAwait(p)
    /\ ActiveRuns # {}
    /\ listed' = [listed EXCEPT ![p] = ActiveRuns]
    /\ UNCHANGED <<rec, summary, lease, task, cancels, clear, busy, post, crashes,
                   receiptVars>>

(* Fault: a recovered run is executed again. *)
RecoverByRunning(p, r) ==
    /\ r \in listed[p]
    /\ listed' = [listed EXCEPT ![p] = @ \ {r}]
    /\ IF lease[r] = Nobody
         THEN /\ lease' = [lease EXCEPT ![r] = p]
              /\ SetTask(p, r, "created")
         ELSE UNCHANGED <<lease, task>>
    /\ UNCHANGED <<rec, summary, cancels, clear, busy, post, crashes, receiptVars>>

(* ... and claims those whose lease is free, one after the other. *)
Recover(p, r) ==
    /\ r \in listed[p]
    /\ listed' = [listed EXCEPT ![p] = @ \ {r}]
    /\ IF lease[r] = Nobody
         THEN /\ lease' = [lease EXCEPT ![r] = p]
              /\ SetTask(p, r, "recovering")
         ELSE UNCHANGED <<lease, task>>
    /\ UNCHANGED <<rec, summary, cancels, clear, busy, post, crashes, receiptVars>>

(* Its second loop retries the summaries that were not published. *)
PublishLate(p, r) ==
    /\ "scan" \in Activities
    /\ AtAwait(p)
    /\ rec[r] \in Terminal
    /\ summary[r] = "none"
    /\ summary' = [summary EXCEPT ![r] = rec[r]]
    /\ UNCHANGED <<rec, lease, task, cancels, clear, busy, listed, post, crashes,
                   receiptVars>>

----------------------------------------------------------------------------
(* The network and the execution service                                    *)

PostArrives(r) ==
    /\ post[r] = "sent"
    /\ post' = [post EXCEPT ![r] = "arrived"]
    /\ \E s \in Servers, b \in Bundles : Submit(s, r, b)
    /\ UNCHANGED <<rec, summary, lease, task, cancels, clear, busy, listed, crashes>>

PostLost(r) ==
    /\ post[r] = "sent"
    /\ post' = [post EXCEPT ![r] = "lost"]
    /\ UNCHANGED <<rec, summary, lease, task, cancels, clear, busy, listed, crashes,
                   receiptVars>>

Service == ServiceStep /\ UNCHANGED runnerVars

TaskStep(p, r) ==
    \/ TaskBegin(p, r) \/ PostAccepted(p, r) \/ PostFails(p, r) \/ ReadResult(p, r)
    \/ PollEnds(p, r) \/ RecoveryEnds(p, r) \/ TaskEnds(p, r)

ReplicaStep(p) ==
    \/ \E r \in Runs :
          \/ StartClaim(p, r) \/ StartSave(p, r) \/ TaskStep(p, r) \/ Heartbeat(p, r)
          \/ CancelRequest(p, r) \/ CancelReturn(p, r)
          \/ Recover(p, r) \/ PublishLate(p, r)
    \/ Settle(p)
    \/ ClearBegin(p) \/ ClearStop(p) \/ ClearPurge(p)
    \/ Reconcile(p)
    \/ Crash(p)

Next ==
    \/ \E p \in Replicas : ReplicaStep(p)
    \/ \E r \in Runs : PostArrives(r) \/ PostLost(r) \/ LeaseExpires(r)
    \/ Service

(* A stretch of code that began goes on (weak fairness); a coroutine that is *)
(* ready again and again gets its turn, since the event loop serves ready    *)
(* coroutines in order, every wait of a task has a timeout, and the          *)
(* reconciliation loop sleeps between scans (strong fairness).  Nothing is   *)
(* assumed of users, of the network, of publication, nor of the service.     *)
Fairness ==
    /\ \A p \in Replicas :
          /\ WF_vars(Settle(p)) /\ SF_vars(Reconcile(p))
          /\ \A r \in Runs :
                /\ WF_vars(StartSave(p, r)) /\ WF_vars(Recover(p, r))
                /\ SF_vars(TaskStep(p, r))
    /\ \A r \in Runs : WF_vars(LeaseExpires(r))

Spec == Init /\ [][Next]_vars
FairSpec == Spec /\ Fairness

----------------------------------------------------------------------------
(* Properties                                                               *)

(* One replica keeps every promise of RunLifecycle through its crashes, if   *)
(* no recovery meets a cancellation.  The hard cases are a cancellation that *)
(* awaits the service while the task ends by itself, a clear_all in the      *)
(* middle of either, and a crash after which the records are all there is.   *)
Lifecycle == INSTANCE RunLifecycle WITH status <- rec
ImplementsLifecycle == Lifecycle!Spec

(* The summary in Neo4j, written after the record and only once, shows the  *)
(* status of the record.                                                    *)
SummaryAgrees ==
    \A r \in Runs : summary[r] # "none" => rec[r] \in {summary[r], "purged"}

(* A replica never has more runs on record that are not terminal than       *)
(* max_outstanding_runs, counting the ones a crash left without a lease,    *)
(* which the lease table no longer counts.                                  *)
CapacityBound == Cardinality(ActiveRuns) <= Capacity

(* Of the leases the manager relies on what LeaseHolders promises; that      *)
(* leases.py keeps that promise is a theorem about WorkerLeases.             *)
Holders == INSTANCE LeaseHolders WITH Owners <- Replicas
ImplementsHolders == Holders!Spec

(* Whoever executes or recovers a run holds its lease, so nobody else can   *)
(* claim it: no path releases the lease of a task that goes on.             *)
ExecutionHoldsLease ==
    \A p \in Replicas, r \in Runs : task[p][r] \in Executing => lease[r] = p

(* "Runner recovery ... never resubmits a side-effecting pipeline           *)
(* automatically" (docs/hardening-and-operations.md).                       *)
NoResubmission ==
    [][\A r \in Runs : post[r] # "unsent" /\ post'[r] # post[r] => post'[r] # "sent"]_vars

(* A run is reported succeeded only on a receipt that says so, whoever      *)
(* concludes it and in whatever order.                                      *)
SuccessHasReceipt == \A r \in Runs : rec[r] = "succeeded" => receipt[r] = "ok"

(* "Deletion markers stop stale workers from recreating cleared jobs": no   *)
(* late save of a task, a cancellation or a recovery brings a run back.     *)
NoResurrection == [][\A r \in Runs : rec[r] = "purged" => rec'[r] = "purged"]_vars

(* Two submissions with one idempotency key, at any replicas, leave one     *)
(* record, and what was refused holds no lease.                             *)
OneRunPerKey ==
    /\ \A q, r \in Runs : KeyOf[q] = KeyOf[r] /\ q # r => rec[q] \in Gone \/ rec[r] \in Gone
    /\ \A p \in Replicas, r \in Runs : lease[r] = p /\ rec[r] = "none" => busy[p].run = r

(* Every accepted run ends, or is purged, through crashes, lost messages    *)
(* and an execution service that never answers.                             *)
AcceptedRunsEnd == \A r \in Runs : rec[r] = "queued" ~> rec[r] \in Terminal \cup {"purged"}

(* What the documentation says and the code does not keep.                  *)

(* "An interrupted or unrecoverable receipt produces an explicit            *)
(* unknown-outcome or recovery error" (docs/adr/0002): the failure that     *)
(* recovery recorded is not replaced by another status.                     *)
RecoveryErrorStays ==
    [][\A r \in Runs : rec[r] = "failed" => rec'[r] \in {"failed", "purged"}]_vars

(* "DELETE ... transitions through cancelling to cancelled. A repeated      *)
(* DELETE remains cancelled" (docs/operations/beta3-generation-lifecycle).  *)
CancelledStays ==
    [][\A r \in Runs : rec[r] = "cancelled" => rec'[r] \in {"cancelled", "purged"}]_vars

=============================================================================

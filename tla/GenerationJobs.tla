--------------------------- MODULE GenerationJobs ---------------------------
(***************************************************************************)
(* Pipeline generation jobs of the codegen service: the endpoints and the   *)
(* task of src/codegen/app/main.py over the table of job_store.py.          *)
(*                                                                          *)
(* A job is a row of the table and, on every replica that has seen it, a    *)
(* copy in PIPELINE_GENERATION_JOBS.  Writes go to the copy and then        *)
(* replace the whole row.  An action is a stretch of a coroutine between    *)
(* two awaits; `scan', `claimed' and the publishing of a result split the   *)
(* stretches that make several transactions, for other replicas, threads    *)
(* and crashes to come between.  Sandbox threads outlive the task that      *)
(* started them: a cancelled task does not wait for its thread.             *)
(*                                                                          *)
(* Leases keep the timing assumption of WorkerLeases: a live task renews    *)
(* its lease in time and a crash leaves an orphan that expires.             *)
(***************************************************************************)
EXTENDS Integers, FiniteSets

CONSTANTS
    Replicas,       \* codegen processes that share the database
    Runs,           \* run ids of one workspace, each fresh when used
    Capacity,       \* CODEGEN_MAX_OUTSTANDING_RUNS
    MaxCrashes,     \* bound on replica crashes
    Nobody

ASSUME JobsAssumption ==
    /\ Capacity \in Nat /\ MaxCrashes \in Nat /\ IsFiniteSet(Replicas)
    /\ Nobody \notin Replicas \cup Runs /\ "orphan" \notin Replicas

VARIABLES
    deployed,  \* the replicas that run; chosen initially
    row,       \* the durable job; "purged" has a deletion marker and no row
    copy,      \* copy[p][r]: PIPELINE_GENERATION_JOBS of replica p
    task,      \* task[p][r]: progress of the task in PIPELINE_GENERATION_TASKS
    thread,    \* thread[p][r]: the sandbox thread of the run
    stopped,   \* _CANCELLED_SANDBOX_RUNS
    purged,    \* PIPELINE_GENERATION_PURGED_RUN_IDS
    lease,     \* holder of the run's lease
    cancels,   \* cancels[p][r]: progress of a cancel request
    clear,     \* clear[p]: progress of a clear request
    scan,      \* scan[p]: runs that the recovery of p still has to look at
    claimed,   \* claimed[p]: the run that the recovery of p is failing
    listing,   \* listing[p]: rows read by a list request that is to refresh copies
    answered,  \* history: runs whose cancel request was answered "cancelled"
    crashes

jobVars == <<deployed, row, copy, task, thread, stopped, purged, lease, cancels, clear, scan,
             claimed, listing, answered, crashes>>

Active == {"queued", "running"}
Terminal == {"valid", "invalid", "failed", "cancelled"}
Job == [status : Active \cup Terminal, result : BOOLEAN]
Absent == [status |-> "none", result |-> FALSE]
Purged == [status |-> "purged", result |-> FALSE]
NoClear == [phase |-> "none", ids |-> {}, active |-> {}]

JobsTypeOK ==
    /\ deployed \in SUBSET Replicas
    /\ row \in [Runs -> Job \cup {Absent, Purged}]
    /\ copy \in [Replicas -> [Runs -> Job \cup {Absent}]]
    /\ task \in [Replicas -> [Runs ->
          {"none", "created", "working", "valid", "invalid", "stopping", "ending"}]]
    /\ thread \in [Replicas -> [Runs -> {"none", "checked", "called"}]]
    /\ stopped \in [Replicas -> SUBSET Runs]
    /\ purged \in [Replicas -> SUBSET Runs]
    /\ lease \in [Runs -> Replicas \cup {"orphan", Nobody}]
    /\ cancels \in [Replicas -> [Runs -> {"none", "teardown", "gather"}]]
    /\ clear \in [Replicas -> [phase : {"none", "teardown", "gather"},
                               ids : SUBSET Runs, active : SUBSET Runs]]
    /\ scan \in [Replicas -> SUBSET Runs]
    /\ claimed \in [Replicas -> Runs \cup {Nobody}]
    /\ listing \in [Replicas -> [Runs -> Job \cup {Absent}]]
    /\ answered \in SUBSET Runs
    /\ crashes \in 0..MaxCrashes

----------------------------------------------------------------------------
(* Helpers                                                                  *)

Exists(r) == row[r] \notin {Absent, Purged}

(* Fault: save does not look for the deletion marker. *)
SaveAnyway(jobs) ==
    row' = [r \in Runs |-> IF jobs[r] = Absent THEN row[r] ELSE jobs[r]]

(* PipelineJobStore.save for the jobs given: the row becomes the copy,      *)
(* whatever it was, unless it has a deletion marker.                        *)
Save(jobs) ==
    row' = [r \in Runs |-> IF jobs[r] = Absent \/ row[r] = Purged THEN row[r] ELSE jobs[r]]

(* update_pipeline_job for the runs of rs: nothing for a purged run. *)
Update(p, rs, status, result) ==
    LET kept == rs \ purged[p]
        Updated(r) == [status |-> status, result |-> copy[p][r].result \/ result]
    IN
    /\ copy' = [copy EXCEPT ![p] = [r \in Runs |-> IF r \in kept THEN Updated(r) ELSE @[r]]]
    /\ Save([r \in Runs |-> IF r \in kept THEN Updated(r) ELSE Absent])

(* mark_pipeline_job_cancelled and _failed: only a run that has a copy. *)
Mark(p, rs, status) == Update(p, {r \in rs : copy[p][r] # Absent}, status, FALSE)

(* The store's rows of runs without a task replace the copies. *)
Refreshed(p, rows) ==
    [r \in Runs |-> IF rows[r] \notin {Absent, Purged} /\ task[p][r] = "none"
                    THEN rows[r] ELSE copy[p][r]]

(* The event loop of p can run another coroutine. *)
AtAwait(p) ==
    /\ p \in deployed
    /\ scan[p] = {} /\ claimed[p] = Nobody
    /\ \A r \in Runs : task[p][r] \notin {"valid", "invalid"}

Moves(p, r, from, to) == task[p][r] = from /\ task' = [task EXCEPT ![p][r] = to]

(* Fault: a task that was cancelled counts as ended. *)
Stopped(pc) == IF pc \in {"created", "working"} THEN "stopped" ELSE pc

(* task.cancel(): the next step of the coroutine raises; one that never     *)
(* started ends without a step.                                             *)
Stopping(pc) ==
    CASE pc = "created" -> "ending"
      [] pc = "working" -> "stopping"
      [] OTHER -> pc

Unleased(p, r) == IF lease[r] = p THEN [lease EXCEPT ![r] = Nobody] ELSE lease

JobsInit ==
    /\ deployed \in (SUBSET Replicas) \ {{}}
    /\ row = [r \in Runs |-> Absent]
    /\ copy = [p \in Replicas |-> [r \in Runs |-> Absent]]
    /\ task = [p \in Replicas |-> [r \in Runs |-> "none"]]
    /\ thread = [p \in Replicas |-> [r \in Runs |-> "none"]]
    /\ stopped = [p \in Replicas |-> {}]
    /\ purged = [p \in Replicas |-> {}]
    /\ lease = [r \in Runs |-> Nobody]
    /\ cancels = [p \in Replicas |-> [r \in Runs |-> "none"]]
    /\ clear = [p \in Replicas |-> NoClear]
    /\ scan = [p \in Replicas |-> {}]
    /\ claimed = [p \in Replicas |-> Nobody]
    /\ listing = [p \in Replicas |-> [r \in Runs |-> Absent]]
    /\ answered = {}
    /\ crashes = 0

----------------------------------------------------------------------------
(* The task of a job                                                        *)

(* start, and resume, which starts a new run from the request of an old one. *)
Start(p, r) ==
    /\ AtAwait(p)
    /\ row[r] = Absent /\ lease[r] = Nobody
    /\ \A q \in Replicas : copy[q][r] = Absent
    /\ Cardinality({q \in Runs : lease[q] # Nobody}) < Capacity
    /\ lease' = [lease EXCEPT ![r] = p]
    /\ Update(p, {r}, "queued", FALSE)
    /\ Moves(p, r, "none", "created")
    /\ UNCHANGED <<deployed, thread, stopped, purged, cancels, clear, scan, claimed,
                   listing, answered, crashes>>

(* The first step of the coroutine; a cached response is published at once. *)
TaskBegin(p, r) ==
    /\ AtAwait(p)
    /\ Moves(p, r, "created", "working") \/ Moves(p, r, "created", "valid")
    /\ Update(p, {r}, "running", FALSE)
    /\ UNCHANGED <<deployed, thread, stopped, purged, lease, cancels, clear, scan,
                   claimed, listing, answered, crashes>>

(* The generator reports progress between two of its steps. *)
Progress(p, r) ==
    /\ AtAwait(p)
    /\ task[p][r] = "working" /\ thread[p][r] = "none"
    /\ Update(p, {r}, "running", FALSE)
    /\ UNCHANGED <<deployed, task, thread, stopped, purged, lease, cancels, clear, scan,
                   claimed, listing, answered, crashes>>

(* The generator hands a bundle to a sandbox thread and waits for it. *)
SandboxStart(p, r) ==
    /\ AtAwait(p)
    /\ task[p][r] = "working" /\ thread[p][r] = "none"
    /\ r \notin stopped[p]
    /\ thread' = [thread EXCEPT ![p][r] = "checked"]
    /\ UNCHANGED <<deployed, row, copy, task, stopped, purged, lease, cancels, clear,
                   scan, claimed, listing, answered, crashes>>

(* Between its checks for a cancellation the thread announces a stage: the  *)
(* event loop runs update_progress for it, whatever became of the task.     *)
StageCallback(p, r) ==
    /\ AtAwait(p)
    /\ thread[p][r] = "checked"
    /\ Update(p, {r}, "running", FALSE)
    /\ thread' = [thread EXCEPT ![p][r] = "called"]
    /\ UNCHANGED <<deployed, task, stopped, purged, lease, cancels, clear, scan, claimed,
                   listing, answered, crashes>>

(* The thread goes on to its next check, which raises for a stopped run, or *)
(* ends.                                                                    *)
ThreadStep(p, r) ==
    /\ thread[p][r] # "none"
    /\ \/ /\ thread[p][r] = "called" /\ r \notin stopped[p]
          /\ thread' = [thread EXCEPT ![p][r] = "checked"]
       \/ thread' = [thread EXCEPT ![p][r] = "none"]
    /\ UNCHANGED <<deployed, row, copy, task, stopped, purged, lease, cancels, clear,
                   scan, claimed, listing, answered, crashes>>

(* The generator ends: the last progress it reports has the final status,   *)
(* and nothing is awaited before the result is saved with it.               *)
Generated(p, r, status) ==
    /\ AtAwait(p)
    /\ thread[p][r] = "none"
    /\ Moves(p, r, "working", status)
    /\ Update(p, {r}, status, FALSE)
    /\ UNCHANGED <<deployed, thread, stopped, purged, lease, cancels, clear, scan,
                   claimed, listing, answered, crashes>>

(* The rest of the task, in a transaction of its own. *)
Publish(p, r) ==
    /\ task[p][r] \in {"valid", "invalid"}
    /\ IF copy[p][r].status = "cancelled" THEN UNCHANGED <<row, copy>>
       ELSE Update(p, {r}, task[p][r], TRUE)
    /\ task' = [task EXCEPT ![p][r] = "ending"]
    /\ UNCHANGED <<deployed, thread, stopped, purged, lease, cancels, clear, scan,
                   claimed, listing, answered, crashes>>

(* The generator raises; a job that was cancelled meanwhile stays so. *)
GenerationFails(p, r) ==
    /\ AtAwait(p)
    /\ thread[p][r] = "none"
    /\ Moves(p, r, "working", "ending")
    /\ IF copy[p][r].status = "cancelled" THEN UNCHANGED <<row, copy>>
       ELSE Mark(p, {r}, "failed")
    /\ UNCHANGED <<deployed, thread, stopped, purged, lease, cancels, clear, scan,
                   claimed, listing, answered, crashes>>

(* except asyncio.CancelledError *)
TaskCancelled(p, r) ==
    /\ AtAwait(p)
    /\ Moves(p, r, "stopping", "ending")
    /\ Mark(p, {r}, "cancelled")
    /\ UNCHANGED <<deployed, thread, stopped, purged, lease, cancels, clear, scan,
                   claimed, listing, answered, crashes>>

(* discard_completed *)
TaskEnds(p, r) ==
    /\ AtAwait(p)
    /\ Moves(p, r, "ending", "none")
    /\ lease' = Unleased(p, r)
    /\ UNCHANGED <<deployed, row, copy, thread, stopped, purged, cancels, clear, scan,
                   claimed, listing, answered, crashes>>

(* renew: the row is gone, or a cancellation reached it from elsewhere. *)
Heartbeat(p, r) ==
    /\ AtAwait(p)
    /\ task[p][r] \in {"created", "working"}
    /\ row[r] = Purged \/ row[r].status = "cancelled"
    /\ task' = [task EXCEPT ![p][r] = Stopping(@)]
    /\ UNCHANGED <<deployed, row, copy, thread, stopped, purged, lease, cancels, clear,
                   scan, claimed, listing, answered, crashes>>

----------------------------------------------------------------------------
(* Cancel, clear and list                                                   *)

(* cancel, up to the teardown of the sandbox in a thread. *)
CancelBegin(p, r) ==
    /\ AtAwait(p)
    /\ cancels[p][r] = "none"
    /\ Exists(r) /\ row[r].status \notin {"valid", "invalid", "cancelled"}
    /\ Mark(p, {r}, "cancelled")
    /\ cancels' = [cancels EXCEPT ![p][r] = "teardown"]
    /\ UNCHANGED <<deployed, task, thread, stopped, purged, lease, clear, scan, claimed,
                   listing, answered, crashes>>

(* Fault: the teardown of the sandbox is taken for the end of the task. *)
CancelSandboxOnly(p, r) ==
    /\ AtAwait(p)
    /\ cancels[p][r] = "teardown"
    /\ stopped' = [stopped EXCEPT ![p] = @ \cup {r}]
    /\ cancels' = [cancels EXCEPT ![p][r] = "none"]
    /\ answered' = answered \cup {r}
    /\ UNCHANGED <<deployed, row, copy, task, thread, purged, lease, clear, scan,
                   claimed, listing, crashes>>

(* cancel_sandbox_run returned; the task is cancelled and waited for. *)
CancelTask(p, r) ==
    /\ AtAwait(p)
    /\ cancels[p][r] = "teardown"
    /\ stopped' = [stopped EXCEPT ![p] = @ \cup {r}]
    /\ task' = [task EXCEPT ![p][r] = Stopping(@)]
    /\ cancels' = [cancels EXCEPT ![p][r] = "gather"]
    /\ UNCHANGED <<deployed, row, copy, thread, purged, lease, clear, scan, claimed,
                   listing, answered, crashes>>

(* The task has ended; the job is marked once more and answered. *)
CancelReturn(p, r) ==
    /\ AtAwait(p)
    /\ cancels[p][r] = "gather"
    /\ task[p][r] = "none"
    /\ Mark(p, {r}, "cancelled")
    /\ cancels' = [cancels EXCEPT ![p][r] = "none"]
    /\ answered' = IF copy[p][r] = Absent THEN answered ELSE answered \cup {r}
    /\ UNCHANGED <<deployed, task, thread, stopped, purged, lease, clear, scan, claimed,
                   listing, crashes>>

(* clear, up to the teardown of the sandboxes. *)
ClearBegin(p) ==
    LET ids == {r \in Runs : copy[p][r] # Absent}
        active == {r \in ids : copy[p][r].status \in Active}
    IN
    /\ AtAwait(p)
    /\ clear[p] = NoClear
    /\ Mark(p, active, "cancelled")
    /\ purged' = [purged EXCEPT ![p] = @ \cup ids]
    /\ clear' = [clear EXCEPT ![p] = [phase |-> "teardown", ids |-> ids, active |-> active]]
    /\ UNCHANGED <<deployed, task, thread, stopped, lease, cancels, scan, claimed,
                   listing, answered, crashes>>

ClearTasks(p) ==
    LET active == clear[p].active IN
    /\ AtAwait(p)
    /\ clear[p].phase = "teardown"
    /\ stopped' = [stopped EXCEPT ![p] = @ \cup active]
    /\ task' = [task EXCEPT ![p] =
          [r \in Runs |-> IF r \in active THEN Stopping(@[r]) ELSE @[r]]]
    /\ clear' = [clear EXCEPT ![p].phase = "gather"]
    /\ UNCHANGED <<deployed, row, copy, thread, purged, lease, cancels, scan, claimed,
                   listing, answered, crashes>>

(* The tasks ended; every row of the workspace is replaced by a marker. *)
ClearReturn(p) ==
    /\ AtAwait(p)
    /\ clear[p].phase = "gather"
    /\ \A r \in clear[p].active : task[p][r] = "none"
    /\ copy' = [copy EXCEPT ![p] = [r \in Runs |-> IF r \in clear[p].ids THEN Absent ELSE @[r]]]
    /\ row' = [r \in Runs |-> IF Exists(r) THEN Purged ELSE row[r]]
    /\ clear' = [clear EXCEPT ![p] = NoClear]
    /\ UNCHANGED <<deployed, task, thread, stopped, purged, lease, cancels, scan,
                   claimed, listing, answered, crashes>>

(* list runs in a thread: what it read refreshes the copies a while later,  *)
(* also in the middle of a stretch of the event loop.                       *)
ListRead(p) ==
    /\ p \in deployed
    /\ listing[p] = [r \in Runs |-> Absent]
    /\ listing' = [listing EXCEPT ![p] = [r \in Runs |-> IF Exists(r) THEN row[r] ELSE Absent]]
    /\ UNCHANGED <<deployed, row, copy, task, thread, stopped, purged, lease, cancels,
                   clear, scan, claimed, answered, crashes>>
ListRefresh(p) ==
    /\ listing[p] # [r \in Runs |-> Absent]
    /\ copy' = [copy EXCEPT ![p] = Refreshed(p, listing[p])]
    /\ listing' = [listing EXCEPT ![p] = [r \in Runs |-> Absent]]
    /\ UNCHANGED <<deployed, row, task, thread, stopped, purged, lease, cancels, clear,
                   scan, claimed, answered, crashes>>

----------------------------------------------------------------------------
(* Crash and recovery                                                       *)

(* The process restarts: it loads all jobs and recovers by these copies.    *)
Crash(p) ==
    /\ p \in deployed
    /\ crashes < MaxCrashes
    /\ crashes' = crashes + 1
    /\ copy' = [copy EXCEPT ![p] = [r \in Runs |-> IF Exists(r) THEN row[r] ELSE Absent]]
    /\ scan' = [scan EXCEPT ![p] = {r \in Runs : row[r].status \in Active}]
    /\ task' = [task EXCEPT ![p] = [r \in Runs |-> "none"]]
    /\ thread' = [thread EXCEPT ![p] = [r \in Runs |-> "none"]]
    /\ stopped' = [stopped EXCEPT ![p] = {}]
    /\ purged' = [purged EXCEPT ![p] = {}]
    /\ lease' = [r \in Runs |-> IF lease[r] = p THEN "orphan" ELSE lease[r]]
    /\ cancels' = [cancels EXCEPT ![p] = [r \in Runs |-> "none"]]
    /\ clear' = [clear EXCEPT ![p] = NoClear]
    /\ claimed' = [claimed EXCEPT ![p] = Nobody]
    /\ listing' = [listing EXCEPT ![p] = [r \in Runs |-> Absent]]
    /\ UNCHANGED <<deployed, row, answered>>

LeaseExpires(r) ==
    /\ lease[r] = "orphan"
    /\ lease' = [lease EXCEPT ![r] = Nobody]
    /\ UNCHANGED <<deployed, row, copy, task, thread, stopped, purged, cancels, clear,
                   scan, claimed, listing, answered, crashes>>

(* Faults: the copies are not refreshed; only queued jobs are recovered. *)
ScanStale(p) ==
    /\ AtAwait(p)
    /\ scan' = [scan EXCEPT ![p] =
          {r \in Runs : task[p][r] = "none" /\ copy[p][r].status \in Active}]
    /\ UNCHANGED <<deployed, row, copy, task, thread, stopped, purged, lease, cancels,
                   clear, claimed, listing, answered, crashes>>
ScanQueued(p) ==
    LET fresh == Refreshed(p, row) IN
    /\ AtAwait(p)
    /\ copy' = [copy EXCEPT ![p] = fresh]
    /\ scan' = [scan EXCEPT ![p] =
          {r \in Runs : task[p][r] = "none" /\ fresh[r].status = "queued"}]
    /\ UNCHANGED <<deployed, row, task, thread, stopped, purged, lease, cancels, clear,
                   claimed, listing, answered, crashes>>

(* recover_interrupted_pipeline_jobs(refresh=True), every 20 seconds. *)
ScanBegin(p) ==
    LET fresh == Refreshed(p, row) IN
    /\ AtAwait(p)
    /\ copy' = [copy EXCEPT ![p] = fresh]
    /\ scan' = [scan EXCEPT ![p] =
          {r \in Runs : task[p][r] = "none" /\ fresh[r].status \in Active}]
    /\ UNCHANGED <<deployed, row, task, thread, stopped, purged, lease, cancels, clear,
                   claimed, listing, answered, crashes>>

(* Fault: the lease is not looked at. *)
ScanClaimAny(p, r) ==
    /\ claimed[p] = Nobody
    /\ r \in scan[p]
    /\ scan' = [scan EXCEPT ![p] = @ \ {r}]
    /\ claimed' = [claimed EXCEPT ![p] = r]
    /\ UNCHANGED <<deployed, row, copy, task, thread, stopped, purged, lease, cancels,
                   clear, listing, answered, crashes>>

(* A run of the scan is claimed unless it is leased; then it fails. *)
ScanClaim(p, r) ==
    /\ claimed[p] = Nobody
    /\ r \in scan[p]
    /\ scan' = [scan EXCEPT ![p] = @ \ {r}]
    /\ IF lease[r] = Nobody
         THEN /\ lease' = [lease EXCEPT ![r] = p]
              /\ claimed' = [claimed EXCEPT ![p] = r]
         ELSE UNCHANGED <<lease, claimed>>
    /\ UNCHANGED <<deployed, row, copy, task, thread, stopped, purged, cancels, clear,
                   listing, answered, crashes>>
ScanFail(p) ==
    LET r == claimed[p] IN
    /\ r # Nobody
    /\ Mark(p, {r}, "failed")
    /\ claimed' = [claimed EXCEPT ![p] = Nobody]
    /\ lease' = Unleased(p, r)
    /\ UNCHANGED <<deployed, task, thread, stopped, purged, cancels, clear, scan,
                   listing, answered, crashes>>

----------------------------------------------------------------------------
(* What ends a task: the generation has a budget of requests and of time.   *)
TaskMoves(p, r) ==
    \/ TaskBegin(p, r) \/ Publish(p, r) \/ TaskCancelled(p, r) \/ TaskEnds(p, r)
    \/ \E status \in {"valid", "invalid"} : Generated(p, r, status)
    \/ GenerationFails(p, r)

Replica(p) ==
    \/ \E r \in Runs :
          \/ Start(p, r) \/ TaskMoves(p, r) \/ Progress(p, r) \/ SandboxStart(p, r)
          \/ StageCallback(p, r) \/ ThreadStep(p, r) \/ Heartbeat(p, r)
          \/ CancelBegin(p, r) \/ CancelTask(p, r) \/ CancelReturn(p, r)
          \/ ScanClaim(p, r)
    \/ ClearBegin(p) \/ ClearTasks(p) \/ ClearReturn(p)
    \/ ListRead(p) \/ ListRefresh(p)
    \/ Crash(p) \/ ScanBegin(p) \/ ScanFail(p)

JobsNext ==
    \/ \E p \in Replicas : Replica(p)
    \/ \E r \in Runs : LeaseExpires(r)

(* The event loop is fair to its coroutines, so that one that is ready again *)
(* and again runs; sandbox threads end (their containers are killed at a     *)
(* timeout); leases expire.                                                  *)
JobsFairness ==
    /\ \A p \in Replicas, r \in Runs :
          /\ SF_jobVars(TaskMoves(p, r))
          /\ WF_jobVars(ThreadStep(p, r) /\ thread'[p][r] = "none")
    /\ \A p \in Replicas :
          /\ SF_jobVars(ClearTasks(p) \/ ClearReturn(p))
          /\ SF_jobVars(ScanBegin(p))
          /\ WF_jobVars(ScanFail(p) \/ \E r \in Runs : ScanClaim(p, r))
    /\ \A r \in Runs : WF_jobVars(LeaseExpires(r))

JobsSpec == JobsInit /\ [][JobsNext]_jobVars
JobsFairSpec == JobsSpec /\ JobsFairness

----------------------------------------------------------------------------
(* Properties                                                               *)

(* "Deletion markers stop stale workers from recreating cleared jobs"       *)
(* (docs/hardening-and-operations.md): a cleared job comes back through no  *)
(* task, late thread, recovery or cancellation of any replica.              *)
NoRecreation == [][\A r \in Runs : row[r] = Purged => row'[r] = Purged]_jobVars

(* Of the leases the service relies on what LeaseHolders promises; that      *)
(* leases.py keeps that promise is a theorem about WorkerLeases.             *)
Holders == INSTANCE LeaseHolders WITH Owners <- Replicas
ImplementsHolders == Holders!Spec

(* A job with a task is leased to its replica and has no second task.  *)
Live(p, r) == task[p][r] \in {"created", "working"}
LiveJobIsLeased == \A p \in Replicas, r \in Runs : Live(p, r) => lease[r] = p

(* Recovery fails a job only when nobody works on it: if the row of a job   *)
(* with a live task turns failed, it is that task that failed.              *)
RecoverySparesLive ==
    [][\A r \in Runs, q \in Replicas :
          (row[r].status \in Active /\ row'[r].status = "failed" /\ Live(q, r))
             => task'[q][r] = "ending"]_jobVars

(* With one replica, as production is told to have, a saved result is lost  *)
(* only when the user cancels or clears the job: every write replaces the   *)
(* whole row by a copy, and list requests make copies stale.                *)
Alone == Cardinality(deployed) = 1
Discarded(r) == row[r].status \in {"cancelled", "purged"} \/ \E p \in Replicas : r \in purged[p]
ResultKept ==
    [][Alone => \A r \in Runs : row[r].result => row'[r].result \/ Discarded(r)']_jobVars

(* With one replica a job whose cancellation was answered delivers no       *)
(* result any more, although late threads may revive its row.               *)
CancelIsEffective ==
    [][Alone => \A r \in answered : row'[r].status \in {"valid", "invalid"}
          => row'[r].status = row[r].status]_jobVars

(* "Cancellation is authoritative ... that race must not overwrite the      *)
(* user-requested terminal state" (codegen/app/main.py).                    *)
CancelledStays ==
    [][\A r \in answered : row[r].status = "cancelled"
          => row'[r].status \in {"cancelled", "purged"}]_jobVars

(* Every accepted job ends or is deleted, through crashes and late writes.  *)
JobsEnd ==
    \A r \in Runs : row[r].status \in Active ~> row[r].status \notin Active
=============================================================================

---------------------------- MODULE WorkerLeases ----------------------------
(***************************************************************************)
(* The worker_leases table of src/shared/leases.py (copied unchanged into   *)
(* the runner and the codegen services) together with the protocol its      *)
(* clients follow: claim a run, renew it from a heartbeat while it          *)
(* executes, release it when the task ends, and let another worker claim a  *)
(* run whose lease lapsed.                                                  *)
(*                                                                          *)
(* Every method of WorkerLeases reads time.time() in Python and only then   *)
(* waits for the database (an advisory lock, or SQLite's write lock).  A    *)
(* call is therefore two steps: the clock is read, and later the statement  *)
(* commits with a clock value that may be stale.                            *)
(*                                                                          *)
(* Workers are process incarnations: WorkerLeases.__init__ draws a new      *)
(* owner id, so a restarted process is another member of Workers.           *)
(***************************************************************************)
EXTENDS Integers, FiniteSets

CONSTANTS
    Workers,      \* owner ids
    Runs,         \* run ids of one kind
    Workspaces,
    WorkspaceOf,  \* [Runs -> Workspaces]
    TTL,          \* lifetime of a lease (60 s in the code)
    Beat,         \* longest time between a commit and the next heartbeat (15 s)
    Delay,        \* longest time between reading the clock and the commit
    Limit,        \* max_outstanding_runs, per workspace
    GlobalLimit,  \* max_global_outstanding_runs
    Timely,       \* TRUE: live workers meet Beat and Delay; FALSE: they may stall
    MaxTime,      \* bound of the clock
    Nobody        \* the owner of a missing row, the run of no call

ASSUME LeaseAssumption ==
    /\ TTL \in Nat /\ Beat \in Nat /\ Delay \in Nat /\ MaxTime \in Nat
    /\ Limit \in Nat /\ GlobalLimit \in Nat
    /\ WorkspaceOf \in [Runs -> Workspaces]
    /\ IsFiniteSet(Runs)
    /\ Timely \in BOOLEAN
    /\ Nobody \notin Workers /\ Nobody \notin Runs

(* The heartbeat leaves room for two slow statements before the lease ends. *)
ASSUME TimelyAssumption == Timely => Beat + 2 * Delay < TTL

VARIABLES
    now,     \* time.time()
    lease,   \* the table: run -> [owner, expiry, via]
    job,     \* the run record the caller keeps beside the lease
    task,    \* task[w][r]: the asyncio task of worker w that executes run r
    beat,    \* beat[w][r]: when that task last committed a claim or a renewal
    call,    \* the statement a worker waits for, with the clock it read
    alive    \* workers that have not crashed

vars == <<now, lease, job, task, beat, call, alive>>

Time == 0..MaxTime
Idle == [op |-> "idle", run |-> Nobody, at |-> 0]
Call == {Idle} \cup [op : {"submit", "recover", "renew"}, run : Runs, at : Nat]
(* "via" is a history field: whether the owner came by submit or recovery. *)
Row == [owner : Workers \cup {Nobody}, expiry : Nat,
        via : {"submit", "recover", "none"}]
NoRow == [owner |-> Nobody, expiry |-> 0, via |-> "none"]

TypeOK ==
    /\ now \in Time
    /\ lease \in [Runs -> Row]
    /\ job \in [Runs -> {"new", "active", "finished"}]
    /\ task \in [Workers -> [Runs -> {"none", "running", "stopping"}]]
    /\ beat \in [Workers -> [Runs -> Nat]]
    /\ call \in [Workers -> Call]
    /\ alive \in SUBSET Workers

----------------------------------------------------------------------------
(* The WHERE clauses of the statements.                                     *)

Active(r, t) == lease[r].owner # Nobody /\ lease[r].expiry > t
ActiveRuns(t) == {r \in Runs : Active(r, t)}
InWorkspaceOf(r) == {q \in Runs : WorkspaceOf[q] = WorkspaceOf[r]}

(* Fault: the limit itself is still admitted. *)
AdmitsOneMore(op, r, t) ==
    op = "submit" =>
        /\ Cardinality(ActiveRuns(t)) <= GlobalLimit
        /\ Cardinality(ActiveRuns(t) \cap InWorkspaceOf(r)) <= Limit

(* The admission test of claim: a recovery passes limits of 100000. *)
Admits(op, r, t) ==
    op = "submit" =>
        /\ Cardinality(ActiveRuns(t)) < GlobalLimit
        /\ Cardinality(ActiveRuns(t) \cap InWorkspaceOf(r)) < Limit

CallIsIdle(w) == call[w] = Idle
Renewing(w, r) == call[w].op = "renew" /\ call[w].run = r

----------------------------------------------------------------------------
Init ==
    /\ now = 0
    /\ lease = [r \in Runs |-> NoRow]
    /\ job = [r \in Runs |-> "new"]
    /\ task = [w \in Workers |-> [r \in Runs |-> "none"]]
    /\ beat = [w \in Workers |-> [r \in Runs |-> 0]]
    /\ call = [w \in Workers |-> Idle]
    /\ alive = Workers

(* A live worker that meets its deadlines holds time back until it acted. *)
OnTime(w) ==
    /\ call[w] # Idle => now < call[w].at + Delay
    /\ \A r \in Runs :
          task[w][r] = "running" /\ ~Renewing(w, r) => now < beat[w][r] + Beat

Tick ==
    /\ now < MaxTime
    /\ Timely => \A w \in alive : OnTime(w)
    /\ now' = now + 1
    /\ UNCHANGED <<lease, job, task, beat, call, alive>>

(* now = time.time() at the head of claim.  A submission claims a fresh id;  *)
(* recovery claims a run on record that leases.active reported as free.     *)
StartClaim(w, r, op) ==
    /\ w \in alive
    /\ CallIsIdle(w)
    /\ \/ op = "submit" /\ job[r] = "new"
             /\ \A v \in Workers : call[v].run # r
       \/ op = "recover" /\ job[r] = "active"
    /\ ~Active(r, now)
    /\ call' = [call EXCEPT ![w] = [op |-> op, run |-> r, at |-> now]]
    /\ UNCHANGED <<now, lease, job, task, beat, alive>>

(* Fault: the record gets a status that nothing handles. *)
GrantedPending(w, r) ==
    /\ job' = [job EXCEPT ![r] = "pending"]
    /\ task' = [task EXCEPT ![w][r] = "running"]
    /\ beat' = [beat EXCEPT ![w][r] = now]

(* The caller starts the task that executes the run it was granted. *)
Granted(w, r) ==
    /\ job' = [job EXCEPT ![r] = "active"]
    /\ task' = [task EXCEPT ![w][r] = "running"]
    /\ beat' = [beat EXCEPT ![w][r] = now]

(* Fault: the owner is checked before the transaction and not in it. *)
ClaimUnchecked(w) ==
    LET r == call[w].run
        t == call[w].at
    IN
    /\ w \in alive
    /\ call[w].op \in {"submit", "recover"}
    /\ \/ /\ ~Admits(call[w].op, r, t)
          /\ UNCHANGED <<lease, job, task, beat>>
       \/ /\ Admits(call[w].op, r, t)
          /\ lease' = [lease EXCEPT ![r] =
                          [owner |-> w, expiry |-> t + TTL, via |-> call[w].op]]
          /\ Granted(w, r)
    /\ call' = [call EXCEPT ![w] = Idle]
    /\ UNCHANGED <<now, alive>>

(* The body of the claim transaction. *)
CommitClaim(w) ==
    LET r == call[w].run
        t == call[w].at
    IN
    /\ w \in alive
    /\ call[w].op \in {"submit", "recover"}
    /\ \/ /\ Active(r, t)                       \* the row has an owner already
          /\ UNCHANGED lease
          /\ IF lease[r].owner = w THEN Granted(w, r) ELSE UNCHANGED <<job, task, beat>>
       \/ /\ ~Active(r, t)
          /\ ~Admits(call[w].op, r, t)
          /\ UNCHANGED <<lease, job, task, beat>>
       \/ /\ ~Active(r, t)
          /\ Admits(call[w].op, r, t)
          /\ lease' = [lease EXCEPT ![r] =
                          [owner |-> w, expiry |-> t + TTL, via |-> call[w].op]]
          /\ Granted(w, r)
    /\ call' = [call EXCEPT ![w] = Idle]
    /\ UNCHANGED <<now, alive>>

(* The heartbeat wakes up and evaluates the parameters of the UPDATE. *)
StartRenew(w, r) ==
    /\ w \in alive
    /\ CallIsIdle(w)
    /\ task[w][r] = "running"
    /\ call' = [call EXCEPT ![w] = [op |-> "renew", run |-> r, at |-> now]]
    /\ UNCHANGED <<now, lease, job, task, beat, alive>>

Renewable(w, r, t) == lease[r].owner = w /\ lease[r].expiry > t

(* UPDATE ... WHERE owner = self AND expires_at > now; when no row matches   *)
(* the heartbeat cancels the task.                                          *)
CommitRenew(w) ==
    LET r == call[w].run
        t == call[w].at
    IN
    /\ w \in alive
    /\ call[w].op = "renew"
    /\ \/ /\ Renewable(w, r, t)
          /\ lease' = [lease EXCEPT ![r] =
                          [owner |-> w, expiry |-> t + TTL, via |-> lease[r].via]]
          /\ beat' = [beat EXCEPT ![w][r] = now]
          /\ UNCHANGED task
       \/ /\ ~Renewable(w, r, t)
          /\ task' = [task EXCEPT ![w][r] = "stopping"]
          /\ UNCHANGED <<lease, beat>>
    /\ call' = [call EXCEPT ![w] = Idle]
    /\ UNCHANGED <<now, job, alive>>

(* Fault: release deletes the row of any owner. *)
UnleaseAnyone(w, r) == lease' = [lease EXCEPT ![r] = NoRow]

(* DELETE ... WHERE owner = self. *)
Unlease(w, r) ==
    lease' = IF lease[r].owner = w THEN [lease EXCEPT ![r] = NoRow] ELSE lease

(* The task ends: its finally clause releases the lease.  A task that ran   *)
(* to its end stored a terminal record first; a cancelled one did not.      *)
Release(w, r) ==
    /\ w \in alive
    /\ CallIsIdle(w)
    /\ task[w][r] # "none"
    /\ Unlease(w, r)
    /\ job' = IF task[w][r] = "running" THEN [job EXCEPT ![r] = "finished"] ELSE job
    /\ task' = [task EXCEPT ![w][r] = "none"]
    /\ UNCHANGED <<now, beat, call, alive>>

(* A task that is cancelled again while its finally clause awaits the end   *)
(* of the heartbeat does not get to the release; its row is not renewed.    *)
Abandon(w, r) ==
    /\ w \in alive
    /\ CallIsIdle(w)
    /\ task[w][r] # "none"
    /\ task' = [task EXCEPT ![w][r] = "none"]
    /\ UNCHANGED <<now, lease, job, beat, call, alive>>

(* The process dies with its tasks; its rows stay until they expire. *)
Crash(w) ==
    /\ w \in alive
    /\ alive' = alive \ {w}
    /\ task' = [task EXCEPT ![w] = [r \in Runs |-> "none"]]
    /\ call' = [call EXCEPT ![w] = Idle]
    /\ UNCHANGED <<now, lease, job, beat>>

WorkerStep(w) ==
    \/ \E r \in Runs, op \in {"submit", "recover"} : StartClaim(w, r, op)
    \/ CommitClaim(w)
    \/ \E r \in Runs : StartRenew(w, r)
    \/ CommitRenew(w)
    \/ \E r \in Runs : Release(w, r) \/ Abandon(w, r)
    \/ Crash(w)

Next == Tick \/ \E w \in Workers : WorkerStep(w)

Spec == Init /\ [][Next]_vars

----------------------------------------------------------------------------
(* Properties                                                               *)

(* No two workers execute the same run at the same time: what the claim,    *)
(* the heartbeat and the recovery scan of manager.py are for.  It needs the *)
(* deadlines of Timely.                                                     *)
ExclusiveExecution ==
    \A v, w \in Workers, r \in Runs :
        task[v][r] # "none" /\ task[w][r] # "none" => v = w

(* Submissions never hold more unexpired leases than max_outstanding_runs   *)
(* allows in a workspace, nor more than max_global_outstanding_runs in all, *)
(* although claim counts rows with a stale clock and renew counts nothing.  *)
Submitted(t) == {r \in ActiveRuns(t) : lease[r].via = "submit"}
AdmissionBound ==
    /\ Cardinality(Submitted(now)) <= GlobalLimit
    /\ \A r \in Runs : Cardinality(Submitted(now) \cap InWorkspaceOf(r)) <= Limit

(* An unexpired lease passes to no other worker, and only its owner ends    *)
(* it: not a late claim with an old clock value, not the release of a       *)
(* worker that lost the run, not a recovery.                                *)
Unstolen(r) ==
    Active(r, now) /\ lease'[r].owner # lease[r].owner =>
        /\ lease'[r] = NoRow
        /\ lease[r].owner \in alive
        /\ task'[lease[r].owner][r] = "none"
NoSteal == [][\A r \in Runs : Unstolen(r)]_vars

(* What a manager may rely on: to whoever looks at the unexpired rows, the   *)
(* table with its clocks, late statements and heartbeats is LeaseHolders.   *)
(* It needs the deadlines of Timely: a live owner never loses its lease.  A *)
(* row is an orphan if no task of its owner renews it any more.             *)
Owned(r) == lease[r].owner \in alive /\ task[lease[r].owner][r] # "none"
Holder(r) ==
    IF ~Active(r, now) THEN Nobody
    ELSE IF Owned(r) THEN lease[r].owner
    ELSE "orphan"
held == [r \in Runs |-> Holder(r)]
Holders == INSTANCE LeaseHolders WITH Owners <- Workers, lease <- held
ImplementsHolders == Holders!Spec

=============================================================================

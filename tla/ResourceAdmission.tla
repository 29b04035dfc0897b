------------------------- MODULE ResourceAdmission -------------------------
(***************************************************************************)
(* ResourceAdmissionController of                                          *)
(* src/packages/agents/src/inlumen/codegen/resource_policy.py and the       *)
(* threads that use it: an execution registers its arrival when the         *)
(* endpoint of codegen/app/main.py accepts it, its worker thread acquires   *)
(* CPU and memory after preparing the bundle, and both the thread and the   *)
(* coroutine that waits for it release them.                                *)
(*                                                                          *)
(* A step is a critical section of the controller's condition, or the test  *)
(* of cancellation and deadline that acquire makes outside of it.           *)
(***************************************************************************)
EXTENDS Integers, FiniteSets, Sequences, SequencesExt, FiniteSetsExt

CONSTANTS
    Requests,   \* execution ids
    Wants,      \* [Requests -> [Kinds -> Nat]]: what the profile asks for
    Host,       \* [Kinds -> Nat]: allocatable_cpu, allocatable_memory_bytes
    Floor,      \* [Kinds -> Nat]: 1 CPU, 512 MiB
    MaxActive   \* CODEGEN_EXECUTION_MAX_ACTIVE_RUNS

Kinds == {"cpu", "memory"}

ASSUME AdmissionAssumption ==
    /\ Wants \in [Requests -> [Kinds -> Nat]]
    /\ Host \in [Kinds -> Nat] /\ Floor \in [Kinds -> Nat]
    /\ \A k \in Kinds : Floor[k] <= Host[k]
    /\ MaxActive \in Nat \ {0}

VARIABLES
    waiting,  \* _waiting
    active,   \* the keys of _active
    pc,         \* progress of an execution: its worker thread, then its coroutine
    cancelled,  \* _CANCELLED_DEPLOYMENT_EXECUTIONS
    overdue,    \* executions whose deadline passed
    arrived     \* history: the order of registration

vars == <<waiting, active, pc, cancelled, overdue, arrived>>

Waiting == {"preparing", "check", "try", "wait"}

TypeOK ==
    /\ waiting \in Seq(Requests)
    /\ active \in SUBSET Requests
    /\ pc \in [Requests -> Waiting \cup {"new", "running", "passed", "failed", "done"}]
    /\ cancelled \in SUBSET Requests
    /\ overdue \in SUBSET Requests
    /\ arrived \in Seq(Requests)

----------------------------------------------------------------------------
(* profile_allocation: clamped to the host, never below the floor. *)
Allocation(e) == [k \in Kinds |-> Max({Min({Wants[e][k], Host[k]}), Floor[k]})]

Used(k) == MapThenSumSet(LAMBDA e : Allocation(e)[k], active)

(* Fault: CPUs are not counted. *)
FitsInMemory(e) ==
    /\ Cardinality(active) < MaxActive
    /\ Allocation(e)["memory"] <= Max({Host["memory"] - Used("memory"), 0})

Fits(e) ==
    /\ Cardinality(active) < MaxActive
    /\ \A k \in Kinds : Allocation(e)[k] <= Max({Host[k] - Used(k), 0})

(* Fault: any waiting execution may go first. *)
IsAnywhere(e) == \E i \in DOMAIN waiting : waiting[i] = e

IsNext(e) == waiting # <<>> /\ Head(waiting) = e

Moves(e, from, to) == pc[e] = from /\ pc' = [pc EXCEPT ![e] = to]

(* Faults: the head is popped whoever leaves; the queue keeps who left. *)
PopWaiter(e) == waiting' = IF waiting = <<>> THEN <<>> ELSE Tail(waiting)
KeepWaiter(e) == e \in Requests /\ waiting' = waiting

(* release and _remove_waiter tolerate an execution they do not know. *)
RemoveWaiter(e) == waiting' = RemoveFirst(waiting, e)

----------------------------------------------------------------------------
Init ==
    /\ waiting = <<>>
    /\ active = {}
    /\ pc = [e \in Requests |-> "new"]
    /\ cancelled = {}
    /\ overdue = {}
    /\ arrived = <<>>

(* The endpoint forgets cancellations that came before the submission,      *)
(* registers the arrival and hands the bundle to a thread.                  *)
Enqueue(e) ==
    /\ Moves(e, "new", "preparing")
    /\ waiting' = Append(waiting, e)
    /\ cancelled' = cancelled \ {e}
    /\ arrived' = Append(arrived, e)
    /\ UNCHANGED <<active, overdue>>

(* A submission that asks for no Dagster run needs no resources. *)
Bypass(e) ==
    /\ Moves(e, "new", "passed") \/ Moves(e, "new", "failed")
    /\ cancelled' = cancelled \ {e}
    /\ UNCHANGED <<waiting, active, overdue, arrived>>

(* The bundle is ready: acquire, which finds the execution registered. *)
Acquire(e) ==
    /\ Moves(e, "preparing", "check")
    /\ UNCHANGED <<waiting, active, cancelled, overdue, arrived>>

(* Fault: an execution without a valid bundle is taken off the queue by     *)
(* nobody.                                                                  *)
AbandonUnreleased(e) ==
    /\ Moves(e, "preparing", "abandoned")
    /\ UNCHANGED <<waiting, active, cancelled, overdue, arrived>>

(* The bundle is invalid, or was cancelled before it got that far. *)
Abandon(e) ==
    /\ Moves(e, "preparing", "failed")
    /\ UNCHANGED <<waiting, active, cancelled, overdue, arrived>>

(* if cancelled() or time.monotonic() >= deadline *)
Check(e) ==
    /\ IF e \in cancelled \cup overdue
       THEN Moves(e, "check", "failed") /\ RemoveWaiter(e)
       ELSE Moves(e, "check", "try") /\ UNCHANGED waiting
    /\ UNCHANGED <<active, cancelled, overdue, arrived>>

(* The critical section of acquire. *)
Try(e) ==
    /\ IF IsNext(e) /\ Fits(e)
       THEN /\ Moves(e, "try", "running")
            /\ waiting' = Tail(waiting)
            /\ active' = active \cup {e}
       ELSE Moves(e, "try", "wait") /\ UNCHANGED <<waiting, active>>
    /\ UNCHANGED <<cancelled, overdue, arrived>>

(* Notified, or after a second: a notification that comes between the       *)
(* critical section and the wait is lost, and the timeout makes up for it.  *)
Wake(e) ==
    /\ Moves(e, "wait", "check")
    /\ UNCHANGED <<waiting, active, cancelled, overdue, arrived>>

(* The container ended, or was removed, or was killed at the deadline; the  *)
(* cancellation is looked up once more; the finally clause releases.        *)
Finish(e) ==
    /\ \/ e \notin cancelled /\ Moves(e, "running", "passed")
       \/ Moves(e, "running", "failed")
    /\ active' = active \ {e}
    /\ RemoveWaiter(e)
    /\ UNCHANGED <<cancelled, overdue, arrived>>

(* The finally clause of the coroutine releases once more. *)
Leave(e) ==
    /\ Moves(e, "passed", "done") \/ Moves(e, "failed", "done")
    /\ active' = active \ {e}
    /\ RemoveWaiter(e)
    /\ UNCHANGED <<cancelled, overdue, arrived>>

(* A DELETE, which may come before the submission. *)
Cancel(e) ==
    /\ pc[e] # "done" /\ e \notin cancelled
    /\ cancelled' = cancelled \cup {e}
    /\ UNCHANGED <<waiting, active, pc, overdue, arrived>>

(* The deadline, which the thread sets after preparing the bundle. *)
Expire(e) ==
    /\ pc[e] \in {"check", "try", "wait"} /\ e \notin overdue
    /\ overdue' = overdue \cup {e}
    /\ UNCHANGED <<waiting, active, pc, cancelled, arrived>>

Worker(e) == Acquire(e) \/ Abandon(e) \/ Check(e) \/ Try(e) \/ Wake(e) \/ Finish(e)

Next ==
    \E e \in Requests :
        Enqueue(e) \/ Bypass(e) \/ Worker(e) \/ Leave(e) \/ Cancel(e) \/ Expire(e)

Spec == Init /\ [][Next]_vars

----------------------------------------------------------------------------
(* Properties                                                               *)

(* "... admits runs through a FIFO queue so concurrent workloads cannot     *)
(* collectively overcommit the host" (docs/adr/0002).                       *)
NoOvercommit ==
    /\ Cardinality(active) <= MaxActive
    /\ \A k \in Kinds : Used(k) <= Host[k]

(* A reservation belongs to a running container, exactly; a place in the    *)
(* queue belongs to an execution that will still use it or give it up, and  *)
(* nobody holds two.  What the two releases and the removals add up to.     *)
Accounted ==
    /\ active = {e \in Requests : pc[e] = "running"}
    /\ \A e \in Requests :
          /\ pc[e] \in Waiting => \E i \in DOMAIN waiting : waiting[i] = e
          /\ pc[e] \in {"new", "running", "passed", "done"} => \A i \in DOMAIN waiting : waiting[i] # e
    /\ \A i, j \in DOMAIN waiting : waiting[i] = waiting[j] => i = j

(* No execution is admitted while one that registered before it still       *)
(* waits, however the threads are scheduled and whatever leaves the queue   *)
(* from its middle.                                                         *)
Before(f, e) ==
    \E i, j \in DOMAIN arrived : i < j /\ arrived[i] = f /\ arrived[j] = e
NoOvertaking ==
    [][\A e \in active' \ active :
          \A f \in Requests : Before(f, e) => pc[f] \notin Waiting]_vars
=============================================================================

------------------------- MODULE ExecutionReceipts -------------------------
(***************************************************************************)
(* The durable executions of the codegen service: the                      *)
(* deployment_executions table of src/codegen/app/execution_store.py and    *)
(* the endpoint of src/codegen/app/main.py that starts a worker for a       *)
(* submission.  A client may submit one execution any number of times, with *)
(* the same or another bundle, to any server; servers crash and lose their  *)
(* workers but not the table.                                               *)
(***************************************************************************)
EXTENDS Integers, FiniteSets

CONSTANTS
    Servers,       \* codegen processes that share the database
    Executions,    \* execution ids
    Bundles,       \* fingerprints of submissions
    PendingLimit,  \* DEPLOYMENT_PENDING_LIMIT, per server
    Acknowledged,  \* no commit takes effect and is reported as a failure
    NoBundle

ASSUME ReceiptAssumption ==
    NoBundle \notin Bundles /\ PendingLimit \in Nat /\ Acknowledged \in BOOLEAN

VARIABLES
    receipt,  \* status of the row; "overdue" is "running" past its deadline
    bundle,   \* fingerprint column of the row
    working,  \* working[s]: executions that have a task in DEPLOYMENT_TASKS
    started   \* history: how many workers were started for an execution

receiptVars == <<receipt, bundle, working, started>>

Completed == {"ok", "bad"}

ReceiptsTypeOK ==
    /\ receipt \in [Executions -> {"absent", "running", "overdue"} \cup Completed]
    /\ bundle \in [Executions -> Bundles \cup {NoBundle}]
    /\ working \in [Servers -> SUBSET Executions]
    /\ started \in [Executions -> Nat]

----------------------------------------------------------------------------
(* ExecutionStore.get as a client of the service sees it. *)
Observed(e) ==
    CASE receipt[e] = "overdue" -> "interrupted"
      [] receipt[e] \in Completed -> "completed"
      [] OTHER -> receipt[e]

(* Fault: only a stored result stops a second submission. *)
FreshUntilCompleted(e) == receipt[e] \notin Completed

(* ExecutionStore.start returns TRUE: the INSERT met no row of this id. *)
Fresh(e) == receipt[e] = "absent"

(* 429: the queue of the server is full and the id is new to the store. *)
QueueFull(s, e) == Cardinality(working[s]) >= PendingLimit /\ Fresh(e)

ReceiptsInit ==
    /\ receipt = [e \in Executions |-> "absent"]
    /\ bundle = [e \in Executions |-> NoBundle]
    /\ working = [s \in Servers |-> {}]
    /\ started = [e \in Executions |-> 0]

StartWorker(s, e) ==
    /\ working' = [working EXCEPT ![s] = @ \cup {e}]
    /\ started' = [started EXCEPT ![e] = @ + 1]

(* A submission is accepted.  One that is not fresh gets the stored result  *)
(* or a 409 and changes nothing.                                            *)
Submit(s, e, b) ==
    /\ ~QueueFull(s, e)
    /\ Fresh(e)
    /\ receipt' = [receipt EXCEPT ![e] = "running"]
    /\ bundle' = [bundle EXCEPT ![e] = b]
    /\ StartWorker(s, e)

(* Fault: the status shown to clients is stored in place of the result. *)
CompleteAsObserved(s, e, result) ==
    /\ e \in working[s]
    /\ receipt' = [receipt EXCEPT ![e] = "completed"]
    /\ working' = [working EXCEPT ![s] = @ \ {e}]
    /\ UNCHANGED <<bundle, started>>

(* The handler of a worker that ended runs the UPDATE of finish, whatever    *)
(* the row holds.  When the first one raises, a second one stores a failure. *)
StoreResult(s, e, result) ==
    /\ e \in working[s]
    /\ receipt[e] \in Completed => result = "bad"
    /\ receipt' = [receipt EXCEPT ![e] = result]
    /\ UNCHANGED <<bundle, started>>

(* The worker ends and its result is stored, past the deadline or not. *)
Complete(s, e, result) ==
    /\ StoreResult(s, e, result)
    /\ working' = [working EXCEPT ![s] = @ \ {e}]

(* The UPDATE is committed, but its connection fails before it says so. *)
CompleteUnanswered(s, e, result) ==
    /\ ~Acknowledged
    /\ StoreResult(s, e, result)
    /\ UNCHANGED working

(* The worker ends and the last UPDATE of its handler fails. *)
CompleteUnrecorded(s, e) ==
    /\ e \in working[s]
    /\ working' = [working EXCEPT ![s] = @ \ {e}]
    /\ UNCHANGED <<receipt, bundle, started>>

(* Fault: the deadline is applied to completed receipts as well. *)
PassDeadlineAlways(e) ==
    /\ receipt[e] \notin {"absent", "overdue"}
    /\ receipt' = [receipt EXCEPT ![e] = "overdue"]
    /\ UNCHANGED <<bundle, working, started>>

(* deadline < time.time(): from now on a reader is told "interrupted". *)
PassDeadline(e) ==
    /\ receipt[e] = "running"
    /\ receipt' = [receipt EXCEPT ![e] = "overdue"]
    /\ UNCHANGED <<bundle, working, started>>

ServerCrash(s) ==
    /\ working[s] # {}
    /\ working' = [working EXCEPT ![s] = {}]
    /\ UNCHANGED <<receipt, bundle, started>>

(* What happens in the service without a client. *)
ServiceStep ==
    \/ \E s \in Servers, e \in Executions, result \in Completed :
          Complete(s, e, result) \/ CompleteUnanswered(s, e, result)
    \/ \E s \in Servers, e \in Executions : CompleteUnrecorded(s, e)
    \/ \E e \in Executions : PassDeadline(e)
    \/ \E s \in Servers : ServerCrash(s)

ReceiptsNext ==
    \/ \E s \in Servers, e \in Executions, b \in Bundles : Submit(s, e, b)
    \/ ServiceStep

ReceiptsSpec == ReceiptsInit /\ [][ReceiptsNext]_receiptVars

----------------------------------------------------------------------------
(* Properties                                                               *)

(* "Duplicate submissions never replay side effects" (the docstring of      *)
(* execution_store.py): whatever is submitted, to whichever server, before  *)
(* or after a crash or a deadline, an execution gets one worker.            *)
NoReplay == \A e \in Executions : started[e] <= 1

(* A settled result is never replaced, although finish is an UPDATE without *)
(* a condition; and the id stays bound to the bundle it was first submitted *)
(* with.  If commits are acknowledged, a result is settled as soon as a     *)
(* client can read it.  If not, the handler may still write a failure over  *)
(* it, and a result is settled when the worker is gone.                     *)
Settled(e) ==
    /\ receipt[e] \in Completed
    /\ Acknowledged \/ \A s \in Servers : e \notin working[s]
Kept(e) ==
    /\ Settled(e) => receipt'[e] = receipt[e]
    /\ bundle[e] # NoBundle => bundle'[e] = bundle[e]
ReceiptsAreFinal == [][\A e \in Executions : Kept(e)]_receiptVars

=============================================================================

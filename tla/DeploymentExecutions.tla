------------------------ MODULE DeploymentExecutions ------------------------
(***************************************************************************)
(* The execution endpoint of src/codegen/app/main.py as a whole: the        *)
(* durable receipts that all servers share (ExecutionReceipts) and, in one  *)
(* of the servers, the admission queue and the threads behind the           *)
(* submissions it accepted (ResourceAdmission).  The queue, the             *)
(* reservations and the cancellations are in the memory of the process; a   *)
(* crash loses them and leaves the receipts.                                *)
(***************************************************************************)
EXTENDS ExecutionReceipts, ResourceAdmission

CONSTANT Here  \* the server whose memory is modelled

ASSUME HereAssumption == Here \in Servers /\ Requests = Executions

serviceVars == <<receiptVars, vars>>

ServiceInit == ReceiptsInit /\ Init

----------------------------------------------------------------------------
(* A fresh submission is recorded, registered and given a task, without an  *)
(* await in between.                                                        *)
SubmitHere(e, b) ==
    /\ Submit(Here, e, b)
    /\ Enqueue(e) \/ Bypass(e)

Thread(e) == Worker(e) /\ UNCHANGED receiptVars

DeleteRequest(e) == Cancel(e) /\ UNCHANGED receiptVars

TimeLimit(e) == Expire(e) /\ UNCHANGED receiptVars

(* Fault: the finally clause of the coroutine is missing. *)
ConcludeUnreleased(e) ==
    /\ Moves(e, "passed", "done") \/ Moves(e, "failed", "done")
    /\ UNCHANGED <<waiting, active, cancelled, overdue, arrived>>
    /\ Complete(Here, e, IF pc[e] = "passed" THEN "ok" ELSE "bad")

(* The result of a thread that passed is stored as a failure, too: when the *)
(* first UPDATE raised, as it does if the artifacts cannot be decoded.      *)
Results(e) == IF pc[e] = "passed" THEN Completed ELSE {"bad"}

(* The thread returned: the result is stored, or cannot be, and what the    *)
(* execution still holds is released.                                       *)
Conclude(e) ==
    /\ Leave(e)
    /\ \/ \E result \in Results(e) : Complete(Here, e, result)
       \/ CompleteUnrecorded(Here, e)

(* The thread returned and an UPDATE raised although it took effect. *)
ConcludeUnanswered(e) ==
    /\ pc[e] \in {"passed", "failed"}
    /\ \E result \in Results(e) : CompleteUnanswered(Here, e, result)
    /\ UNCHANGED vars

(* The process ends and starts anew. *)
Restart ==
    /\ ServerCrash(Here)
    /\ waiting' = <<>>
    /\ active' = {}
    /\ cancelled' = {}
    /\ overdue' = {}
    /\ pc' = [e \in Executions |-> IF e \in working[Here] THEN "done" ELSE pc[e]]
    /\ UNCHANGED arrived

(* The other servers, and the clock of the database. *)
Elsewhere ==
    /\ \/ \E s \in Servers \ {Here}, e \in Executions :
             \/ \E b \in Bundles : Submit(s, e, b)
             \/ \E result \in Completed :
                   Complete(s, e, result) \/ CompleteUnanswered(s, e, result)
             \/ CompleteUnrecorded(s, e)
       \/ \E s \in Servers \ {Here} : ServerCrash(s)
       \/ \E e \in Executions : PassDeadline(e)
    /\ UNCHANGED vars

ServiceNext ==
    \/ \E e \in Executions :
          \/ \E b \in Bundles : SubmitHere(e, b)
          \/ Thread(e) \/ Conclude(e) \/ ConcludeUnanswered(e)
          \/ DeleteRequest(e) \/ TimeLimit(e)
    \/ Restart
    \/ Elsewhere

ServiceSpec == ServiceInit /\ [][ServiceNext]_serviceVars

(* Threads and the event loop run whenever they can, and a container ends:  *)
(* its timeout kills it.  Nothing makes a waiting execution time out.       *)
ServiceFairness == \A e \in Executions : WF_serviceVars(Thread(e) \/ Conclude(e))

ServiceFairSpec == ServiceSpec /\ ServiceFairness

----------------------------------------------------------------------------
(* Properties                                                               *)

(* The queue and the reservations of a server belong to executions it has   *)
(* a task for and whose result is not settled, whatever was refused, ended  *)
(* early, was cancelled or went down with a process; so the pending limit   *)
(* bounds the queue, and no settled result coexists with a reservation.     *)
Engaged == active \cup {waiting[i] : i \in DOMAIN waiting}
HeldByWork ==
    /\ Engaged \subseteq working[Here]
    /\ \A e \in Engaged : receipt[e] # "absent" /\ ~Settled(e)
    /\ Cardinality(Engaged) <= PendingLimit

(* Every registered execution is served or leaves, although the head blocks *)
(* the others, notifications get lost, and no deadline is relied on.        *)
AllServed == \A e \in Executions : pc[e] = "preparing" ~> pc[e] = "done"
=============================================================================

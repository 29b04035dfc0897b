----------------------- MODULE MCDeploymentExecutions -----------------------
(* Two servers and three executions, which the modelled server may all      *)
(* accept.  Its host has 4 CPUs and 3 units of memory: one profile is       *)
(* larger than the host and is clamped to all of its CPUs, and two fit      *)
(* beside each other but not beside the first.                              *)
EXTENDS DeploymentExecutions, TLC

CONSTANTS e1, e2, e3, s1, s2, b1, b2

MCWants ==
    (e1 :> [cpu |-> 8, memory |-> 2]) @@ (e2 :> [cpu |-> 3, memory |-> 2])
    @@ (e3 :> [cpu |-> 1, memory |-> 0])
MCHost == [cpu |-> 4, memory |-> 3]
MCFloor == [cpu |-> 1, memory |-> 1]

(* At a time, one execution is cancelled or past a deadline, by either      *)
(* clock.  The third execution may also come to the other server, with      *)
(* another bundle, and its commits may go unanswered.                       *)
MCBound ==
    /\ Cardinality(cancelled \cup overdue \cup {e \in Executions : receipt[e] = "overdue"}) <= 1
    /\ \A e \in Executions : bundle[e] = b2 <=> started[e] # 0 /\ pc[e] = "new"
    /\ \A e \in {e1, e2} :
          /\ bundle[e] # b2
          /\ receipt[e] \in Completed => \A s \in Servers : e \notin working[s]

MCSpec == ServiceInit /\ [][ServiceNext /\ MCBound']_serviceVars /\ ServiceFairness
=============================================================================

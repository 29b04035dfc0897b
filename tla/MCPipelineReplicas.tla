------------------------- MODULE MCPipelineReplicas -------------------------
(* Two replicas of the run manager, and either two submissions that repeat  *)
(* one idempotency key or one run that is cancelled, cleared, recovered and *)
(* interrupted by crashes.                                                  *)
EXTENDS MCPipelineRuns

(* A run that is not submitted was purged long ago.  Two submissions meet   *)
(* no crash.                                                                *)
MCInit ==
    \E purged \in SUBSET Runs :
       /\ Cardinality(purged) <= 1
       /\ rec = [r \in Runs |-> IF r \in purged THEN "purged" ELSE "none"]
       /\ post = [r \in Runs |-> IF r \in purged THEN "lost" ELSE "unsent"]
       /\ summary = [r \in Runs |-> "none"]
       /\ lease = [r \in Runs |-> Nobody]
       /\ task = [p \in Replicas |-> [r \in Runs |-> "none"]]
       /\ cancels = [p \in Replicas |-> {}]
       /\ clear = [p \in Replicas |-> NoClear]
       /\ busy = [p \in Replicas |-> Free]
       /\ listed = [p \in Replicas |-> {}]
       /\ crashes = IF purged = {} THEN MaxCrashes ELSE 0
       /\ ReceiptsInit

MCSpec == MCInit /\ [][Next]_vars

(* Bound: once no crash is left, neither a cancellation nor a recovery      *)
(* scan begins.                                                             *)
MCBound ==
    crashes = MaxCrashes => \A p \in Replicas : cancels[p] = {} /\ listed[p] = {}
=============================================================================

--------------------------- MODULE MCGenerationJobs ---------------------------
(* One job, on a service of one replica that has everything, or of two that *)
(* recover and cancel each other's jobs.                                    *)
EXTENDS GenerationJobs, TLC

CONSTANTS p1, p2, r1

(* Bound: lists and clears are left to the service of one replica. *)
MCJobsBound ==
    Alone \/ \A p \in Replicas : listing[p] = [r \in Runs |-> Absent] /\ clear[p] = NoClear

(* One replica is like the other. *)
MCJobsInit == JobsInit /\ deployed \in {{p1}, {p1, p2}}
MCJobsNext == JobsNext /\ MCJobsBound'
MCJobsSpec == MCJobsInit /\ [][MCJobsNext]_jobVars /\ JobsFairness
=============================================================================

-------------------------- MODULE MCBackgroundWork --------------------------
(* Work that outlives the request that asked for it and can be stopped from *)
(* any replica: generation jobs, or design turns.  The two share nothing;   *)
(* a behaviour is one of the one or of the other.                           *)
EXTENDS MCGenerationJobs, MCDesignTurns

VARIABLE work

MCVars == <<jobVars, turnVars, work>>

MCInit == MCJobsInit /\ TurnsInit /\ work \in {"jobs", "turns"}
MCNext ==
    \/ work = "jobs" /\ MCJobsNext /\ UNCHANGED <<turnVars, work>>
    \/ work = "turns" /\ MCStopNext /\ UNCHANGED <<jobVars, work>>
MCSpec == MCInit /\ [][MCNext]_MCVars /\ JobsFairness /\ TurnsFairness
=============================================================================

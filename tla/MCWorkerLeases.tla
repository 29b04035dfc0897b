-------------------------- MODULE MCWorkerLeases --------------------------
(* Instances of WorkerLeases for TLC.                                      *)
EXTENDS WorkerLeases, TLC

CONSTANTS w1, w2, w3, r1, r2, r3, r4

VARIABLE load

MCVars == <<vars, load>>

MCWorkspaceOf ==
    [r \in Runs |-> CASE r = r3 -> "bob" [] r = r4 -> "carol" [] OTHER -> "alice"]

(* Two workers and four runs of three workspaces, so that a submission can  *)
(* meet the limit of its workspace and, elsewhere, the global one; or three *)
(* workers and two runs that are below every limit, so that two are left to *)
(* recover what one left, with more time.  What is not in use is done.      *)
MCInit ==
    /\ load \in {"submissions", "recovery"}
    /\ alive \in {ws \in SUBSET Workers : Cardinality(ws) = IF load = "recovery" THEN 3 ELSE 2}
    /\ job = [r \in Runs |->
          IF load = "recovery" /\ r \in {r1, r2} THEN "finished" ELSE "new"]
    /\ now = 0
    /\ lease = [r \in Runs |-> NoRow]
    /\ task = [w \in Workers |-> [r \in Runs |-> "none"]]
    /\ beat = [w \in Workers |-> [r \in Runs |-> 0]]
    /\ call = [w \in Workers |-> Idle]

(* The clock of submissions ends earlier, and only a recovery meets a lease *)
(* that a living worker abandoned: one, and early.                          *)
MCAbandoned == {r \in Runs : Holder(r) = "orphan" /\ lease[r].owner \in alive}
MCBound ==
    /\ load = "submissions" => now' <= 5 /\ MCAbandoned' = {}
    /\ Cardinality(MCAbandoned') <= 1
    /\ MCAbandoned' \subseteq MCAbandoned \/ now <= 1

MCNext == Next /\ UNCHANGED load
MCSpec == MCInit /\ [][MCNext /\ MCBound]_MCVars

(* Two workers that may stall. *)
MCStalledInit == Init /\ load = "stalled"
MCStalledSpec == MCStalledInit /\ [][MCNext]_MCVars

(* Workers are interchangeable; so are the runs of alice, and bob with      *)
(* carol (no property names a workspace).                                   *)
MCSymmetry == Permutations(Workers) \cup Permutations({r1, r2}) \cup Permutations({r3, r4})
=============================================================================

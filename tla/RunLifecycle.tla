---------------------------- MODULE RunLifecycle ----------------------------
(***************************************************************************)
(* What the runner promises about one pipeline run (docs/adr/0002 and the   *)
(* statuses of src/runner/app/manager.py): a run is queued, runs and ends   *)
(* in one terminal status that never changes; a run whose cancellation was  *)
(* requested ends cancelled, and only such a run does; a purged run never   *)
(* comes back.                                                              *)
(***************************************************************************)
CONSTANT Runs
VARIABLE status

Active == {"queued", "running", "cancelling"}
Terminal == {"succeeded", "failed", "cancelled"}

Init == status = [r \in Runs |-> "none"]

Becomes(r, from, to) == status[r] \in from /\ status' = [status EXCEPT ![r] = to]

Accept(r) == Becomes(r, {"none"}, "queued")
Begin(r) == Becomes(r, {"queued"}, "running")
RequestCancel(r) == Becomes(r, {"queued", "running"}, "cancelling")
End(r) ==
    \/ \E outcome \in {"succeeded", "failed"} : Becomes(r, {"queued", "running"}, outcome)
    \/ Becomes(r, {"cancelling"}, "cancelled")

(* Clear all takes every run on record at once. *)
Purge == status' = [r \in Runs |-> IF status[r] = "none" THEN "none" ELSE "purged"]

Next == Purge \/ \E r \in Runs : Accept(r) \/ Begin(r) \/ RequestCancel(r) \/ End(r)

Spec == Init /\ [][Next]_status
=============================================================================

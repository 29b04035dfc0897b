---------------------------- MODULE LeaseHolders ----------------------------
(***************************************************************************)
(* What the leases of src/shared/leases.py promise the managers that use    *)
(* them (runner/app/manager.py, codegen/app/main.py), without clocks: a run *)
(* is claimed only while nobody holds it, whoever holds it keeps it until   *)
(* it gives it back, and what a dead process held, or one that forgets to   *)
(* give it back, is an orphan until it lapses.                              *)
(***************************************************************************)
CONSTANTS
    Owners,  \* the processes that claim runs
    Runs,
    Nobody   \* the holder of a run that is free

VARIABLE lease  \* who holds a run: an owner, "orphan" or Nobody

Init == lease = [r \in Runs |-> Nobody]

Passes(r, from, to) == lease[r] = from /\ lease' = [lease EXCEPT ![r] = to]

Claim(w, r) == Passes(r, Nobody, w)
Release(w, r) == Passes(r, w, Nobody)
Abandon(w, r) == Passes(r, w, "orphan")
Die(w) == lease' = [r \in Runs |-> IF lease[r] = w THEN "orphan" ELSE lease[r]]

(* Leases that were renewed together may run out together. *)
Lapse(rs) ==
    /\ \A r \in rs : lease[r] = "orphan"
    /\ lease' = [r \in Runs |-> IF r \in rs THEN Nobody ELSE lease[r]]

Next ==
    \/ \E w \in Owners : Die(w) \/ \E r \in Runs : Claim(w, r) \/ Release(w, r) \/ Abandon(w, r)
    \/ \E rs \in SUBSET Runs : Lapse(rs)

Spec == Init /\ [][Next]_lease
=============================================================================

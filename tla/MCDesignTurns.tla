--------------------------- MODULE MCDesignTurns ---------------------------
(* Two turns of two users on two backends. *)
EXTENDS DesignTurns, TLC

CONSTANTS b1, b2, t1, t2

MCOwner == [t \in Turns |-> t]

(* Bounds.  The first turn is the one that is stopped, by at most one       *)
(* request on each backend; it runs on b1 unless the workspace is reset     *)
(* and it is executed again.  The second turn is the other user's: it runs  *)
(* on b2 and before any reset of the workspace.  One fault or reset.        *)
Forgotten == IF \E t \in Turns : turn[t] = "cleared" THEN 1 ELSE 0
MCTurnsBound ==
    /\ requests \subseteq {t1}
    /\ \A p \in Backends : stopping[p] \cap entries[p] = {}
    /\ clears + failures + stalls + Forgotten <= 1
    /\ handler[b1][t2] = NoHandler
    /\ IF clears = 0 THEN handler[b2][t1] = NoHandler ELSE ~sent[t2].posted
    /\ sent[t2].posted => sent[t1].posted

(* Only the turn that is stopped, for liveness. *)
MCStopBound == MCTurnsBound /\ ~sent[t2].posted /\ clears + stalls = 0

MCTurnsNext == TurnsNext /\ MCTurnsBound'
MCStopNext == TurnsNext /\ MCStopBound'
MCTurnsSpec == TurnsInit /\ [][MCTurnsNext]_turnVars /\ TurnsFairness
=============================================================================

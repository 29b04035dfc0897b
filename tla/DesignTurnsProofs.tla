-------------------------- MODULE DesignTurnsProofs --------------------------
(***************************************************************************)
(* Proofs about DesignTurns, for any number of backends, turns and users    *)
(* and any number of stalls, resets and crashes.                            *)
(***************************************************************************)
EXTENDS DesignTurns, TLAPS

Early == {"begun", "registered", "syncing", "synced"}
Late == {"thinking", "writing", "restoring", "judged", "saving", "rollback"}

(* What the handler h of a turn t knows of the graph g: before the snapshot *)
(* there is no edit of t, the snapshot has none, and neither has the graph  *)
(* that is answered as restored.                                            *)
Tracked(t, h, g) ==
    /\ h.step \in Early => t \notin g
    /\ h.step \in Late => t \notin h.before
    /\ h.step \in {"ended", "answering"} /\ h.outcome = "restored" => t \notin g

(* A step of the execution of t: what the steps below have in common. *)
Effect(p, t, h) ==
    LET old == handler[p][t] IN
    /\ old.step # "none" /\ h.step # "none" /\ h \in Handler
    /\ handler' = [handler EXCEPT ![p][t] = h]
    /\ h.before \in {old.before, sent[t].canvas}
    /\ design' \in {design, sent[t].canvas, old.before, design \cup {t}}
    /\ t \notin sent[t].canvas /\ Tracked(t, old, design) => Tracked(t, h, design')
    /\ overdue' \in SUBSET overdue
    /\ UNCHANGED <<turn, flagged, requests, sent, clearing, starts, faultVars>>
    /\ entries' \in [Backends -> SUBSET Turns] /\ stopping' \in [Backends -> SUBSET Turns]

LEMMA HandlerTypes ==
    ASSUME TurnsTypeOK, NEW p \in Backends, NEW t \in Turns
    PROVE  /\ handler[p][t] \in Handler
           /\ handler[p][t].before \in SUBSET Turns
           /\ sent[t].canvas \in SUBSET Turns
           /\ design \in SUBSET Turns
BY DEF TurnsTypeOK, Handler, Graph

LEMMA NoHandlerTypes == NoHandler \in Handler /\ NoHandler.step = "none" /\ NoHandler.before = {}
BY DEF Handler, NoHandler, Graph, Outcomes

(* Parts of a handler that a step replaces. *)
LEMMA WithStep ==
    ASSUME NEW h \in Handler,
           NEW s \in {"none", "begun", "registered", "ended", "answering"} \cup Editing
    PROVE  LET k == [h EXCEPT !.step = s] IN
           k \in Handler /\ k.step = s /\ k.before = h.before /\ k.outcome = h.outcome
BY DEF Handler

LEMMA WithTold ==
    ASSUME NEW h \in Handler, NEW b \in BOOLEAN
    PROVE  LET k == [h EXCEPT !.told = b] IN
           k \in Handler /\ k.step = h.step /\ k.before = h.before /\ k.outcome = h.outcome
BY DEF Handler

LEMMA WithEnd ==
    ASSUME NEW h \in Handler, NEW o \in Outcomes
    PROVE  LET k == [h EXCEPT !.step = "ended", !.told = FALSE, !.outcome = o] IN
           k \in Handler /\ k.step = "ended" /\ k.before = h.before /\ k.outcome = o
BY DEF Handler

(* One lemma for each step: it is an Effect. *)
LEMMA RegisterEffect ==
    ASSUME TurnsTypeOK, NEW p \in Backends, NEW t \in Turns, Register(p, t)
    PROVE  \E h \in Handler : Effect(p, t, h)
<1> DEFINE old == handler[p][t]
           h == [old EXCEPT !.step = "registered", !.told = t \in entries[p]]
<1>1. old \in Handler /\ old.step = "begun"
  BY HandlerTypes DEF Register, At
<1>2. h \in Handler /\ h.step = "registered" /\ h.before = old.before
  <2>1. (t \in entries[p]) \in BOOLEAN
    OBVIOUS
  <2>2. ASSUME NEW told \in BOOLEAN
        PROVE  LET k == [old EXCEPT !.step = "registered", !.told = told] IN
               k \in Handler /\ k.step = "registered" /\ k.before = old.before
    BY <1>1 DEF Handler
  <2> QED BY ONLY <2>1, <2>2
<1>3. Tracked(t, old, design) => Tracked(t, h, design)
  BY <1>1, <1>2 DEF Tracked, Early, Late
<1> QED BY <1>1, <1>2, <1>3 DEF Register, Put, Effect, RequestUnchanged, rowVars, TurnsTypeOK

LEMMA FirstBeatEffect ==
    ASSUME TurnsTypeOK, NEW p \in Backends, NEW t \in Turns, FirstBeat(p, t)
    PROVE  \E h \in Handler : Effect(p, t, h)
<1> DEFINE old == handler[p][t]
<1>1. old \in Handler /\ old.step = "registered"
  BY HandlerTypes DEF FirstBeat, At
<1>2. CASE (\E o \in {"unstarted", "failed"} : Ends(p, t, o)) /\ UNCHANGED overdue
  <2> PICK o \in {"unstarted", "failed"} : Ends(p, t, o)
    BY <1>2
  <2> DEFINE h == [old EXCEPT !.step = "ended", !.told = FALSE, !.outcome = o]
  <2>1. h \in Handler /\ h.step = "ended" /\ h.before = old.before /\ h.outcome = o
    BY <1>1 DEF Handler, Outcomes
  <2>2. Tracked(t, old, design) => Tracked(t, h, design)
    BY <1>1, <2>1 DEF Tracked, Early, Late
  <2> QED
    BY <1>1, <1>2, <2>1, <2>2 DEF FirstBeat, Ends, Put, Effect, RequestUnchanged, TurnsTypeOK
<1>3. CASE Put(p, t, [old EXCEPT !.step = "syncing", !.watched = TRUE]) /\ HeartbeatTurn(t)
  <2> DEFINE h == [old EXCEPT !.step = "syncing", !.watched = TRUE]
  <2>1. h \in Handler /\ h.step = "syncing" /\ h.before = old.before
    BY <1>1 DEF Handler, Editing
  <2>2. Tracked(t, old, design) => Tracked(t, h, design)
    BY <1>1, <2>1 DEF Tracked, Early, Late
  <2>3. overdue' \in SUBSET overdue
    BY <1>3 DEF HeartbeatTurn
  <2> QED
    BY <1>1, <1>3, <2>1, <2>2, <2>3 DEF FirstBeat, Put, Effect, RequestUnchanged, TurnsTypeOK
<1> QED BY <1>2, <1>3 DEF FirstBeat

LEMMA SyncCanvasEffect ==
    ASSUME TurnsTypeOK, NEW p \in Backends, NEW t \in Turns, SyncCanvas(p, t)
    PROVE  \E h \in Handler : Effect(p, t, h)
<1> DEFINE old == handler[p][t]
           h == [old EXCEPT !.step = "synced"]
<1>1. old \in Handler /\ old.step = "syncing" /\ "synced" \in Editing
  BY HandlerTypes DEF SyncCanvas, At, Editing
<1>2. h \in Handler /\ h.step = "synced" /\ h.before = old.before
  BY <1>1, WithStep
<1>3. t \notin sent[t].canvas => Tracked(t, h, sent[t].canvas)
  BY <1>2 DEF Tracked, Early, Late
<1> QED
  BY <1>1, <1>2, <1>3 DEF SyncCanvas, Goes, Put, Effect, RequestUnchanged, rowVars, TurnsTypeOK

LEMMA TakeSnapshotEffect ==
    ASSUME TurnsTypeOK, NEW p \in Backends, NEW t \in Turns, TakeSnapshot(p, t)
    PROVE  \E h \in Handler : Effect(p, t, h)
<1> DEFINE old == handler[p][t]
           h == [old EXCEPT !.step = "thinking", !.before = sent[t].canvas]
<1>1. old \in Handler /\ old.step = "synced" /\ sent[t].canvas \in Graph
  BY HandlerTypes DEF TakeSnapshot, At, Graph
<1>2. h \in Handler /\ h.step = "thinking" /\ h.before = sent[t].canvas
  BY <1>1 DEF Handler, Editing
<1>3. t \notin sent[t].canvas => Tracked(t, h, design)
  BY <1>2 DEF Tracked, Early, Late
<1> QED BY <1>1, <1>2, <1>3 DEF TakeSnapshot, Put, Effect, RequestUnchanged, rowVars, TurnsTypeOK

LEMMA WriteEffect ==
    ASSUME TurnsTypeOK, NEW p \in Backends, NEW t \in Turns, BeginWrite(p, t) \/ EndWrite(p, t)
    PROVE  \E h \in Handler : Effect(p, t, h)
<1> DEFINE old == handler[p][t]
<1>1. old \in Handler /\ {"writing", "thinking"} \subseteq Editing
  BY HandlerTypes DEF Editing
<1>2. CASE BeginWrite(p, t)
  <2> DEFINE h == [old EXCEPT !.step = "writing"]
  <2>1. old.step = "thinking" /\ h \in Handler /\ h.step = "writing" /\ h.before = old.before
    BY <1>1, <1>2, WithStep DEF BeginWrite, At
  <2>2. Tracked(t, old, design) => Tracked(t, h, design)
    BY <2>1 DEF Tracked, Early, Late
  <2> QED
    BY <1>2, <2>1, <2>2 DEF BeginWrite, Goes, Put, Effect, RequestUnchanged, rowVars, TurnsTypeOK
<1>3. CASE EndWrite(p, t)
  <2> DEFINE h == [old EXCEPT !.step = "thinking"]
  <2>1. old.step = "writing" /\ h \in Handler /\ h.step = "thinking" /\ h.before = old.before
    BY <1>1, <1>3, WithStep DEF EndWrite, At
  <2>2. Tracked(t, old, design) => Tracked(t, h, design \cup {t})
    BY <2>1 DEF Tracked, Early, Late
  <2> QED
    BY <1>3, <2>1, <2>2 DEF EndWrite, Goes, Put, Effect, RequestUnchanged, rowVars, TurnsTypeOK
<1> QED BY <1>2, <1>3

LEMMA VerdictEffect ==
    ASSUME TurnsTypeOK, NEW p \in Backends, NEW t \in Turns, Verdict(p, t)
    PROVE  \E h \in Handler : Effect(p, t, h)
<1> DEFINE old == handler[p][t]
<1>1. /\ old \in Handler /\ old.step \in {"thinking", "judged"}
      /\ {"saving", "restoring", "thinking"} \subseteq Editing /\ "completed" \in Outcomes
  BY HandlerTypes DEF Verdict, At, Editing, Outcomes
<1>2. CASE \E s \in {"saving", "restoring", "thinking"} : Goes(p, t, s)
  <2> PICK s \in {"saving", "restoring", "thinking"} : Goes(p, t, s)
    BY <1>2
  <2> DEFINE h == [old EXCEPT !.step = s]
  <2>1. h \in Handler /\ h.step = s /\ h.before = old.before
    BY <1>1, WithStep
  <2>2. Tracked(t, old, design) => Tracked(t, h, design)
    BY <1>1, <2>1 DEF Tracked, Early, Late
  <2> QED
    BY <1>1, <2>1, <2>2 DEF Verdict, Goes, Put, Effect, RequestUnchanged, rowVars, TurnsTypeOK
<1>3. CASE Ends(p, t, "completed")
  <2> DEFINE h == [old EXCEPT !.step = "ended", !.told = FALSE, !.outcome = "completed"]
  <2>1. h \in Handler /\ h.step = "ended" /\ h.before = old.before /\ h.outcome = "completed"
    BY <1>1, WithEnd
  <2>2. Tracked(t, h, design)
    BY <2>1 DEF Tracked, Early, Late
  <2> QED
    BY <1>1, <1>3, <2>1, <2>2
    DEF Verdict, Ends, Put, Effect, RequestUnchanged, rowVars, TurnsTypeOK
<1> QED BY <1>2, <1>3 DEF Verdict

LEMMA EndRestoreEffect ==
    ASSUME TurnsTypeOK, NEW p \in Backends, NEW t \in Turns, EndRestore(p, t)
    PROVE  \E h \in Handler : Effect(p, t, h)
<1> DEFINE old == handler[p][t]
           h == [old EXCEPT !.step = "judged"]
<1>1. old \in Handler /\ old.step = "restoring" /\ "judged" \in Editing
  BY HandlerTypes DEF EndRestore, At, Editing
<1>2. h \in Handler /\ h.step = "judged" /\ h.before = old.before
  BY <1>1, WithStep
<1>3. Tracked(t, old, design) => Tracked(t, h, design')
  BY <1>1, <1>2 DEF Tracked, Early, Late
<1> QED
  BY <1>1, <1>2, <1>3 DEF EndRestore, Goes, Put, Effect, RequestUnchanged, rowVars, TurnsTypeOK

LEMMA EndsEffect ==
    ASSUME TurnsTypeOK, NEW p \in Backends, NEW t \in Turns, EndSave(p, t) \/ TurnFails(p, t)
    PROVE  \E h \in Handler : Effect(p, t, h)
<1> DEFINE old == handler[p][t]
<1>1. PICK o \in {"completed", "failed"} :
         /\ Ends(p, t, o) /\ old.step \in {"syncing", "synced", "thinking", "judged", "saving"}
         /\ UNCHANGED <<rowVars, design>> /\ RequestUnchanged
  BY DEF EndSave, TurnFails, At
<1> DEFINE h == [old EXCEPT !.step = "ended", !.told = FALSE, !.outcome = o]
<1>2. h \in Handler /\ h.step = "ended" /\ h.before = old.before /\ h.outcome = o
  <2>1. old \in Handler /\ o \in Outcomes
    BY HandlerTypes DEF Outcomes
  <2> QED BY <2>1, WithEnd
<1>3. Tracked(t, h, design)
  BY <1>2 DEF Tracked, Early, Late
<1> QED
  BY <1>1, <1>2, <1>3 DEF Ends, Put, Effect, RequestUnchanged, rowVars, TurnsTypeOK

LEMMA InterruptEffect ==
    ASSUME TurnsTypeOK, NEW p \in Backends, NEW t \in Turns, Interrupt(p, t)
    PROVE  \E h \in Handler : Effect(p, t, h)
<1> DEFINE old == handler[p][t]
<1>1. old \in Handler /\ "rollback" \in Editing /\ "restored" \in Outcomes
  BY HandlerTypes DEF Editing, Outcomes
<1>2. CASE At(p, t, {"syncing", "synced"}) /\ Ends(p, t, "restored")
  <2> DEFINE h == [old EXCEPT !.step = "ended", !.told = FALSE, !.outcome = "restored"]
  <2>1. h \in Handler /\ h.step = "ended" /\ h.before = old.before
    BY <1>1, WithEnd
  <2>2. Tracked(t, old, design) => Tracked(t, h, design)
    BY <1>2, <2>1 DEF Tracked, Early, Late, At
  <2> QED
    BY <1>2, <2>1, <2>2
    DEF Interrupt, At, Ends, Put, Effect, RequestUnchanged, rowVars, TurnsTypeOK
<1>3. CASE At(p, t, {"thinking", "judged", "saving"})
           /\ Put(p, t, [old EXCEPT !.step = "rollback", !.told = FALSE])
  <2> DEFINE h == [old EXCEPT !.step = "rollback", !.told = FALSE]
  <2>1. h \in Handler /\ h.step = "rollback" /\ h.before = old.before
    BY <1>1 DEF Handler
  <2>2. Tracked(t, old, design) => Tracked(t, h, design)
    BY <1>3, <2>1 DEF Tracked, Early, Late, At
  <2> QED
    BY <1>3, <2>1, <2>2 DEF Interrupt, At, Put, Effect, RequestUnchanged, rowVars, TurnsTypeOK
<1> QED BY <1>2, <1>3 DEF Interrupt

LEMMA RollbackEffect ==
    ASSUME TurnsTypeOK, NEW p \in Backends, NEW t \in Turns, Rollback(p, t)
    PROVE  \E h \in Handler : Effect(p, t, h)
<1> DEFINE old == handler[p][t]
           outcome(b) == IF old.told THEN "unstarted" ELSE IF b THEN "restored" ELSE "unrestored"
<1>1. PICK b \in BOOLEAN :
         /\ design' = IF b THEN old.before ELSE design
         /\ Ends(p, t, outcome(b))
  BY DEF Rollback
<1>2. old \in Handler /\ old.step = "rollback" /\ outcome(b) \in Outcomes
  BY HandlerTypes DEF Rollback, At, Outcomes
<1> DEFINE h == [old EXCEPT !.step = "ended", !.told = FALSE, !.outcome = outcome(b)]
<1>3. h \in Handler /\ h.step = "ended" /\ h.before = old.before /\ h.outcome = outcome(b)
  <2> HIDE DEF outcome
  <2> QED BY <1>2, WithEnd
<1>4. Tracked(t, old, design) => Tracked(t, h, design')
  BY <1>1, <1>2, <1>3 DEF Tracked, Early, Late
<1>5. handler' = [handler EXCEPT ![p][t] = h]
  BY <1>1 DEF Ends, Put
<1> HIDE DEF h, outcome
<1> QED
  BY <1>1, <1>2, <1>3, <1>4, <1>5 DEF Rollback, Effect, RequestUnchanged, rowVars, TurnsTypeOK

LEMMA UnregisterEffect ==
    ASSUME TurnsTypeOK, NEW p \in Backends, NEW t \in Turns, Unregister(p, t)
    PROVE  \E h \in Handler : Effect(p, t, h)
<1> DEFINE old == handler[p][t]
           h == [old EXCEPT !.step = "answering",
                            !.outcome = IF old.told THEN "unstarted" ELSE @]
<1>1. old \in Handler /\ old.step = "ended"
  BY HandlerTypes DEF Unregister, At
<1>2. /\ h \in Handler /\ h.step = "answering" /\ h.before = old.before
      /\ h.outcome \in {"unstarted", old.outcome}
  BY <1>1 DEF Handler, Outcomes
<1>3. Tracked(t, old, design) => Tracked(t, h, design)
  BY <1>1, <1>2 DEF Tracked, Early, Late
<1>4. entries' \in [Backends -> SUBSET Turns] /\ handler' = [handler EXCEPT ![p][t] = h]
  BY DEF Unregister, Put, TurnsTypeOK
<1> HIDE DEF h
<1> QED BY <1>1, <1>2, <1>3, <1>4 DEF Unregister, Effect, rowVars, TurnsTypeOK

LEMMA BeatEffect ==
    ASSUME TurnsTypeOK, NEW p \in Backends, NEW t \in Turns, Beat(p, t)
    PROVE  \E h \in Handler : Effect(p, t, h)
<1> DEFINE old == handler[p][t]
<1>1. old \in Handler /\ old.step # "none"
  BY HandlerTypes DEF Beat, At, Editing
<1>0. overdue' \in SUBSET overdue
  BY DEF Beat, HeartbeatTurn
<1>2. CASE handler' = handler
  <2>1. handler' = [handler EXCEPT ![p][t] = old]
    BY <1>2 DEF TurnsTypeOK
  <2> QED BY <1>0, <1>1, <2>1 DEF Beat, Effect, RequestUnchanged, TurnsTypeOK
<1>3. CASE Put(p, t, [old EXCEPT !.told = TRUE, !.watched = FALSE])
  <2> DEFINE h == [old EXCEPT !.told = TRUE, !.watched = FALSE]
  <2>1. h \in Handler /\ h.step = old.step /\ h.before = old.before /\ h.outcome = old.outcome
    BY <1>1 DEF Handler
  <2>2. Tracked(t, old, design) => Tracked(t, h, design)
    BY <2>1 DEF Tracked
  <2> QED BY <1>0, <1>1, <1>3, <2>1, <2>2 DEF Beat, Put, Effect, RequestUnchanged, TurnsTypeOK
<1> QED BY <1>2, <1>3 DEF Beat

(* A cancellation that reaches a registered task. *)
LEMMA CancelHereEffect ==
    ASSUME TurnsTypeOK, NEW p \in Backends, NEW t \in Turns, CancelHere(p, t),
           At(p, t, Editing \cup {"registered", "ended"})
    PROVE  \E h \in Handler : Effect(p, t, h)
<1> DEFINE old == handler[p][t]
           h == [old EXCEPT !.told = TRUE]
<1>1. old \in Handler /\ old.step # "none"
  BY HandlerTypes DEF At, Editing
<1>2. h \in Handler /\ h.step = old.step /\ h.before = old.before /\ h.outcome = old.outcome
  BY <1>1, WithTold
<1>3. Tracked(t, old, design) => Tracked(t, h, design)
  BY <1>2 DEF Tracked
<1>4. /\ handler' = [handler EXCEPT ![p][t] = h]
      /\ entries' \in [Backends -> SUBSET Turns] /\ stopping' \in [Backends -> SUBSET Turns]
  BY DEF CancelHere, Put, TurnsTypeOK
<1> HIDE DEF h
<1> QED BY <1>1, <1>2, <1>3, <1>4 DEF CancelHere, Effect, rowVars, TurnsTypeOK

----------------------------------------------------------------------------
(* The steps of a turn, together. *)
LEMMA TurnEffect ==
    ASSUME TurnsTypeOK, NEW p \in Backends, NEW t \in Turns,
           \/ TurnMoves(p, t) /\ ~FinishTurn(p, t)
           \/ Beat(p, t) \/ BeginWrite(p, t) \/ Verdict(p, t) \/ TurnFails(p, t)
    PROVE  \E h \in Handler : Effect(p, t, h)
BY RegisterEffect, FirstBeatEffect, SyncCanvasEffect, TakeSnapshotEffect, WriteEffect,
   VerdictEffect, EndRestoreEffect, EndsEffect, InterruptEffect, RollbackEffect,
   UnregisterEffect, BeatEffect
DEF TurnMoves

----------------------------------------------------------------------------
(* Type correctness                                                         *)

LEMMA TurnsTypeInit == TurnsInit => TurnsTypeOK
BY TurnsAssumption, NoHandlerTypes
DEF TurnsInit, TurnsTypeOK, Unsent, NotClearing, Graph, Receipts, Outcomes

LEMMA EffectTypes ==
    ASSUME TurnsTypeOK, NEW p \in Backends, NEW t \in Turns, NEW h \in Handler, Effect(p, t, h)
    PROVE  TurnsTypeOK'
<1>1. design' \in Graph
  BY HandlerTypes DEF Effect, Graph
<1> QED BY <1>1 DEF Effect, TurnsTypeOK, faultVars

LEMMA TurnsTypeNext == TurnsTypeOK /\ [TurnsNext]_turnVars => TurnsTypeOK'
<1> SUFFICES ASSUME TurnsTypeOK, TurnsNext PROVE TurnsTypeOK'
  <2>1. CASE UNCHANGED turnVars
    BY <2>1 DEF TurnsTypeOK, turnVars, rowVars, faultVars
  <2> QED BY <2>1
<1> USE DEF rowVars, faultVars
<1>1. ASSUME NEW t \in Turns, Send(t) PROVE TurnsTypeOK'
  BY <1>1 DEF Send, TurnsTypeOK
<1>2. ASSUME NEW t \in Turns, ReadConversation(t) PROVE TurnsTypeOK'
  BY <1>2 DEF ReadConversation, Expire, TurnsTypeOK, Receipts, Outcomes
<1>3. ASSUME NEW t \in Turns, GrowsLate(t) PROVE TurnsTypeOK'
  BY <1>3, TurnsAssumption DEF GrowsLate, TurnsTypeOK
<1>4. ASSUME NEW t \in Turns, ResetConversation(t) PROVE TurnsTypeOK'
  BY <1>4 DEF ResetConversation, TurnsTypeOK, Receipts
<1>5. ASSUME NEW p \in Backends, NEW t \in Turns, StartTurn(p, t) PROVE TurnsTypeOK'
  <2>1. [NoHandler EXCEPT !.step = "begun"] \in Handler
    BY NoHandlerTypes, WithStep
  <2> QED
    BY <1>5, <2>1 DEF StartTurn, Put, Expire, TurnsTypeOK, Receipts, Outcomes
<1>6. ASSUME NEW p \in Backends, NEW t \in Turns, FinishTurn(p, t) PROVE TurnsTypeOK'
  <2>1. handler[p][t].outcome \in Outcomes
    BY HandlerTypes DEF Handler
  <2> QED
    BY <1>6, <2>1, NoHandlerTypes DEF FinishTurn, Put, RequestUnchanged, TurnsTypeOK, Receipts
<1>7. ASSUME NEW p \in Backends, NEW t \in Turns, Cancel(p, t) PROVE TurnsTypeOK'
  BY <1>7 DEF Cancel, TurnsTypeOK
<1>8. ASSUME NEW p \in Backends, NEW t \in Turns, CancelHere(p, t) PROVE TurnsTypeOK'
  <2>1. CASE At(p, t, Editing \cup {"registered", "ended"})
    BY <1>8, <2>1, CancelHereEffect, EffectTypes
  <2>2. CASE ~At(p, t, Editing \cup {"registered", "ended"})
    BY <1>8, <2>2 DEF CancelHere, TurnsTypeOK
  <2> QED BY <2>1, <2>2
<1>9. ASSUME NEW p \in Backends, BeginClearing(p) PROVE TurnsTypeOK'
  BY <1>9, TurnsAssumption DEF BeginClearing, Expire, TurnsTypeOK, Receipts, Outcomes
<1>10. ASSUME NEW p \in Backends, ClearGraph(p) PROVE TurnsTypeOK'
  BY <1>10 DEF ClearGraph, TurnsTypeOK, Graph
<1>11. ASSUME NEW p \in Backends, EndClearing(p) PROVE TurnsTypeOK'
  BY <1>11 DEF EndClearing, NotClearing, TurnsTypeOK
<1>12. ASSUME NEW p \in Backends, BackendCrash(p) PROVE TurnsTypeOK'
  BY <1>12, TurnsAssumption, NoHandlerTypes DEF BackendCrash, NotClearing, TurnsTypeOK
<1> QED
  BY <1>1, <1>2, <1>3, <1>4, <1>5, <1>6, <1>7, <1>8, <1>9, <1>10, <1>11, <1>12,
     TurnEffect, EffectTypes
  DEF TurnsNext

(* Every reachable state is well typed. *)
THEOREM TurnsTypeCorrect == TurnsSpec => []TurnsTypeOK
<1> QED BY TurnsTypeInit, TurnsTypeNext, PTL DEF TurnsSpec

----------------------------------------------------------------------------
(* A turn is executed once                                                  *)

(* A turn without a row has not been executed. *)
Counted == \A t \in Turns : starts[t] <= 1 /\ (turn[t] = "none" => starts[t] = 0)

LEMMA CountedInit == TurnsInit => Counted
BY DEF TurnsInit, Counted

LEMMA CountedNext == TurnsTypeOK /\ Counted /\ [TurnsNext]_turnVars => Counted'
<1> SUFFICES ASSUME TurnsTypeOK, Counted, TurnsNext PROVE Counted'
  <2>1. CASE UNCHANGED turnVars
    BY <2>1 DEF Counted, turnVars, rowVars
  <2> QED BY <2>1
<1> USE DEF rowVars
<1>1. ASSUME NEW t \in Turns, Send(t) \/ GrowsLate(t) PROVE Counted'
  BY <1>1 DEF Send, GrowsLate, Counted
<1>2. ASSUME NEW t \in Turns, ReadConversation(t) PROVE Counted'
  BY <1>2 DEF ReadConversation, Expire, Expired, Pending, Counted, TurnsTypeOK
<1>3. ASSUME NEW t \in Turns, ResetConversation(t) PROVE Counted'
  BY <1>3 DEF ResetConversation, Counted, TurnsTypeOK
<1>4. ASSUME NEW p \in Backends, NEW t \in Turns, StartTurn(p, t) PROVE Counted'
  BY <1>4 DEF StartTurn, Expire, Expired, Pending, Counted, TurnsTypeOK
<1>5. ASSUME NEW p \in Backends, NEW t \in Turns, FinishTurn(p, t) PROVE Counted'
  <2>1. handler[p][t].outcome \in Outcomes
    BY HandlerTypes DEF Handler
  <2> QED
    BY <1>5, <2>1 DEF FinishTurn, RequestUnchanged, Pending, Counted, TurnsTypeOK, Outcomes
<1>6. ASSUME NEW p \in Backends, NEW t \in Turns, Cancel(p, t) \/ CancelHere(p, t)
      PROVE  Counted'
  BY <1>6 DEF Cancel, CancelHere, Counted
<1>7. ASSUME NEW p \in Backends, BeginClearing(p) PROVE Counted'
  BY <1>7 DEF BeginClearing, Expire, Expired, Pending, Counted, TurnsTypeOK
<1>8. ASSUME NEW p \in Backends, EndClearing(p) PROVE Counted'
  BY <1>8 DEF EndClearing, Counted, TurnsTypeOK
<1>9. ASSUME NEW p \in Backends, ClearGraph(p) \/ BackendCrash(p) PROVE Counted'
  BY <1>9 DEF ClearGraph, BackendCrash, Counted
<1>10. ASSUME NEW p \in Backends, NEW t \in Turns, NEW h \in Handler, Effect(p, t, h)
       PROVE  Counted'
  BY <1>10 DEF Effect, Counted
<1> QED
  BY <1>1, <1>2, <1>3, <1>4, <1>5, <1>6, <1>7, <1>8, <1>9, <1>10, TurnEffect DEF TurnsNext

(* Through repeated requests, expiry, crashes and resets of a conversation, *)
(* a turn is executed once.                                                 *)
THEOREM RanOnceHolds == TurnsSpec => []RanOnce
<1>1. TurnsTypeOK /\ Counted => RanOnce
  BY DEF TurnsTypeOK, Counted, RanOnce
<1> QED BY <1>1, TurnsTypeInit, TurnsTypeNext, CountedInit, CountedNext, PTL DEF TurnsSpec

----------------------------------------------------------------------------
(* Receipts are final                                                       *)

Final(t) == turn[t] \in Receipts => turn'[t] \in {turn[t], "cleared", "none"}

LEMMA FinalStep ==
    ASSUME TurnsTypeOK, [TurnsNext]_turnVars, NEW u \in Turns
    PROVE  Final(u)
<1> USE DEF Final, rowVars
<1>1. CASE UNCHANGED turnVars
  BY <1>1 DEF turnVars
<1>2. ASSUME NEW t \in Turns, Send(t) \/ GrowsLate(t) PROVE Final(u)
  BY <1>2 DEF Send, GrowsLate
<1>3. ASSUME NEW t \in Turns, ReadConversation(t) PROVE Final(u)
  BY <1>3 DEF ReadConversation, Expire, Expired, Pending, Receipts, Outcomes, TurnsTypeOK
<1>4. ASSUME NEW t \in Turns, ResetConversation(t) PROVE Final(u)
  BY <1>4 DEF ResetConversation, TurnsTypeOK
<1>5. ASSUME NEW p \in Backends, NEW t \in Turns, StartTurn(p, t) PROVE Final(u)
  BY <1>5 DEF StartTurn, Expire, Expired, Pending, Receipts, Outcomes, TurnsTypeOK
<1>6. ASSUME NEW p \in Backends, NEW t \in Turns, FinishTurn(p, t) PROVE Final(u)
  BY <1>6 DEF FinishTurn, Pending, Receipts, Outcomes, TurnsTypeOK
<1>7. ASSUME NEW p \in Backends, NEW t \in Turns, Cancel(p, t) \/ CancelHere(p, t)
      PROVE  Final(u)
  BY <1>7 DEF Cancel, CancelHere
<1>8. ASSUME NEW p \in Backends, BeginClearing(p) PROVE Final(u)
  BY <1>8 DEF BeginClearing, Expire, Expired, Pending, Receipts, Outcomes, TurnsTypeOK
<1>9. ASSUME NEW p \in Backends, EndClearing(p) PROVE Final(u)
  BY <1>9 DEF EndClearing
<1>10. ASSUME NEW p \in Backends, ClearGraph(p) \/ BackendCrash(p) PROVE Final(u)
  BY <1>10 DEF ClearGraph, BackendCrash
<1>11. ASSUME NEW p \in Backends, NEW t \in Turns, NEW h \in Handler, Effect(p, t, h)
       PROVE  Final(u)
  BY <1>11 DEF Effect
<1> HIDE DEF Final
<1> QED
  BY <1>1, <1>2, <1>3, <1>4, <1>5, <1>6, <1>7, <1>8, <1>9, <1>10, <1>11, TurnEffect
  DEF TurnsNext

(* An answered turn keeps its answer until its conversation or its          *)
(* workspace is reset.                                                      *)
THEOREM ReceiptIsFinalHolds == TurnsSpec => ReceiptIsFinal
<1>1. TurnsTypeOK /\ [TurnsNext]_turnVars
        => [\A t \in Turns : turn[t] \in Receipts => turn'[t] \in {turn[t], "cleared", "none"}]_turnVars
  BY FinalStep DEF Final
<1> QED BY <1>1, TurnsTypeInit, TurnsTypeNext, PTL DEF TurnsSpec, ReceiptIsFinal

----------------------------------------------------------------------------
(* One editor                                                               *)

Busies(p, t) == handler[p][t].step # "none"

(* While no heartbeat was late: whoever executes a turn has it alive in the *)
(* table, nobody else executes any, and the workspace is not being reset.   *)
Sole ==
    /\ \A p \in Backends, t \in Turns : Busies(p, t) => Alive(t) /\ Unlocked
    /\ \A p, q \in Backends, t, u \in Turns : Busies(p, t) /\ Busies(q, u) => p = q /\ t = u

SoleInv == stalls = 0 => Sole

LEMMA SoleInit == TurnsInit => SoleInv
BY NoHandlerTypes DEF TurnsInit, SoleInv, Sole, Busies

LEMMA EffectSole ==
    ASSUME TurnsTypeOK, Sole, NEW p \in Backends, NEW t \in Turns, NEW h \in Handler,
           Effect(p, t, h)
    PROVE  Sole'
<1>1. \A q \in Backends, u \in Turns : Busies(q, u)' <=> Busies(q, u)
  BY DEF TurnsTypeOK, Effect, Busies
<1>2. \A u \in Turns : Alive(u) => Alive(u)'
  BY DEF Effect, Alive, Pending
<1> QED BY <1>1, <1>2 DEF Sole, Effect, Unlocked

(* The counters of faults do not go down. *)
LEMMA FaultsGrow ==
    ASSUME TurnsTypeOK, [TurnsNext]_turnVars
    PROVE  (stalls' = 0 => stalls = 0) /\ (clears' = 0 => clears = 0)
<1> DEFINE Grow == stalls' \in {stalls, stalls + 1} /\ clears' \in {clears, clears + 1}
<1>1. stalls \in Nat /\ clears \in Nat
  BY TurnsAssumption DEF TurnsTypeOK
<1>2. CASE UNCHANGED turnVars
  BY <1>2 DEF turnVars, faultVars
<1>3. ASSUME NEW t \in Turns, Send(t) \/ ReadConversation(t) \/ GrowsLate(t) \/ ResetConversation(t)
      PROVE  Grow
  BY <1>3 DEF Send, ReadConversation, GrowsLate, ResetConversation, faultVars
<1>4. ASSUME NEW p \in Backends, NEW t \in Turns,
             StartTurn(p, t) \/ FinishTurn(p, t) \/ Cancel(p, t) \/ CancelHere(p, t)
      PROVE  Grow
  BY <1>4 DEF StartTurn, FinishTurn, RequestUnchanged, Cancel, CancelHere, faultVars
<1>5. ASSUME NEW p \in Backends,
             BeginClearing(p) \/ ClearGraph(p) \/ EndClearing(p) \/ BackendCrash(p)
      PROVE  Grow
  BY <1>5 DEF BeginClearing, ClearGraph, EndClearing, BackendCrash, faultVars
<1>6. ASSUME NEW p \in Backends, NEW t \in Turns, NEW h \in Handler, Effect(p, t, h)
      PROVE  Grow
  BY <1>6 DEF Effect, faultVars
<1>7. CASE TurnsNext
  <2>1. Grow
    <3> HIDE DEF Grow
    <3> QED BY <1>3, <1>4, <1>5, <1>6, <1>7, TurnEffect DEF TurnsNext
  <2> QED BY <1>1, <2>1
<1> QED BY <1>2, <1>7

LEMMA SoleNext == TurnsTypeOK /\ SoleInv /\ [TurnsNext]_turnVars => SoleInv'
<1> SUFFICES ASSUME TurnsTypeOK, Sole, TurnsNext PROVE stalls' = 0 => Sole'
  <2>1. CASE UNCHANGED turnVars
    BY <2>1 DEF SoleInv, Sole, Busies, Alive, Pending, Unlocked, turnVars, rowVars, faultVars
  <2> QED BY <2>1, FaultsGrow DEF SoleInv
<1> HAVE stalls' = 0
<1>0. stalls = 0
  BY FaultsGrow
<1> USE DEF rowVars
<1>1. ASSUME NEW t \in Turns, Send(t) PROVE Sole'
  BY <1>1 DEF Send, Sole, Busies, Alive, Pending, Unlocked
<1>2. ASSUME NEW t \in Turns, ReadConversation(t) PROVE Sole'
  BY <1>2 DEF ReadConversation, Expire, Expired, Sole, Busies, Alive, Pending, Unlocked, TurnsTypeOK
<1>3. ASSUME NEW t \in Turns, GrowsLate(t) PROVE Sole'
  <2>1. ~Executed(t)
    BY <1>0, <1>3 DEF GrowsLate
  <2>2. \A p \in Backends : ~Busies(p, t)
    BY <2>1 DEF Executed, At, Busies
  <2>3. \A u \in Turns : u # t /\ Alive(u) => Alive(u)'
    BY <1>3 DEF GrowsLate, Alive, Pending
  <2> QED BY <1>3, <2>2, <2>3 DEF GrowsLate, Sole, Busies, Unlocked
<1>4. ASSUME NEW t \in Turns, ResetConversation(t) PROVE Sole'
  <2>1. \A p \in Backends, u \in OfOwner(t) : ~Busies(p, u)
    BY <1>4 DEF ResetConversation, Sole, OfOwner
  <2>2. \A u \in Turns : u \notin OfOwner(t) /\ Alive(u) => Alive(u)'
    BY <1>4 DEF ResetConversation, Alive, Pending, TurnsTypeOK
  <2> QED BY <1>4, <2>1, <2>2 DEF ResetConversation, Sole, Busies, Unlocked
<1>5. ASSUME NEW p \in Backends, NEW t \in Turns, StartTurn(p, t) PROVE Sole'
  <2>1. \A q \in Backends, u \in Turns : ~Busies(q, u)
    BY <1>5 DEF StartTurn, Busy, Sole
  <2>2. \A q \in Backends, u \in Turns : Busies(q, u)' => q = p /\ u = t
    BY <1>5, <2>1 DEF StartTurn, Put, Busies, TurnsTypeOK
  <2>3. Alive(t)' /\ Unlocked'
    BY <1>5 DEF StartTurn, Alive, Pending, Unlocked, Expire, TurnsTypeOK
  <2> QED BY <2>2, <2>3 DEF Sole
<1>6. ASSUME NEW p \in Backends, NEW t \in Turns, FinishTurn(p, t) PROVE Sole'
  <2>0. handler' = [handler EXCEPT ![p][t] = NoHandler]
    BY <1>6 DEF FinishTurn, Put
  <2>1. \A q \in Backends, u \in Turns :
           Busies(q, u)' => Busies(q, u) /\ ~(q = p /\ u = t)
    BY <2>0, NoHandlerTypes DEF TurnsTypeOK, Busies
  <2>2. Busies(p, t)
    BY <1>6 DEF FinishTurn, At, Busies
  <2>3. \A q \in Backends, u \in Turns : ~Busies(q, u)'
    BY <2>1, <2>2 DEF Sole
  <2> QED BY <2>3 DEF Sole
<1>7. ASSUME NEW p \in Backends, NEW t \in Turns, Cancel(p, t) PROVE Sole'
  BY <1>7 DEF Cancel, Sole, Busies, Alive, Pending, Unlocked
<1>8. ASSUME NEW p \in Backends, NEW t \in Turns, CancelHere(p, t) PROVE Sole'
  <2>1. CASE At(p, t, Editing \cup {"registered", "ended"})
    BY <1>8, <2>1, CancelHereEffect, EffectSole
  <2>2. CASE ~At(p, t, Editing \cup {"registered", "ended"})
    BY <1>8, <2>2 DEF CancelHere, Sole, Busies, Alive, Pending, Unlocked
  <2> QED BY <2>1, <2>2
<1>9. ASSUME NEW p \in Backends, BeginClearing(p) PROVE Sole'
  <2>1. \A q \in Backends, u \in Turns : ~Busies(q, u)
    BY <1>9 DEF BeginClearing, Sole
  <2> QED BY <1>9, <2>1 DEF BeginClearing, Sole, Busies
<1>10. ASSUME NEW p \in Backends, ClearGraph(p) \/ EndClearing(p) PROVE Sole'
  <2>1. ~Unlocked
    BY <1>10, TurnsAssumption DEF ClearGraph, EndClearing, Unlocked
  <2>2. \A q \in Backends, u \in Turns : ~Busies(q, u)
    BY <2>1 DEF Sole
  <2> QED BY <1>10, <2>2 DEF ClearGraph, EndClearing, Sole, Busies
<1>11. ASSUME NEW p \in Backends, BackendCrash(p) PROVE Sole'
  <2>1. \A q \in Backends, u \in Turns : Busies(q, u)' => Busies(q, u)
    BY <1>11, NoHandlerTypes DEF BackendCrash, Busies, TurnsTypeOK
  <2>2. Unlocked => Unlocked'
    BY <1>11 DEF BackendCrash, Unlocked, NotClearing
  <2> QED BY <1>11, <2>1, <2>2 DEF BackendCrash, Sole, Alive, Pending
<1> QED
  BY <1>1, <1>2, <1>3, <1>4, <1>5, <1>6, <1>7, <1>8, <1>9, <1>10, <1>11,
     TurnEffect, EffectSole
  DEF TurnsNext

(* As long as no heartbeat was late, one turn at most works on the graph,   *)
(* and none during a reset of the workspace.                                *)
THEOREM OneEditorHolds == TurnsSpec => []OneEditor
<1>1. SoleInv => OneEditor
  BY DEF SoleInv, Sole, OneEditor, Edits, At, Editing, Busies
<1> QED BY <1>1, TurnsTypeInit, TurnsTypeNext, SoleInit, SoleNext, PTL DEF TurnsSpec

----------------------------------------------------------------------------
(* The rollback of a cancelled turn                                         *)

(* While no heartbeat was late and the workspace was not reset: no graph    *)
(* and no canvas shows a turn that has not started, and every handler knows *)
(* what Tracked says.                                                       *)
Clean ==
    /\ Unlocked
    /\ \A t \in Turns :
          /\ ~sent[t].posted => turn[t] = "none"
          /\ t \notin sent[t].canvas
          /\ turn[t] = "none" =>
                /\ t \notin design
                /\ \A u \in Turns : t \notin sent[u].canvas
                /\ \A p \in Backends, u \in Turns : t \notin handler[p][u].before
    /\ \A p \in Backends, t \in Turns : Busies(p, t) => Tracked(t, handler[p][t], design)

Calm == stalls = 0 /\ clears = 0
CleanInv == Calm => Clean

LEMMA CleanInit == TurnsInit => CleanInv
BY NoHandlerTypes DEF TurnsInit, CleanInv, Clean, Busies, Unlocked, NotClearing, Unsent

LEMMA EffectClean ==
    ASSUME TurnsTypeOK, Sole, Clean, NEW p \in Backends, NEW t \in Turns, NEW h \in Handler,
           Effect(p, t, h)
    PROVE  Clean'
<1>1. /\ handler'[p][t] = h
      /\ \A q \in Backends, u \in Turns : ~(q = p /\ u = t) => handler'[q][u] = handler[q][u]
  <2>1. handler' = [handler EXCEPT ![p][t] = h]
    BY DEF Effect
  <2> QED BY <2>1 DEF TurnsTypeOK
<1>2. Busies(p, t) /\ Pending(t)
  BY DEF Effect, Busies, Sole, Alive
<1>3. \A q \in Backends, u \in Turns : Busies(q, u)' => q = p /\ u = t
  BY <1>1, <1>2 DEF Sole, Busies
<1>4. Tracked(t, h, design')
  BY <1>2 DEF Effect, Clean
<1>5. ASSUME NEW u \in Turns, turn'[u] = "none"
      PROVE  /\ u \notin design'
             /\ \A w \in Turns : u \notin sent'[w].canvas
             /\ \A q \in Backends, w \in Turns : u \notin handler'[q][w].before
  <2>1. turn[u] = "none" /\ u # t /\ sent' = sent
    BY <1>2, <1>5 DEF Effect, Pending
  <2> QED BY <1>1, <2>1 DEF Effect, Clean
<1> QED BY <1>1, <1>3, <1>4, <1>5 DEF Effect, Clean, Unlocked

LEMMA CleanNext ==
    ASSUME TurnsTypeOK, Sole, Clean, TurnsNext, Calm' PROVE Clean'
<1> USE DEF rowVars
<1>1. ASSUME NEW t \in Turns, Send(t) PROVE Clean'
  <2>1. /\ turn[t] = "none" /\ t \notin design
        /\ sent'[t].canvas = design /\ sent'[t].posted
        /\ \A u \in Turns : u # t => sent'[u] = sent[u]
    BY <1>1 DEF Send, Clean, TurnsTypeOK
  <2>2. handler' = handler /\ design' = design /\ turn' = turn /\ clearing' = clearing
    BY <1>1 DEF Send
  <2> QED BY <2>1, <2>2 DEF Clean, Busies, Unlocked
<1>2. ASSUME NEW t \in Turns, ReadConversation(t) PROVE Clean'
  BY <1>2 DEF ReadConversation, Expire, Expired, Pending, Clean, Busies, Unlocked, TurnsTypeOK
<1>3. ASSUME NEW t \in Turns, GrowsLate(t) PROVE Clean'
  BY <1>3 DEF GrowsLate, Clean, Busies, Unlocked
<1>4. ASSUME NEW t \in Turns, ResetConversation(t) PROVE Clean'
  BY <1>4 DEF ResetConversation, Clean, Busies, Unlocked, TurnsTypeOK
<1>5. ASSUME NEW p \in Backends, NEW t \in Turns, StartTurn(p, t) PROVE Clean'
  <2> DEFINE h == [NoHandler EXCEPT !.step = "begun"]
  <2>1. h.step = "begun" /\ h.before = {}
    BY NoHandlerTypes, WithStep
  <2>2. /\ handler'[p][t] = h
        /\ \A q \in Backends, u \in Turns : ~(q = p /\ u = t) => handler'[q][u] = handler[q][u]
    <3>1. handler' = [handler EXCEPT ![p][t] = h] /\ h \in Handler
      BY <1>5, NoHandlerTypes, WithStep DEF StartTurn, Put
    <3> HIDE DEF h
    <3> QED BY <3>1 DEF TurnsTypeOK
  <2>3. \A q \in Backends, u \in Turns : ~Busies(q, u)
    BY <1>5 DEF StartTurn, Busy, Sole
  <2>4. /\ turn[t] = "none" /\ sent[t].posted
        /\ \A u \in Turns : turn'[u] = "none" => turn[u] = "none"
        /\ \A u \in Turns : u # t /\ turn[u] = "none" => turn'[u] = "none"
        /\ sent' = sent /\ design' = design /\ clearing' = clearing
    BY <1>5 DEF StartTurn, Expire, Expired, Pending, TurnsTypeOK
  <2>5. Tracked(t, h, design)
    BY <2>1, <2>4 DEF Tracked, Clean, Early, Late
  <2>6. \A q \in Backends, u \in Turns : Busies(q, u)' => Tracked(u, handler'[q][u], design')
    BY <2>2, <2>3, <2>4, <2>5 DEF Busies
  <2> HIDE DEF h
  <2> QED BY <2>1, <2>2, <2>4, <2>6 DEF Clean, Unlocked
<1>6. ASSUME NEW p \in Backends, NEW t \in Turns, FinishTurn(p, t) PROVE Clean'
  <2>1. /\ handler'[p][t] = NoHandler
        /\ \A q \in Backends, u \in Turns : ~(q = p /\ u = t) => handler'[q][u] = handler[q][u]
    <3>1. handler' = [handler EXCEPT ![p][t] = NoHandler]
      BY <1>6 DEF FinishTurn, Put
    <3> QED BY <3>1 DEF TurnsTypeOK
  <2>2. handler[p][t].outcome \in Outcomes
    BY HandlerTypes DEF Handler
  <2>3. /\ \A u \in Turns : turn'[u] = "none" <=> turn[u] = "none"
        /\ sent' = sent /\ design' = design /\ clearing' = clearing
    BY <1>6, <2>2 DEF FinishTurn, RequestUnchanged, Pending, Outcomes, TurnsTypeOK
  <2> QED BY <2>1, <2>3, NoHandlerTypes DEF Clean, Busies, Unlocked
<1>7. ASSUME NEW p \in Backends, NEW t \in Turns, Cancel(p, t) PROVE Clean'
  BY <1>7 DEF Cancel, Clean, Busies, Unlocked
<1>8. ASSUME NEW p \in Backends, NEW t \in Turns, CancelHere(p, t) PROVE Clean'
  <2>1. CASE At(p, t, Editing \cup {"registered", "ended"})
    BY <1>8, <2>1, CancelHereEffect, EffectClean
  <2>2. CASE ~At(p, t, Editing \cup {"registered", "ended"})
    BY <1>8, <2>2 DEF CancelHere, Clean, Busies, Unlocked
  <2> QED BY <2>1, <2>2
<1>9. ASSUME NEW p \in Backends, BeginClearing(p) PROVE FALSE
  BY <1>9, TurnsAssumption DEF BeginClearing, Calm, TurnsTypeOK
<1>10. ASSUME NEW p \in Backends, ClearGraph(p) \/ EndClearing(p) PROVE FALSE
  BY <1>10, TurnsAssumption DEF ClearGraph, EndClearing, Clean, Unlocked
<1>11. ASSUME NEW p \in Backends, BackendCrash(p) PROVE Clean'
  <2>1. \A q \in Backends, u \in Turns : handler'[q][u] \in {NoHandler, handler[q][u]}
    BY <1>11 DEF BackendCrash, TurnsTypeOK
  <2>2. Unlocked'
    BY <1>11 DEF BackendCrash, Clean, Unlocked, NotClearing
  <2>3. sent' = sent /\ design' = design /\ turn' = turn
    BY <1>11 DEF BackendCrash
  <2> QED BY <2>1, <2>2, <2>3, NoHandlerTypes DEF Clean, Busies
<1> QED
  BY <1>1, <1>2, <1>3, <1>4, <1>5, <1>6, <1>7, <1>8, <1>9, <1>10, <1>11,
     TurnEffect, EffectClean
  DEF TurnsNext

TurnsInv == TurnsTypeOK /\ SoleInv /\ CleanInv

LEMMA TurnsInvInit == TurnsInit => TurnsInv
BY TurnsTypeInit, SoleInit, CleanInit DEF TurnsInv

LEMMA TurnsInvNext == TurnsInv /\ [TurnsNext]_turnVars => TurnsInv'
<1> SUFFICES ASSUME TurnsInv, [TurnsNext]_turnVars, Calm' PROVE Clean'
  BY TurnsTypeNext, SoleNext DEF TurnsInv, CleanInv
<1>1. TurnsTypeOK /\ Sole /\ Clean
  BY FaultsGrow DEF TurnsInv, SoleInv, CleanInv, Calm
<1>2. CASE TurnsNext
  BY <1>1, <1>2, CleanNext
<1>3. CASE UNCHANGED turnVars
  BY <1>1, <1>3 DEF Clean, Busies, Unlocked, turnVars, rowVars
<1> QED BY <1>2, <1>3

(* Only the answer of a turn says restored. *)
LEMMA RestoredStep ==
    ASSUME TurnsInv, [TurnsNext]_turnVars, stalls + clears = 0,
           NEW u \in Turns, Pending(u), turn'[u] = "restored"
    PROVE  u \notin design'
<1>0. TurnsTypeOK /\ Clean
  <2>1. Calm
    BY TurnsAssumption DEF TurnsInv, TurnsTypeOK, Calm
  <2> QED BY <2>1 DEF TurnsInv, CleanInv
<1> USE DEF rowVars, Pending
<1>1. UNCHANGED turnVars => FALSE
  BY DEF turnVars
<1>2. ASSUME NEW t \in Turns, Send(t) \/ GrowsLate(t) PROVE FALSE
  BY <1>2 DEF Send, GrowsLate
<1>3. ASSUME NEW t \in Turns, ReadConversation(t) PROVE FALSE
  BY <1>3 DEF ReadConversation, Expire
<1>4. ASSUME NEW t \in Turns, ResetConversation(t) PROVE FALSE
  BY <1>0, <1>4 DEF ResetConversation, TurnsTypeOK
<1>5. ASSUME NEW p \in Backends, NEW t \in Turns, StartTurn(p, t) PROVE FALSE
  BY <1>0, <1>5 DEF StartTurn, Expire, TurnsTypeOK
<1>6. ASSUME NEW p \in Backends, NEW t \in Turns, FinishTurn(p, t) PROVE u \notin design'
  <2>1. /\ t = u /\ handler[p][t].outcome = "restored" /\ handler[p][t].step = "answering"
        /\ design' = design
    BY <1>0, <1>6 DEF FinishTurn, At, TurnsTypeOK
  <2> QED BY <1>0, <2>1 DEF Clean, Busies, Tracked
<1>7. ASSUME NEW p \in Backends, NEW t \in Turns, Cancel(p, t) \/ CancelHere(p, t)
      PROVE  FALSE
  BY <1>7 DEF Cancel, CancelHere
<1>8. ASSUME NEW p \in Backends, BeginClearing(p) PROVE FALSE
  BY <1>8 DEF BeginClearing, Expire
<1>9. ASSUME NEW p \in Backends, EndClearing(p) PROVE FALSE
  BY <1>9 DEF EndClearing
<1>10. ASSUME NEW p \in Backends, ClearGraph(p) \/ BackendCrash(p) PROVE FALSE
  BY <1>10 DEF ClearGraph, BackendCrash
<1>11. ASSUME NEW p \in Backends, NEW t \in Turns, NEW h \in Handler, Effect(p, t, h)
       PROVE  FALSE
  BY <1>11 DEF Effect
<1> QED
  BY <1>0, <1>1, <1>2, <1>3, <1>4, <1>5, <1>6, <1>7, <1>8, <1>9, <1>10, <1>11, TurnEffect
  DEF TurnsNext

(* When a turn is answered as restored, the canvas shows no edit of it,     *)
(* whenever and however often it was cancelled.                             *)
THEOREM RolledBackHolds == TurnsSpec => RolledBack
<1>1. TurnsInv /\ [TurnsNext]_turnVars
        => [stalls + clears = 0 => \A t \in Turns :
               Pending(t) /\ turn'[t] = "restored" => t \notin design']_turnVars
  BY RestoredStep
<1> QED BY <1>1, TurnsInvInit, TurnsInvNext, PTL DEF TurnsSpec, RolledBack
=============================================================================

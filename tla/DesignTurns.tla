----------------------------- MODULE DesignTurns -----------------------------
(***************************************************************************)
(* Design turns: a user's message lets an agent edit the pipeline on the    *)
(* canvas of a workspace.  The endpoints of src/backend/analytics_api.py    *)
(* and inlumen_api.py, the table of conversations.py, the registry of       *)
(* pipeline_agent/cancellation.py and the turn of pipeline_agent/service.py.*)
(*                                                                          *)
(* A turn is executed by the request thread that started it, on a loop of   *)
(* its own; a cancellation reaches it through the registry of its process   *)
(* at once, and through the flag in its row with the next heartbeat.  A     *)
(* graph is the set of the turns whose agent edits it shows.  Calls to the  *)
(* graph run in threads, and a cancelled turn waits for those that edit.    *)
(* Left out: preview turns, which work on a workspace of their own, edits   *)
(* of people, and the content of the version that a turn saves at its end.  *)
(***************************************************************************)
EXTENDS Integers, FiniteSets

CONSTANTS
    Backends,      \* backend processes that share the database
    Turns,         \* turn ids, each used for one message
    OwnerOf,       \* OwnerOf[t]: the user, hence the conversation, of t
    MaxStalls,     \* bound on heartbeats that a live turn misses for 120 s
    MaxClears,     \* bound on workspace resets
    MaxFailures,   \* bound on crashes
    NoBackend

ASSUME TurnsAssumption ==
    /\ MaxStalls \in Nat /\ MaxClears \in Nat /\ MaxFailures \in Nat
    /\ NoBackend \notin Backends

VARIABLES
    turn,      \* turn[t]: status of the row of chat_turns; a receipt once answered
    flagged,   \* turns whose row has cancel_requested
    requests,  \* chat_cancel_requests
    overdue,   \* turns whose heartbeat_at is older than 120 seconds
    sent,      \* sent[t]: the canvas in the request of t, or that none was sent yet
    handler,   \* handler[p][t]: the request of t that p executes
    entries,   \* entries[p]: turns of the registry of p with requested_at
    stopping,  \* stopping[p]: cancel requests of p saved and not yet in the registry
    design,    \* the graph of the workspace
    clearing,  \* the backend that resets the workspace, holding its lock, and how far it is
    starts,    \* history: executions of a turn since the last reset
    stalls, clears, failures

rowVars == <<turn, flagged, requests, overdue>>
faultVars == <<stalls, clears, failures>>
turnVars == <<rowVars, sent, handler, entries, stopping, design, clearing, starts, faultVars>>

Graph == SUBSET Turns
Unsent == [posted |-> FALSE, canvas |-> {}]
Outcomes == {"completed", "restored", "unrestored", "unstarted", "failed"}
Receipts == Outcomes \cup {"cleared"}

(* The steps in which a turn may touch the graph of the workspace. *)
Editing == {"syncing", "synced", "thinking", "writing", "restoring", "judged", "saving", "rollback"}

Handler ==
    [step : {"none", "begun", "registered", "ended", "answering"} \cup Editing,
     told : BOOLEAN,        \* the task was cancelled and has not noticed
     watched : BOOLEAN,     \* its monitor is alive
     before : Graph,        \* cancellation_state["graph"], the visible graph
     outcome : Outcomes]
NotClearing == [by |-> NoBackend, wiped |-> FALSE]
NoHandler == [step |-> "none", told |-> FALSE, watched |-> FALSE,
              before |-> {}, outcome |-> "completed"]

TurnsTypeOK ==
    /\ turn \in [Turns -> {"none", "pending"} \cup Receipts]
    /\ flagged \subseteq requests /\ requests \in SUBSET Turns /\ overdue \in SUBSET Turns
    /\ sent \in [Turns -> [posted : BOOLEAN, canvas : Graph]]
    /\ handler \in [Backends -> [Turns -> Handler]]
    /\ entries \in [Backends -> SUBSET Turns] /\ stopping \in [Backends -> SUBSET Turns]
    /\ design \in Graph
    /\ clearing \in [by : Backends \cup {NoBackend}, wiped : BOOLEAN]
    /\ starts \in [Turns -> Nat]
    /\ stalls \in 0..MaxStalls /\ clears \in 0..MaxClears /\ failures \in 0..MaxFailures

TurnsInit ==
    /\ turn = [t \in Turns |-> "none"]
    /\ flagged = {} /\ requests = {} /\ overdue = {}
    /\ sent = [t \in Turns |-> Unsent]
    /\ handler = [p \in Backends |-> [t \in Turns |-> NoHandler]]
    /\ entries = [p \in Backends |-> {}] /\ stopping = [p \in Backends |-> {}]
    /\ design = {}
    /\ clearing = NotClearing
    /\ starts = [t \in Turns |-> 0]
    /\ stalls = 0 /\ clears = 0 /\ failures = 0

----------------------------------------------------------------------------
(* The table of turns.  start, finish, cancel, reset and the reset of the   *)
(* workspace hold the lock of the workspace; heartbeat and read do not.     *)

Unlocked == clearing.by = NoBackend
Pending(t) == turn[t] = "pending"
Expired(t) == Pending(t) /\ t \in overdue
Alive(t) == Pending(t) /\ t \notin overdue

(* _expire for the turns of ts: their request is answered as interrupted. *)
Expire(ts) == [t \in Turns |-> IF t \in ts /\ Expired(t) THEN "failed" ELSE turn[t]]

At(p, t, steps) == handler[p][t].step \in steps
Put(p, t, h) == handler' = [handler EXCEPT ![p][t] = h]
Goes(p, t, step) == Put(p, t, [handler[p][t] EXCEPT !.step = step])
Ends(p, t, outcome) == Put(p, t, [handler[p][t] EXCEPT !.step = "ended", !.told = FALSE,
                                                       !.outcome = outcome])

(* The client posts a message with the canvas it shows; it may repeat it. *)
Send(t) ==
    /\ ~sent[t].posted
    /\ sent' = [sent EXCEPT ![t] = [posted |-> TRUE, canvas |-> design]]
    /\ UNCHANGED <<rowVars, handler, entries, stopping, design, clearing, starts, faultVars>>

(* Fault: only turns of the same conversation are in the way. *)
BusyOwner(t) == \E u \in Turns : OwnerOf[u] = OwnerOf[t] /\ Alive(u)

(* A turn of anybody runs in the workspace. *)
Busy(t) == \E u \in Turns : t \in Turns /\ Alive(u)

(* ConversationStore.start for a turn without a row.  For one with a row it *)
(* refuses or replays the receipt, which changes nothing that ReadConversation does not. *)
StartTurn(p, t) ==
    /\ sent[t].posted /\ Unlocked /\ At(p, t, {"none"})
    /\ turn[t] = "none" /\ ~Busy(t)
    /\ turn' = [Expire(Turns) EXCEPT ![t] = "pending"]
    /\ flagged' = IF t \in requests THEN flagged \cup {t} ELSE flagged \ {t}
    /\ overdue' = overdue \ {t}
    /\ Put(p, t, [NoHandler EXCEPT !.step = "begun"])
    /\ starts' = [starts EXCEPT ![t] = @ + 1]
    /\ UNCHANGED <<requests, sent, entries, stopping, design, clearing, faultVars>>

(* The owner's client polls the conversation.  During a reset of the        *)
(* workspace the expired rows, so all that are pending, are locked.         *)
ReadConversation(t) ==
    /\ Expired(t) /\ Unlocked
    /\ turn' = Expire({u \in Turns : OwnerOf[u] = OwnerOf[t]})
    /\ UNCHANGED <<flagged, requests, overdue, sent, handler, entries, stopping, design,
                   clearing, starts, faultVars>>

(* 120 seconds without a heartbeat: nobody executes the turn, or who does   *)
(* is stalled.                                                              *)
Executed(t) == \E p \in Backends : ~At(p, t, {"none"})
GrowsLate(t) ==
    /\ Alive(t)
    /\ IF Executed(t) THEN stalls < MaxStalls /\ stalls' = stalls + 1 ELSE stalls' = stalls
    /\ overdue' = overdue \cup {t}
    /\ UNCHANGED <<turn, flagged, requests, sent, handler, entries, stopping, design,
                   clearing, starts, clears, failures>>

----------------------------------------------------------------------------
(* The execution of a turn                                                  *)

RequestUnchanged == UNCHANGED <<sent, entries, stopping, clearing, starts, faultVars>>

(* run_cancellable_pipeline_turn registers the task, which is cancelled at  *)
(* once if a cancellation was waiting for it.                               *)
Register(p, t) ==
    /\ At(p, t, {"begun"})
    /\ Put(p, t, [handler[p][t] EXCEPT !.step = "registered", !.told = t \in entries[p]])
    /\ UNCHANGED <<rowVars, design>> /\ RequestUnchanged

Unwanted(t) == ~Pending(t) \/ t \in flagged

(* ConversationStore.heartbeat, which updates a pending row. *)
HeartbeatTurn(t) ==
    /\ Pending(t) => Unlocked
    /\ overdue' = IF Pending(t) THEN overdue \ {t} ELSE overdue

(* The heartbeat before the turn, which may fail and then ends it. *)
FirstBeat(p, t) ==
    /\ At(p, t, {"registered"})
    /\ \/ /\ handler[p][t].told \/ Unwanted(t)
          /\ Ends(p, t, "unstarted") /\ UNCHANGED overdue
       \/ /\ ~handler[p][t].told /\ ~Unwanted(t)
          /\ Put(p, t, [handler[p][t] EXCEPT !.step = "syncing", !.watched = TRUE])
          /\ HeartbeatTurn(t)
       \/ /\ ~handler[p][t].told
          /\ Ends(p, t, "failed") /\ UNCHANGED overdue
    /\ UNCHANGED <<turn, flagged, requests, design>> /\ RequestUnchanged

(* Fault: the monitor keeps the turn alive and does not stop it. *)
BeatOnly(p, t) ==
    /\ At(p, t, Editing) /\ handler[p][t].watched
    /\ HeartbeatTurn(t)
    /\ UNCHANGED <<turn, flagged, requests, handler, design>> /\ RequestUnchanged

(* The monitor's heartbeat; it cancels the turn once, also when the query fails. *)
Beat(p, t) ==
    /\ At(p, t, Editing) /\ handler[p][t].watched
    /\ \/ ~Unwanted(t) /\ HeartbeatTurn(t) /\ UNCHANGED handler
       \/ /\ Put(p, t, [handler[p][t] EXCEPT !.told = TRUE, !.watched = FALSE])
          /\ HeartbeatTurn(t) \/ UNCHANGED overdue
    /\ UNCHANGED <<turn, flagged, requests, design>> /\ RequestUnchanged

(* The persisted graph is overwritten with the canvas of the request, *)
(* whatever others saved since.                                       *)
SyncCanvas(p, t) ==
    /\ At(p, t, {"syncing"})
    /\ design' = sent[t].canvas
    /\ Goes(p, t, "synced")
    /\ UNCHANGED rowVars /\ RequestUnchanged

TakeSnapshot(p, t) ==
    /\ At(p, t, {"synced"}) /\ ~handler[p][t].told
    /\ Put(p, t, [handler[p][t] EXCEPT !.step = "thinking", !.before = sent[t].canvas])
    /\ UNCHANGED <<rowVars, design>> /\ RequestUnchanged

(* A tool of the agent edits the graph in a thread. *)
BeginWrite(p, t) ==
    /\ At(p, t, {"thinking"}) /\ ~handler[p][t].told
    /\ Goes(p, t, "writing")
    /\ UNCHANGED <<rowVars, design>> /\ RequestUnchanged

EndWrite(p, t) ==
    /\ At(p, t, {"writing"})
    /\ design' = design \cup {t}
    /\ Goes(p, t, "thinking")
    /\ UNCHANGED rowVars /\ RequestUnchanged

(* The guardrail has judged what the agent left: it is saved, or restored   *)
(* (an invalid result, or an edit for a question), or answered as it is.    *)
(* If the graph restored for a question is invalid, the agent repairs it.   *)
Verdict(p, t) ==
    /\ At(p, t, {"thinking", "judged"}) /\ ~handler[p][t].told
    /\ \/ Goes(p, t, "saving")
       \/ At(p, t, {"thinking"}) /\ Goes(p, t, "restoring")
       \/ At(p, t, {"judged"}) /\ Goes(p, t, "thinking")
       \/ Ends(p, t, "completed")
    /\ UNCHANGED <<rowVars, design>> /\ RequestUnchanged

EndRestore(p, t) ==
    /\ At(p, t, {"restoring"})
    /\ design' \in {handler[p][t].before, design}
    /\ Goes(p, t, "judged")
    /\ UNCHANGED rowVars /\ RequestUnchanged

(* save_active_pipeline_version returns; a failed save is mentioned in the answer. *)
EndSave(p, t) ==
    /\ At(p, t, {"saving"}) /\ ~handler[p][t].told
    /\ Ends(p, t, "completed")
    /\ UNCHANGED <<rowVars, design>> /\ RequestUnchanged

(* An error of the graph, of the model or of the state of the chat, which   *)
(* is stored last, ends the turn without a rollback.                        *)
TurnFails(p, t) ==
    /\ At(p, t, {"syncing", "synced", "thinking", "judged", "saving"}) /\ ~handler[p][t].told
    /\ Ends(p, t, "failed")
    /\ UNCHANGED <<rowVars, design>> /\ RequestUnchanged

(* The task notices that it was cancelled.  Before the snapshot there is    *)
(* nothing to restore; later the graph is rolled back.                      *)
Interrupt(p, t) ==
    LET h == handler[p][t] IN
    /\ h.told
    /\ \/ At(p, t, {"syncing", "synced"}) /\ Ends(p, t, "restored")
       \/ /\ At(p, t, {"thinking", "judged", "saving"})
          /\ Put(p, t, [h EXCEPT !.step = "rollback", !.told = FALSE])
    /\ UNCHANGED <<rowVars, design>> /\ RequestUnchanged

(* Fault: the cancelled turn does not wait for the thread of a tool, which  *)
(* may edit the graph after it was restored.                                *)
RollbackUnshielded(p, t) ==
    /\ At(p, t, {"rollback"})
    /\ design' \in {handler[p][t].before, handler[p][t].before \cup {t}}
    /\ Ends(p, t, "restored")
    /\ UNCHANGED rowVars /\ RequestUnchanged

(* The sync of the graph from before.  A second cancellation, which the     *)
(* monitor sends if the registry sent the first, hides whether it worked.   *)
Rollback(p, t) ==
    LET h == handler[p][t] IN
    /\ At(p, t, {"rollback"})
    /\ \E restored \in BOOLEAN :
          /\ design' = IF restored THEN h.before ELSE design
          /\ Ends(p, t, IF h.told THEN "unstarted" ELSE IF restored THEN "restored" ELSE "unrestored")
    /\ UNCHANGED rowVars /\ RequestUnchanged

(* The loop ends and the registry forgets the turn.  A cancellation that    *)
(* came after the turn's last step still turns its result into a            *)
(* CancelledError, which is answered as a turn that did not start.          *)
Unregister(p, t) ==
    LET h == handler[p][t] IN
    /\ At(p, t, {"ended"})
    /\ Put(p, t, [h EXCEPT !.step = "answering",
                           !.outcome = IF h.told THEN "unstarted" ELSE @])
    /\ entries' = [entries EXCEPT ![p] = @ \ {t}]
    /\ UNCHANGED <<rowVars, sent, stopping, design, clearing, starts, faultVars>>

(* Fault: the receipt is stored whatever the row says. *)
FinishAnyway(p, t) ==
    /\ At(p, t, {"answering"}) /\ Unlocked
    /\ turn' = [turn EXCEPT ![t] = IF @ = "none" THEN @ ELSE handler[p][t].outcome]
    /\ Put(p, t, NoHandler)
    /\ UNCHANGED <<flagged, requests, overdue, design>> /\ RequestUnchanged

(* ConversationStore.finish, which may fail: only a pending turn is answered. *)
FinishTurn(p, t) ==
    /\ At(p, t, {"answering"}) /\ Unlocked
    /\ \/ turn' = IF Pending(t) THEN [turn EXCEPT ![t] = handler[p][t].outcome] ELSE turn
       \/ UNCHANGED turn
    /\ Put(p, t, NoHandler)
    /\ UNCHANGED <<flagged, requests, overdue, design>> /\ RequestUnchanged

----------------------------------------------------------------------------
(* Cancellation and resets                                                  *)

(* Fault: only the row is marked; a turn that starts later is not stopped. *)
CancelRow(p, t) ==
    /\ Unlocked /\ t \notin stopping[p] /\ sent[t].posted
    /\ flagged' = IF Pending(t) THEN flagged \cup {t} ELSE flagged
    /\ stopping' = [stopping EXCEPT ![p] = @ \cup {t}]
    /\ UNCHANGED <<turn, requests, overdue, sent, handler, entries, design, clearing, starts, faultVars>>

(* The cancel endpoint: the request is saved, then given to the registry of *)
(* the process that answers, which may not be the one that executes.        *)
Cancel(p, t) ==
    /\ Unlocked /\ t \notin stopping[p] /\ sent[t].posted
    /\ requests' = requests \cup {t}
    /\ flagged' = IF Pending(t) THEN flagged \cup {t} ELSE flagged
    /\ stopping' = [stopping EXCEPT ![p] = @ \cup {t}]
    /\ UNCHANGED <<turn, overdue, sent, handler, entries, design, clearing, starts, faultVars>>

CancelHere(p, t) ==
    /\ t \in stopping[p]
    /\ stopping' = [stopping EXCEPT ![p] = @ \ {t}]
    /\ entries' = [entries EXCEPT ![p] = @ \cup {t}]
    /\ IF At(p, t, Editing \cup {"registered", "ended"})
         THEN Put(p, t, [handler[p][t] EXCEPT !.told = TRUE])
         ELSE UNCHANGED handler
    /\ UNCHANGED <<rowVars, sent, design, clearing, starts, faultVars>>

OfOwner(t) == {u \in Turns : OwnerOf[u] = OwnerOf[t]}

(* Fault: the receipts of the conversation are deleted with its messages. *)
ResetForgets(t) ==
    /\ Unlocked /\ turn[t] # "none" /\ \A u \in OfOwner(t) : ~Alive(u)
    /\ turn' = [u \in Turns |-> IF u \in OfOwner(t) THEN "none" ELSE turn[u]]
    /\ UNCHANGED <<flagged, requests, overdue, sent, handler, entries, stopping, design,
                   clearing, starts, faultVars>>

(* ConversationStore.reset of the conversation of t: refused while a turn   *)
(* of it runs; the receipts are kept without their content.                 *)
ResetConversation(t) ==
    /\ Unlocked /\ turn[t] # "none" /\ \A u \in OfOwner(t) : ~Alive(u)
    /\ turn' = [u \in Turns |-> IF u \in OfOwner(t) /\ turn[u] # "none" THEN "cleared" ELSE turn[u]]
    /\ UNCHANGED <<flagged, requests, overdue, sent, handler, entries, stopping, design,
                   clearing, starts, faultVars>>

(* clear_guard: refused while a turn runs; the lock is held until the chat  *)
(* of the workspace is deleted.  The turns that its transaction expires are *)
(* deleted with it, or as they were if it is rolled back.                   *)
BeginClearing(p) ==
    /\ Unlocked /\ clears < MaxClears
    /\ \A t \in Turns : ~Alive(t)
    /\ clearing' = [by |-> p, wiped |-> FALSE] /\ clears' = clears + 1
    /\ UNCHANGED <<rowVars, sent, handler, entries, stopping, design, starts, stalls, failures>>

ClearGraph(p) ==
    /\ clearing.by = p
    /\ clearing' = [clearing EXCEPT !.wiped = TRUE]
    /\ design' = {}
    /\ UNCHANGED <<rowVars, sent, handler, entries, stopping, starts, faultVars>>

(* clear_locked deletes receipts and requests; it is not reached when the   *)
(* graph could not be cleared.                                              *)
EndClearing(p) ==
    /\ clearing.by = p /\ clearing' = NotClearing
    /\ \/ /\ clearing.wiped
          /\ turn' = [t \in Turns |-> "none"]
          /\ flagged' = {} /\ requests' = {} /\ overdue' = {}
          /\ starts' = [t \in Turns |-> 0]
       \/ UNCHANGED <<rowVars, starts>>
    /\ UNCHANGED <<sent, handler, entries, stopping, design, faultVars>>

BackendCrash(p) ==
    /\ failures < MaxFailures /\ failures' = failures + 1
    /\ handler' = [handler EXCEPT ![p] = [t \in Turns |-> NoHandler]]
    /\ entries' = [entries EXCEPT ![p] = {}] /\ stopping' = [stopping EXCEPT ![p] = {}]
    /\ clearing' = IF clearing.by = p THEN NotClearing ELSE clearing
    /\ UNCHANGED <<rowVars, sent, design, starts, stalls, clears>>

----------------------------------------------------------------------------
(* What goes on by itself; an agent may think and edit for ever. *)
TurnMoves(p, t) ==
    \/ Register(p, t) \/ FirstBeat(p, t) \/ SyncCanvas(p, t) \/ TakeSnapshot(p, t)
    \/ EndWrite(p, t) \/ EndRestore(p, t) \/ EndSave(p, t) \/ Interrupt(p, t)
    \/ Rollback(p, t) \/ Unregister(p, t) \/ FinishTurn(p, t)

TurnsNext ==
    \/ \E t \in Turns : Send(t) \/ ReadConversation(t) \/ GrowsLate(t) \/ ResetConversation(t)
    \/ \E p \in Backends, t \in Turns :
          \/ StartTurn(p, t) \/ TurnMoves(p, t) \/ Beat(p, t) \/ BeginWrite(p, t)
          \/ Verdict(p, t) \/ TurnFails(p, t) \/ Cancel(p, t) \/ CancelHere(p, t)
    \/ \E p \in Backends :
          BeginClearing(p) \/ ClearGraph(p) \/ EndClearing(p) \/ BackendCrash(p)

(* Threads and loops are scheduled fairly, a monitor beats every five       *)
(* seconds, a request that resets the workspace ends, clients poll.         *)
TurnsFairness ==
    /\ \A p \in Backends, t \in Turns :
          WF_turnVars(TurnMoves(p, t)) /\ WF_turnVars(Beat(p, t))
    /\ \A p \in Backends : WF_turnVars(EndClearing(p))
    /\ \A t \in Turns : WF_turnVars(~Executed(t) /\ GrowsLate(t)) /\ WF_turnVars(ReadConversation(t))

TurnsSpec == TurnsInit /\ [][TurnsNext]_turnVars
TurnsFairSpec == TurnsSpec /\ TurnsFairness

----------------------------------------------------------------------------
(* Properties                                                               *)

(* As long as no heartbeat was late, one turn at most works on the graph of *)
(* a workspace, whoever sent it and wherever it runs, and none while the    *)
(* workspace is being reset ("A new chat cannot start halfway through a     *)
(* reset", backend/conversations.py).                                       *)
Edits(p, t) == At(p, t, Editing)
OneEditor ==
    stalls = 0 =>
       /\ \A p, q \in Backends, t, u \in Turns : Edits(p, t) /\ Edits(q, u) => p = q /\ t = u
       /\ \A p \in Backends, t \in Turns : Edits(p, t) => Unlocked

(* "Keep small receipts to prevent replaying old paid turns"                *)
(* (conversations.py): through repeated requests, expiry, crashes and       *)
(* resets of the conversation, a turn is executed once.                     *)
RanOnce == \A t \in Turns : starts[t] <= 1

(* The answer a client has seen stays: a turn that was given up as          *)
(* interrupted and then ends late changes nothing.                          *)
ReceiptIsFinal ==
    [][\A t \in Turns : turn[t] \in Receipts => turn'[t] \in {turn[t], "cleared", "none"}]_turnVars

(* "Stopped. The pipeline from before this request was restored."           *)
(* (analytics_api.py): when this is answered the canvas shows no edit of    *)
(* the turn, whenever the cancellations came.  (After a late heartbeat or a *)
(* reset of the workspace the turn may have been executed before.)          *)
RolledBack ==
    [][stalls + clears = 0 => \A t \in Turns :
          Pending(t) /\ turn'[t] = "restored" => t \notin design']_turnVars

(* A requested cancellation ends the turn, on whatever replica it was       *)
(* requested, before or after the turn started, and also after a crash.     *)
CancelledTurnsEnd ==
    \A t \in Turns : (Pending(t) /\ t \in flagged) ~> ~Pending(t)

(* "Stopped before the agent turn started." (analytics_api.py): a turn      *)
(* answered so has left no edit on the canvas.                              *)
StoppedBeforeStart ==
    [][\A t \in Turns : Pending(t) /\ turn'[t] = "unstarted" => t \notin design']_turnVars
=============================================================================

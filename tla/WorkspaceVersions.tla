------------------------- MODULE WorkspaceVersions -------------------------
(* The design canvas of one workspace, its saved versions and the objects   *)
(* of their files: backend/neo4j_api.py over Neo4j and MinIO.               *)
(*                                                                          *)
(* A graph names for each file the object that holds it: the object of the  *)
(* node's own bucket ("live"), which uploads replace, or a snapshot made    *)
(* for a version.  A request of the adapter is one Neo4j transaction under  *)
(* the revision lock of the workspace, so requests do not interleave with   *)
(* each other; what they do to MinIO happens object by object, is seen at   *)
(* once and is not undone with the transaction.  File actions of the        *)
(* gateway and the last step of Clear all change MinIO outside the lock.    *)
EXTENDS Naturals, FiniteSets

CONSTANTS
    Files,          \* the files of the steps: bucket and filename
    Versions,       \* uids of saved versions; uuid4, so never used twice
    Contents,       \* what a file may hold
    Users,          \* sessions that upload and remove files
    MaxGeneration,  \* bound on the attempts to copy a graph into snapshots
    MaxRevision     \* bound on the committed graph requests

ASSUME VersionsAssumption ==
    /\ "main" \notin Versions /\ "live" \notin Versions /\ "none" \notin Versions
    /\ "missing" \notin Contents
    /\ MaxGeneration \in Nat /\ MaxRevision \in Nat

VARIABLES
    live,       \* the objects of the nodes' buckets
    snaps,      \* the snapshot objects: contents by file, owner and generation
    canvas,     \* the graph of the STEP and FILE nodes
    rows,       \* the graph_json of each PIPELINE_VERSION that exists
    active,     \* active_version_uid of the PIPELINE
    rev,        \* WORKSPACE_REVISION.revision
    tx,         \* the request that holds the revision lock
    gen,        \* generations given out so far
    spent,      \* uids given to versions so far
    uploads,    \* the file action each user is in the middle of
    wiping,     \* Clear all has still to empty MinIO, or is doing so
    seen,       \* canvases clients were shown; undo sends an old one again
    removed     \* history: references whose objects a request set out to remove

vars == <<live, snaps, canvas, rows, active, rev, tx, gen, spent, uploads,
          wiping, seen, removed>>

AllVersions == Versions \cup {"main"}
Missing == "missing"
Absent == [owner |-> "none", gen |-> 0]  \* the graph has no such file
Live == [owner |-> "live", gen |-> 0]    \* neither snapshot_bucket nor snapshot_object
Snapshots == [owner : AllVersions, gen : 1..MaxGeneration]
Graphs == [Files -> Snapshots \cup {Absent, Live}]
EmptyGraph == [f \in Files |-> Absent]

FilesIn(graph) == {f \in Files : graph[f] # Absent}
ObjectOf(f, ref) == [file |-> f, owner |-> ref.owner, gen |-> ref.gen]

(* The bytes a reference leads to: neo4j_resolve_file, then MinIO.          *)
Read(f, ref) ==
    CASE ref = Live -> live[f]
      [] ObjectOf(f, ref) \in DOMAIN snaps -> snaps[ObjectOf(f, ref)]
      [] OTHER -> Missing

OnCanvas(f) == Read(f, canvas[f])
InVersion(v, f) == Read(f, rows[v][f])

NoTx == [op |-> "none", version |-> "main", graph |-> EmptyGraph,
         back |-> {}, todo |-> {}, gen |-> 0]
NoUpload == [op |-> "none"]

Init ==
    /\ live = [f \in Files |-> Missing]
    /\ snaps = <<>>
    /\ canvas = EmptyGraph
    /\ rows = <<>>
    /\ active = "main"
    /\ rev = 0
    /\ tx = NoTx
    /\ gen = 0
    /\ spent = {}
    /\ uploads = [u \in Users |-> NoUpload]
    /\ wiping = FALSE
    /\ seen = {EmptyGraph}
    /\ removed = {}

-----------------------------------------------------------------------------
(* Requests of the adapter.  Begin takes the lock and reads what the        *)
(* transaction needs; the steps on MinIO follow; Commit publishes.          *)

Storage == <<live, snaps>>
Database == <<canvas, rows, active, rev, seen>>

Begin(op, v, graph, back, copied) ==
    /\ tx = NoTx
    /\ rev < MaxRevision
    /\ copied # {} => gen < MaxGeneration
    /\ gen' = IF copied # {} THEN gen + 1 ELSE gen
    /\ tx' = [op |-> op, version |-> v, graph |-> graph, back |-> back,
              todo |-> copied, gen |-> gen']
    /\ UNCHANGED <<live, snaps, canvas, rows, active, rev, uploads, wiping, seen>>

(* Save the client's graph: as a new version, into an existing one (404     *)
(* when it was deleted meanwhile) or as Main.                               *)
BeginSave(v, graph) ==
    /\ v \notin spent
    /\ spent' = spent \cup {v}
    /\ Begin("save", v, graph, {}, FilesIn(graph))
    /\ UNCHANGED removed

BeginSaveActive(v, graph) ==
    /\ v \in DOMAIN rows \cup {"main"}
    /\ Begin("save_active", v, graph, {}, FilesIn(graph))
    /\ UNCHANGED <<spent, removed>>

BeginSaveMain(graph) ==
    /\ Begin("save_main", "main", graph, {}, FilesIn(graph))
    /\ UNCHANGED <<spent, removed>>

(* Bring a version back to the canvas; set-main also saves it as Main.      *)
SnapshotFiles(graph) == {f \in FilesIn(graph) : graph[f] # Live}

BeginRestore(v) ==
    /\ v \in DOMAIN rows
    /\ Begin("restore", v, rows[v], SnapshotFiles(rows[v]), {})
    /\ UNCHANGED <<spent, removed>>

BeginSetMain(v) ==
    /\ v \in DOMAIN rows
    /\ Begin("set_main", v, rows[v], SnapshotFiles(rows[v]), FilesIn(rows[v]))
    /\ UNCHANGED <<spent, removed>>

(* Delete a version, or everything.  Removal is by prefix: all objects of   *)
(* the version go, also those its row does not name.                        *)
ObjectsOf(vs) == {o \in DOMAIN snaps : o.owner \in vs}
RefsOf(vs) == [owner : vs, gen : 1..gen]

BeginDelete(v) ==
    /\ v \in DOMAIN rows \ {"main"}
    /\ Begin("delete", v, EmptyGraph, {}, {})
    /\ removed' = removed \cup RefsOf({v})
    /\ UNCHANGED spent

BeginClear ==
    /\ ~wiping
    /\ Begin("clear", "main", EmptyGraph, {}, {})
    /\ removed' = removed \cup RefsOf(DOMAIN rows)
    /\ UNCHANGED spent

Doomed ==
    CASE tx.op = "delete" -> ObjectsOf({tx.version})
      [] tx.op = "clear" -> ObjectsOf(DOMAIN rows)
      [] OTHER -> {}

-----------------------------------------------------------------------------
(* Steps on MinIO.                                                          *)

(* _restore_version_file_snapshots copies a snapshot over the live object;  *)
(* a failure is reported in the response and otherwise ignored.             *)
CopyBack(f) ==
    /\ f \in tx.back
    /\ \/ /\ Read(f, tx.graph[f]) # Missing
          /\ live' = [live EXCEPT ![f] = Read(f, tx.graph[f])]
       \/ live' = live
    /\ tx' = [tx EXCEPT !.back = @ \ {f}]
    /\ UNCHANGED <<snaps, canvas, rows, active, rev, gen, spent, uploads, wiping,
                   seen, removed>>

Owner == IF tx.op \in {"save_main", "set_main"} THEN "main" ELSE tx.version

(* _snapshot_version_files copies the object the graph names to one of a    *)
(* name no other attempt has, and puts the new name into the graph.  A copy *)
(* that fails ends the request: see Abort.                                  *)
NewRef == [owner |-> Owner, gen |-> tx.gen]

Copy(f, ref) ==
    /\ tx.back = {} /\ f \in tx.todo
    /\ snaps' = [o \in DOMAIN snaps \cup {ObjectOf(f, ref)} |->
                   IF o = ObjectOf(f, ref) THEN Read(f, tx.graph[f]) ELSE snaps[o]]
    /\ tx' = [tx EXCEPT !.todo = @ \ {f}]
    /\ UNCHANGED <<live, canvas, rows, active, rev, gen, spent, uploads, wiping,
                   seen, removed>>

(* Fault: one object per version and file, overwritten by each save.        *)
CopyInPlace(f) ==
    /\ Read(f, tx.graph[f]) # Missing
    /\ Copy(f, [owner |-> Owner, gen |-> 1])

(* Fault: a file whose copy fails is reported and published all the same.   *)
CopyIfPresent(f) ==
    IF Read(f, tx.graph[f]) # Missing
    THEN Copy(f, NewRef)
    ELSE /\ tx.back = {} /\ f \in tx.todo
         /\ tx' = [tx EXCEPT !.todo = @ \ {f}]
         /\ UNCHANGED <<live, snaps, canvas, rows, active, rev, gen, spent, uploads,
                        wiping, seen, removed>>

(* Fault: a missing object is copied as if it were an empty one.            *)
CopyAnything(f) == Copy(f, NewRef)

CopySnapshot(f) ==
    /\ Read(f, tx.graph[f]) # Missing
    /\ Copy(f, NewRef)

Published == [f \in Files |-> IF tx.graph[f] = Absent THEN Absent ELSE NewRef]

(* _delete_version_file_snapshots, one object at a time.                    *)
RemoveObject(o) ==
    /\ o \in Doomed
    /\ snaps' = [p \in DOMAIN snaps \ {o} |-> snaps[p]]
    /\ UNCHANGED <<live, canvas, rows, active, rev, tx, gen, spent, uploads,
                   wiping, seen, removed>>

-----------------------------------------------------------------------------
(* The end of a request.                                                    *)

(* Promoting a version answers with the graph of Main, not of the canvas. *)
Answered == IF tx.op = "set_main" THEN {Published} ELSE {}

(* finish_revision counts a request that changed the graph, then the        *)
(* transaction commits and the lock is free.                                *)
Commit(graph, versions, uid) ==
    /\ tx.back = {} /\ tx.todo = {}
    /\ canvas' = graph
    /\ rows' = versions
    /\ active' = uid
    /\ rev' = rev + 1
    /\ tx' = NoTx
    /\ seen' = seen \cup {graph} \cup Answered
    /\ UNCHANGED <<live, snaps, gen, spent, uploads, removed>>

WithRow(v, graph) == [w \in DOMAIN rows \cup {v} |-> IF w = v THEN graph ELSE rows[w]]
WithoutRow(v) == [w \in DOMAIN rows \ {v} |-> rows[w]]

CommitSave ==
    /\ tx.op = "save"
    /\ Commit(canvas, WithRow(tx.version, Published), active)
    /\ UNCHANGED wiping

CommitSaveActive ==
    /\ tx.op = "save_active"
    /\ Commit(canvas, WithRow(tx.version, Published), tx.version)
    /\ UNCHANGED wiping

CommitSaveMain ==
    /\ tx.op = "save_main"
    /\ Commit(tx.graph, WithRow("main", Published), "main")
    /\ UNCHANGED wiping

(* Fault: the canvas is given the files without their snapshots.            *)
CommitRestoreLive ==
    /\ tx.op = "restore"
    /\ Commit([f \in Files |-> IF tx.graph[f] = Absent THEN Absent ELSE Live],
              rows, tx.version)
    /\ UNCHANGED wiping

CommitRestore ==
    /\ tx.op = "restore"
    /\ Commit(tx.graph, rows, tx.version)
    /\ UNCHANGED wiping

CommitSetMain ==
    /\ tx.op = "set_main"
    /\ Commit(tx.graph, WithRow("main", Published), "main")
    /\ UNCHANGED wiping

(* The row goes whether or not every object could be removed.               *)
CommitDelete ==
    /\ tx.op = "delete"
    /\ Commit(canvas, WithoutRow(tx.version),
              IF active = tx.version THEN "main" ELSE active)
    /\ UNCHANGED wiping

CommitClear ==
    /\ tx.op = "clear"
    /\ Commit(EmptyGraph, <<>>, "main")
    /\ wiping' = TRUE

(* An exception or a crash: the transaction is rolled back, what was done   *)
(* to MinIO stays.                                                          *)
Abort ==
    /\ tx # NoTx
    /\ tx' = NoTx
    /\ UNCHANGED <<live, snaps, canvas, rows, active, rev, gen, spent, uploads,
                   wiping, seen, removed>>

(* neo4j_sync_graph: a client's whole graph, with the uid it takes for the  *)
(* active one; nothing checks that a uid sent with a name still exists.     *)
SyncGraph(graph, uid) ==
    /\ tx = NoTx
    /\ rev < MaxRevision
    /\ canvas' = graph
    /\ active' = uid
    /\ rev' = rev + 1
    /\ UNCHANGED <<live, snaps, rows, tx, gen, spent, uploads, wiping, seen, removed>>

(* minio_clear_workspace, called by the gateway after the adapter cleared   *)
(* the graph and outside its lock: empties the buckets of the workspace,    *)
(* object by object; a bucket that fails keeps what it still has.           *)
WipeFile(f) ==
    /\ wiping
    /\ live' = [live EXCEPT ![f] = Missing]
    /\ UNCHANGED <<snaps, canvas, rows, active, rev, tx, gen, spent, uploads, wiping,
                   seen, removed>>

WipeSnapshot(o) ==
    /\ wiping
    /\ snaps' = [p \in DOMAIN snaps \ {o} |-> snaps[p]]
    /\ removed' = removed \cup {[owner |-> o.owner, gen |-> o.gen]}
    /\ UNCHANGED <<live, canvas, rows, active, rev, tx, gen, spent, uploads, wiping, seen>>

EndWipe ==
    /\ wiping
    /\ wiping' = FALSE
    /\ UNCHANGED <<live, snaps, canvas, rows, active, rev, tx, gen, spent, uploads, seen,
                   removed>>

-----------------------------------------------------------------------------
(* File actions of the gateway: node_files and node_text_file.  The graph   *)
(* is read first and its revision compared with If-Match; then the object   *)
(* is stored or removed; then the graph request repeats the comparison.     *)

BeginFileAction(u, op, f, c) ==
    /\ uploads[u] = NoUpload
    /\ tx = NoTx \* the read takes the revision lock too
    /\ rev < MaxRevision
    /\ uploads' = [uploads EXCEPT ![u] =
                     [op |-> op, file |-> f, content |-> c, expected |-> rev, stored |-> FALSE]]
    /\ UNCHANGED <<live, snaps, canvas, rows, active, rev, tx, gen, spent, wiping,
                   seen, removed>>

StoreObject(u) ==
    /\ uploads[u] # NoUpload /\ ~uploads[u].stored
    /\ live' = [live EXCEPT ![uploads[u].file] = uploads[u].content]
    /\ uploads' = [uploads EXCEPT ![u].stored = TRUE]
    /\ UNCHANGED <<snaps, canvas, rows, active, rev, tx, gen, spent, wiping, seen,
                   removed>>

(* neo4j_add_file drops the snapshot of the FILE; neo4j_delete_file removes *)
(* the FILE.  A revision that moved on is answered 409, and what the action *)
(* did to the object stays.                                                 *)
FinishFileAction(u) ==
    /\ uploads[u] # NoUpload /\ uploads[u].stored
    /\ tx = NoTx
    /\ uploads' = [uploads EXCEPT ![u] = NoUpload]
    /\ \/ /\ uploads[u].expected = rev
          /\ rev < MaxRevision
          /\ canvas' = [canvas EXCEPT ![uploads[u].file] =
                          IF uploads[u].op = "upload" THEN Live ELSE Absent]
          /\ rev' = rev + 1
          /\ seen' = seen \cup {canvas'}
       \/ /\ uploads[u].expected # rev
          /\ UNCHANGED <<canvas, rev, seen>>
    /\ UNCHANGED <<live, snaps, rows, active, tx, gen, spent, wiping, removed>>

-----------------------------------------------------------------------------
Next ==
    \/ \E graph \in seen :
         \/ \E v \in Versions : BeginSave(v, graph)
         \/ \E v \in AllVersions : BeginSaveActive(v, graph)
         \/ BeginSaveMain(graph)
         \/ \E uid \in spent \cup {"main"} : SyncGraph(graph, uid)
    \/ \E v \in AllVersions : BeginRestore(v) \/ BeginSetMain(v) \/ BeginDelete(v)
    \/ BeginClear
    \/ \E f \in Files : CopyBack(f) \/ CopySnapshot(f)
    \/ \E o \in DOMAIN snaps : RemoveObject(o)
    \/ CommitSave \/ CommitSaveActive \/ CommitSaveMain
    \/ CommitRestore \/ CommitSetMain \/ CommitDelete \/ CommitClear
    \/ Abort
    \/ \E f \in Files : WipeFile(f)
    \/ \E o \in DOMAIN snaps : WipeSnapshot(o)
    \/ EndWipe
    \/ \E u \in Users :
         \/ \E f \in Files :
              \/ \E c \in Contents : BeginFileAction(u, "upload", f, c)
              \/ BeginFileAction(u, "remove", f, Missing)
         \/ StoreObject(u)
         \/ FinishFileAction(u)

Spec == Init /\ [][Next]_vars

-----------------------------------------------------------------------------
VersionsTypeOK ==
    /\ live \in [Files -> Contents \cup {Missing}]
    /\ DOMAIN snaps \subseteq [file : Files, owner : AllVersions, gen : 1..gen]
    /\ \A o \in DOMAIN snaps : snaps[o] \in Contents
    /\ canvas \in Graphs
    /\ DOMAIN rows \subseteq spent \cup {"main"}
    /\ \A v \in DOMAIN rows :
         \A f \in Files : rows[v][f] = Absent \/ rows[v][f] \in [owner : {v}, gen : 1..gen]
    /\ active \in spent \cup {"main"}
    /\ rev \in 0..MaxRevision /\ gen \in 0..MaxGeneration
    /\ seen \subseteq Graphs

(* What a saved version or the canvas names can be read, whatever requests  *)
(* failed half way, unless its version was deleted, the workspace cleared,  *)
(* or (for a live object of the canvas) the object itself replaced: a       *)
(* version is published only when every file of it was copied               *)
(* (_snapshot_version_files), and no other request removes its objects.     *)
NamedFilesReadable ==
    \A f \in Files :
      LET named == {rows[v][f] : v \in DOMAIN rows} \cup {canvas[f]}
      IN  \A ref \in named \ ({Absent, Live} \cup removed) : Read(f, ref) # Missing

(* The bytes of a saved version stay what they were until it is saved       *)
(* again: uploads, other versions, restores and requests that fail half way *)
(* leave them alone (the unique names of _snapshot_version_files).  Deleting *)
(* the version and clearing the workspace are the exceptions.               *)
VersionsKept ==
    [][\A v \in DOMAIN rows \cap DOMAIN rows' : rows'[v] = rows[v] =>
         \A f \in FilesIn(rows[v]) : rows[v][f] \notin removed' =>
           InVersion(v, f)' = InVersion(v, f)]_vars

(* Restoring a version gives the canvas the bytes that version holds, and   *)
(* promoting it gives Main the same, even if the live object is uploaded or *)
(* removed while the request copies.  (A Clear all that still empties MinIO *)
(* may have taken one of the two copies.)                                   *)
RestoredExactly ==
    [][\A v \in DOMAIN rows :
         /\ tx.op \in {"restore", "set_main"} /\ tx.version = v /\ rev' = rev + 1
         => \A f \in FilesIn(rows[v]) :
              /\ OnCanvas(f)' = InVersion(v, f)
              /\ tx.op = "set_main" /\ InVersion(v, f) # Missing /\ rows'["main"][f] \notin removed
                   => InVersion("main", f)' = InVersion(v, f)]_vars
=============================================================================

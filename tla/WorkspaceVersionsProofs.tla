----------------------- MODULE WorkspaceVersionsProofs -----------------------
(***************************************************************************)
(* Proofs about WorkspaceVersions, for any files, versions, contents, users *)
(* and bounds.                                                              *)
(***************************************************************************)
EXTENDS WorkspaceVersions, TLAPS

Saving == {"save", "save_active", "save_main", "set_main"}
Ops == Saving \cup {"none", "restore", "delete", "clear"}

Uploads ==
    [op : {"upload", "remove"}, file : Files, content : Contents \cup {Missing},
     expected : Nat, stored : BOOLEAN]

Types ==
    /\ VersionsTypeOK
    /\ rows \in [DOMAIN rows -> Graphs]
    /\ spent \in SUBSET Versions
    /\ tx \in [op : Ops, version : AllVersions, graph : Graphs, back : SUBSET Files,
               todo : SUBSET Files, gen : 0..gen]
    /\ tx.todo \subseteq FilesIn(tx.graph)
    /\ tx.op \notin Saving => tx.todo = {}
    /\ tx.op = "none" => tx = NoTx
    /\ tx.op # "none" => rev < MaxRevision
    /\ uploads \in [Users -> Uploads \cup {NoUpload}]
    /\ canvas \in seen

(* A reference whose object is there, or was set out to be removed. *)
Readable(f, ref) ==
    ref \in {Absent, Live} \cup removed \/ ObjectOf(f, ref) \in DOMAIN snaps

AllReadable(graph) == \A f \in Files : Readable(f, graph[f])

Named ==
    /\ \A v \in DOMAIN rows : AllReadable(rows[v])
    /\ \A graph \in seen : AllReadable(graph)
    /\ AllReadable(tx.graph)

(* What a promotion copied is what the version holds, unless a Clear all    *)
(* took one of the two.                                                     *)
Promoted(f) ==
    \/ NewRef \in removed
    \/ Read(f, tx.graph[f]) = Missing
    \/ Read(f, NewRef) = Read(f, tx.graph[f])

(* What a request knows: a save copies into a generation that no version    *)
(* names yet; what it copied can be read; a restore brings back the version *)
(* as it is; and the objects a request removes were given up before.        *)
InTx ==
    /\ tx.op \in {"save", "save_active"} => tx.version \in spent \cup {"main"}
    /\ tx.op = "restore" => tx.version \in spent \cup {"main"}
    /\ tx.op \in Saving /\ FilesIn(tx.graph) # {} =>
          /\ tx.gen \in 1..gen
          /\ \A v \in DOMAIN rows : \A f \in FilesIn(rows[v]) : rows[v][f].gen < tx.gen
    /\ tx.op \in Saving => \A f \in FilesIn(tx.graph) \ tx.todo : Readable(f, NewRef)
    /\ tx.op \in {"restore", "set_main"} =>
          tx.version \in DOMAIN rows /\ tx.graph = rows[tx.version]
    /\ tx.op = "set_main" => \A f \in FilesIn(tx.graph) \ tx.todo : Promoted(f)
    /\ tx.op = "delete" => RefsOf({tx.version}) \subseteq removed
    /\ tx.op = "clear" => RefsOf(DOMAIN rows) \subseteq removed

VInv == Types /\ Named /\ InTx

----------------------------------------------------------------------------
LEMMA EmptyGraphTypes ==
    /\ EmptyGraph \in Graphs /\ FilesIn(EmptyGraph) = {}
    /\ AllReadable(EmptyGraph)
BY DEF EmptyGraph, Graphs, FilesIn, AllReadable, Readable

LEMMA NoTxTypes ==
    ASSUME gen \in Nat
    PROVE  /\ NoTx \in [op : Ops, version : AllVersions, graph : Graphs, back : SUBSET Files,
                        todo : SUBSET Files, gen : 0..gen]
           /\ NoTx.op = "none" /\ NoTx.graph = EmptyGraph /\ NoTx.todo = {} /\ NoTx.back = {}
BY EmptyGraphTypes DEF NoTx, Ops, AllVersions

(* A snapshot is neither the live object nor an absent file. *)
LEMMA SnapshotRefs ==
    ASSUME NEW ref \in [owner : AllVersions, gen : Nat]
    PROVE  ref # Live /\ ref # Absent
BY VersionsAssumption DEF AllVersions, Live, Absent

LEMMA VersionRefs ==
    ASSUME Types, NEW v \in DOMAIN rows, NEW f \in FilesIn(rows[v])
    PROVE  /\ rows[v][f] \in [owner : {v}, gen : 1..gen] /\ v \in AllVersions
           /\ rows[v][f] # Live /\ rows[v][f] # Absent
<1>1. /\ f \in Files /\ rows[v][f] # Absent
      /\ rows[v][f] \in [owner : {v}, gen : 1..gen] /\ v \in AllVersions
      /\ gen \in Nat
  BY VersionsAssumption DEF Types, VersionsTypeOK, FilesIn, AllVersions
<1>2. rows[v][f] \in [owner : AllVersions, gen : Nat]
  BY <1>1
<1> QED BY <1>1, <1>2, SnapshotRefs

LEMMA NoTxInv ==
    ASSUME Types, tx = NoTx PROVE AllReadable(tx.graph) /\ InTx
<1>1. gen \in Nat
  BY VersionsAssumption DEF Types, VersionsTypeOK
<1>2. tx.op = "none" /\ tx.graph = EmptyGraph
  BY <1>1, NoTxTypes
<1> QED BY <1>2, EmptyGraphTypes DEF InTx, Saving

LEMMA VInvInit == Init => VInv
<1> SUFFICES ASSUME Init PROVE VInv
  OBVIOUS
<1>1. gen = 0 /\ tx = NoTx /\ DOMAIN rows = {} /\ DOMAIN snaps = {}
  BY DEF Init
<1>2. Types
  BY <1>1, NoTxTypes, EmptyGraphTypes, VersionsAssumption DEF Init, Types, VersionsTypeOK
<1>3. Named
  BY <1>1, <1>2, EmptyGraphTypes, NoTxInv DEF Init, Named
<1> QED BY <1>1, <1>2, <1>3, NoTxInv DEF VInv

----------------------------------------------------------------------------
(* The start of a request                                                   *)

LEMMA BeginKeeps ==
    ASSUME VInv, NEW op \in Ops \ {"none"}, NEW v \in AllVersions, NEW graph \in Graphs,
           NEW back \in SUBSET Files, NEW copied,
           Begin(op, v, graph, back, copied),
           AllReadable(graph),
           copied = IF op \in Saving THEN FilesIn(graph) ELSE {},
           op \in {"save", "save_active", "restore"} => v \in spent' \cup {"main"},
           op \in {"restore", "set_main"} => v \in DOMAIN rows /\ graph = rows[v],
           spent \subseteq spent' /\ spent' \in SUBSET Versions,
           removed \subseteq removed',
           op = "delete" => RefsOf({v}) \subseteq removed',
           op = "clear" => RefsOf(DOMAIN rows) \subseteq removed'
    PROVE  VInv'
<1>1. /\ gen \in Nat /\ gen' \in {gen, gen + 1} /\ gen' \in 0..MaxGeneration
      /\ copied # {} => gen' = gen + 1
      /\ tx' = [op |-> op, version |-> v, graph |-> graph, back |-> back,
                todo |-> copied, gen |-> gen']
      /\ live' = live /\ snaps' = snaps /\ canvas' = canvas /\ rows' = rows
      /\ active' = active /\ rev' = rev /\ uploads' = uploads /\ seen' = seen
  BY VersionsAssumption DEF Begin, VInv, Types, VersionsTypeOK
<1>2. VersionsTypeOK'
  <2>1. 1..gen \subseteq 1..gen'
    BY <1>1
  <2> QED BY <1>1, <2>1 DEF VInv, Types, VersionsTypeOK
<1>3. Types'
  <2>1. copied \subseteq FilesIn(graph) /\ copied \in SUBSET Files
    BY DEF FilesIn
  <2>2. tx' \in [op : Ops, version : AllVersions, graph : Graphs, back : SUBSET Files,
                 todo : SUBSET Files, gen : 0..gen']
    BY <1>1, <2>1
  <2>3. /\ tx'.todo \subseteq FilesIn(tx'.graph) /\ tx'.op # "none" /\ rev' < MaxRevision
        /\ tx'.op \notin Saving => tx'.todo = {}
    BY <1>1, <2>1 DEF Begin
  <2> QED BY <1>1, <1>2, <2>2, <2>3 DEF VInv, Types, FilesIn
<1>4. Named'
  BY <1>1 DEF VInv, Named, AllReadable, Readable
<1>5. InTx'
  <2>1. tx'.op = op /\ tx'.version = v /\ tx'.graph = graph /\ tx'.todo = copied /\ tx'.gen = gen'
    BY <1>1
  <2>2. ASSUME op \in Saving, FilesIn(graph) # {}
        PROVE  /\ gen' \in 1..gen'
               /\ \A w \in DOMAIN rows : \A f \in FilesIn(rows[w]) : rows[w][f].gen < gen'
    <3>1. gen' = gen + 1
      BY <1>1, <2>2
    <3>2. ASSUME NEW w \in DOMAIN rows, NEW f \in FilesIn(rows[w])
          PROVE  rows[w][f].gen \in 1..gen
      BY VersionRefs DEF VInv
    <3> QED BY <1>1, <3>1, <3>2
  <2>3. op \in Saving => FilesIn(graph) \ copied = {}
    OBVIOUS
  <2>4. op = "delete" => RefsOf({v})' \subseteq removed'
    <3>1. op = "delete" => gen' = gen
      BY <1>1 DEF Begin, Saving
    <3> QED BY <3>1 DEF RefsOf
  <2>5. op = "clear" => RefsOf(DOMAIN rows)' \subseteq removed'
    <3>1. op = "clear" => gen' = gen
      BY <1>1 DEF Begin, Saving
    <3> QED BY <1>1, <3>1 DEF RefsOf
  <2>6. FilesIn(tx.graph)' = FilesIn(graph) /\ \A w \in DOMAIN rows : FilesIn(rows[w])' = FilesIn(rows[w])
    BY <1>1, <2>1 DEF FilesIn
  <2>7. op \in {"save", "save_active"} => v \in spent' \cup {"main"}
    OBVIOUS
  <2>8. (tx.op \in Saving /\ FilesIn(tx.graph) # {} =>
          /\ tx.gen \in 1..gen
          /\ \A w \in DOMAIN rows : \A f \in FilesIn(rows[w]) : rows[w][f].gen < tx.gen)'
    BY <1>1, <2>1, <2>2, <2>6 DEF FilesIn
  <2>9. (tx.op \in Saving => \A f \in FilesIn(tx.graph) \ tx.todo : Readable(f, NewRef))'
    BY <2>1, <2>3, <2>6
  <2>10. (tx.op = "set_main" =>
          \A f \in FilesIn(tx.graph) \ tx.todo : Promoted(f))'
    BY <2>1, <2>3, <2>6 DEF Saving
  <2>11. (tx.op \in {"restore", "set_main"} =>
          tx.version \in DOMAIN rows /\ tx.graph = rows[tx.version])'
    BY <1>1, <2>1
  <2>12. (tx.op = "delete" => RefsOf({tx.version}) \subseteq removed)'
    BY <2>1, <2>4 DEF RefsOf
  <2>13. (tx.op = "clear" => RefsOf(DOMAIN rows) \subseteq removed)'
    BY <1>1, <2>1, <2>5 DEF RefsOf
  <2>14. (/\ tx.op \in {"save", "save_active"} => tx.version \in spent \cup {"main"}
          /\ tx.op = "restore" => tx.version \in spent \cup {"main"})'
    BY <2>1, <2>7
  <2> QED BY <2>8, <2>9, <2>10, <2>11, <2>12, <2>13, <2>14 DEF InTx
<1> QED BY <1>3, <1>4, <1>5 DEF VInv
LEMMA RequestsBegin ==
    ASSUME VInv, NEW graph \in seen, NEW v \in AllVersions,
           \/ v \in Versions /\ BeginSave(v, graph)
           \/ BeginSaveActive(v, graph)
           \/ BeginSaveMain(graph)
    PROVE  VInv'
<1>1. graph \in Graphs /\ AllReadable(graph) /\ spent \in SUBSET Versions
  BY DEF VInv, Types, VersionsTypeOK, Named
<1>2. DOMAIN rows \subseteq spent \cup {"main"} /\ "main" \in AllVersions
  BY DEF VInv, Types, VersionsTypeOK, AllVersions
<1>3. CASE v \in Versions /\ BeginSave(v, graph)
  <2>1. Begin("save", v, graph, {}, FilesIn(graph)) /\ removed' = removed
        /\ spent' = spent \cup {v}
    BY <1>3 DEF BeginSave
  <2> QED BY <1>1, <1>3, <2>1, BeginKeeps DEF Ops, Saving
<1>4. CASE BeginSaveActive(v, graph)
  <2>1. Begin("save_active", v, graph, {}, FilesIn(graph)) /\ removed' = removed
        /\ spent' = spent /\ v \in DOMAIN rows \cup {"main"}
    BY <1>4 DEF BeginSaveActive
  <2> QED BY <1>1, <1>2, <2>1, BeginKeeps DEF Ops, Saving
<1>5. CASE BeginSaveMain(graph)
  <2>1. Begin("save_main", "main", graph, {}, FilesIn(graph)) /\ removed' = removed
        /\ spent' = spent
    BY <1>5 DEF BeginSaveMain
  <2> QED BY <1>1, <1>2, <2>1, BeginKeeps DEF Ops, Saving
<1> QED BY <1>3, <1>4, <1>5

LEMMA VersionRequestsBegin ==
    ASSUME VInv, NEW v \in AllVersions,
           \/ BeginRestore(v) \/ BeginSetMain(v) \/ BeginDelete(v) \/ BeginClear
    PROVE  VInv'
<1>1. /\ spent \in SUBSET Versions /\ DOMAIN rows \subseteq spent \cup {"main"}
      /\ "main" \in AllVersions
  BY DEF VInv, Types, VersionsTypeOK, AllVersions
<1>2. v \in DOMAIN rows => /\ rows[v] \in Graphs /\ AllReadable(rows[v])
                           /\ SnapshotFiles(rows[v]) \in SUBSET Files
  BY DEF VInv, Types, Named, SnapshotFiles, FilesIn
<1>3. CASE BeginRestore(v)
  <2>1. Begin("restore", v, rows[v], SnapshotFiles(rows[v]), {}) /\ removed' = removed
        /\ spent' = spent /\ v \in DOMAIN rows
    BY <1>3 DEF BeginRestore
  <2> QED BY <1>1, <1>2, <2>1, BeginKeeps DEF Ops, Saving
<1>4. CASE BeginSetMain(v)
  <2>1. /\ Begin("set_main", v, rows[v], SnapshotFiles(rows[v]), FilesIn(rows[v]))
        /\ removed' = removed /\ spent' = spent /\ v \in DOMAIN rows
    BY <1>4 DEF BeginSetMain
  <2> QED BY <1>1, <1>2, <2>1, BeginKeeps DEF Ops, Saving
<1>5. CASE BeginDelete(v)
  <2>1. Begin("delete", v, EmptyGraph, {}, {}) /\ removed' = removed \cup RefsOf({v})
        /\ spent' = spent
    BY <1>5 DEF BeginDelete
  <2> QED BY <1>1, <2>1, EmptyGraphTypes, BeginKeeps DEF Ops, Saving
<1>6. CASE BeginClear
  <2>1. Begin("clear", "main", EmptyGraph, {}, {}) /\ removed' = removed \cup RefsOf(DOMAIN rows)
        /\ spent' = spent
    BY <1>6 DEF BeginClear
  <2> QED BY <1>1, <2>1, EmptyGraphTypes, BeginKeeps DEF Ops, Saving
<1> QED BY <1>3, <1>4, <1>5, <1>6

----------------------------------------------------------------------------
(* Steps on MinIO                                                           *)

LEMMA ReadTypes ==
    ASSUME Types, NEW f \in Files, NEW ref
    PROVE  Read(f, ref) \in Contents \cup {Missing}
BY DEF Types, VersionsTypeOK, Read

LEMMA NewRefIsSnapshot ==
    ASSUME Types
    PROVE  /\ Owner \in AllVersions /\ tx.gen \in Nat /\ gen \in Nat
           /\ NewRef = [owner |-> Owner, gen |-> tx.gen]
           /\ NewRef # Live /\ NewRef # Absent
<1>1. gen \in Nat
  BY VersionsAssumption DEF Types, VersionsTypeOK
<1>2. tx.version \in AllVersions /\ tx.gen \in Nat
  BY <1>1 DEF Types
<1>3. Owner \in AllVersions
  BY <1>2 DEF Owner, AllVersions
<1>4. NewRef \in [owner : AllVersions, gen : Nat]
  BY <1>2, <1>3 DEF NewRef
<1> QED BY <1>1, <1>2, <1>3, <1>4, SnapshotRefs DEF NewRef

LEMMA CopyBackKeeps ==
    ASSUME VInv, NEW f \in Files, CopyBack(f) PROVE VInv'
<1>1. /\ snaps' = snaps /\ canvas' = canvas /\ rows' = rows /\ active' = active /\ rev' = rev
      /\ gen' = gen /\ spent' = spent /\ uploads' = uploads /\ seen' = seen
      /\ removed' = removed /\ tx' = [tx EXCEPT !.back = @ \ {f}] /\ f \in tx.back
  BY DEF CopyBack
<1>2. live' \in [Files -> Contents \cup {Missing}]
  BY ReadTypes DEF CopyBack, VInv, Types, VersionsTypeOK
<1>3. /\ tx.op # "none"
      /\ tx' \in [op : Ops, version : AllVersions, graph : Graphs, back : SUBSET Files,
                  todo : SUBSET Files, gen : 0..gen]
      /\ tx'.op = tx.op /\ tx'.version = tx.version /\ tx'.graph = tx.graph
      /\ tx'.todo = tx.todo /\ tx'.gen = tx.gen
  <2>1. tx.op # "none"
    BY <1>1 DEF VInv, Types, NoTx
  <2> QED BY <1>1, <2>1 DEF VInv, Types
<1>4. Types'
  BY <1>1, <1>2, <1>3 DEF VInv, Types, VersionsTypeOK, FilesIn
<1>5. Named'
  BY <1>1, <1>3 DEF VInv, Named, AllReadable, Readable
<1>6. FilesIn(tx.graph)' = FilesIn(tx.graph) /\ NewRef' = NewRef
  BY <1>1, <1>3 DEF FilesIn, NewRef, Owner
<1>7. (tx.op = "set_main" =>
         \A g \in FilesIn(tx.graph) \ tx.todo : Promoted(g))'
  <2> SUFFICES ASSUME tx.op = "set_main", NEW g \in FilesIn(tx.graph) \ tx.todo
               PROVE  Promoted(g)'
    BY <1>3, <1>6
  <2>1. tx.graph[g] # Live
    BY VersionRefs DEF VInv, InTx
  <2>2. NewRef # Live
    BY NewRefIsSnapshot DEF VInv
  <2>3. Promoted(g)
    BY DEF VInv, InTx
  <2> QED BY <1>1, <1>3, <1>6, <2>1, <2>2, <2>3 DEF Promoted, Read, ObjectOf
<1>8. InTx'
  <2>1. \A v \in DOMAIN rows : FilesIn(rows[v])' = FilesIn(rows[v])
    BY <1>1 DEF FilesIn
  <2>2. \A g : Readable(g, NewRef)' = Readable(g, NewRef)
    BY <1>1, <1>6 DEF Readable
  <2> QED BY <1>1, <1>3, <1>6, <1>7, <2>1, <2>2 DEF VInv, InTx, RefsOf
<1> QED BY <1>4, <1>5, <1>8 DEF VInv
LEMMA CopySnapshotKeeps ==
    ASSUME VInv, NEW f \in Files, CopySnapshot(f) PROVE VInv'
<1> DEFINE new == ObjectOf(f, NewRef)
<1>1. /\ live' = live /\ canvas' = canvas /\ rows' = rows /\ active' = active /\ rev' = rev
      /\ gen' = gen /\ spent' = spent /\ uploads' = uploads /\ seen' = seen
      /\ removed' = removed /\ tx' = [tx EXCEPT !.todo = @ \ {f}] /\ f \in tx.todo
      /\ DOMAIN snaps' = DOMAIN snaps \cup {new}
      /\ snaps'[new] = Read(f, tx.graph[f]) /\ snaps'[new] # Missing
      /\ \A o \in DOMAIN snaps : o # new => snaps'[o] = snaps[o]
  BY DEF CopySnapshot, Copy
<1>2. /\ tx.op \in Saving /\ f \in FilesIn(tx.graph)
      /\ tx' \in [op : Ops, version : AllVersions, graph : Graphs, back : SUBSET Files,
                  todo : SUBSET Files, gen : 0..gen]
      /\ tx'.op = tx.op /\ tx'.version = tx.version /\ tx'.graph = tx.graph
      /\ tx'.todo = tx.todo \ {f} /\ tx'.gen = tx.gen
  <2>1. tx.op \in Saving
    BY <1>1 DEF VInv, Types
  <2> QED BY <1>1, <2>1 DEF VInv, Types
<1>3. /\ Owner \in AllVersions /\ tx.gen \in 1..gen /\ gen \in Nat
      /\ NewRef = [owner |-> Owner, gen |-> tx.gen] /\ NewRef # Live
      /\ new = [file |-> f, owner |-> Owner, gen |-> tx.gen]
  BY <1>2, NewRefIsSnapshot DEF VInv, InTx, ObjectOf
<1>4. Types'
  <2>1. new \in [file : Files, owner : AllVersions, gen : 1..gen]
    BY <1>3
  <2>2. snaps'[new] \in Contents
    BY <1>1, ReadTypes DEF VInv, Types, VersionsTypeOK
  <2>3. VersionsTypeOK'
    BY <1>1, <2>1, <2>2 DEF VInv, Types, VersionsTypeOK
  <2>4. FilesIn(tx.graph)' = FilesIn(tx.graph) /\ tx'.op # "none"
    BY <1>2 DEF FilesIn, Saving
  <2> QED BY <1>1, <1>2, <2>3, <2>4 DEF VInv, Types
<1>5. \A g, ref : Readable(g, ref) => Readable(g, ref)'
  BY <1>1 DEF Readable
<1>6. Named'
  BY <1>1, <1>2, <1>5 DEF VInv, Named, AllReadable
<1>7. FilesIn(tx.graph)' = FilesIn(tx.graph) /\ NewRef' = NewRef
      /\ \A v \in DOMAIN rows : FilesIn(rows[v])' = FilesIn(rows[v])
  BY <1>1, <1>2 DEF FilesIn, NewRef, Owner
<1>8. Readable(f, NewRef)'
  BY <1>1, <1>7 DEF Readable, ObjectOf
<1>9. (\A g \in FilesIn(tx.graph) \ tx.todo : Readable(g, NewRef))'
  <2> SUFFICES ASSUME NEW g \in FilesIn(tx.graph) \ tx'.todo PROVE Readable(g, NewRef)'
    BY <1>7
  <2>1. CASE g = f
    BY <2>1, <1>8
  <2>2. CASE g # f
    <3>1. Readable(g, NewRef)
      BY <2>2, <1>2 DEF VInv, InTx
    <3> QED BY <3>1, <1>5, <1>7
  <2> QED BY <2>1, <2>2
<1>10. (tx.op = "set_main" =>
          \A g \in FilesIn(tx.graph) \ tx.todo : Promoted(g))'
  <2> SUFFICES ASSUME tx.op = "set_main", NEW g \in FilesIn(tx.graph) \ tx'.todo
               PROVE  Promoted(g)'
    BY <1>2, <1>7
  <2>1. tx.graph[g] # Live /\ tx.graph[g].gen < tx.gen /\ tx.graph[g].gen \in Nat
    <3>1. tx.version \in DOMAIN rows /\ tx.graph = rows[tx.version] /\ FilesIn(tx.graph) # {}
      BY DEF VInv, InTx
    <3>2. tx.graph[g].gen < tx.gen
      BY <3>1, <1>2 DEF VInv, InTx
    <3> QED BY <3>1, <3>2, <1>3, VersionRefs DEF VInv
  <2>2. ObjectOf(g, tx.graph[g]) # new
    BY <2>1, <1>3 DEF ObjectOf
  <2>3. Read(g, tx.graph[g])' = Read(g, tx.graph[g])
    BY <1>1, <1>2, <2>1, <2>2 DEF Read, ObjectOf
  <2>4. CASE g = f
    BY <1>1, <1>3, <1>7, <2>3, <2>4 DEF Promoted, Read, ObjectOf
  <2>5. CASE g # f
    <3>1. ObjectOf(g, NewRef) # new
      BY <2>5, <1>3 DEF ObjectOf
    <3>2. Read(g, NewRef)' = Read(g, NewRef)
      BY <1>1, <1>3, <1>7, <3>1 DEF Read, ObjectOf
    <3>3. Promoted(g)
      BY <2>5, <1>2 DEF VInv, InTx
    <3> QED BY <1>1, <1>7, <2>3, <3>2, <3>3 DEF Promoted
  <2> QED BY <2>4, <2>5
<1>11. InTx'
  <2>1. (tx.op \in Saving /\ FilesIn(tx.graph) # {} =>
          /\ tx.gen \in 1..gen
          /\ \A v \in DOMAIN rows : \A g \in FilesIn(rows[v]) : rows[v][g].gen < tx.gen)'
    BY <1>1, <1>2, <1>7 DEF VInv, InTx
  <2>2. (/\ tx.op \in {"save", "save_active"} => tx.version \in spent \cup {"main"}
         /\ tx.op = "restore" => tx.version \in spent \cup {"main"}
         /\ tx.op \in {"restore", "set_main"} =>
              tx.version \in DOMAIN rows /\ tx.graph = rows[tx.version])'
    BY <1>1, <1>2 DEF VInv, InTx
  <2>3. tx'.op \notin {"delete", "clear"}
    BY <1>2 DEF Saving
  <2> QED BY <1>9, <1>10, <2>1, <2>2, <2>3 DEF InTx
<1> QED BY <1>4, <1>6, <1>11 DEF VInv

(* Only references given up before lose their object. *)
LEMMA DoomedRemoved ==
    ASSUME VInv, NEW o \in Doomed
    PROVE  /\ o \in DOMAIN snaps /\ tx.op \in {"delete", "clear"}
           /\ [owner |-> o.owner, gen |-> o.gen] \in removed
<1>1. o \in DOMAIN snaps /\ tx.op \in {"delete", "clear"} /\ RefsOf({o.owner}) \subseteq removed
  BY DEF Doomed, ObjectsOf, RefsOf, VInv, InTx
<1>2. o.gen \in 1..gen
  BY <1>1 DEF VInv, Types, VersionsTypeOK
<1> QED BY <1>1, <1>2 DEF RefsOf

LEMMA GraphRefs ==
    ASSUME NEW graph \in Graphs, NEW f \in Files
    PROVE  graph[f] = [owner |-> graph[f].owner, gen |-> graph[f].gen]
BY DEF Graphs, Snapshots, Absent, Live

LEMMA RemoveObjectKeeps ==
    ASSUME VInv, NEW o, RemoveObject(o) PROVE VInv'
<1>1. /\ live' = live /\ canvas' = canvas /\ rows' = rows /\ active' = active /\ rev' = rev
      /\ gen' = gen /\ spent' = spent /\ uploads' = uploads /\ seen' = seen
      /\ removed' = removed /\ tx' = tx /\ o \in Doomed
      /\ DOMAIN snaps' = DOMAIN snaps \ {o}
      /\ \A p \in DOMAIN snaps \ {o} : snaps'[p] = snaps[p]
  BY DEF RemoveObject
<1>2. /\ tx.op \in {"delete", "clear"}
      /\ [owner |-> o.owner, gen |-> o.gen] \in removed
  BY <1>1, DoomedRemoved
<1>3. Types'
  BY <1>1 DEF VInv, Types, VersionsTypeOK, FilesIn
<1>4. ASSUME NEW graph \in Graphs, AllReadable(graph) PROVE AllReadable(graph)'
  <2> SUFFICES ASSUME NEW f \in Files PROVE Readable(f, graph[f])'
    BY DEF AllReadable
  <2>1. Readable(f, graph[f])
    BY <1>4 DEF AllReadable
  <2>2. CASE ObjectOf(f, graph[f]) = o
    <3>1. graph[f] = [owner |-> o.owner, gen |-> o.gen]
      BY <2>2, GraphRefs DEF ObjectOf
    <3> QED BY <1>1, <1>2, <3>1 DEF Readable
  <2>3. CASE ObjectOf(f, graph[f]) # o
    BY <1>1, <2>1, <2>3 DEF Readable, ObjectOf
  <2> QED BY <2>2, <2>3
<1>5. /\ \A v \in DOMAIN rows : rows[v] \in Graphs
      /\ tx.graph \in Graphs /\ seen \subseteq Graphs
  BY DEF VInv, Types, VersionsTypeOK
<1>6. Named'
  BY <1>1, <1>4, <1>5 DEF VInv, Named
<1>7. InTx'
  <2>1. tx'.op \notin Saving \cup {"restore"}
    BY <1>1, <1>2 DEF Saving
  <2> QED BY <1>1, <2>1 DEF VInv, InTx, RefsOf, Saving
<1> QED BY <1>3, <1>6, <1>7 DEF VInv
----------------------------------------------------------------------------
(* The end of a request                                                     *)

(* What a save publishes once every file is copied. *)
LEMMA PublishedFacts ==
    ASSUME VInv, tx.op \in Saving, tx.todo = {}
    PROVE  /\ Owner \in spent \cup {"main"}
           /\ Published \in Graphs /\ AllReadable(Published)
           /\ \A f \in Files : \/ Published[f] = Absent
                               \/ Published[f] \in [owner : {Owner}, gen : 1..gen]
<1>1. Owner \in spent \cup {"main"} /\ Owner \in AllVersions
  <2>1. Owner \in spent \cup {"main"}
    BY DEF VInv, InTx, Owner, Saving
  <2> QED BY <2>1, NewRefIsSnapshot DEF VInv
<1>2. gen \in 0..MaxGeneration
  BY DEF VInv, Types, VersionsTypeOK
<1>3. ASSUME NEW f \in Files, tx.graph[f] # Absent
      PROVE  /\ NewRef \in [owner : {Owner}, gen : 1..gen] /\ NewRef \in Snapshots
             /\ Readable(f, NewRef)
  <2>1. f \in FilesIn(tx.graph) \ tx.todo
    BY <1>3 DEF FilesIn
  <2>2. tx.gen \in 1..gen /\ Readable(f, NewRef)
    BY <2>1 DEF VInv, InTx
  <2>3. tx.gen \in 1..MaxGeneration
    BY <2>2, <1>2, VersionsAssumption
  <2> QED BY <1>1, <2>2, <2>3 DEF NewRef, Snapshots
<1>4. Published \in Graphs
  BY <1>3 DEF Published, Graphs
<1>5. AllReadable(Published)
  BY <1>3 DEF Published, AllReadable, Readable
<1> QED BY <1>1, <1>3, <1>4, <1>5 DEF Published

LEMMA CommitKeeps ==
    ASSUME VInv, NEW graph \in Graphs, NEW versions, NEW uid \in spent \cup {"main"},
           Commit(graph, versions, uid), tx.op # "none",
           AllReadable(graph),
           DOMAIN versions \subseteq spent \cup {"main"},
           versions \in [DOMAIN versions -> Graphs],
           \A v \in DOMAIN versions :
              /\ AllReadable(versions[v])
              /\ \A f \in Files : \/ versions[v][f] = Absent
                                  \/ versions[v][f] \in [owner : {v}, gen : 1..gen]
    PROVE  VInv'
<1>0. rev < MaxRevision
  BY DEF VInv, Types
<1>1. /\ live' = live /\ snaps' = snaps /\ gen' = gen /\ spent' = spent /\ uploads' = uploads
      /\ removed' = removed /\ canvas' = graph /\ rows' = versions /\ active' = uid
      /\ rev' = rev + 1 /\ seen' = seen \cup {graph} \cup Answered /\ tx' = NoTx
  BY DEF Commit
<1>7. Answered \subseteq Graphs /\ \A g \in Answered : AllReadable(g)
  <2>1. CASE tx.op = "set_main"
    <3>1. tx.op \in Saving /\ tx.todo = {}
      BY <2>1 DEF Commit, Saving
    <3>2. Published \in Graphs /\ AllReadable(Published)
      BY <3>1, PublishedFacts
    <3> QED BY <2>1, <3>2 DEF Answered
  <2>2. CASE tx.op # "set_main"
    BY <2>2 DEF Answered
  <2> QED BY <2>1, <2>2
<1>2. gen \in Nat /\ rev \in Nat
  BY VersionsAssumption DEF VInv, Types, VersionsTypeOK
<1>3. VersionsTypeOK'
  BY <1>0, <1>1, <1>2, <1>7, VersionsAssumption DEF VInv, Types, VersionsTypeOK
<1>4. Types'
  <2>1. /\ tx' \in [op : Ops, version : AllVersions, graph : Graphs, back : SUBSET Files,
                    todo : SUBSET Files, gen : 0..gen']
        /\ tx'.todo = {} /\ tx'.op = "none"
    BY <1>1, <1>2, NoTxTypes
  <2> QED BY <1>1, <1>3, <2>1 DEF VInv, Types
<1>5. \A g, ref : Readable(g, ref)' = Readable(g, ref)
  BY <1>1 DEF Readable
<1>6. (/\ \A v \in DOMAIN rows : AllReadable(rows[v])
       /\ \A g \in seen : AllReadable(g))'
  BY <1>1, <1>5, <1>7 DEF VInv, Named, AllReadable
<1> QED
  <2>1. (AllReadable(tx.graph) /\ InTx)'
    <3>1. gen' \in Nat /\ tx'.op = "none" /\ tx'.graph = EmptyGraph
      BY <1>1, <1>2, NoTxTypes
    <3>2. AllReadable(EmptyGraph)'
      BY <1>5, EmptyGraphTypes DEF AllReadable
    <3> QED BY <3>1, <3>2 DEF InTx, Saving, AllReadable
  <2> QED BY <1>4, <1>6, <2>1 DEF VInv, Named

LEMMA RowFacts ==
    ASSUME VInv
    PROVE  /\ DOMAIN rows \subseteq spent \cup {"main"} /\ rows \in [DOMAIN rows -> Graphs]
           /\ \A v \in DOMAIN rows :
                /\ AllReadable(rows[v])
                /\ \A f \in Files : \/ rows[v][f] = Absent
                                    \/ rows[v][f] \in [owner : {v}, gen : 1..gen]
           /\ canvas \in Graphs /\ AllReadable(canvas) /\ active \in spent \cup {"main"}
           /\ tx.graph \in Graphs /\ AllReadable(tx.graph)
           /\ rev \in 0..MaxRevision
BY DEF VInv, Types, VersionsTypeOK, Named

LEMMA WithRowFacts ==
    ASSUME VInv, tx.op \in Saving, tx.todo = {}
    PROVE  LET versions == WithRow(Owner, Published)
           IN  /\ DOMAIN versions \subseteq spent \cup {"main"}
               /\ versions \in [DOMAIN versions -> Graphs]
               /\ \A v \in DOMAIN versions :
                    /\ AllReadable(versions[v])
                    /\ \A f \in Files : \/ versions[v][f] = Absent
                                        \/ versions[v][f] \in [owner : {v}, gen : 1..gen]
<1> DEFINE versions == WithRow(Owner, Published)
<1>1. /\ DOMAIN versions = DOMAIN rows \cup {Owner} /\ versions[Owner] = Published
      /\ \A v \in DOMAIN rows : v # Owner => versions[v] = rows[v]
      /\ versions = [w \in DOMAIN versions |-> versions[w]]
  BY DEF WithRow
<1> HIDE DEF versions
<1>2. ASSUME NEW v \in DOMAIN versions
      PROVE  /\ versions[v] \in Graphs /\ AllReadable(versions[v])
             /\ \A f \in Files : \/ versions[v][f] = Absent
                                 \/ versions[v][f] \in [owner : {v}, gen : 1..gen]
  <2>1. CASE v = Owner
    BY <2>1, <1>1, PublishedFacts
  <2>2. CASE v # Owner
    BY <2>2, <1>1, RowFacts
  <2> QED BY <2>1, <2>2
<1>3. DOMAIN versions \subseteq spent \cup {"main"}
  BY <1>1, PublishedFacts, RowFacts
<1>4. versions \in [DOMAIN versions -> Graphs]
  BY <1>1, <1>2
<1> QED BY <1>2, <1>3, <1>4 DEF versions
CommitAny ==
    \/ CommitSave \/ CommitSaveActive \/ CommitSaveMain
    \/ CommitRestore \/ CommitSetMain \/ CommitDelete \/ CommitClear

LEMMA CommitsKeep == ASSUME VInv, CommitAny PROVE VInv'
<1>1. tx.op \in Saving => Owner \in spent \cup {"main"}
  BY DEF VInv, InTx, Owner, Saving
<1>2. CASE CommitSave
  <2>1. /\ Commit(canvas, WithRow(Owner, Published), active)
        /\ tx.op = "save" /\ tx.todo = {}
    BY <1>2 DEF CommitSave, Owner, Commit
  <2> QED BY <2>1, CommitKeeps, WithRowFacts, RowFacts DEF Saving
<1>3. CASE CommitSaveActive
  <2>1. /\ Commit(canvas, WithRow(Owner, Published), Owner)
        /\ tx.op = "save_active" /\ tx.todo = {}
    BY <1>3 DEF CommitSaveActive, Owner, Commit
  <2> QED BY <1>1, <2>1, CommitKeeps, WithRowFacts, RowFacts DEF Saving
<1>4. CASE CommitSaveMain
  <2>1. /\ Commit(tx.graph, WithRow(Owner, Published), "main")
        /\ tx.op = "save_main" /\ tx.todo = {}
    BY <1>4 DEF CommitSaveMain, Owner, Commit
  <2> QED BY <2>1, CommitKeeps, WithRowFacts, RowFacts DEF Saving
<1>5. CASE CommitRestore
  <2>1. Commit(tx.graph, rows, tx.version) /\ tx.op = "restore"
    BY <1>5 DEF CommitRestore
  <2>2. tx.version \in spent \cup {"main"}
    BY <2>1 DEF VInv, InTx
  <2> QED BY <2>1, <2>2, CommitKeeps, RowFacts
<1>6. CASE CommitSetMain
  <2>1. /\ Commit(tx.graph, WithRow(Owner, Published), "main")
        /\ tx.op = "set_main" /\ tx.todo = {}
    BY <1>6 DEF CommitSetMain, Owner, Commit
  <2> QED BY <2>1, CommitKeeps, WithRowFacts, RowFacts DEF Saving
<1>7. CASE CommitDelete
  <2> DEFINE versions == WithoutRow(tx.version)
             uid == IF active = tx.version THEN "main" ELSE active
  <2>1. Commit(canvas, versions, uid) /\ tx.op = "delete"
    BY <1>7 DEF CommitDelete
  <2>2. /\ versions \in [DOMAIN versions -> Graphs]
        /\ DOMAIN versions \subseteq DOMAIN rows
        /\ \A v \in DOMAIN versions : versions[v] = rows[v]
    BY RowFacts DEF WithoutRow
  <2>3. uid \in spent \cup {"main"}
    BY RowFacts
  <2> HIDE DEF versions, uid
  <2> QED BY <2>1, <2>2, <2>3, CommitKeeps, RowFacts
<1>8. CASE CommitClear
  <2>1. Commit(EmptyGraph, <<>>, "main") /\ tx.op = "clear"
    BY <1>8 DEF CommitClear
  <2>2. DOMAIN <<>> = {} /\ <<>> \in [{} -> Graphs]
    OBVIOUS
  <2> QED BY <2>1, <2>2, CommitKeeps, EmptyGraphTypes
<1> QED BY <1>2, <1>3, <1>4, <1>5, <1>6, <1>7, <1>8 DEF CommitAny

LEMMA AbortKeeps == ASSUME VInv, Abort PROVE VInv'
<1>1. /\ live' = live /\ snaps' = snaps /\ canvas' = canvas /\ rows' = rows /\ active' = active
      /\ rev' = rev /\ gen' = gen /\ spent' = spent /\ uploads' = uploads /\ seen' = seen
      /\ removed' = removed /\ tx' = NoTx
  BY DEF Abort
<1>2. gen \in Nat
  BY VersionsAssumption DEF VInv, Types, VersionsTypeOK
<1>3. Types'
  <2>1. /\ tx' \in [op : Ops, version : AllVersions, graph : Graphs, back : SUBSET Files,
                    todo : SUBSET Files, gen : 0..gen']
        /\ tx'.todo = {} /\ tx'.op = "none"
    BY <1>1, <1>2, NoTxTypes
  <2>2. VersionsTypeOK'
    BY <1>1 DEF VInv, Types, VersionsTypeOK
  <2> QED BY <1>1, <2>1, <2>2 DEF VInv, Types
<1>4. \A g, ref : Readable(g, ref)' = Readable(g, ref)
  BY <1>1 DEF Readable
<1>5. (/\ \A v \in DOMAIN rows : AllReadable(rows[v])
       /\ \A g \in seen : AllReadable(g))'
  BY <1>1, <1>4 DEF VInv, Named, AllReadable
<1>6. (AllReadable(tx.graph) /\ InTx)'
  <2>1. gen' \in Nat /\ tx'.op = "none" /\ tx'.graph = EmptyGraph
    BY <1>1, <1>2, NoTxTypes
  <2>2. AllReadable(EmptyGraph)'
    BY <1>4, EmptyGraphTypes DEF AllReadable
  <2> QED BY <2>1, <2>2 DEF InTx, Saving, AllReadable
<1> QED BY <1>3, <1>5, <1>6 DEF VInv, Named

(* A step outside any request that gives the workspace another canvas. *)
LEMMA NewCanvasKeeps ==
    ASSUME VInv, tx = NoTx, rev < MaxRevision,
           UNCHANGED <<live, snaps, rows, tx, gen, spent, removed>>,
           canvas' \in Graphs, AllReadable(canvas'),
           active' \in spent \cup {"main"}, rev' = rev + 1, seen' = seen \cup {canvas'},
           uploads' \in [Users -> Uploads \cup {NoUpload}]
    PROVE  VInv'
<1>1. gen \in Nat /\ rev \in Nat /\ tx.op = "none" /\ tx.todo = {}
  BY NoTxTypes, VersionsAssumption DEF VInv, Types, VersionsTypeOK
<1>2. VersionsTypeOK'
  BY <1>1, VersionsAssumption DEF VInv, Types, VersionsTypeOK
<1>3. Types'
  BY <1>1, <1>2 DEF VInv, Types, Uploads, FilesIn
<1>4. \A g, ref : Readable(g, ref)' = Readable(g, ref)
  BY DEF Readable
<1>5. Named'
  BY <1>4 DEF VInv, Named, AllReadable
<1>6. InTx'
  BY <1>1 DEF InTx, Saving
<1> QED BY <1>3, <1>5, <1>6 DEF VInv

LEMMA SyncGraphKeeps ==
    ASSUME VInv, NEW graph \in seen, NEW uid \in spent \cup {"main"}, SyncGraph(graph, uid)
    PROVE  VInv'
<1>1. graph \in Graphs /\ AllReadable(graph) /\ seen = seen \cup {graph}
      /\ uploads \in [Users -> Uploads \cup {NoUpload}]
  BY DEF VInv, Types, VersionsTypeOK, Named
<1> QED BY <1>1, NewCanvasKeeps DEF SyncGraph

LEMMA FinishFileActionKeeps ==
    ASSUME VInv, NEW u \in Users, FinishFileAction(u) PROVE VInv'
<1>1. uploads' \in [Users -> Uploads \cup {NoUpload}] /\ tx = NoTx
      /\ UNCHANGED <<live, snaps, rows, active, tx, gen, spent, wiping, removed>>
  BY DEF FinishFileAction, VInv, Types
<1>2. CASE rev < MaxRevision /\ rev' = rev + 1 /\ seen' = seen \cup {canvas'}
           /\ canvas' = [canvas EXCEPT ![uploads[u].file] =
                           IF uploads[u].op = "upload" THEN Live ELSE Absent]
  <2>1. canvas \in Graphs /\ AllReadable(canvas) /\ active \in spent \cup {"main"}
    BY RowFacts
  <2>2. canvas' \in Graphs /\ \A f \in Files : canvas'[f] \in {canvas[f], Live, Absent}
    BY <1>2, <2>1 DEF Graphs
  <2>3. AllReadable(canvas')
    BY <2>1, <2>2 DEF AllReadable, Readable
  <2> QED BY <1>1, <1>2, <2>1, <2>2, <2>3, NewCanvasKeeps
<1>3. CASE UNCHANGED <<canvas, rev, seen>>
  <2>1. VersionsTypeOK'
    BY <1>1, <1>3 DEF VInv, Types, VersionsTypeOK
  <2>2. Types'
    BY <1>1, <1>3, <2>1 DEF VInv, Types, FilesIn, Uploads
  <2>3. Named'
    BY <1>1, <1>3 DEF VInv, Named, AllReadable, Readable
  <2> QED BY <1>1, <2>2, <2>3, NoTxInv DEF VInv, InTx, Promoted, RefsOf, Saving, FilesIn, Readable,
          NewRef, Owner, Read, ObjectOf
<1> QED BY <1>2, <1>3 DEF FinishFileAction
----------------------------------------------------------------------------
(* Steps outside the lock                                                   *)

LEMMA WipeFileKeeps == ASSUME VInv, NEW f \in Files, WipeFile(f) PROVE VInv'
<1>1. /\ live' = [live EXCEPT ![f] = Missing]
      /\ UNCHANGED <<snaps, canvas, rows, active, rev, tx, gen, spent, uploads, seen, removed>>
  BY DEF WipeFile
<1>2. Types'
  BY <1>1 DEF VInv, Types, VersionsTypeOK, FilesIn
<1>3. Named'
  BY <1>1 DEF VInv, Named, AllReadable, Readable
<1>4. (tx.op = "set_main" => \A g \in FilesIn(tx.graph) \ tx.todo : Promoted(g))'
  <2> SUFFICES ASSUME tx.op = "set_main", NEW g \in FilesIn(tx.graph) \ tx.todo
               PROVE  Promoted(g)'
    BY <1>1 DEF FilesIn
  <2>1. tx.graph[g] # Live /\ NewRef # Live
    BY VersionRefs, NewRefIsSnapshot DEF VInv, InTx
  <2> QED BY <1>1, <2>1 DEF VInv, InTx, Promoted, Read, NewRef, Owner, ObjectOf
<1> QED
  BY <1>1, <1>2, <1>3, <1>4 DEF VInv, InTx, RefsOf, FilesIn, Readable, NewRef, Owner, ObjectOf

LEMMA WipeSnapshotKeeps == ASSUME VInv, NEW o \in DOMAIN snaps, WipeSnapshot(o) PROVE VInv'
<1> DEFINE gone == [owner |-> o.owner, gen |-> o.gen]
<1>1. /\ live' = live /\ canvas' = canvas
      /\ rows' = rows /\ active' = active /\ rev' = rev /\ gen' = gen /\ spent' = spent
      /\ uploads' = uploads /\ seen' = seen /\ tx' = tx
      /\ removed' = removed \cup {gone}
      /\ DOMAIN snaps' = DOMAIN snaps \ {o}
      /\ \A p \in DOMAIN snaps \ {o} : snaps'[p] = snaps[p]
  BY DEF WipeSnapshot
<1>2. VersionsTypeOK'
  BY <1>1 DEF VInv, Types, VersionsTypeOK
<1>3. Types'
  BY <1>1, <1>2 DEF VInv, Types, FilesIn
<1>4. ASSUME NEW f, NEW ref, ref = [owner |-> ref.owner, gen |-> ref.gen], ObjectOf(f, ref) = o
      PROVE  ref = gone
  BY <1>4 DEF ObjectOf
<1>5. ASSUME NEW f, NEW ref, Readable(f, ref), ref = [owner |-> ref.owner, gen |-> ref.gen]
      PROVE  Readable(f, ref)'
  BY <1>1, <1>4, <1>5 DEF Readable, ObjectOf
<1>6. Named'
  <2>1. ASSUME NEW graph \in Graphs, AllReadable(graph) PROVE AllReadable(graph)'
    BY <1>5, <2>1, GraphRefs DEF AllReadable
  <2>2. /\ \A v \in DOMAIN rows : rows[v] \in Graphs
        /\ tx.graph \in Graphs /\ seen \subseteq Graphs
    BY DEF VInv, Types, VersionsTypeOK
  <2> QED BY <1>1, <2>1, <2>2 DEF VInv, Named
<1>7. FilesIn(tx.graph)' = FilesIn(tx.graph) /\ NewRef' = NewRef
      /\ \A v \in DOMAIN rows : FilesIn(rows[v])' = FilesIn(rows[v])
  BY <1>1 DEF FilesIn, NewRef, Owner
<1>8. NewRef = [owner |-> NewRef.owner, gen |-> NewRef.gen]
  BY DEF NewRef
<1>9. (tx.op = "set_main" => \A f \in FilesIn(tx.graph) \ tx.todo : Promoted(f))'
  <2> SUFFICES ASSUME tx.op = "set_main", NEW f \in FilesIn(tx.graph) \ tx.todo
               PROVE  Promoted(f)'
    BY <1>1, <1>7
  <2>1. Promoted(f) /\ tx.graph[f] # Live /\ NewRef # Live /\ f \in Files
    BY VersionRefs, NewRefIsSnapshot DEF VInv, InTx, FilesIn
  <2>2. PICK new, old : new = NewRef /\ old = tx.graph[f]
    OBVIOUS
  <2>3. CASE ObjectOf(f, new) = o
    <3>1. new = gone
      BY <1>4, <1>8, <2>2, <2>3
    <3> QED BY <1>1, <1>7, <2>2, <3>1 DEF Promoted
  <2>4. CASE ObjectOf(f, old) = o
    <3>1. Read(f, old)' = Missing
      BY <1>1, <2>1, <2>2, <2>4 DEF Read, ObjectOf
    <3> QED BY <1>1, <2>2, <3>1 DEF Promoted, Read, ObjectOf
  <2>5. CASE ObjectOf(f, new) # o /\ ObjectOf(f, old) # o
    <3>1. Read(f, new)' = Read(f, new) /\ Read(f, old)' = Read(f, old)
      BY <1>1, <2>1, <2>2, <2>5 DEF Read, ObjectOf
    <3> QED BY <1>1, <1>7, <2>1, <2>2, <3>1 DEF Promoted, Read, ObjectOf
  <2> QED BY <2>3, <2>4, <2>5
<1>10. (tx.op \in Saving => \A f \in FilesIn(tx.graph) \ tx.todo : Readable(f, NewRef))'
  BY <1>1, <1>5, <1>7, <1>8 DEF VInv, InTx
<1> HIDE DEF gone
<1>11. InTx'
  BY <1>1, <1>7, <1>9, <1>10 DEF VInv, InTx, RefsOf
<1> QED BY <1>3, <1>6, <1>11 DEF VInv

LEMMA EndWipeKeeps == ASSUME VInv, EndWipe PROVE VInv'
BY DEF EndWipe, VInv, Types, VersionsTypeOK, Named, AllReadable, Readable, InTx, Promoted, RefsOf,
   FilesIn, NewRef, Owner, Read, ObjectOf

LEMMA BeginFileActionKeeps ==
    ASSUME VInv, NEW u \in Users, NEW op \in {"upload", "remove"}, NEW f \in Files,
           NEW c \in Contents \cup {Missing}, BeginFileAction(u, op, f, c)
    PROVE  VInv'
<1>1. tx = NoTx /\ tx' = NoTx
      /\ UNCHANGED <<live, snaps, canvas, rows, active, rev, gen, spent, seen, removed>>
      /\ uploads' = [uploads EXCEPT ![u] =
                       [op |-> op, file |-> f, content |-> c, expected |-> rev, stored |-> FALSE]]
  BY DEF BeginFileAction
<1>2. VersionsTypeOK'
  BY <1>1 DEF VInv, Types, VersionsTypeOK
<1>3. uploads' \in [Users -> Uploads \cup {NoUpload}]
  <2>1. rev \in Nat
    BY DEF VInv, Types, VersionsTypeOK
  <2>2. [op |-> op, file |-> f, content |-> c, expected |-> rev, stored |-> FALSE] \in Uploads
    BY <2>1 DEF Uploads
  <2> QED BY <1>1, <2>2 DEF VInv, Types
<1>4. Types'
  BY <1>1, <1>2, <1>3 DEF VInv, Types, FilesIn
<1>5. Named'
  BY <1>1 DEF VInv, Named, AllReadable, Readable
<1>6. InTx'
  <2>1. gen \in Nat
    BY <1>1, VersionsAssumption DEF VInv, Types, VersionsTypeOK
  <2>2. tx'.op = "none"
    BY <1>1, <2>1, NoTxTypes
  <2> QED BY <2>2 DEF InTx, Saving
<1> QED BY <1>4, <1>5, <1>6 DEF VInv

LEMMA StoreObjectKeeps ==
    ASSUME VInv, NEW u \in Users, StoreObject(u) PROVE VInv'
<1>1. /\ UNCHANGED <<snaps, canvas, rows, active, rev, tx, gen, spent, seen, removed>>
      /\ live' = [live EXCEPT ![uploads[u].file] = uploads[u].content]
      /\ uploads' = [uploads EXCEPT ![u].stored = TRUE]
      /\ uploads[u] \in Uploads
  BY DEF StoreObject, VInv, Types
<1>2. VersionsTypeOK'
  BY <1>1 DEF VInv, Types, VersionsTypeOK, Uploads
<1>3. uploads' \in [Users -> Uploads \cup {NoUpload}]
  <2>1. [uploads[u] EXCEPT !.stored = TRUE] \in Uploads
    BY <1>1 DEF Uploads
  <2> QED BY <1>1, <2>1 DEF VInv, Types
<1>4. Types'
  BY <1>1, <1>2, <1>3 DEF VInv, Types, FilesIn
<1>5. Named'
  BY <1>1 DEF VInv, Named, AllReadable, Readable
<1>6. FilesIn(tx.graph)' = FilesIn(tx.graph) /\ NewRef' = NewRef
      /\ \A v \in DOMAIN rows : FilesIn(rows[v])' = FilesIn(rows[v])
  BY <1>1 DEF FilesIn, NewRef, Owner
<1>7. (tx.op = "set_main" =>
         \A f \in FilesIn(tx.graph) \ tx.todo : Promoted(f))'
  <2> SUFFICES ASSUME tx.op = "set_main", NEW f \in FilesIn(tx.graph) \ tx.todo
               PROVE  Promoted(f)'
    BY <1>1, <1>6
  <2>1. tx.graph[f] # Live /\ NewRef # Live
    BY VersionRefs, NewRefIsSnapshot DEF VInv, InTx
  <2>2. Promoted(f)
    BY DEF VInv, InTx
  <2> QED BY <1>1, <1>6, <2>1, <2>2 DEF Promoted, Read, ObjectOf
<1>8. InTx'
  <2>1. \A g : Readable(g, NewRef)' = Readable(g, NewRef)
    BY <1>1, <1>6 DEF Readable
  <2> QED BY <1>1, <1>6, <1>7, <2>1 DEF VInv, InTx, RefsOf
<1> QED BY <1>4, <1>5, <1>8 DEF VInv

LEMMA StutterKeeps == ASSUME VInv, UNCHANGED vars PROVE VInv'
BY DEF vars, VInv, Types, VersionsTypeOK, Named, AllReadable, Readable, InTx, Promoted, RefsOf,
    FilesIn, NewRef, Owner, Read, ObjectOf

----------------------------------------------------------------------------
(* The steps of Next, as the lemmas above name them. *)
LEMMA NextCases ==
    ASSUME Next
    PROVE  \/ \E graph \in seen, v \in AllVersions :
                \/ v \in Versions /\ BeginSave(v, graph)
                \/ BeginSaveActive(v, graph) \/ BeginSaveMain(graph)
           \/ \E v \in AllVersions :
                BeginRestore(v) \/ BeginSetMain(v) \/ BeginDelete(v) \/ BeginClear
           \/ \E graph \in seen, uid \in spent \cup {"main"} : SyncGraph(graph, uid)
           \/ \E f \in Files : CopyBack(f) \/ CopySnapshot(f)
           \/ \E o \in DOMAIN snaps : RemoveObject(o)
           \/ CommitAny \/ Abort
           \/ \E f \in Files : WipeFile(f)
           \/ \E o \in DOMAIN snaps : WipeSnapshot(o)
           \/ EndWipe
           \/ \E u \in Users, f \in Files, op \in {"upload", "remove"},
                 c \in Contents \cup {Missing} : BeginFileAction(u, op, f, c)
           \/ \E u \in Users : StoreObject(u) \/ FinishFileAction(u)
BY DEF Next, CommitAny, AllVersions

LEMMA VInvNext == ASSUME VInv, [Next]_vars PROVE VInv'
<1>1. CASE Next
  <2>1. ASSUME NEW graph \in seen, NEW v \in AllVersions,
               \/ v \in Versions /\ BeginSave(v, graph)
               \/ BeginSaveActive(v, graph) \/ BeginSaveMain(graph)
        PROVE  VInv'
    BY <2>1, RequestsBegin
  <2>2. ASSUME NEW v \in AllVersions,
               BeginRestore(v) \/ BeginSetMain(v) \/ BeginDelete(v) \/ BeginClear
        PROVE  VInv'
    BY <2>2, VersionRequestsBegin
  <2>3. ASSUME NEW u \in Users, StoreObject(u) \/ FinishFileAction(u) PROVE VInv'
    BY <2>3, StoreObjectKeeps, FinishFileActionKeeps
  <2>4. ASSUME NEW f \in Files, CopyBack(f) \/ CopySnapshot(f) PROVE VInv'
    BY <2>4, CopyBackKeeps, CopySnapshotKeeps
  <2> QED BY <1>1, <2>1, <2>2, <2>3, <2>4, NextCases, SyncGraphKeeps, RemoveObjectKeeps,
          CommitsKeep, AbortKeeps, WipeFileKeeps, WipeSnapshotKeeps, EndWipeKeeps,
          BeginFileActionKeeps
<1>2. CASE UNCHANGED vars
  BY <1>2, StutterKeeps
<1> QED BY <1>1, <1>2

LEMMA VInvAlways == Spec => []VInv
BY VInvInit, VInvNext, PTL DEF Spec

(* What the variables hold. *)
THEOREM VersionsTypeCorrect == Spec => []VersionsTypeOK
<1>1. VInv => VersionsTypeOK
  BY DEF VInv, Types
<1> QED BY <1>1, VInvAlways, PTL

(* What a version or the canvas names can be read until it is given up: a   *)
(* version is published after its last copy only, and every request that    *)
(* removes objects has given up their references before.                    *)
THEOREM NamedFilesReadableHolds == Spec => []NamedFilesReadable
<1>1. VInv => NamedFilesReadable
  <2> SUFFICES ASSUME VInv, NEW f \in Files,
                      NEW ref \in ({rows[v][f] : v \in DOMAIN rows} \cup {canvas[f]})
                                    \ ({Absent, Live} \cup removed)
               PROVE  Read(f, ref) # Missing
    BY DEF NamedFilesReadable
  <2>1. Readable(f, ref)
    BY DEF VInv, Named, AllReadable, Types
  <2>2. ObjectOf(f, ref) \in DOMAIN snaps /\ ref # Live
    BY <2>1 DEF Readable
  <2>3. snaps[ObjectOf(f, ref)] \in Contents
    BY <2>2 DEF VInv, Types, VersionsTypeOK
  <2> QED BY <2>2, <2>3, VersionsAssumption DEF Read, Missing
<1> QED BY <1>1, VInvAlways, PTL
LEMMA SnapshotSteps ==
    ASSUME [Next]_vars
    PROVE  \/ UNCHANGED snaps
           \/ \E f \in Files : CopySnapshot(f)
           \/ \E o \in Doomed : RemoveObject(o)
           \/ \E o \in DOMAIN snaps : WipeSnapshot(o)
BY DEF Next, vars, BeginSave, BeginSaveActive, BeginSaveMain, BeginRestore, BeginSetMain,
    BeginDelete, BeginClear, Begin, SyncGraph, CopyBack, RemoveObject, CommitSave,
    CommitSaveActive, CommitSaveMain, CommitRestore, CommitSetMain, CommitDelete, CommitClear,
    Commit, Abort, WipeFile, EndWipe, BeginFileAction, StoreObject, FinishFileAction

(* No step touches the object of a version that stands: a copy has a        *)
(* generation no version names, and what is removed was given up.           *)
LEMMA ReadKept ==
    ASSUME VInv, [Next]_vars, NEW v \in DOMAIN rows, NEW f \in FilesIn(rows[v]),
           NEW ref, ref = rows[v][f], ref \notin removed'
    PROVE  Read(f, ref)' = Read(f, ref)
<1>1. /\ ref \in [owner : {v}, gen : 1..gen] /\ v \in AllVersions /\ ref # Live
      /\ gen \in Nat /\ ref = [owner |-> ref.owner, gen |-> ref.gen] /\ f \in Files
  BY VersionRefs, VersionsAssumption DEF VInv, Types, VersionsTypeOK, FilesIn
<1>2. CASE UNCHANGED snaps
  BY <1>1, <1>2 DEF Read, ObjectOf
<1>3. CASE \E g \in Files : CopySnapshot(g)
  <2>1. PICK g \in Files : CopySnapshot(g)
    BY <1>3
  <2>2. /\ g \in tx.todo /\ DOMAIN snaps' = DOMAIN snaps \cup {ObjectOf(g, NewRef)}
        /\ \A o \in DOMAIN snaps : o # ObjectOf(g, NewRef) => snaps'[o] = snaps[o]
    BY <2>1 DEF CopySnapshot, Copy
  <2>3. tx.op \in Saving /\ FilesIn(tx.graph) # {} /\ tx.gen \in Nat
    BY <1>1, <2>2 DEF VInv, Types
  <2>4. ref.gen < tx.gen
    BY <2>3 DEF VInv, InTx
  <2>5. ObjectOf(f, ref) # ObjectOf(g, NewRef)
    BY <1>1, <2>3, <2>4 DEF ObjectOf, NewRef
  <2> QED BY <1>1, <2>2, <2>5 DEF Read, ObjectOf
<1>4. CASE \E o \in Doomed : RemoveObject(o)
  <2>1. PICK o \in Doomed : RemoveObject(o)
    BY <1>4
  <2>2. /\ DOMAIN snaps' = DOMAIN snaps \ {o} /\ removed' = removed
        /\ \A p \in DOMAIN snaps \ {o} : snaps'[p] = snaps[p]
    BY <2>1 DEF RemoveObject
  <2>3. [owner |-> o.owner, gen |-> o.gen] \in removed
    BY DoomedRemoved
  <2>4. ObjectOf(f, ref) # o
    BY <1>1, <2>2, <2>3 DEF ObjectOf
  <2> QED BY <1>1, <2>2, <2>4 DEF Read, ObjectOf
<1>5. CASE \E o \in DOMAIN snaps : WipeSnapshot(o)
  <2>1. PICK o \in DOMAIN snaps : WipeSnapshot(o)
    BY <1>5
  <2>2. /\ DOMAIN snaps' = DOMAIN snaps \ {o}
        /\ removed' = removed \cup {[owner |-> o.owner, gen |-> o.gen]}
        /\ \A p \in DOMAIN snaps \ {o} : snaps'[p] = snaps[p]
    BY <2>1 DEF WipeSnapshot
  <2>3. ObjectOf(f, ref) # o
    BY <1>1, <2>2 DEF ObjectOf
  <2> QED BY <1>1, <2>2, <2>3 DEF Read, ObjectOf
<1> QED BY <1>2, <1>3, <1>4, <1>5, SnapshotSteps

(* The bytes of a version stay until it is saved again or given up.         *)
THEOREM VersionsKeptHolds == Spec => VersionsKept
<1>1. VInv /\ [Next]_vars =>
        [\A v \in DOMAIN rows \cap DOMAIN rows' : rows'[v] = rows[v] =>
           \A f \in FilesIn(rows[v]) : rows[v][f] \notin removed' =>
             InVersion(v, f)' = InVersion(v, f)]_vars
  <2> SUFFICES ASSUME VInv, [Next]_vars,
                      NEW v \in DOMAIN rows \cap DOMAIN rows', rows'[v] = rows[v],
                      NEW f \in FilesIn(rows[v]), rows[v][f] \notin removed'
               PROVE  InVersion(v, f)' = InVersion(v, f)
    OBVIOUS
  <2> DEFINE ref == rows[v][f]
  <2>1. PICK r : r = ref
    OBVIOUS
  <2>2. Read(f, r)' = Read(f, r)
    BY <2>1, ReadKept
  <2> QED BY <2>1, <2>2 DEF InVersion, Read, ObjectOf
<1> QED BY <1>1, VInvAlways, PTL DEF Spec, VersionsKept

(* Only a commit ends a request with a new revision. *)
LEMMA CommitSteps ==
    ASSUME VInv, [Next]_vars, tx.op # "none", rev' = rev + 1
    PROVE  CommitAny
<1>1. tx # NoTx /\ rev \in Nat
  BY DEF NoTx, VInv, Types, VersionsTypeOK
<1>2. rev' # rev
  BY <1>1
<1> QED BY <1>1, <1>2 DEF CommitAny, Next, vars, BeginSave, BeginSaveActive, BeginSaveMain,
    BeginRestore, BeginSetMain, BeginDelete, BeginClear, Begin, SyncGraph, CopyBack,
    CopySnapshot, Copy, RemoveObject, Abort, WipeFile, WipeSnapshot, EndWipe, BeginFileAction, StoreObject,
    FinishFileAction

(* Restoring a version puts its bytes on the canvas, promoting it puts them *)
(* into Main too, whatever happens to the live objects meanwhile.           *)
THEOREM RestoredExactlyHolds == Spec => RestoredExactly
<1>1. ASSUME VInv, [Next]_vars, NEW v \in DOMAIN rows,
             tx.op \in {"restore", "set_main"}, tx.version = v, rev' = rev + 1,
             NEW f \in FilesIn(rows[v])
      PROVE  /\ OnCanvas(f)' = InVersion(v, f)
             /\ tx.op = "set_main" /\ InVersion(v, f) # Missing /\ rows'["main"][f] \notin removed
                  => InVersion("main", f)' = InVersion(v, f)
  <2>1. tx.graph = rows[v] /\ f \in Files /\ rows[v][f] # Live
    BY <1>1, VersionRefs DEF VInv, InTx, FilesIn
  <2>2. CommitRestore \/ CommitSetMain
    BY <1>1, CommitSteps DEF CommitAny, CommitSave, CommitSaveActive, CommitSaveMain,
       CommitDelete, CommitClear
  <2>3. canvas' = rows[v] /\ live' = live /\ snaps' = snaps
    BY <2>1, <2>2 DEF CommitRestore, CommitSetMain, Commit
  <2>4. OnCanvas(f)' = InVersion(v, f)
    BY <2>1, <2>3 DEF OnCanvas, InVersion, Read, ObjectOf
  <2>5. ASSUME tx.op = "set_main", InVersion(v, f) # Missing, rows'["main"][f] \notin removed
        PROVE  InVersion("main", f)' = InVersion(v, f)
    <3>1. CommitSetMain
      BY <2>2, <2>5 DEF CommitRestore
    <3>2. rows' = WithRow("main", Published) /\ tx.todo = {}
      BY <3>1 DEF CommitSetMain, Commit
    <3>3. rows'["main"][f] = NewRef
      BY <2>1, <3>2 DEF WithRow, Published, FilesIn
    <3>4. Read(f, NewRef) = Read(f, rows[v][f])
      <4>1. Promoted(f)
        BY <1>1, <2>1, <2>5, <3>2 DEF VInv, InTx, FilesIn
      <4>2. PICK ref : ref = rows[v][f]
        OBVIOUS
      <4>3. InVersion(v, f) = Read(f, ref)
        BY <4>2 DEF InVersion
      <4> QED BY <2>1, <2>5, <3>3, <4>1, <4>2, <4>3 DEF Promoted
    <3>5. PICK ref : ref = NewRef
      OBVIOUS
    <3>6. Read(f, ref)' = Read(f, ref)
      BY <2>3 DEF Read, ObjectOf
    <3> QED BY <3>3, <3>4, <3>5, <3>6 DEF InVersion, Read, ObjectOf
  <2> QED BY <2>4, <2>5
<1>2. VInv /\ [Next]_vars =>
        [\A v \in DOMAIN rows :
           /\ tx.op \in {"restore", "set_main"} /\ tx.version = v /\ rev' = rev + 1
           => \A f \in FilesIn(rows[v]) :
                /\ OnCanvas(f)' = InVersion(v, f)
                /\ tx.op = "set_main" /\ InVersion(v, f) # Missing /\ rows'["main"][f] \notin removed
                     => InVersion("main", f)' = InVersion(v, f)]_vars
  BY <1>1
<1> QED BY <1>2, VInvAlways, PTL DEF Spec, RestoredExactly
=============================================================================

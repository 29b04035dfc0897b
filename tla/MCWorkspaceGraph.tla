------------------------- MODULE MCWorkspaceGraph -------------------------
(* What writes the graph of a workspace: versions and files, or design      *)
(* turns.  Each module abstracts the graph to what its properties are       *)
(* about; a behaviour is one of the one or of the other.                    *)
EXTENDS WorkspaceVersions, MCDesignTurns

CONSTANTS f1, f2, v1, v2, u1, a, b

VARIABLE writers

MCVars == <<vars, turnVars, writers>>

(* Bound: two files, two contents and two versions, of which a behaviour    *)
(* has two of one kind at a time: two files, so that a copy can fail half   *)
(* way; two contents, so that a file can change under a copy; two versions, *)
(* so that one is deleted while the other, or the canvas, was made from it. *)
FilesUsed ==
    {f \in Files : live[f] # Missing \/ OnCanvas(f) # Missing}
      \cup {uploads[u].file : u \in {w \in Users : uploads[w] # NoUpload}}
ContentsUsed ==
    ({live[f] : f \in Files} \cup {snaps[o] : o \in DOMAIN snaps}
      \cup {uploads[u].content : u \in {w \in Users : uploads[w] # NoUpload}}) \ {Missing}
MCBound ==
    Cardinality({s \in {FilesUsed, ContentsUsed, spent} : Cardinality(s) > 1}) <= 1

MCSymmetry == Permutations(Files) \cup Permutations(Versions) \cup Permutations(Contents)

MCInit == Init /\ TurnsInit /\ writers \in {"versions", "turns"}
MCNext ==
    \/ writers = "versions" /\ Next /\ UNCHANGED <<turnVars, writers>>
    \/ writers = "turns" /\ MCTurnsNext /\ UNCHANGED <<vars, writers>>
MCSpec == MCInit /\ [][MCNext]_MCVars
=============================================================================

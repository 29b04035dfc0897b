--------------------------- MODULE MCPipelineRuns ---------------------------
(* Instances of PipelineRuns for TLC.  The service is one server and every  *)
(* run has the same bundle; ExecutionReceipts is checked on its own with    *)
(* several of each.                                                         *)
EXTENDS PipelineRuns, TLC

CONSTANTS p1, p2, r1, r2, s1

MCOwnKey == [r \in Runs |-> r]       \* every submission has its own key
MCSharedKey == [r \in Runs |-> "k"]  \* the submissions repeat one key

(* Replicas are interchangeable, and runs are: both maps of keys treat all  *)
(* runs alike.                                                              *)
MCSymmetry == Permutations(Replicas) \cup Permutations(Runs)
=============================================================================

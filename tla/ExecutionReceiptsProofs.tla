---------------------- MODULE ExecutionReceiptsProofs ----------------------
(***************************************************************************)
(* Proofs about ExecutionReceipts, for any servers, executions, bundles and *)
(* queue length.  NoReplay and ReceiptsAreFinal are not inductive: both     *)
(* need to know that an execution without a row has had no worker, that one *)
(* with a result has none any more (if commits are acknowledged), and that  *)
(* it has one worker at most.                                               *)
(***************************************************************************)
EXTENDS ExecutionReceipts, TLAPS

Untouched(e) ==
    /\ started[e] = 0
    /\ bundle[e] = NoBundle
    /\ \A s \in Servers : e \notin working[s]

OneWorker(e) ==
    /\ started[e] \in {0, 1}
    /\ \A s, t \in Servers : e \in working[s] /\ e \in working[t] => s = t

ReceiptsInv ==
    /\ ReceiptsTypeOK
    /\ \A e \in Executions :
          /\ receipt[e] = "absent" => Untouched(e)
          /\ OneWorker(e)
          /\ Acknowledged /\ receipt[e] \in Completed =>
                \A s \in Servers : e \notin working[s]

(* A submission that is accepted touches an execution nobody touched. *)
LEMMA SubmitKeeps ==
    ASSUME ReceiptsInv, NEW s \in Servers, NEW e \in Executions, NEW b \in Bundles,
           Submit(s, e, b)
    PROVE  ReceiptsInv'
<1> USE DEF ReceiptsInv, ReceiptsTypeOK, Completed, Untouched, OneWorker
<1>1. /\ receipt[e] = "absent"
      /\ receipt' = [receipt EXCEPT ![e] = "running"]
      /\ bundle' = [bundle EXCEPT ![e] = b]
      /\ working' = [working EXCEPT ![s] = working[s] \cup {e}]
      /\ started' = [started EXCEPT ![e] = started[e] + 1]
  BY DEF Submit, Fresh, StartWorker
<1>2. started[e] = 0 /\ \A t \in Servers : e \notin working[t]
  BY <1>1
<1>3. ReceiptsTypeOK'
  <2>1. working' \in [Servers -> SUBSET Executions]
    BY <1>1
  <2>2. started' \in [Executions -> Nat]
    BY <1>1, <1>2
  <2> QED BY <1>1, <2>1, <2>2
<1>4. ASSUME NEW f \in Executions
      PROVE  /\ (receipt[f] = "absent" => Untouched(f))'
             /\ OneWorker(f)'
             /\ (Acknowledged /\ receipt[f] \in Completed =>
                   \A t \in Servers : f \notin working[t])'
  <2>1. CASE f = e
    <3>1. started'[e] = 1 /\ receipt'[e] = "running"
      BY <1>1, <1>2
    <3>2. \A t \in Servers : e \in working'[t] => t = s
      BY <1>1, <1>2
    <3> QED BY <2>1, <3>1, <3>2
  <2>2. CASE f # e
    <3>1. /\ receipt'[f] = receipt[f] /\ bundle'[f] = bundle[f] /\ started'[f] = started[f]
          /\ \A t \in Servers : f \in working'[t] <=> f \in working[t]
      BY <1>1, <2>2
    <3> QED BY <3>1
  <2> QED BY <2>1, <2>2
<1> QED BY <1>3, <1>4

(* A step of the service takes workers away; only the worker of an          *)
(* execution stores its result, and then it is gone.                        *)
LEMMA ServiceKeeps ==
    ASSUME ReceiptsInv, ServiceStep
    PROVE  ReceiptsInv'
<1> USE DEF ReceiptsInv, ReceiptsTypeOK, Completed, Untouched, OneWorker
<1>1. ASSUME NEW s \in Servers, NEW e \in Executions, NEW result \in Completed,
             Complete(s, e, result)
      PROVE  ReceiptsInv'
  <2>1. /\ e \in working[s]
        /\ receipt' = [receipt EXCEPT ![e] = result]
        /\ working' = [working EXCEPT ![s] = working[s] \ {e}]
        /\ bundle' = bundle /\ started' = started
    BY <1>1 DEF Complete, StoreResult
  <2>2. ReceiptsTypeOK'
    <3>1. working' \in [Servers -> SUBSET Executions]
      BY <2>1
    <3> QED BY <2>1, <3>1
  <2>3. \A t \in Servers, f \in Executions : f \in working'[t] => f \in working[t]
    BY <2>1
  <2>4. \A t \in Servers : e \notin working'[t]
    BY <2>1
  <2>5. \A f \in Executions : f # e => receipt'[f] = receipt[f]
    BY <2>1
  <2>6. receipt'[e] # "absent"
    BY <2>1
  <2> QED BY <2>1, <2>2, <2>3, <2>4, <2>5, <2>6
<1>2. ASSUME NEW s \in Servers, NEW e \in Executions, CompleteUnrecorded(s, e)
      PROVE  ReceiptsInv'
  <2>1. working' \in [Servers -> SUBSET Executions]
    BY <1>2 DEF CompleteUnrecorded
  <2>2. \A t \in Servers, f \in Executions : f \in working'[t] => f \in working[t]
    BY <1>2 DEF CompleteUnrecorded
  <2>3. receipt' = receipt /\ bundle' = bundle /\ started' = started
    BY <1>2 DEF CompleteUnrecorded
  <2> QED BY <2>1, <2>2, <2>3
<1>3. ASSUME NEW e \in Executions, PassDeadline(e)
      PROVE  ReceiptsInv'
  BY <1>3 DEF PassDeadline
<1>4. ASSUME NEW s \in Servers, ServerCrash(s)
      PROVE  ReceiptsInv'
  <2>1. working' \in [Servers -> SUBSET Executions]
    BY <1>4 DEF ServerCrash
  <2>2. \A t \in Servers, f \in Executions : f \in working'[t] => f \in working[t]
    BY <1>4 DEF ServerCrash
  <2>3. receipt' = receipt /\ bundle' = bundle /\ started' = started
    BY <1>4 DEF ServerCrash
  <2> QED BY <2>1, <2>2, <2>3
<1>5. ASSUME NEW s \in Servers, NEW e \in Executions, NEW result \in Completed,
             CompleteUnanswered(s, e, result)
      PROVE  ReceiptsInv'
  <2>1. /\ ~Acknowledged /\ e \in working[s]
        /\ receipt' = [receipt EXCEPT ![e] = result]
        /\ working' = working /\ bundle' = bundle /\ started' = started
    BY <1>5 DEF CompleteUnanswered, StoreResult
  <2>2. receipt'[e] # "absent" /\ \A f \in Executions : f # e => receipt'[f] = receipt[f]
    BY <2>1
  <2> QED BY <2>1, <2>2
<1> QED BY <1>1, <1>2, <1>3, <1>4, <1>5 DEF ServiceStep

LEMMA ReceiptsInvInitially == ReceiptsInit => ReceiptsInv
BY DEF ReceiptsInit, ReceiptsInv, ReceiptsTypeOK, Completed, Untouched, OneWorker

LEMMA ReceiptsInvKept == ReceiptsInv /\ [ReceiptsNext]_receiptVars => ReceiptsInv'
<1> SUFFICES ASSUME ReceiptsInv, [ReceiptsNext]_receiptVars PROVE ReceiptsInv'
  OBVIOUS
<1>1. CASE ReceiptsNext
  BY <1>1, SubmitKeeps, ServiceKeeps DEF ReceiptsNext
<1>2. CASE UNCHANGED receiptVars
  BY <1>2 DEF receiptVars, ReceiptsInv, ReceiptsTypeOK, Completed, Untouched, OneWorker
<1> QED BY <1>1, <1>2

LEMMA ReceiptsInvariant == ReceiptsSpec => []ReceiptsInv
BY ReceiptsInvInitially, ReceiptsInvKept, PTL DEF ReceiptsSpec

(* The variables of the execution service keep their types. *)
THEOREM ReceiptsTypeCorrect == ReceiptsSpec => []ReceiptsTypeOK
<1>1. ReceiptsInv => ReceiptsTypeOK
  BY DEF ReceiptsInv
<1> QED BY <1>1, ReceiptsInvariant, PTL

(* However often and wherever an execution is submitted, one worker starts. *)
THEOREM NoReplayHolds == ReceiptsSpec => []NoReplay
<1>1. ReceiptsInv => NoReplay
  BY DEF ReceiptsInv, OneWorker, NoReplay
<1> QED BY <1>1, ReceiptsInvariant, PTL

(* No step replaces a settled result or rebinds an execution, in this system *)
(* or in one that makes these steps among others.                           *)
LEMMA StepKeepsResults ==
    ASSUME ReceiptsInv, [ReceiptsNext]_receiptVars, NEW f \in Executions
    PROVE  Kept(f)
<1> USE DEF ReceiptsInv, ReceiptsTypeOK, Completed, Untouched, Kept, Settled
<1>1. ASSUME NEW s \in Servers, NEW e \in Executions, NEW b \in Bundles, Submit(s, e, b)
      PROVE  Kept(f)
  <2>1. receipt[e] = "absent" /\ bundle[e] = NoBundle
    BY <1>1 DEF Submit, Fresh
  <2> QED BY <1>1, <2>1 DEF Submit
<1>2. ASSUME NEW s \in Servers, NEW e \in Executions, NEW result \in Completed,
             Complete(s, e, result) \/ CompleteUnanswered(s, e, result)
      PROVE  Kept(f)
  <2>1. ~Settled(e)
    BY <1>2 DEF Complete, CompleteUnanswered, StoreResult
  <2> QED BY <1>2, <2>1 DEF Complete, CompleteUnanswered, StoreResult
<1>3. ASSUME NEW s \in Servers, NEW e \in Executions, CompleteUnrecorded(s, e)
      PROVE  Kept(f)
  BY <1>3 DEF CompleteUnrecorded
<1>4. ASSUME NEW e \in Executions, PassDeadline(e)
      PROVE  Kept(f)
  BY <1>4 DEF PassDeadline
<1>5. ASSUME NEW s \in Servers, ServerCrash(s)
      PROVE  Kept(f)
  BY <1>5 DEF ServerCrash
<1>6. CASE UNCHANGED receiptVars
  BY <1>6 DEF receiptVars
<1> QED BY <1>1, <1>2, <1>3, <1>4, <1>5, <1>6 DEF ReceiptsNext, ServiceStep

(* No step replaces a settled result or the bundle of an execution. *)
THEOREM ReceiptsAreFinalHolds == ReceiptsSpec => ReceiptsAreFinal
<1>1. ASSUME ReceiptsInv, [ReceiptsNext]_receiptVars
      PROVE  [\A e \in Executions : Kept(e)]_receiptVars
  <2>1. \A e \in Executions : Kept(e)
    BY <1>1, StepKeepsResults
  <2> QED BY <2>1
<1> QED BY <1>1, ReceiptsInvariant, PTL DEF ReceiptsSpec, ReceiptsAreFinal

=============================================================================

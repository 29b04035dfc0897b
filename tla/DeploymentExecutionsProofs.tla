--------------------- MODULE DeploymentExecutionsProofs ---------------------
(***************************************************************************)
(* Proofs about DeploymentExecutions, for any servers, executions, bundles, *)
(* wants and limits.  What is proved of the receipts alone and of the queue *)
(* alone carries over to their composition, in which a restart empties the  *)
(* queue; HeldByWork needs both, and that a server has a task for exactly   *)
(* the executions that are under way in its memory.                         *)
(***************************************************************************)
EXTENDS DeploymentExecutions, ExecutionReceiptsProofs, ResourceAdmissionProofs,
        FiniteSetTheorems

Housed == \A e \in Executions : e \in working[Here] <=> pc[e] \notin {"new", "done"}

WithinLimit ==
    /\ IsFiniteSet(working[Here])
    /\ Cardinality(working[Here]) <= PendingLimit

ServiceInv == ReceiptsInv /\ AdmissionInv /\ Housed /\ WithinLimit

----------------------------------------------------------------------------
(* The composition implements the receipts *)

LEMMA ServiceStepImplements == [ServiceNext]_serviceVars => [ReceiptsNext]_receiptVars
<1> USE HereAssumption
<1>1. ASSUME NEW e \in Executions,
             \/ \E b \in Bundles : SubmitHere(e, b)
             \/ Thread(e) \/ Conclude(e) \/ ConcludeUnanswered(e)
             \/ DeleteRequest(e) \/ TimeLimit(e)
      PROVE  [ReceiptsNext]_receiptVars
  <2>1. \A b \in Bundles : SubmitHere(e, b) => ReceiptsNext
    BY DEF SubmitHere, ReceiptsNext
  <2>2. Conclude(e) \/ ConcludeUnanswered(e) => ReceiptsNext
    BY DEF Conclude, ConcludeUnanswered, Results, ReceiptsNext, ServiceStep, Completed
  <2>3. Thread(e) \/ DeleteRequest(e) \/ TimeLimit(e) => UNCHANGED receiptVars
    BY DEF Thread, DeleteRequest, TimeLimit
  <2> QED BY <1>1, <2>1, <2>2, <2>3
<1>2. Restart => ReceiptsNext
  BY DEF Restart, ReceiptsNext, ServiceStep
<1>3. Elsewhere => ReceiptsNext
  BY DEF Elsewhere, ReceiptsNext, ServiceStep
<1>4. UNCHANGED serviceVars => UNCHANGED receiptVars
  BY DEF serviceVars
<1> QED BY <1>1, <1>2, <1>3, <1>4 DEF ServiceNext

(* The endpoint with its queue and its threads implements the receipts.     *)
THEOREM ServiceImplementsReceipts == ServiceSpec => ReceiptsSpec
<1>1. ServiceInit => ReceiptsInit
  BY DEF ServiceInit
<1> QED BY <1>1, ServiceStepImplements, PTL DEF ServiceSpec, ReceiptsSpec

(* However often an execution is submitted and whatever its server forgets  *)
(* in a crash, one worker starts for it.                                    *)
THEOREM ServiceNoReplay == ServiceSpec => []NoReplay
BY ServiceImplementsReceipts, NoReplayHolds, PTL

(* A settled result stays as it is through the restarts of its server, whose *)
(* lost workers might have finished, and beside those of other servers.      *)
THEOREM ServiceReceiptsAreFinal == ServiceSpec => ReceiptsAreFinal
BY ServiceImplementsReceipts, ReceiptsAreFinalHolds, PTL

----------------------------------------------------------------------------
(* The invariant *)

LEMMA ServiceInvInitially == ServiceInit => ServiceInv
<1> SUFFICES ASSUME ServiceInit PROVE ServiceInv
  OBVIOUS
<1>1. ReceiptsInv /\ AdmissionInv
  BY ReceiptsInvInitially, AdmissionInvInitially DEF ServiceInit
<1>2. working[Here] = {}
  BY HereAssumption DEF ServiceInit, ReceiptsInit
<1>3. Housed
  BY <1>2, HereAssumption DEF ServiceInit, Init, Housed
<1>4. WithinLimit
  BY <1>2, FS_EmptySet, ReceiptAssumption DEF WithinLimit
<1> QED BY <1>1, <1>3, <1>4 DEF ServiceInv

LEMMA SubmitHereKeeps ==
    ASSUME ServiceInv, NEW e \in Executions, NEW b \in Bundles, SubmitHere(e, b)
    PROVE  AdmissionInv' /\ Housed' /\ WithinLimit'
<1>1. AdmissionInv'
  BY RequestKeeps, HereAssumption DEF ServiceInv, SubmitHere
<1>2. working'[Here] = working[Here] \cup {e}
  BY HereAssumption DEF SubmitHere, Submit, StartWorker, ServiceInv, ReceiptsInv, ReceiptsTypeOK
<1>3. pc'[e] \notin {"new", "done"} /\ \A f \in Executions : f # e => pc'[f] = pc[f]
  BY HereAssumption DEF SubmitHere, Enqueue, Bypass, Moves, ServiceInv, AdmissionInv, TypeOK
<1>4. Housed'
  BY <1>2, <1>3 DEF Housed, ServiceInv
<1>5. Cardinality(working[Here]) < PendingLimit
  <2>1. Cardinality(working[Here]) \in Nat
    BY FS_CardinalityType DEF ServiceInv, WithinLimit
  <2>2. ~(Cardinality(working[Here]) >= PendingLimit)
    BY DEF SubmitHere, Submit, QueueFull
  <2> QED BY <2>1, <2>2, ReceiptAssumption
<1>6. WithinLimit'
  <2>1. IsFiniteSet(working[Here]) /\ Cardinality(working[Here]) \in Nat
    BY FS_CardinalityType DEF ServiceInv, WithinLimit
  <2>2. /\ IsFiniteSet(working[Here] \cup {e})
        /\ Cardinality(working[Here] \cup {e}) <= Cardinality(working[Here]) + 1
    BY <2>1, FS_AddElement
  <2>3. Cardinality(working[Here] \cup {e}) \in Nat
    BY <2>2, FS_CardinalityType
  <2> QED BY <1>2, <1>5, <2>1, <2>2, <2>3, ReceiptAssumption DEF WithinLimit
<1> QED BY <1>1, <1>4, <1>6

(* The tasks of a server become fewer. *)
LEMMA FewerWithinLimit ==
    ASSUME WithinLimit, working'[Here] \subseteq working[Here]
    PROVE  WithinLimit'
<1>1. /\ IsFiniteSet(working'[Here])
      /\ Cardinality(working'[Here]) <= Cardinality(working[Here])
  BY FS_Subset DEF WithinLimit
<1>2. Cardinality(working'[Here]) \in Nat /\ Cardinality(working[Here]) \in Nat
  BY <1>1, FS_CardinalityType DEF WithinLimit
<1> QED BY <1>1, <1>2, ReceiptAssumption DEF WithinLimit

LEMMA ThreadKeeps ==
    ASSUME ServiceInv, NEW e \in Executions, Thread(e)
    PROVE  AdmissionInv' /\ Housed' /\ WithinLimit'
<1>1. AdmissionInv'
  BY RequestKeeps, HereAssumption DEF ServiceInv, Thread
<1>2. UNCHANGED working
  BY DEF Thread, receiptVars
<1>3. PICK to \in Waiting \cup {"running", "passed", "failed"} :
         pc[e] \notin {"new", "done"} /\ pc' = [pc EXCEPT ![e] = to]
  BY DEF Thread, Worker, Acquire, Abandon, Check, Try, Wake, Finish, Moves, Waiting
<1>4. Housed'
  BY <1>2, <1>3, HereAssumption DEF Housed, ServiceInv, AdmissionInv, TypeOK, Waiting
<1>5. WithinLimit'
  BY <1>2, FewerWithinLimit DEF ServiceInv
<1> QED BY <1>1, <1>4, <1>5

LEMMA ConcludeKeeps ==
    ASSUME ServiceInv, NEW e \in Executions, Conclude(e)
    PROVE  AdmissionInv' /\ Housed' /\ WithinLimit'
<1>1. AdmissionInv'
  BY RequestKeeps, HereAssumption DEF ServiceInv, Conclude
<1>2. working'[Here] = working[Here] \ {e}
  BY HereAssumption
     DEF Conclude, Complete, StoreResult, CompleteUnrecorded, ServiceInv, ReceiptsInv,
         ReceiptsTypeOK
<1>3. pc' = [pc EXCEPT ![e] = "done"]
  BY DEF Conclude, Leave, Moves
<1>4. Housed'
  BY <1>2, <1>3, HereAssumption DEF Housed, ServiceInv, AdmissionInv, TypeOK
<1>5. WithinLimit'
  BY <1>2, FewerWithinLimit DEF ServiceInv
<1> QED BY <1>1, <1>4, <1>5

(* An UPDATE that took effect unnoticed changes nothing in the memory. *)
LEMMA UnansweredKeeps ==
    ASSUME ServiceInv, NEW e \in Executions, ConcludeUnanswered(e)
    PROVE  AdmissionInv' /\ Housed' /\ WithinLimit'
<1>1. UNCHANGED vars /\ UNCHANGED pc /\ UNCHANGED working
  BY DEF ConcludeUnanswered, CompleteUnanswered, vars
<1>2. AdmissionInv'
  BY <1>1, AdmissionInvKept DEF ServiceInv
<1>3. WithinLimit'
  BY <1>1, FewerWithinLimit DEF ServiceInv
<1> QED BY <1>1, <1>2, <1>3 DEF Housed, ServiceInv

LEMMA MarkKeeps ==
    ASSUME ServiceInv, NEW e \in Executions, DeleteRequest(e) \/ TimeLimit(e)
    PROVE  AdmissionInv' /\ Housed' /\ WithinLimit'
<1>1. AdmissionInv'
  BY RequestKeeps, HereAssumption DEF ServiceInv, DeleteRequest, TimeLimit
<1>2. UNCHANGED working /\ UNCHANGED pc
  BY DEF DeleteRequest, TimeLimit, Cancel, Expire, receiptVars
<1>3. WithinLimit'
  BY <1>2, FewerWithinLimit DEF ServiceInv
<1> QED BY <1>1, <1>2, <1>3 DEF Housed, ServiceInv

(* A restart leaves executions that were never registered or are over.      *)
LEMMA RestartKeeps ==
    ASSUME ServiceInv, Restart
    PROVE  AdmissionInv' /\ Housed' /\ WithinLimit'
<1>1. working'[Here] = {}
  BY HereAssumption DEF Restart, ServerCrash, ServiceInv, ReceiptsInv, ReceiptsTypeOK
<1>2. /\ waiting' = <<>> /\ active' = {} /\ cancelled' = {} /\ overdue' = {}
      /\ arrived' = arrived
      /\ pc' = [e \in Executions |-> IF e \in working[Here] THEN "done" ELSE pc[e]]
  BY DEF Restart
<1>3. \A e \in Executions :
         pc'[e] \in {"new", "done"} /\ (pc'[e] = "new" => pc[e] = "new")
  BY <1>2 DEF ServiceInv, Housed
<1>4. TypeOK'
  <2>1. pc' \in [Requests -> Waiting \cup {"new", "running", "passed", "failed", "done"}]
    BY <1>2, HereAssumption DEF ServiceInv, AdmissionInv, TypeOK
  <2>2. waiting' \in Seq(Requests)
    BY <1>2
  <2> QED BY <1>2, <2>1, <2>2 DEF ServiceInv, AdmissionInv, TypeOK
<1>5. DOMAIN waiting' = {}
  BY <1>2
<1>6. Accounted'
  BY <1>2, <1>3, <1>5, HereAssumption DEF Accounted, Waiting
<1>7. Ordered'
  <2>1. \A i \in DOMAIN arrived : arrived[i] \in Executions
    BY SequenceFacts, HereAssumption DEF ServiceInv, AdmissionInv, TypeOK
  <2>2. \A i \in DOMAIN arrived : pc'[arrived[i]] # "new"
    BY <1>3, <2>1 DEF ServiceInv, AdmissionInv, Ordered
  <2> QED BY <1>2, <1>5, <2>2 DEF ServiceInv, AdmissionInv, Ordered, Distinct
<1>8. Housed'
  BY <1>1, <1>3 DEF Housed
<1>9. WithinLimit'
  BY <1>1, FewerWithinLimit DEF ServiceInv
<1> QED BY <1>4, <1>6, <1>7, <1>8, <1>9 DEF AdmissionInv

LEMMA ElsewhereKeeps ==
    ASSUME ServiceInv, Elsewhere
    PROVE  AdmissionInv' /\ Housed' /\ WithinLimit'
<1>1. UNCHANGED vars
  BY DEF Elsewhere
<1>2. working'[Here] = working[Here]
  <2>1. working \in [Servers -> SUBSET Executions] /\ Here \in Servers
    BY HereAssumption DEF ServiceInv, ReceiptsInv, ReceiptsTypeOK
  <2>2. ASSUME NEW s \in Servers \ {Here}, NEW e \in Executions, NEW b \in Bundles, Submit(s, e, b)
        PROVE  working'[Here] = working[Here]
    BY <2>1, <2>2 DEF Submit, StartWorker
  <2>3. ASSUME NEW s \in Servers \ {Here}, NEW e \in Executions,
               \/ CompleteUnrecorded(s, e)
               \/ \E result \in Completed :
                     Complete(s, e, result) \/ CompleteUnanswered(s, e, result)
        PROVE  working'[Here] = working[Here]
    BY <2>1, <2>3 DEF Complete, CompleteUnanswered, StoreResult, CompleteUnrecorded
  <2>4. ASSUME NEW s \in Servers \ {Here}, ServerCrash(s)
        PROVE  working'[Here] = working[Here]
    BY <2>1, <2>4 DEF ServerCrash
  <2>5. ASSUME NEW e \in Executions, PassDeadline(e)
        PROVE  working'[Here] = working[Here]
    BY <2>5 DEF PassDeadline
  <2> QED BY <2>2, <2>3, <2>4, <2>5 DEF Elsewhere
<1>3. AdmissionInv'
  BY <1>1, AdmissionInvKept DEF ServiceInv
<1>4. Housed'
  BY <1>1, <1>2 DEF Housed, ServiceInv, vars
<1>5. WithinLimit'
  BY <1>2, FewerWithinLimit DEF ServiceInv
<1> QED BY <1>3, <1>4, <1>5

LEMMA ServiceInvKept == ServiceInv /\ [ServiceNext]_serviceVars => ServiceInv'
<1> SUFFICES ASSUME ServiceInv, [ServiceNext]_serviceVars PROVE ServiceInv'
  OBVIOUS
<1>1. ReceiptsInv'
  BY ServiceStepImplements, ReceiptsInvKept DEF ServiceInv
<1>2. CASE ServiceNext
  BY <1>1, <1>2, SubmitHereKeeps, ThreadKeeps, ConcludeKeeps, UnansweredKeeps, MarkKeeps, RestartKeeps,
     ElsewhereKeeps DEF ServiceNext, ServiceInv
<1>3. CASE UNCHANGED serviceVars
  <2>1. UNCHANGED vars /\ UNCHANGED pc /\ UNCHANGED working
    BY <1>3 DEF serviceVars, vars, receiptVars
  <2>2. AdmissionInv'
    BY <2>1, AdmissionInvKept DEF ServiceInv
  <2>3. WithinLimit'
    BY <2>1, FewerWithinLimit DEF ServiceInv
  <2> QED BY <1>1, <2>1, <2>2, <2>3 DEF ServiceInv, Housed
<1> QED BY <1>2, <1>3

LEMMA ServiceInvariant == ServiceSpec => []ServiceInv
BY ServiceInvInitially, ServiceInvKept, PTL DEF ServiceSpec

----------------------------------------------------------------------------
(* The queue and the reservations of a server are those of executions it    *)
(* has a task for and whose result is not settled, never more than its limit.      *)
THEOREM HeldByWorkHolds == ServiceSpec => []HeldByWork
<1>1. ServiceInv => HeldByWork
  <2> SUFFICES ASSUME ServiceInv PROVE HeldByWork
    OBVIOUS
  <2>1. Engaged \subseteq working[Here]
    <3>1. \A e \in active : e \in Executions /\ pc[e] = "running"
      BY HereAssumption DEF ServiceInv, AdmissionInv, Accounted
    <3>2. \A i \in DOMAIN waiting : waiting[i] \in Executions
      BY SequenceFacts, HereAssumption DEF ServiceInv, AdmissionInv, TypeOK
    <3>3. \A i \in DOMAIN waiting : pc[waiting[i]] \notin {"new", "done"}
      BY <3>2, HereAssumption DEF ServiceInv, AdmissionInv, Accounted
    <3>4. \A e \in Engaged : e \in Executions /\ pc[e] \notin {"new", "done"}
      BY <3>1, <3>2, <3>3 DEF Engaged
    <3> QED BY <3>4 DEF ServiceInv, Housed
  <2>2. \A e \in working[Here] : receipt[e] # "absent" /\ ~Settled(e)
    BY HereAssumption DEF ServiceInv, ReceiptsInv, ReceiptsTypeOK, Untouched, Settled
  <2>3. Cardinality(Engaged) <= PendingLimit
    <3>1. Cardinality(Engaged) <= Cardinality(working[Here]) /\ IsFiniteSet(Engaged)
      BY <2>1, FS_Subset DEF ServiceInv, WithinLimit
    <3>2. Cardinality(Engaged) \in Nat /\ Cardinality(working[Here]) \in Nat
      BY <3>1, FS_CardinalityType DEF ServiceInv, WithinLimit
    <3> QED BY <3>1, <3>2, ReceiptAssumption DEF ServiceInv, WithinLimit
  <2> QED BY <2>1, <2>2, <2>3 DEF HeldByWork
<1> QED BY <1>1, ServiceInvariant, PTL

(* Through restarts too, reservations belong to running containers and      *)
(* places in the queue to who waits.                                        *)
THEOREM ServiceAccounted == ServiceSpec => []Accounted
<1>1. ServiceInv => Accounted
  BY DEF ServiceInv, AdmissionInv
<1> QED BY <1>1, ServiceInvariant, PTL

(* To the admission queue, a step of the service is one of its own, or the  *)
(* restart that empties it.                                                 *)
LEMMA AdmissionStep == [ServiceNext]_serviceVars => [Next]_vars \/ Restart
BY HereAssumption DEF ServiceNext, SubmitHere, Thread, Conclude, ConcludeUnanswered,
   DeleteRequest, TimeLimit,
   Elsewhere, serviceVars, Next

(* Through restarts too, no execution is admitted before one that arrived   *)
(* earlier and waits.                                                       *)
THEOREM ServiceNoOvertaking == ServiceSpec => NoOvertaking
<1>1. ASSUME ServiceInv, [ServiceNext]_serviceVars
      PROVE  [\A e \in active' \ active :
                 \A f \in Requests : Before(f, e) => pc[f] \notin Waiting]_vars
  <2>1. CASE [Next]_vars
    BY <1>1, <2>1, StepAdmitsInOrder DEF ServiceInv, Admitting
  <2>2. CASE Restart
    BY <2>2 DEF Restart
  <2> QED BY <1>1, <2>1, <2>2, AdmissionStep
<1> QED BY <1>1, ServiceInvariant, PTL DEF ServiceSpec, NoOvertaking

(* Through restarts too, the reservations of a server fit its host.         *)
THEOREM ServiceNoOvercommit == ServiceSpec => []NoOvercommit
<1>1. ServiceInit => WithinHost
  BY WithinHostInitially DEF ServiceInit, Init
<1>2. ServiceInv /\ WithinHost /\ [ServiceNext]_serviceVars => WithinHost'
  <2> SUFFICES ASSUME ServiceInv, WithinHost, [ServiceNext]_serviceVars PROVE WithinHost'
    OBVIOUS
  <2>1. CASE [Next]_vars
    BY <2>1, WithinHostKept DEF ServiceInv
  <2>2. CASE Restart
    <3>1. active' = {}
      BY <2>2 DEF Restart
    <3> QED BY <3>1, EmptyFits
  <2> QED BY <2>1, <2>2, AdmissionStep
<1>3. WithinHost => NoOvercommit
  BY DEF WithinHost
<1> QED BY <1>1, <1>2, <1>3, ServiceInvariant, PTL DEF ServiceSpec

=============================================================================

------------------------ MODULE GenerationJobsProofs ------------------------
(***************************************************************************)
(* Proofs about GenerationJobs, for any replicas, runs, capacity and number *)
(* of crashes.  RecoverySparesLive is not inductive: it needs that a task   *)
(* and a recovery of one run both hold its lease, so that they exclude each *)
(* other across replicas, and that the event loop of a replica keeps them   *)
(* apart within it.  ResultKept needs that nobody is left who would write   *)
(* back a copy of a job that has a result.                                  *)
(***************************************************************************)
EXTENDS GenerationJobs, FiniteSetTheorems, TLAPS

(* Who executes a run or fails it in a recovery holds its lease, and no     *)
(* replica does both.                                                       *)
Leased ==
    \A p \in Replicas, r \in Runs :
       /\ task[p][r] # "none" => lease[r] = p
       /\ claimed[p] = r => lease[r] = p /\ task[p][r] = "none"

JobsInv == JobsTypeOK /\ Leased

(* What no step does to a row. *)
RowStep ==
    \A r \in Runs :
       /\ row[r] = Purged => row'[r] = Purged
       /\ row[r].status # "failed" /\ row'[r].status = "failed" =>
             \A q \in Replicas : Live(q, r) => task'[q][r] = "ending"

----------------------------------------------------------------------------
(* The effects of a step                                                    *)

LEMMA UpdateEffect ==
    ASSUME JobsTypeOK, NEW p \in Replicas, NEW rs \in SUBSET Runs,
           NEW status \in Active \cup Terminal, NEW result \in BOOLEAN,
           Update(p, rs, status, result)
    PROVE  /\ row' \in [Runs -> Job \cup {Absent, Purged}]
           /\ copy' \in [Replicas -> [Runs -> Job \cup {Absent}]]
           /\ \A r \in Runs : row[r] = Purged => row'[r] = Purged
           /\ \A r \in Runs : row'[r] = row[r] \/ (r \in rs /\ row'[r].status = status)
<1> DEFINE kept == rs \ purged[p]
           New(r) == [status |-> status, result |-> copy[p][r].result \/ result]
           jobs == [r \in Runs |-> IF r \in kept THEN New(r) ELSE Absent]
<1>1. \A r \in Runs : New(r) \in Job
  BY DEF Job
<1>2. copy' = [copy EXCEPT ![p] = [r \in Runs |-> IF r \in kept THEN New(r) ELSE copy[p][r]]]
  BY DEF Update, JobsTypeOK
<1>3. row' = [r \in Runs |-> IF jobs[r] = Absent \/ row[r] = Purged THEN row[r] ELSE jobs[r]]
  BY DEF Update, Save
<1>4. \A r \in Runs : jobs[r] = Absent \/ (r \in kept /\ jobs[r] = New(r))
  OBVIOUS
<1>5. \A r \in Runs : New(r).status = status
  OBVIOUS
<1> HIDE DEF New, jobs
<1>6. copy' \in [Replicas -> [Runs -> Job \cup {Absent}]]
  BY <1>1, <1>2 DEF JobsTypeOK
<1>7. \A r \in Runs : row'[r] = row[r] \/ (r \in kept /\ row[r] # Purged /\ row'[r] = New(r))
  BY <1>3, <1>4
<1>8. row' \in [Runs -> Job \cup {Absent, Purged}]
  BY <1>1, <1>3, <1>7 DEF JobsTypeOK
<1> QED BY <1>5, <1>6, <1>7, <1>8

LEMMA MarkEffect ==
    ASSUME JobsTypeOK, NEW p \in Replicas, NEW rs \in SUBSET Runs,
           NEW status \in Active \cup Terminal, Mark(p, rs, status)
    PROVE  /\ row' \in [Runs -> Job \cup {Absent, Purged}]
           /\ copy' \in [Replicas -> [Runs -> Job \cup {Absent}]]
           /\ \A r \in Runs : row[r] = Purged => row'[r] = Purged
           /\ \A r \in Runs : row'[r] = row[r] \/ (r \in rs /\ row'[r].status = status)
<1>1. {r \in rs : copy[p][r] # Absent} \in SUBSET Runs
  OBVIOUS
<1> QED BY <1>1, UpdateEffect DEF Mark

(* Nobody starts a task, and leases stay with who has one. *)
LEMMA TasksGoOn ==
    ASSUME Leased, UNCHANGED <<lease, claimed>>,
           \A p \in Replicas, r \in Runs : task[p][r] = "none" => task'[p][r] = "none"
    PROVE  Leased'
BY DEF Leased

(* A write of another status than failed. *)
LEMMA HarmlessRow ==
    ASSUME \A r \in Runs : row[r] = Purged => row'[r] = Purged,
           \A r \in Runs : row'[r] = row[r] \/ row'[r].status # "failed"
    PROVE  RowStep
BY DEF RowStep

LEMMA SameRow ==
    ASSUME UNCHANGED row
    PROVE  RowStep
BY DEF RowStep

----------------------------------------------------------------------------
(* The task                                                                 *)

LEMMA StartKeeps ==
    ASSUME JobsInv, NEW p \in Replicas, NEW r \in Runs, Start(p, r)
    PROVE  JobsInv' /\ RowStep
<1>1. Update(p, {r}, "queued", FALSE) /\ JobsTypeOK
  BY DEF Start, JobsInv
<1>2. /\ row' \in [Runs -> Job \cup {Absent, Purged}]
      /\ copy' \in [Replicas -> [Runs -> Job \cup {Absent}]]
      /\ \A q \in Runs : row[q] = Purged => row'[q] = Purged
      /\ \A q \in Runs : row'[q] = row[q] \/ row'[q].status = "queued"
  BY <1>1, UpdateEffect DEF Active
<1>3. RowStep
  BY <1>2, HarmlessRow
<1>4. /\ lease[r] = Nobody /\ lease' = [lease EXCEPT ![r] = p]
      /\ task' = [task EXCEPT ![p][r] = "created"] /\ claimed' = claimed
      /\ claimed[p] = Nobody
  BY DEF Start, Moves, AtAwait
<1>5. JobsTypeOK'
  BY <1>1, <1>2, <1>4 DEF Start, JobsTypeOK
<1>6. Leased'
  <2>1. \A q \in Replicas, s \in Runs : (q # p \/ s # r) => task'[q][s] = task[q][s]
    BY <1>1, <1>4 DEF JobsTypeOK
  <2>2. \A s \in Runs : s # r => lease'[s] = lease[s]
    BY <1>1, <1>4 DEF JobsTypeOK
  <2>3. lease'[r] = p
    BY <1>1, <1>4 DEF JobsTypeOK
  <2>4. \A q \in Replicas : task[q][r] = "none" /\ claimed[q] # r
    BY <1>4, JobsAssumption DEF JobsInv, Leased
  <2> QED BY <1>4, <2>1, <2>2, <2>3, <2>4 DEF JobsInv, Leased
<1> QED BY <1>3, <1>5, <1>6 DEF JobsInv

(* A step that moves a task and may update its job. *)
LEMMA MoveKeeps ==
    ASSUME JobsInv, NEW p \in Replicas, NEW r \in Runs,
           task[p][r] # "none",
           NEW to \in {"working", "valid", "invalid", "ending"},
           task' = [task EXCEPT ![p][r] = to],
           row' \in [Runs -> Job \cup {Absent, Purged}],
           copy' \in [Replicas -> [Runs -> Job \cup {Absent}]],
           UNCHANGED <<deployed, thread, stopped, purged, lease, cancels, clear, scan,
                       claimed, listing, answered, crashes>>
    PROVE  JobsInv'
<1>1. JobsTypeOK'
  BY DEF JobsInv, JobsTypeOK
<1>2. \A q \in Replicas, s \in Runs : task[q][s] = "none" => task'[q][s] = "none"
  BY DEF JobsInv, JobsTypeOK
<1>3. Leased'
  BY <1>2, TasksGoOn DEF JobsInv
<1> QED BY <1>1, <1>3 DEF JobsInv

LEMMA TaskMovesKeeps ==
    ASSUME JobsInv, NEW p \in Replicas, NEW r \in Runs, TaskMoves(p, r)
    PROVE  JobsInv' /\ RowStep
<1>0. JobsTypeOK
  BY DEF JobsInv
<1>1. CASE TaskBegin(p, r)
  <2>1. PICK to \in {"working", "valid"} :
           task[p][r] = "created" /\ task' = [task EXCEPT ![p][r] = to]
    BY <1>1 DEF TaskBegin, Moves
  <2>2. Update(p, {r}, "running", FALSE)
    BY <1>1 DEF TaskBegin
  <2>3. /\ row' \in [Runs -> Job \cup {Absent, Purged}]
        /\ copy' \in [Replicas -> [Runs -> Job \cup {Absent}]]
        /\ \A q \in Runs : row[q] = Purged => row'[q] = Purged
        /\ \A q \in Runs : row'[q] = row[q] \/ row'[q].status = "running"
    BY <1>0, <2>2, UpdateEffect DEF Active
  <2> QED BY <1>1, <2>1, <2>3, MoveKeeps, HarmlessRow DEF TaskBegin
<1>2. CASE Publish(p, r)
  <2>1. task[p][r] \in {"valid", "invalid"} /\ task' = [task EXCEPT ![p][r] = "ending"]
    BY <1>2 DEF Publish
  <2>2. /\ row' \in [Runs -> Job \cup {Absent, Purged}]
        /\ copy' \in [Replicas -> [Runs -> Job \cup {Absent}]]
        /\ RowStep
    <3>1. CASE copy[p][r].status = "cancelled"
      BY <1>0, <1>2, <3>1, SameRow DEF Publish, JobsTypeOK
    <3>2. CASE copy[p][r].status # "cancelled"
      <4>1. PICK status \in {"valid", "invalid"} : task[p][r] = status
        BY <2>1
      <4>2. Update(p, {r}, status, TRUE)
        BY <1>2, <3>2, <4>1 DEF Publish
      <4>3. /\ row' \in [Runs -> Job \cup {Absent, Purged}]
            /\ copy' \in [Replicas -> [Runs -> Job \cup {Absent}]]
            /\ \A q \in Runs : row[q] = Purged => row'[q] = Purged
            /\ \A q \in Runs : row'[q] = row[q] \/ row'[q].status = status
        <5>1. status \in Active \cup Terminal /\ {r} \in SUBSET Runs
          BY DEF Terminal
        <5> QED BY <1>0, <4>2, <5>1, UpdateEffect
      <4>4. \A q \in Runs : row'[q] = row[q] \/ row'[q].status # "failed"
        BY <4>3
      <4> QED BY <4>3, <4>4, HarmlessRow
    <3> QED BY <3>1, <3>2
  <2> QED BY <1>2, <2>1, <2>2, MoveKeeps DEF Publish
<1>3. CASE TaskCancelled(p, r)
  <2>1. task[p][r] = "stopping" /\ task' = [task EXCEPT ![p][r] = "ending"]
    BY <1>3 DEF TaskCancelled, Moves
  <2>2. Mark(p, {r}, "cancelled")
    BY <1>3 DEF TaskCancelled
  <2>3. /\ row' \in [Runs -> Job \cup {Absent, Purged}]
        /\ copy' \in [Replicas -> [Runs -> Job \cup {Absent}]]
        /\ \A q \in Runs : row[q] = Purged => row'[q] = Purged
        /\ \A q \in Runs : row'[q] = row[q] \/ row'[q].status = "cancelled"
    BY <1>0, <2>2, MarkEffect DEF Terminal
  <2> QED BY <1>3, <2>1, <2>3, MoveKeeps, HarmlessRow DEF TaskCancelled
<1>4. CASE TaskEnds(p, r)
  <2>1. /\ task[p][r] = "ending" /\ task' = [task EXCEPT ![p][r] = "none"]
        /\ lease' = Unleased(p, r) /\ claimed' = claimed /\ claimed[p] = Nobody
        /\ row' = row /\ lease[r] = p
    BY <1>4 DEF TaskEnds, Moves, AtAwait, JobsInv, Leased
  <2>2. lease' = [lease EXCEPT ![r] = Nobody]
    BY <2>1 DEF Unleased
  <2>3. JobsTypeOK'
    BY <1>0, <1>4, <2>1, <2>2 DEF TaskEnds, JobsTypeOK
  <2>4. Leased'
    <3>1. \A q \in Replicas, s \in Runs : (q # p \/ s # r) => task'[q][s] = task[q][s]
      BY <1>0, <2>1 DEF JobsTypeOK
    <3>2. task'[p][r] = "none" /\ \A s \in Runs : s # r => lease'[s] = lease[s]
      BY <1>0, <2>1, <2>2 DEF JobsTypeOK
    <3>3. \A q \in Replicas : q # p => task[q][r] = "none" /\ claimed[q] # r
      BY <2>1 DEF JobsInv, Leased
    <3>4. claimed[p] # r
      BY <2>1 DEF JobsInv, Leased
    <3> QED BY <2>1, <3>1, <3>2, <3>3, <3>4 DEF JobsInv, Leased
  <2> QED BY <2>1, <2>3, <2>4, SameRow DEF JobsInv
<1>5. ASSUME NEW status \in {"valid", "invalid"}, Generated(p, r, status)
      PROVE  JobsInv' /\ RowStep
  <2>1. task[p][r] = "working" /\ task' = [task EXCEPT ![p][r] = status]
    BY <1>5 DEF Generated, Moves
  <2>2. Update(p, {r}, status, FALSE)
    BY <1>5 DEF Generated
  <2>3. /\ row' \in [Runs -> Job \cup {Absent, Purged}]
        /\ copy' \in [Replicas -> [Runs -> Job \cup {Absent}]]
        /\ \A q \in Runs : row[q] = Purged => row'[q] = Purged
        /\ \A q \in Runs : row'[q] = row[q] \/ row'[q].status = status
    BY <1>0, <2>2, UpdateEffect DEF Terminal
  <2> QED BY <1>5, <2>1, <2>3, MoveKeeps, HarmlessRow DEF Generated
<1>6. CASE GenerationFails(p, r)
  <2>1. task[p][r] = "working" /\ task' = [task EXCEPT ![p][r] = "ending"]
    BY <1>6 DEF GenerationFails, Moves
  <2>2. /\ row' \in [Runs -> Job \cup {Absent, Purged}]
        /\ copy' \in [Replicas -> [Runs -> Job \cup {Absent}]]
        /\ \A q \in Runs : row[q] = Purged => row'[q] = Purged
        /\ \A q \in Runs : row'[q] = row[q] \/ (q = r /\ row'[q].status = "failed")
    <3>1. CASE copy[p][r].status = "cancelled"
      BY <1>0, <1>6, <3>1 DEF GenerationFails, JobsTypeOK
    <3>2. CASE copy[p][r].status # "cancelled"
      <4>1. Mark(p, {r}, "failed")
        BY <1>6, <3>2 DEF GenerationFails
      <4>2. "failed" \in Active \cup Terminal /\ {r} \in SUBSET Runs
        BY DEF Terminal
      <4>3. /\ row' \in [Runs -> Job \cup {Absent, Purged}]
            /\ copy' \in [Replicas -> [Runs -> Job \cup {Absent}]]
            /\ \A q \in Runs : row[q] = Purged => row'[q] = Purged
            /\ \A q \in Runs : row'[q] = row[q] \/ (q \in {r} /\ row'[q].status = "failed")
        BY <1>0, <4>1, <4>2, MarkEffect
      <4> QED BY <4>3
    <3> QED BY <3>1, <3>2
  <2>3. \A q \in Replicas : Live(q, r) => q = p
    BY <2>1 DEF JobsInv, Leased, Live
  <2>4. task'[p][r] = "ending"
    BY <1>0, <2>1 DEF JobsTypeOK
  <2>5. RowStep
    BY <2>2, <2>3, <2>4 DEF RowStep
  <2> QED BY <1>6, <2>1, <2>2, <2>5, MoveKeeps DEF GenerationFails
<1> QED BY <1>1, <1>2, <1>3, <1>4, <1>5, <1>6 DEF TaskMoves

(* A step of the event loop or of a thread that neither moves a task nor    *)
(* writes a job.                                                            *)
LEMMA AsideKeeps ==
    ASSUME JobsInv, JobsTypeOK', UNCHANGED <<row, task, lease, claimed>>
    PROVE  JobsInv' /\ RowStep
<1>1. Leased'
  BY TasksGoOn DEF JobsInv
<1> QED BY <1>1, SameRow DEF JobsInv

(* Reports of progress, from the generator or from a thread. *)
LEMMA ReportKeeps ==
    ASSUME JobsInv, NEW p \in Replicas, NEW r \in Runs, Progress(p, r) \/ StageCallback(p, r)
    PROVE  JobsInv' /\ RowStep
<1>1. JobsTypeOK /\ Update(p, {r}, "running", FALSE)
  BY DEF JobsInv, Progress, StageCallback
<1>2. /\ row' \in [Runs -> Job \cup {Absent, Purged}]
      /\ copy' \in [Replicas -> [Runs -> Job \cup {Absent}]]
      /\ \A q \in Runs : row[q] = Purged => row'[q] = Purged
      /\ \A q \in Runs : row'[q] = row[q] \/ row'[q].status = "running"
  BY <1>1, UpdateEffect DEF Active
<1>3. RowStep
  BY <1>2, HarmlessRow
<1>4. thread' \in [Replicas -> [Runs -> {"none", "checked", "called"}]]
  <2>1. CASE Progress(p, r)
    BY <1>1, <2>1 DEF Progress, JobsTypeOK
  <2>2. CASE StageCallback(p, r)
    BY <1>1, <2>2 DEF StageCallback, JobsTypeOK
  <2> QED BY <2>1, <2>2
<1>5. UNCHANGED <<deployed, task, stopped, purged, lease, cancels, clear, scan, claimed,
                  listing, answered, crashes>>
  BY DEF Progress, StageCallback
<1>6. JobsTypeOK'
  BY <1>1, <1>2, <1>4, <1>5 DEF JobsTypeOK
<1>7. Leased'
  BY <1>5, TasksGoOn DEF JobsInv
<1> QED BY <1>3, <1>6, <1>7 DEF JobsInv

LEMMA ThreadKeeps ==
    ASSUME JobsInv, NEW p \in Replicas, NEW r \in Runs, SandboxStart(p, r) \/ ThreadStep(p, r)
    PROVE  JobsInv' /\ RowStep
<1>1. PICK to \in {"none", "checked"} : thread' = [thread EXCEPT ![p][r] = to]
  BY DEF SandboxStart, ThreadStep
<1>2. UNCHANGED <<deployed, row, copy, task, stopped, purged, lease, cancels, clear, scan,
                  claimed, listing, answered, crashes>>
  BY DEF SandboxStart, ThreadStep
<1>3. JobsTypeOK'
  BY <1>1, <1>2 DEF JobsInv, JobsTypeOK
<1> QED BY <1>2, <1>3, AsideKeeps

LEMMA HeartbeatKeeps ==
    ASSUME JobsInv, NEW p \in Replicas, NEW r \in Runs, Heartbeat(p, r)
    PROVE  JobsInv' /\ RowStep
<1>1. task' = [task EXCEPT ![p][r] = Stopping(task[p][r])] /\ JobsTypeOK
  BY DEF Heartbeat, JobsInv, JobsTypeOK
<1>2. Stopping(task[p][r]) \in {"none", "created", "working", "valid", "invalid",
                               "stopping", "ending"}
  BY <1>1 DEF JobsTypeOK, Stopping
<1>3. JobsTypeOK'
  BY <1>1, <1>2 DEF Heartbeat, JobsTypeOK
<1>4. task[p][r] # "none"
  BY DEF Heartbeat
<1>5. \A q \in Replicas, s \in Runs : task[q][s] = "none" => task'[q][s] = "none"
  BY <1>1, <1>4 DEF JobsTypeOK
<1>6. Leased'
  BY <1>5, TasksGoOn DEF Heartbeat, JobsInv
<1> QED BY <1>3, <1>6, SameRow DEF Heartbeat, JobsInv

----------------------------------------------------------------------------
(* Cancel, clear and list                                                   *)

LEMMA CancelKeeps ==
    ASSUME JobsInv, NEW p \in Replicas, NEW r \in Runs,
           CancelBegin(p, r) \/ CancelTask(p, r) \/ CancelReturn(p, r)
    PROVE  JobsInv' /\ RowStep
<1>1. JobsTypeOK
  BY DEF JobsInv
<1>2. CASE CancelBegin(p, r) \/ CancelReturn(p, r)
  <2>1. Mark(p, {r}, "cancelled")
    BY <1>2 DEF CancelBegin, CancelReturn
  <2>2. /\ row' \in [Runs -> Job \cup {Absent, Purged}]
        /\ copy' \in [Replicas -> [Runs -> Job \cup {Absent}]]
        /\ \A q \in Runs : row[q] = Purged => row'[q] = Purged
        /\ \A q \in Runs : row'[q] = row[q] \/ row'[q].status = "cancelled"
    BY <1>1, <2>1, MarkEffect DEF Terminal
  <2>3. RowStep
    BY <2>2, HarmlessRow
  <2>4. JobsTypeOK'
    <3>1. CASE CancelBegin(p, r)
      BY <1>1, <2>2, <3>1 DEF CancelBegin, JobsTypeOK
    <3>2. CASE CancelReturn(p, r)
      <4>1. answered' \in SUBSET Runs
        BY <1>1, <3>2 DEF CancelReturn, JobsTypeOK
      <4> QED BY <1>1, <2>2, <3>2, <4>1 DEF CancelReturn, JobsTypeOK
    <3> QED BY <1>2, <3>1, <3>2
  <2>5. Leased'
    BY <1>2, TasksGoOn DEF JobsInv, CancelBegin, CancelReturn
  <2> QED BY <2>3, <2>4, <2>5 DEF JobsInv
<1>3. CASE CancelTask(p, r)
  <2>1. task' = [task EXCEPT ![p][r] = Stopping(task[p][r])]
    BY <1>1, <1>3 DEF CancelTask, JobsTypeOK
  <2>2. /\ Stopping(task[p][r]) \in {"none", "created", "working", "valid", "invalid",
                                    "stopping", "ending"}
        /\ task[p][r] = "none" => Stopping(task[p][r]) = "none"
    BY <1>1 DEF JobsTypeOK, Stopping
  <2>3. JobsTypeOK'
    BY <1>1, <1>3, <2>1, <2>2 DEF CancelTask, JobsTypeOK
  <2>4. \A q \in Replicas, s \in Runs : task[q][s] = "none" => task'[q][s] = "none"
    BY <1>1, <2>1, <2>2 DEF JobsTypeOK
  <2>5. Leased'
    BY <1>3, <2>4, TasksGoOn DEF CancelTask, JobsInv
  <2> QED BY <1>3, <2>3, <2>5, SameRow DEF CancelTask, JobsInv
<1> QED BY <1>2, <1>3

LEMMA ClearBeginKeeps ==
    ASSUME JobsInv, NEW p \in Replicas, ClearBegin(p)
    PROVE  JobsInv' /\ RowStep
<1> DEFINE ids == {r \in Runs : copy[p][r] # Absent}
           active == {r \in ids : copy[p][r].status \in Active}
<1>1. JobsTypeOK /\ ids \in SUBSET Runs /\ active \in SUBSET Runs
  BY DEF JobsInv
<1>2. /\ Mark(p, active, "cancelled")
      /\ purged' = [purged EXCEPT ![p] = purged[p] \cup ids]
      /\ clear' = [clear EXCEPT ![p] = [phase |-> "teardown", ids |-> ids, active |-> active]]
  BY DEF ClearBegin, JobsInv, JobsTypeOK
<1> HIDE DEF ids, active
<1>3. /\ row' \in [Runs -> Job \cup {Absent, Purged}]
      /\ copy' \in [Replicas -> [Runs -> Job \cup {Absent}]]
      /\ \A q \in Runs : row[q] = Purged => row'[q] = Purged
      /\ \A q \in Runs : row'[q] = row[q] \/ row'[q].status = "cancelled"
  BY <1>1, <1>2, MarkEffect DEF Terminal
<1>4. RowStep
  BY <1>3, HarmlessRow
<1>5. purged' \in [Replicas -> SUBSET Runs]
  BY <1>1, <1>2 DEF JobsTypeOK
<1>6. clear' \in [Replicas -> [phase : {"none", "teardown", "gather"},
                              ids : SUBSET Runs, active : SUBSET Runs]]
  BY <1>1, <1>2 DEF JobsTypeOK
<1>7. UNCHANGED <<deployed, task, thread, stopped, lease, cancels, scan, claimed, listing,
                  answered, crashes>>
  BY DEF ClearBegin
<1>8. JobsTypeOK'
  BY <1>1, <1>3, <1>5, <1>6, <1>7 DEF JobsTypeOK
<1>9. Leased'
  BY <1>7, TasksGoOn DEF JobsInv
<1> QED BY <1>4, <1>8, <1>9 DEF JobsInv

LEMMA ClearTasksKeeps ==
    ASSUME JobsInv, NEW p \in Replicas, ClearTasks(p)
    PROVE  JobsInv' /\ RowStep
<1>1. JobsTypeOK
  BY DEF JobsInv
<1> DEFINE active == clear[p].active
<1>2. /\ active \in SUBSET Runs
      /\ clear[p] \in [phase : {"none", "teardown", "gather"},
                       ids : SUBSET Runs, active : SUBSET Runs]
  BY <1>1 DEF JobsTypeOK
<1>3. task' = [task EXCEPT ![p] =
                 [r \in Runs |-> IF r \in active THEN Stopping(task[p][r]) ELSE task[p][r]]]
  BY <1>1 DEF ClearTasks, JobsTypeOK
<1>4. /\ clear' = [clear EXCEPT ![p].phase = "gather"]
      /\ stopped' = [stopped EXCEPT ![p] = stopped[p] \cup active]
  BY <1>1 DEF ClearTasks, JobsTypeOK
<1> HIDE DEF active
<1>5. \A r \in Runs :
         /\ Stopping(task[p][r]) \in {"none", "created", "working", "valid", "invalid",
                                      "stopping", "ending"}
         /\ task[p][r] = "none" => Stopping(task[p][r]) = "none"
  BY <1>1 DEF JobsTypeOK, Stopping
<1>6. task' \in [Replicas -> [Runs ->
          {"none", "created", "working", "valid", "invalid", "stopping", "ending"}]]
  BY <1>1, <1>3, <1>5 DEF JobsTypeOK
<1>7. clear' \in [Replicas -> [phase : {"none", "teardown", "gather"},
                              ids : SUBSET Runs, active : SUBSET Runs]]
  BY <1>1, <1>2, <1>4 DEF JobsTypeOK
<1>8. stopped' \in [Replicas -> SUBSET Runs]
  BY <1>1, <1>2, <1>4 DEF JobsTypeOK
<1>9. JobsTypeOK'
  BY <1>1, <1>6, <1>7, <1>8 DEF ClearTasks, JobsTypeOK
<1>10. \A q \in Replicas, s \in Runs : task[q][s] = "none" => task'[q][s] = "none"
  BY <1>1, <1>3, <1>5 DEF JobsTypeOK
<1>11. Leased'
  BY <1>10, TasksGoOn DEF ClearTasks, JobsInv
<1> QED BY <1>9, <1>11, SameRow DEF ClearTasks, JobsInv

LEMMA ClearReturnKeeps ==
    ASSUME JobsInv, NEW p \in Replicas, ClearReturn(p)
    PROVE  JobsInv' /\ RowStep
<1>1. JobsTypeOK
  BY DEF JobsInv
<1>2. row' = [r \in Runs |-> IF Exists(r) THEN Purged ELSE row[r]]
  BY DEF ClearReturn
<1>3. JobsTypeOK'
  <2>1. copy' \in [Replicas -> [Runs -> Job \cup {Absent}]]
    BY <1>1 DEF ClearReturn, JobsTypeOK
  <2>2. clear' \in [Replicas -> [phase : {"none", "teardown", "gather"},
                                ids : SUBSET Runs, active : SUBSET Runs]]
    BY <1>1 DEF ClearReturn, JobsTypeOK, NoClear
  <2>3. row' \in [Runs -> Job \cup {Absent, Purged}]
    BY <1>1, <1>2 DEF JobsTypeOK
  <2> QED BY <1>1, <2>1, <2>2, <2>3 DEF ClearReturn, JobsTypeOK
<1>4. Leased'
  BY TasksGoOn DEF ClearReturn, JobsInv
<1>5. RowStep
  <2>1. \A r \in Runs : row'[r] = row[r] \/ row'[r] = Purged
    BY <1>2
  <2>2. Purged.status # "failed"
    BY DEF Purged
  <2> QED BY <2>1, <2>2, HarmlessRow
<1> QED BY <1>3, <1>4, <1>5 DEF JobsInv

(* Rows read by a list request or a scan, put into the copies. *)
LEMMA RefreshedType ==
    ASSUME JobsTypeOK, NEW p \in Replicas, NEW rows \in [Runs -> Job \cup {Absent, Purged}]
    PROVE  Refreshed(p, rows) \in [Runs -> Job \cup {Absent}]
BY DEF Refreshed, JobsTypeOK

LEMMA ListKeeps ==
    ASSUME JobsInv, NEW p \in Replicas, ListRead(p) \/ ListRefresh(p)
    PROVE  JobsInv' /\ RowStep
<1>1. JobsTypeOK
  BY DEF JobsInv
<1>2. [r \in Runs |-> IF Exists(r) THEN row[r] ELSE Absent] \in [Runs -> Job \cup {Absent}]
  BY <1>1 DEF JobsTypeOK, Exists
<1>3. Refreshed(p, listing[p]) \in [Runs -> Job \cup {Absent}]
  <2>1. listing[p] \in [Runs -> Job \cup {Absent, Purged}]
    BY <1>1 DEF JobsTypeOK
  <2> QED BY <1>1, <2>1, RefreshedType
<1>4. [r \in Runs |-> Absent] \in [Runs -> Job \cup {Absent}]
  OBVIOUS
<1>5. CASE ListRead(p)
  <2>1. listing' \in [Replicas -> [Runs -> Job \cup {Absent}]]
    BY <1>1, <1>2, <1>5 DEF ListRead, JobsTypeOK
  <2>2. JobsTypeOK'
    BY <1>1, <1>5, <2>1 DEF ListRead, JobsTypeOK
  <2> QED BY <1>5, <2>2, AsideKeeps DEF ListRead
<1>6. CASE ListRefresh(p)
  <2>1. listing' \in [Replicas -> [Runs -> Job \cup {Absent}]]
    BY <1>1, <1>4, <1>6 DEF ListRefresh, JobsTypeOK
  <2>2. copy' \in [Replicas -> [Runs -> Job \cup {Absent}]]
    BY <1>1, <1>3, <1>6 DEF ListRefresh, JobsTypeOK
  <2>3. JobsTypeOK'
    BY <1>1, <1>6, <2>1, <2>2 DEF ListRefresh, JobsTypeOK
  <2> QED BY <1>6, <2>3, AsideKeeps DEF ListRefresh
<1> QED BY <1>5, <1>6

----------------------------------------------------------------------------
(* Crash and recovery                                                       *)

LEMMA CrashKeeps ==
    ASSUME JobsInv, NEW p \in Replicas, Crash(p)
    PROVE  JobsInv' /\ RowStep
<1>1. JobsTypeOK
  BY DEF JobsInv
<1>2. /\ copy' = [copy EXCEPT ![p] = [r \in Runs |-> IF Exists(r) THEN row[r] ELSE Absent]]
      /\ scan' = [scan EXCEPT ![p] = {r \in Runs : row[r].status \in Active}]
      /\ task' = [task EXCEPT ![p] = [r \in Runs |-> "none"]]
      /\ lease' = [r \in Runs |-> IF lease[r] = p THEN "orphan" ELSE lease[r]]
      /\ claimed' = [claimed EXCEPT ![p] = Nobody]
      /\ UNCHANGED <<deployed, row, answered>>
  BY DEF Crash
<1>3. JobsTypeOK'
  <2>1. [r \in Runs |-> IF Exists(r) THEN row[r] ELSE Absent] \in [Runs -> Job \cup {Absent}]
    BY <1>1 DEF JobsTypeOK, Exists
  <2>2. copy' \in [Replicas -> [Runs -> Job \cup {Absent}]]
    BY <1>1, <1>2, <2>1 DEF JobsTypeOK
  <2>3. /\ scan' \in [Replicas -> SUBSET Runs]
        /\ lease' \in [Runs -> Replicas \cup {"orphan", Nobody}]
        /\ claimed' \in [Replicas -> Runs \cup {Nobody}]
        /\ task' \in [Replicas -> [Runs ->
              {"none", "created", "working", "valid", "invalid", "stopping", "ending"}]]
    BY <1>1, <1>2 DEF JobsTypeOK
  <2>4. /\ thread' \in [Replicas -> [Runs -> {"none", "checked", "called"}]]
        /\ stopped' \in [Replicas -> SUBSET Runs]
        /\ purged' \in [Replicas -> SUBSET Runs]
        /\ cancels' \in [Replicas -> [Runs -> {"none", "teardown", "gather"}]]
    BY <1>1 DEF Crash, JobsTypeOK
  <2>5. /\ clear' \in [Replicas -> [phase : {"none", "teardown", "gather"},
                                   ids : SUBSET Runs, active : SUBSET Runs]]
        /\ listing' \in [Replicas -> [Runs -> Job \cup {Absent}]]
    BY <1>1 DEF Crash, JobsTypeOK, NoClear
  <2>6. crashes' \in 0..MaxCrashes
    BY <1>1, JobsAssumption DEF Crash, JobsTypeOK
  <2> QED BY <1>1, <1>2, <2>2, <2>3, <2>4, <2>5, <2>6 DEF JobsTypeOK
<1>4. Leased'
  <2>1. \A r \in Runs : task'[p][r] = "none" /\ claimed'[p] # r
    BY <1>1, <1>2, JobsAssumption DEF JobsTypeOK
  <2>2. \A q \in Replicas : q # p => task'[q] = task[q] /\ claimed'[q] = claimed[q]
    BY <1>1, <1>2 DEF JobsTypeOK
  <2>3. \A r \in Runs : lease[r] # p => lease'[r] = lease[r]
    BY <1>2
  <2> QED BY <1>1, <1>2, <2>1, <2>2, <2>3 DEF JobsInv, Leased, JobsTypeOK
<1> QED BY <1>2, <1>3, <1>4, SameRow DEF JobsInv

LEMMA ExpiryKeeps ==
    ASSUME JobsInv, NEW r \in Runs, LeaseExpires(r)
    PROVE  JobsInv' /\ RowStep
<1>1. JobsTypeOK'
  BY DEF LeaseExpires, JobsInv, JobsTypeOK
<1>2. Leased'
  BY JobsAssumption DEF LeaseExpires, JobsInv, JobsTypeOK, Leased
<1> QED BY <1>1, <1>2, SameRow DEF LeaseExpires, JobsInv

LEMMA ScanBeginKeeps ==
    ASSUME JobsInv, NEW p \in Replicas, ScanBegin(p)
    PROVE  JobsInv' /\ RowStep
<1>1. JobsTypeOK
  BY DEF JobsInv
<1>2. Refreshed(p, row) \in [Runs -> Job \cup {Absent}]
  BY <1>1, RefreshedType DEF JobsTypeOK
<1>3. copy' \in [Replicas -> [Runs -> Job \cup {Absent}]]
  BY <1>1, <1>2 DEF ScanBegin, JobsTypeOK
<1>4. scan' \in [Replicas -> SUBSET Runs]
  BY <1>1 DEF ScanBegin, JobsTypeOK
<1>5. JobsTypeOK'
  BY <1>1, <1>3, <1>4 DEF ScanBegin, JobsTypeOK
<1> QED BY <1>5, AsideKeeps DEF ScanBegin

(* The claim of a recovery finds no holder, hence no task and no other      *)
(* recovery.                                                                *)
LEMMA ScanClaimKeeps ==
    ASSUME JobsInv, NEW p \in Replicas, NEW r \in Runs, ScanClaim(p, r)
    PROVE  JobsInv' /\ RowStep
<1>1. JobsTypeOK
  BY DEF JobsInv
<1>2. CASE lease[r] = Nobody
  <2>1. /\ lease' = [lease EXCEPT ![r] = p] /\ claimed' = [claimed EXCEPT ![p] = r]
        /\ scan' = [scan EXCEPT ![p] = scan[p] \ {r}] /\ claimed[p] = Nobody
        /\ UNCHANGED <<task, row>>
    BY <1>1, <1>2 DEF ScanClaim, JobsTypeOK
  <2>2. JobsTypeOK'
    BY <1>1, <2>1 DEF ScanClaim, JobsTypeOK
  <2>3. \A q \in Replicas : task[q][r] = "none" /\ claimed[q] # r
    BY <1>2, JobsAssumption DEF JobsInv, Leased
  <2>4. Leased'
    <3>1. lease'[r] = p /\ \A s \in Runs : s # r => lease'[s] = lease[s]
      BY <1>1, <2>1 DEF JobsTypeOK
    <3>2. claimed'[p] = r /\ \A q \in Replicas : q # p => claimed'[q] = claimed[q]
      BY <1>1, <2>1 DEF JobsTypeOK
    <3> QED BY <2>1, <2>3, <3>1, <3>2 DEF JobsInv, Leased
  <2> QED BY <2>1, <2>2, <2>4, SameRow DEF JobsInv
<1>3. CASE lease[r] # Nobody
  <2>1. UNCHANGED <<row, task, lease, claimed>>
    BY <1>3 DEF ScanClaim
  <2>2. JobsTypeOK'
    BY <1>1, <2>1 DEF ScanClaim, JobsTypeOK
  <2> QED BY <2>1, <2>2, AsideKeeps
<1> QED BY <1>2, <1>3

LEMMA ScanFailKeeps ==
    ASSUME JobsInv, NEW p \in Replicas, ScanFail(p)
    PROVE  JobsInv' /\ RowStep
<1> DEFINE r == claimed[p]
<1>1. JobsTypeOK
  BY DEF JobsInv
<1>2. r \in Runs /\ lease[r] = p /\ task[p][r] = "none"
  BY DEF ScanFail, JobsInv, JobsTypeOK, Leased
<1>3. /\ Mark(p, {r}, "failed") /\ claimed' = [claimed EXCEPT ![p] = Nobody]
      /\ lease' = Unleased(p, r) /\ task' = task
  BY DEF ScanFail
<1>4. PICK s \in Runs : s = r
  BY <1>2
<1>5. /\ row' \in [Runs -> Job \cup {Absent, Purged}]
      /\ copy' \in [Replicas -> [Runs -> Job \cup {Absent}]]
      /\ \A q \in Runs : row[q] = Purged => row'[q] = Purged
      /\ \A q \in Runs : row'[q] = row[q] \/ (q \in {s} /\ row'[q].status = "failed")
  <2>1. "failed" \in Active \cup Terminal /\ {s} \in SUBSET Runs /\ Mark(p, {s}, "failed")
    BY <1>3, <1>4 DEF Terminal
  <2> QED BY <1>1, <2>1, MarkEffect
<1>6. lease' = [lease EXCEPT ![s] = Nobody]
  BY <1>2, <1>3, <1>4 DEF Unleased
<1>7. lease[s] = p /\ task[p][s] = "none" /\ claimed[p] = s
  BY <1>2, <1>4
<1> HIDE DEF r
<1>8. JobsTypeOK'
  BY <1>1, <1>3, <1>5, <1>6 DEF ScanFail, JobsTypeOK
<1>9. \A q \in Replicas : q # p => task[q][s] = "none" /\ claimed[q] # s
  BY <1>7 DEF JobsInv, Leased
<1>10. Leased'
  <2>1. \A q \in Runs : q # s => lease'[q] = lease[q]
    BY <1>1, <1>6 DEF JobsTypeOK
  <2>2. claimed'[p] = Nobody /\ \A q \in Replicas : q # p => claimed'[q] = claimed[q]
    BY <1>1, <1>3 DEF JobsTypeOK
  <2> QED BY <1>3, <1>7, <1>9, <2>1, <2>2, JobsAssumption DEF JobsInv, Leased
<1>11. RowStep
  BY <1>5, <1>7, <1>9 DEF RowStep, Live
<1> QED BY <1>8, <1>10, <1>11 DEF JobsInv

----------------------------------------------------------------------------
(* The invariant and what follows from it                                   *)

LEMMA JobsInvInitially == JobsInit => JobsInv
<1> SUFFICES ASSUME JobsInit PROVE JobsInv
  OBVIOUS
<1>1. JobsTypeOK
  BY JobsAssumption DEF JobsInit, JobsTypeOK, NoClear
<1>2. Leased
  BY JobsAssumption DEF JobsInit, Leased
<1> QED BY <1>1, <1>2 DEF JobsInv

LEMMA StepKeeps ==
    ASSUME JobsInv, JobsNext
    PROVE  JobsInv' /\ RowStep
BY StartKeeps, TaskMovesKeeps, ReportKeeps, ThreadKeeps, HeartbeatKeeps, CancelKeeps,
   ClearBeginKeeps, ClearTasksKeeps, ClearReturnKeeps, ListKeeps, CrashKeeps, ExpiryKeeps,
   ScanBeginKeeps, ScanClaimKeeps, ScanFailKeeps
   DEF JobsNext, Replica

LEMMA JobsInvKept == JobsInv /\ [JobsNext]_jobVars => JobsInv'
<1>1. ASSUME JobsInv, UNCHANGED jobVars PROVE JobsInv'
  BY <1>1 DEF jobVars, JobsInv, JobsTypeOK, Leased
<1> QED BY <1>1, StepKeeps

LEMMA JobsInvariant == JobsSpec => []JobsInv
BY JobsInvInitially, JobsInvKept, PTL DEF JobsSpec

(* Rows, copies, tasks, threads, leases and requests keep their types.      *)
THEOREM JobsTypeCorrect == JobsSpec => []JobsTypeOK
BY JobsInvariant, PTL DEF JobsInv

(* A job with a live task is leased to its replica, so it has one task.     *)
THEOREM LiveJobIsLeasedHolds == JobsSpec => []LiveJobIsLeased
<1>1. JobsInv => LiveJobIsLeased
  BY DEF JobsInv, Leased, LiveJobIsLeased, Live
<1> QED BY <1>1, JobsInvariant, PTL

(* No step of any replica brings a cleared job back.                        *)
THEOREM NoRecreationHolds == JobsSpec => NoRecreation
<1>1. JobsInv /\ [JobsNext]_jobVars =>
         [\A r \in Runs : row[r] = Purged => row'[r] = Purged]_jobVars
  BY StepKeeps DEF RowStep
<1> QED BY <1>1, JobsInvariant, PTL DEF JobsSpec, NoRecreation

(* A job somebody works on is failed by nobody else.                        *)
THEOREM RecoverySparesLiveHolds == JobsSpec => RecoverySparesLive
<1>1. JobsInv /\ [JobsNext]_jobVars =>
         [\A r \in Runs, q \in Replicas :
             (row[r].status \in Active /\ row'[r].status = "failed" /\ Live(q, r))
                => task'[q][r] = "ending"]_jobVars
  BY StepKeeps DEF RowStep, Active
<1> QED BY <1>1, JobsInvariant, PTL DEF JobsSpec, RecoverySparesLive

----------------------------------------------------------------------------
(* Cancellations that were answered                                         *)
(*                                                                          *)
(* A result is written by a task, and a task is started for a run nobody    *)
(* has seen.  A run whose cancellation was answered has been seen, and with *)
(* one replica it has no task any more.                                     *)

Seen ==
    \A r \in Runs :
       /\ \A p \in Replicas :
             copy[p][r] # Absent \/ listing[p][r] # Absent \/ r \in purged[p] => row[r] # Absent
       /\ r \in answered => row[r] # Absent

Quiet ==
    /\ \A p \in Replicas, r \in Runs : p \notin deployed => task[p][r] = "none"
    /\ Alone => \A p \in Replicas, r \in answered : task[p][r] = "none"

CancelInv == JobsInv /\ Seen /\ Quiet

(* What every step does to what Seen and Quiet are about. *)
KeepsSeen ==
    \A r \in Runs :
       /\ row[r] # Absent => row'[r] # Absent
       /\ \A p \in Replicas :
             /\ copy'[p][r] # Absent =>
                   copy[p][r] # Absent \/ listing[p][r] # Absent \/ row'[r] # Absent
             /\ listing'[p][r] # Absent => listing[p][r] # Absent \/ row[r] # Absent
             /\ r \in purged'[p] => r \in purged[p] \/ copy[p][r] # Absent
       /\ r \in answered' \ answered =>
             \E p \in deployed : copy[p][r] # Absent /\ task[p][r] = "none" /\ task' = task
KeepsQuiet ==
    \A r \in Runs :
       /\ \A p \in Replicas : task[p][r] = "none" /\ task'[p][r] # "none" =>
             p \in deployed /\ row[r] = Absent /\ answered' = answered
       /\ row'[r].status \in {"valid", "invalid"} /\ row'[r] # row[r] =>
             \E p \in Replicas : task[p][r] # "none"
CancelStep == KeepsSeen /\ KeepsQuiet /\ deployed' = deployed

LEMMA UpdateKeepsSeen ==
    ASSUME JobsTypeOK, NEW p \in Replicas, NEW rs \in SUBSET Runs,
           NEW status \in Active \cup Terminal, NEW result \in BOOLEAN,
           Update(p, rs, status, result)
    PROVE  \A r \in Runs :
             /\ row[r] # Absent => row'[r] # Absent
             /\ \A q \in Replicas : copy'[q][r] # Absent =>
                   copy[q][r] # Absent \/ row'[r] # Absent
<1> DEFINE kept == rs \ purged[p]
           New(r) == [status |-> status, result |-> copy[p][r].result \/ result]
           jobs == [r \in Runs |-> IF r \in kept THEN New(r) ELSE Absent]
<1>1. copy' = [copy EXCEPT ![p] = [r \in Runs |-> IF r \in kept THEN New(r) ELSE copy[p][r]]]
  BY DEF Update, JobsTypeOK
<1>2. row' = [r \in Runs |-> IF jobs[r] = Absent \/ row[r] = Purged THEN row[r] ELSE jobs[r]]
  BY DEF Update, Save
<1>3. \A r \in Runs : New(r) # Absent
  BY DEF Absent, Active, Terminal
<1>4. Purged # Absent
  BY DEF Purged, Absent
<1>5. \A r \in Runs : jobs[r] = IF r \in kept THEN New(r) ELSE Absent
  OBVIOUS
<1> HIDE DEF New, jobs, kept
<1>6. \A r \in Runs : row'[r] = row[r] \/ (r \in kept /\ row'[r] = New(r))
  BY <1>2, <1>5
<1>7. \A r \in kept : r \in Runs => row'[r] # Absent
  BY <1>2, <1>3, <1>4, <1>5
<1>8. \A r \in Runs, q \in Replicas : copy'[q][r] = copy[q][r] \/ r \in kept
  BY <1>1 DEF JobsTypeOK
<1> QED BY <1>3, <1>6, <1>7, <1>8

LEMMA MarkKeepsSeen ==
    ASSUME JobsTypeOK, NEW p \in Replicas, NEW rs \in SUBSET Runs,
           NEW status \in Active \cup Terminal, Mark(p, rs, status)
    PROVE  \A r \in Runs :
             /\ row[r] # Absent => row'[r] # Absent
             /\ \A q \in Replicas : copy'[q][r] # Absent =>
                   copy[q][r] # Absent \/ row'[r] # Absent
<1>1. {r \in rs : copy[p][r] # Absent} \in SUBSET Runs
  OBVIOUS
<1> QED BY <1>1, UpdateKeepsSeen DEF Mark

(* A step that updates the jobs of rs, for the requests of p or for a task. *)
LEMMA WriteCancelStep ==
    ASSUME JobsTypeOK, NEW p \in Replicas, NEW rs \in SUBSET Runs,
           NEW status \in Active \cup Terminal, NEW result \in BOOLEAN,
           Update(p, rs, status, result) \/ Mark(p, rs, status) \/ UNCHANGED <<row, copy>>,
           status \in {"valid", "invalid"} => \A r \in rs : task[p][r] # "none",
           \A q \in Replicas, r \in Runs : task[q][r] = "none" => task'[q][r] = "none",
           UNCHANGED <<deployed, listing, purged, answered>>
    PROVE  CancelStep
<1>1. \A r \in Runs :
         /\ row[r] # Absent => row'[r] # Absent
         /\ \A q \in Replicas : copy'[q][r] # Absent =>
               copy[q][r] # Absent \/ row'[r] # Absent
  BY UpdateKeepsSeen, MarkKeepsSeen
<1>2. \A r \in Runs : row'[r] = row[r] \/ (r \in rs /\ row'[r].status = status)
  BY UpdateEffect, MarkEffect
<1>3. KeepsSeen
  BY <1>1 DEF KeepsSeen
<1>4. KeepsQuiet
  BY <1>2 DEF KeepsQuiet
<1> QED BY <1>3, <1>4 DEF CancelStep

(* A step that writes no job and asks for nothing. *)
LEMMA AsideCancelStep ==
    ASSUME UNCHANGED <<deployed, row, copy, listing, purged, answered>>,
           \A q \in Replicas, r \in Runs : task[q][r] = "none" => task'[q][r] = "none"
    PROVE  CancelStep
BY DEF CancelStep, KeepsSeen, KeepsQuiet

LEMMA StartCancelStep ==
    ASSUME JobsTypeOK, NEW p \in Replicas, NEW r \in Runs, Start(p, r)
    PROVE  CancelStep
<1>1. /\ Update(p, {r}, "queued", FALSE) /\ row[r] = Absent /\ p \in deployed
      /\ task' = [task EXCEPT ![p][r] = "created"]
      /\ UNCHANGED <<deployed, listing, purged, answered>>
  BY DEF Start, Moves, AtAwait
<1>2. "queued" \in Active \cup Terminal /\ {r} \in SUBSET Runs
  BY DEF Active
<1>3. /\ \A q \in Runs : row'[q] = row[q] \/ row'[q].status = "queued"
      /\ \A q \in Runs :
            /\ row[q] # Absent => row'[q] # Absent
            /\ \A t \in Replicas : copy'[t][q] # Absent =>
                  copy[t][q] # Absent \/ row'[q] # Absent
  BY <1>1, <1>2, UpdateEffect, UpdateKeepsSeen
<1>4. \A q \in Replicas, t \in Runs :
         task[q][t] = "none" /\ task'[q][t] # "none" => q = p /\ t = r
  BY <1>1 DEF JobsTypeOK
<1>5. KeepsSeen
  BY <1>1, <1>3 DEF KeepsSeen
<1>6. KeepsQuiet
  BY <1>1, <1>3, <1>4 DEF KeepsQuiet
<1> QED BY <1>1, <1>5, <1>6 DEF CancelStep

LEMMA TaskCancelStep ==
    ASSUME JobsTypeOK, NEW p \in Replicas, NEW r \in Runs,
           TaskMoves(p, r) \/ Progress(p, r) \/ StageCallback(p, r)
    PROVE  CancelStep
<1>1. PICK status \in {"running", "valid", "invalid", "failed", "cancelled"}, result \in BOOLEAN :
         /\ Update(p, {r}, status, result) \/ Mark(p, {r}, status) \/ UNCHANGED <<row, copy>>
         /\ status \in {"valid", "invalid"} => task[p][r] # "none"
  <2>1. CASE TaskBegin(p, r) \/ Progress(p, r) \/ StageCallback(p, r)
    BY <2>1 DEF TaskBegin, Progress, StageCallback
  <2>2. CASE Publish(p, r)
    BY <2>2 DEF Publish
  <2>3. CASE TaskCancelled(p, r)
    BY <2>3 DEF TaskCancelled
  <2>4. CASE TaskEnds(p, r)
    BY <2>4 DEF TaskEnds
  <2>5. CASE \E status \in {"valid", "invalid"} : Generated(p, r, status)
    BY <2>5 DEF Generated, Moves
  <2>6. CASE GenerationFails(p, r)
    BY <2>6 DEF GenerationFails
  <2> QED BY <2>1, <2>2, <2>3, <2>4, <2>5, <2>6 DEF TaskMoves
<1>2. UNCHANGED <<deployed, listing, purged, answered>>
  BY DEF TaskMoves, TaskBegin, Publish, TaskCancelled, TaskEnds, Generated, GenerationFails,
         Progress, StageCallback
<1>3. UNCHANGED task \/ (task[p][r] # "none" /\ \E to : task' = [task EXCEPT ![p][r] = to])
  BY DEF TaskMoves, TaskBegin, Publish, TaskCancelled, TaskEnds, Generated, GenerationFails,
         Progress, StageCallback, Moves
<1>4. \A q \in Replicas, t \in Runs : task[q][t] = "none" => task'[q][t] = "none"
  <2>1. CASE UNCHANGED task
    BY <2>1
  <2>2. CASE task[p][r] # "none" /\ \E to : task' = [task EXCEPT ![p][r] = to]
    <3>1. PICK to : task' = [task EXCEPT ![p][r] = to]
      BY <2>2
    <3> QED BY <2>2, <3>1 DEF JobsTypeOK
  <2> QED BY <1>3, <2>1, <2>2
<1>5. status \in Active \cup Terminal /\ {r} \in SUBSET Runs
  BY DEF Active, Terminal
<1> QED BY <1>1, <1>2, <1>4, <1>5, WriteCancelStep

LEMMA RequestCancelStep ==
    ASSUME JobsTypeOK, NEW p \in Replicas, NEW r \in Runs,
           CancelBegin(p, r) \/ CancelTask(p, r) \/ CancelReturn(p, r) \/ Heartbeat(p, r)
    PROVE  CancelStep
<1>1. CASE CancelBegin(p, r)
  <2>1. "cancelled" \in Active \cup Terminal /\ {r} \in SUBSET Runs /\ TRUE \in BOOLEAN
    BY DEF Terminal
  <2> QED BY <1>1, <2>1, WriteCancelStep DEF CancelBegin
<1>2. CASE CancelTask(p, r) \/ Heartbeat(p, r)
  <2>1. task' = [task EXCEPT ![p][r] = Stopping(task[p][r])]
    BY <1>2 DEF CancelTask, Heartbeat, JobsTypeOK
  <2>2. task[p][r] = "none" => Stopping(task[p][r]) = "none"
    BY DEF Stopping
  <2>3. \A q \in Replicas, t \in Runs : task[q][t] = "none" => task'[q][t] = "none"
    BY <2>1, <2>2 DEF JobsTypeOK
  <2> QED BY <1>2, <2>3, AsideCancelStep DEF CancelTask, Heartbeat
<1>3. CASE CancelReturn(p, r)
  <2>1. "cancelled" \in Active \cup Terminal /\ {r} \in SUBSET Runs
    BY DEF Terminal
  <2>2. Mark(p, {r}, "cancelled") /\ UNCHANGED <<deployed, task, listing, purged>>
    BY <1>3 DEF CancelReturn
  <2>3. /\ p \in deployed /\ task[p][r] = "none"
        /\ answered' = IF copy[p][r] = Absent THEN answered ELSE answered \cup {r}
    BY <1>3 DEF CancelReturn, AtAwait
  <2>4. \A q \in Runs :
          /\ row[q] # Absent => row'[q] # Absent
          /\ \A t \in Replicas : copy'[t][q] # Absent =>
                copy[t][q] # Absent \/ row'[q] # Absent
    BY <2>1, <2>2, MarkKeepsSeen
  <2>5. \A q \in Runs : row'[q] = row[q] \/ row'[q].status = "cancelled"
    BY <2>1, <2>2, MarkEffect
  <2>6. KeepsSeen
    BY <2>2, <2>3, <2>4 DEF KeepsSeen
  <2>7. KeepsQuiet
    BY <2>2, <2>5 DEF KeepsQuiet
  <2> QED BY <2>2, <2>6, <2>7 DEF CancelStep
<1> QED BY <1>1, <1>2, <1>3

LEMMA ClearCancelStep ==
    ASSUME JobsTypeOK, NEW p \in Replicas, ClearBegin(p) \/ ClearTasks(p) \/ ClearReturn(p)
    PROVE  CancelStep
<1>1. CASE ClearBegin(p)
  <2> DEFINE ids == {r \in Runs : copy[p][r] # Absent}
             active == {r \in ids : copy[p][r].status \in Active}
  <2>1. "cancelled" \in Active \cup Terminal /\ active \in SUBSET Runs
    BY DEF Terminal
  <2>2. /\ Mark(p, active, "cancelled") /\ purged' = [purged EXCEPT ![p] = purged[p] \cup ids]
        /\ UNCHANGED <<deployed, task, listing, answered>>
    BY <1>1 DEF ClearBegin, JobsTypeOK
  <2>3. \A q \in Replicas, r \in Runs : r \in purged'[q] => r \in purged[q] \/ copy[q][r] # Absent
    BY <2>2 DEF JobsTypeOK
  <2> HIDE DEF active, ids
  <2>4. /\ \A q \in Runs :
             /\ row[q] # Absent => row'[q] # Absent
             /\ \A t \in Replicas : copy'[t][q] # Absent =>
                   copy[t][q] # Absent \/ row'[q] # Absent
        /\ \A q \in Runs : row'[q] = row[q] \/ row'[q].status = "cancelled"
    BY <2>1, <2>2, MarkKeepsSeen, MarkEffect
  <2>5. KeepsSeen
    BY <2>2, <2>3, <2>4 DEF KeepsSeen
  <2>6. KeepsQuiet
    BY <2>2, <2>4 DEF KeepsQuiet
  <2> QED BY <2>2, <2>5, <2>6 DEF CancelStep
<1>2. CASE ClearTasks(p)
  <2> DEFINE active == clear[p].active
  <2>1. task' = [task EXCEPT ![p] =
                   [r \in Runs |-> IF r \in active THEN Stopping(task[p][r]) ELSE task[p][r]]]
    BY <1>2 DEF ClearTasks, JobsTypeOK
  <2> HIDE DEF active
  <2>2. \A r \in Runs : task[p][r] = "none" => Stopping(task[p][r]) = "none"
    BY DEF Stopping
  <2>3. \A q \in Replicas, t \in Runs : task[q][t] = "none" => task'[q][t] = "none"
    BY <2>1, <2>2 DEF JobsTypeOK
  <2> QED BY <1>2, <2>3, AsideCancelStep DEF ClearTasks
<1>3. CASE ClearReturn(p)
  <2>1. /\ \A r \in Runs : row'[r] = row[r] \/ row'[r] = Purged
        /\ Purged # Absent /\ Purged.status = "purged"
    BY <1>3 DEF ClearReturn, Purged, Absent
  <2>2. \A q \in Replicas, r \in Runs : copy'[q][r] = copy[q][r] \/ copy'[q][r] = Absent
    BY <1>3 DEF ClearReturn, JobsTypeOK
  <2>3. UNCHANGED <<deployed, task, listing, purged, answered>>
    BY <1>3 DEF ClearReturn
  <2> QED BY <2>1, <2>2, <2>3 DEF CancelStep, KeepsSeen, KeepsQuiet
<1> QED BY <1>1, <1>2, <1>3

LEMMA RefreshCancelStep ==
    ASSUME JobsTypeOK, NEW p \in Replicas, ListRead(p) \/ ListRefresh(p) \/ ScanBegin(p)
    PROVE  CancelStep
<1>1. UNCHANGED <<deployed, row, task, purged, answered>>
  BY DEF ListRead, ListRefresh, ScanBegin
<1>2. \A q \in Replicas, r \in Runs :
         copy'[q][r] # Absent => copy[q][r] # Absent \/ listing[q][r] # Absent \/ row[r] # Absent
  <2>1. CASE ListRead(p)
    BY <2>1 DEF ListRead
  <2>2. CASE ListRefresh(p)
    BY <2>2 DEF ListRefresh, Refreshed, JobsTypeOK
  <2>3. CASE ScanBegin(p)
    BY <2>3 DEF ScanBegin, Refreshed, JobsTypeOK
  <2> QED BY <2>1, <2>2, <2>3
<1>3. \A q \in Replicas, r \in Runs :
         listing'[q][r] # Absent => listing[q][r] # Absent \/ row[r] # Absent
  <2>1. CASE ListRead(p)
    BY <2>1 DEF ListRead, JobsTypeOK, Exists
  <2>2. CASE ListRefresh(p)
    BY <2>2 DEF ListRefresh, JobsTypeOK
  <2>3. CASE ScanBegin(p)
    BY <2>3 DEF ScanBegin
  <2> QED BY <2>1, <2>2, <2>3
<1> QED BY <1>1, <1>2, <1>3 DEF CancelStep, KeepsSeen, KeepsQuiet

LEMMA CrashCancelStep ==
    ASSUME JobsTypeOK, NEW p \in Replicas, Crash(p)
    PROVE  CancelStep
<1>1. UNCHANGED <<deployed, row, answered>>
  BY DEF Crash
<1>2. \A q \in Replicas, r \in Runs : copy'[q][r] # Absent => copy[q][r] # Absent \/ row[r] # Absent
  BY DEF Crash, JobsTypeOK, Exists
<1>3. \A q \in Replicas, r \in Runs : listing'[q][r] # Absent => listing[q][r] # Absent
  BY DEF Crash, JobsTypeOK
<1>4. \A q \in Replicas, r \in Runs : r \in purged'[q] => r \in purged[q]
  BY DEF Crash, JobsTypeOK
<1>5. \A q \in Replicas, r \in Runs : task[q][r] = "none" => task'[q][r] = "none"
  BY DEF Crash, JobsTypeOK
<1> QED BY <1>1, <1>2, <1>3, <1>4, <1>5 DEF CancelStep, KeepsSeen, KeepsQuiet

LEMMA OtherCancelStep ==
    ASSUME JobsTypeOK, NEW p \in Replicas, NEW r \in Runs,
           \/ SandboxStart(p, r) \/ ThreadStep(p, r) \/ ScanClaim(p, r) \/ ScanFail(p)
           \/ LeaseExpires(r)
    PROVE  CancelStep
<1>1. CASE ScanFail(p)
  <2>1. PICK s \in Runs : s = claimed[p]
    BY <1>1 DEF ScanFail, JobsTypeOK
  <2>2. Mark(p, {s}, "failed") /\ UNCHANGED <<deployed, task, listing, purged, answered>>
    BY <1>1, <2>1 DEF ScanFail
  <2>3. "failed" \in Active \cup Terminal /\ {s} \in SUBSET Runs /\ TRUE \in BOOLEAN
    BY DEF Terminal
  <2> QED BY <2>2, <2>3, WriteCancelStep
<1>2. CASE SandboxStart(p, r) \/ ThreadStep(p, r) \/ ScanClaim(p, r) \/ LeaseExpires(r)
  BY <1>2, AsideCancelStep DEF SandboxStart, ThreadStep, ScanClaim, LeaseExpires
<1> QED BY <1>1, <1>2

LEMMA EveryCancelStep ==
    ASSUME JobsInv, JobsNext
    PROVE  CancelStep
<1>1. JobsTypeOK
  BY DEF JobsInv
<1>2. ASSUME NEW p \in Replicas, NEW r \in Runs,
             \/ Start(p, r) \/ TaskMoves(p, r) \/ Progress(p, r) \/ SandboxStart(p, r)
             \/ StageCallback(p, r) \/ ThreadStep(p, r) \/ Heartbeat(p, r)
             \/ CancelBegin(p, r) \/ CancelTask(p, r) \/ CancelReturn(p, r)
             \/ ScanClaim(p, r)
      PROVE  CancelStep
  BY <1>1, <1>2, StartCancelStep, TaskCancelStep, RequestCancelStep, OtherCancelStep
<1>3. ASSUME NEW p \in Replicas,
             \/ ClearBegin(p) \/ ClearTasks(p) \/ ClearReturn(p)
             \/ ListRead(p) \/ ListRefresh(p) \/ Crash(p) \/ ScanBegin(p)
      PROVE  CancelStep
  BY <1>1, <1>3, ClearCancelStep, RefreshCancelStep, CrashCancelStep
<1>4. ASSUME NEW p \in Replicas, ScanFail(p)
      PROVE  CancelStep
  <2>1. PICK r \in Runs : r = claimed[p]
    BY <1>1, <1>4 DEF ScanFail, JobsTypeOK
  <2> QED BY <1>1, <1>4, <2>1, OtherCancelStep
<1>5. ASSUME NEW r \in Runs, LeaseExpires(r)
      PROVE  CancelStep
  BY <1>1, <1>5, AsideCancelStep DEF LeaseExpires
<1> QED BY <1>2, <1>3, <1>4, <1>5 DEF JobsNext, Replica

LEMMA CancelInvInitially == JobsInit => CancelInv
<1> SUFFICES ASSUME JobsInit PROVE CancelInv
  OBVIOUS
<1>1. Seen
  BY DEF JobsInit, Seen
<1>2. Quiet
  BY DEF JobsInit, Quiet
<1> QED BY <1>1, <1>2, JobsInvInitially DEF CancelInv

LEMMA CancelInvKept == CancelInv /\ [JobsNext]_jobVars => CancelInv'
<1> SUFFICES ASSUME CancelInv, [JobsNext]_jobVars PROVE CancelInv'
  OBVIOUS
<1>1. JobsInv' /\ JobsInv
  BY JobsInvKept DEF CancelInv
<1>2. CancelStep
  BY <1>1, EveryCancelStep, AsideCancelStep DEF jobVars
<1>3. Seen'
  <2>1. ASSUME NEW r \in Runs, NEW p \in Replicas,
               copy'[p][r] # Absent \/ listing'[p][r] # Absent \/ r \in purged'[p]
        PROVE  row'[r] # Absent
    BY <1>2, <2>1 DEF CancelInv, Seen, CancelStep, KeepsSeen
  <2>2. ASSUME NEW r \in Runs, r \in answered'
        PROVE  row'[r] # Absent
    <3>1. deployed \subseteq Replicas
      BY <1>1 DEF JobsInv, JobsTypeOK
    <3>2. CASE r \in answered
      BY <1>2, <3>2 DEF CancelInv, Seen, CancelStep, KeepsSeen
    <3>3. CASE r \notin answered
      <4>1. PICK p \in deployed : copy[p][r] # Absent
        BY <1>2, <2>2, <3>3 DEF CancelStep, KeepsSeen
      <4> QED BY <1>2, <3>1, <4>1 DEF CancelInv, Seen, CancelStep, KeepsSeen
    <3> QED BY <3>2, <3>3
  <2> QED BY <2>1, <2>2 DEF Seen
<1>4. Quiet'
  <2>1. deployed' = deployed
    BY <1>2 DEF CancelStep
  <2>2. ASSUME NEW p \in Replicas, NEW r \in Runs, p \notin deployed
        PROVE  task'[p][r] = "none"
    BY <1>2, <2>2 DEF CancelInv, Quiet, CancelStep, KeepsQuiet
  <2>3. ASSUME Alone, NEW p \in Replicas, NEW r \in answered'
        PROVE  task'[p][r] = "none"
    <3>1. r \in Runs
      BY <1>1 DEF JobsInv, JobsTypeOK
    <3>2. CASE r \in answered
      <4>1. task[p][r] = "none" /\ row[r] # Absent
        BY <2>3, <3>1, <3>2 DEF CancelInv, Quiet, Seen
      <4> QED BY <1>2, <3>1, <4>1 DEF CancelStep, KeepsQuiet
    <3>3. CASE r \notin answered
      <4>1. PICK q \in deployed : task[q][r] = "none" /\ task' = task
        BY <1>2, <2>3, <3>1, <3>3 DEF CancelStep, KeepsSeen
      <4>2. deployed = {q}
        <5>1. IsFiniteSet(deployed)
          BY <1>1, JobsAssumption, FS_Subset DEF JobsInv, JobsTypeOK
        <5>2. PICK x : deployed = {x}
          BY <2>3, <5>1, FS_Singleton DEF Alone
        <5> QED BY <5>2
      <4>3. CASE p = q
        BY <4>1, <4>3
      <4>4. CASE p # q
        BY <3>1, <4>1, <4>2, <4>4 DEF CancelInv, Quiet
      <4> QED BY <4>3, <4>4
    <3> QED BY <3>2, <3>3
  <2>4. Alone' => Alone
    BY <2>1 DEF Alone
  <2> QED BY <2>1, <2>2, <2>3, <2>4 DEF Quiet
<1> QED BY <1>1, <1>3, <1>4 DEF CancelInv

(* With one replica, a job whose cancellation was answered delivers no      *)
(* result any more.                                                         *)
THEOREM CancelIsEffectiveHolds == JobsSpec => CancelIsEffective
<1>1. CancelInv /\ [JobsNext]_jobVars =>
         [Alone => \A r \in answered : row'[r].status \in {"valid", "invalid"}
             => row'[r].status = row[r].status]_jobVars
  <2> SUFFICES ASSUME CancelInv, JobsNext, Alone, NEW r \in answered,
                      row'[r].status \in {"valid", "invalid"}
               PROVE  row'[r].status = row[r].status
    OBVIOUS
  <2>1. CancelStep
    BY EveryCancelStep DEF CancelInv
  <2>2. r \in Runs /\ \A p \in Replicas : task[p][r] = "none"
    BY DEF CancelInv, JobsInv, JobsTypeOK, Quiet
  <2>3. row'[r] = row[r]
    BY <2>1, <2>2 DEF CancelStep, KeepsQuiet
  <2> QED BY <2>3
<1> QED BY <1>1, CancelInvInitially, CancelInvKept, PTL DEF JobsSpec, CancelIsEffective

----------------------------------------------------------------------------
(* Results that were saved                                                  *)
(*                                                                          *)
(* A stale copy loses a result when somebody writes it back: a task, a late *)
(* thread or a recovery.  None of them is left to a run by the time it has  *)
(* a result, and none comes back, since only a new run gets a task and a    *)
(* recovery looks at active rows only.  The result may sit in the row, in   *)
(* the copy or in what a list request read, each of which replaces another. *)

Still(p, r) ==
    /\ task[p][r] \in {"none", "ending"} /\ thread[p][r] = "none"
    /\ r \notin scan[p] /\ claimed[p] # r
Rests(p, r) == row[r].status \in Terminal /\ Still(p, r)
HasResult(p, r) == row[r].result \/ copy[p][r].result \/ listing[p][r].result

ResultsRest ==
    Alone => \A p \in deployed, r \in Runs : HasResult(p, r) => Rests(p, r) \/ row[r] = Purged

(* The stretches of a replica: a task has no thread where it begins and     *)
(* where it publishes, and it publishes before any recovery goes on.        *)
Stretch(p) ==
    \A r \in Runs :
       /\ task[p][r] \in {"created", "valid", "invalid"} => thread[p][r] = "none"
       /\ task[p][r] # "none" \/ thread[p][r] # "none" => row[r] # Absent
       /\ task[p][r] \in {"valid", "invalid"} => scan[p] = {} /\ claimed[p] = Nobody
Idle(p) ==
    /\ scan[p] = {} /\ claimed[p] = Nobody
    /\ \A r \in Runs : thread[p][r] = "none" /\ listing[p][r] = Absent
StretchInv == \A p \in Replicas : Stretch(p) /\ (p \notin deployed => Idle(p))

ResultInv == CancelInv /\ StretchInv /\ ResultsRest

(* The status that may be written over a result. *)
Withdrawn == {"cancelled"}

(* What a step of replica p does to a result. *)
ResultStep(p) ==
    \A r \in Runs :
       /\ Rests(p, r) => row'[r] = row[r] \/ row'[r].status = "cancelled" \/ row'[r] = Purged
       /\ Rests(p, r) => Rests(p, r)' \/ row'[r] = Purged
       /\ HasResult(p, r)' => HasResult(p, r) \/ Rests(p, r)' \/ row'[r] = Purged

(* The step is one of p, and its stretch goes on. *)
Elsewhere(p) ==
    \A q \in Replicas : q # p =>
       /\ task'[q] = task[q] /\ thread'[q] = thread[q] /\ scan'[q] = scan[q]
       /\ claimed'[q] = claimed[q] /\ listing'[q] = listing[q]
RowsStay == \A r \in Runs : row[r] # Absent => row'[r] # Absent
StretchStep(p) == Elsewhere(p) /\ Stretch(p)' /\ \A r \in Runs : Rests(p, r) => Still(p, r)'

LEMMA UpdateResults ==
    ASSUME JobsTypeOK, NEW p \in Replicas, NEW rs \in SUBSET Runs,
           NEW status \in Active \cup Terminal, NEW result \in BOOLEAN,
           Update(p, rs, status, result)
    PROVE  \A r \in Runs : row'[r].result \/ copy'[p][r].result =>
              \/ row[r].result \/ copy[p][r].result
              \/ r \in rs /\ result = TRUE /\ (row'[r].status = status \/ row'[r] = Purged)
<1> DEFINE kept == rs \ purged[p]
           New(r) == [status |-> status, result |-> copy[p][r].result \/ result]
           jobs == [r \in Runs |-> IF r \in kept THEN New(r) ELSE Absent]
<1>1. copy' = [copy EXCEPT ![p] = [r \in Runs |-> IF r \in kept THEN New(r) ELSE copy[p][r]]]
  BY DEF Update, JobsTypeOK
<1>2. row' = [r \in Runs |-> IF jobs[r] = Absent \/ row[r] = Purged THEN row[r] ELSE jobs[r]]
  BY DEF Update, Save
<1>3. \A r \in Runs : jobs[r] = IF r \in kept THEN New(r) ELSE Absent
  OBVIOUS
<1>4. \A r \in Runs :
         /\ New(r).status = status /\ New(r).result = (copy[p][r].result \/ result)
         /\ New(r) # Absent
  BY DEF Absent, Active, Terminal
<1> HIDE DEF New, jobs
<1>5. \A r \in Runs : copy'[p][r] = IF r \in kept THEN New(r) ELSE copy[p][r]
  BY <1>1 DEF JobsTypeOK
<1>6. ASSUME NEW r \in Runs, r \notin kept
      PROVE  row'[r] = row[r] /\ copy'[p][r] = copy[p][r]
  BY <1>2, <1>3, <1>5, <1>6
<1>7. ASSUME NEW r \in Runs, r \in kept
      PROVE  /\ (row'[r] = Purged /\ row'[r] = row[r]) \/ row'[r] = New(r)
             /\ copy'[p][r] = New(r)
  BY <1>2, <1>3, <1>4, <1>5, <1>7
<1>8. ASSUME NEW r \in Runs, row'[r].result \/ copy'[p][r].result, r \in kept
      PROVE  \/ row[r].result \/ copy[p][r].result
             \/ result = TRUE /\ (row'[r].status = status \/ row'[r] = Purged)
  BY <1>4, <1>7, <1>8
<1> QED BY <1>6, <1>8

LEMMA MarkResults ==
    ASSUME JobsTypeOK, NEW p \in Replicas, NEW rs \in SUBSET Runs,
           NEW status \in Active \cup Terminal, Mark(p, rs, status)
    PROVE  \A r \in Runs : row'[r].result \/ copy'[p][r].result =>
              row[r].result \/ copy[p][r].result
<1>1. {r \in rs : copy[p][r] # Absent} \in SUBSET Runs
  OBVIOUS
<1> QED BY <1>1, UpdateResults DEF Mark

(* A step that writes jobs of rs and leaves alone what rests. *)
LEMMA WriteResultStep ==
    ASSUME JobsTypeOK, NEW p \in Replicas, NEW rs \in SUBSET Runs,
           NEW status \in Active \cup Terminal,
           \/ Update(p, rs, status, FALSE)
           \/ Mark(p, rs, status)
           \/ UNCHANGED <<row, copy>>,
           status \in Withdrawn \/ \A r \in rs : ~Rests(p, r),
           \A r \in Runs : Rests(p, r) => Still(p, r)',
           listing' = listing
    PROVE  ResultStep(p)
<1>1. FALSE \in BOOLEAN
  OBVIOUS
<1>2. \A r \in Runs : row'[r] = row[r] \/ (r \in rs /\ row'[r].status = status)
  <2>1. CASE Update(p, rs, status, FALSE)
    BY <1>1, <2>1, UpdateEffect
  <2>2. CASE Mark(p, rs, status)
    BY <2>2, MarkEffect
  <2> QED BY <2>1, <2>2
<1>3. \A r \in Runs : row'[r].result \/ copy'[p][r].result => row[r].result \/ copy[p][r].result
  <2>1. CASE Update(p, rs, status, FALSE)
    BY <1>1, <2>1, UpdateResults
  <2>2. CASE Mark(p, rs, status)
    BY <2>2, MarkResults
  <2> QED BY <2>1, <2>2
<1>4. ASSUME NEW r \in Runs, Rests(p, r)
      PROVE  row'[r] = row[r] \/ row'[r].status = "cancelled"
  BY <1>2, <1>4 DEF Withdrawn
<1>5. ASSUME NEW r \in Runs, Rests(p, r)
      PROVE  Rests(p, r)'
  BY <1>4, <1>5 DEF Rests, Terminal
<1>6. ASSUME NEW r \in Runs, HasResult(p, r)'
      PROVE  HasResult(p, r)
  BY <1>3, <1>6 DEF HasResult
<1> QED BY <1>4, <1>5, <1>6 DEF ResultStep

(* Steps that leave the stretch of p as it is, move a task or a thread, or  *)
(* ask tasks to stop.                                                       *)
LEMMA SameStretch ==
    ASSUME NEW p \in Replicas, Stretch(p), RowsStay,
           UNCHANGED <<task, thread, scan, claimed>>,
           \A q \in Replicas : q # p => listing'[q] = listing[q]
    PROVE  StretchStep(p)
BY DEF StretchStep, Stretch, Elsewhere, RowsStay, Rests, Still

LEMMA MoveStretch ==
    ASSUME JobsTypeOK, NEW p \in Replicas, NEW r \in Runs, Stretch(p), RowsStay,
           task[p][r] # "none",
           NEW to \in {"working", "valid", "invalid", "ending", "none"},
           task' = [task EXCEPT ![p][r] = to],
           to \in {"valid", "invalid"} =>
              thread[p][r] = "none" /\ scan[p] = {} /\ claimed[p] = Nobody,
           to \in {"none", "ending"} \/ ~Rests(p, r),
           UNCHANGED <<thread, scan, claimed, listing>>
    PROVE  StretchStep(p)
<1>1. /\ task'[p][r] = to
      /\ \A q \in Replicas : q # p => task'[q] = task[q]
      /\ \A s \in Runs : s # r => task'[p][s] = task[p][s]
  BY DEF JobsTypeOK
<1>2. Elsewhere(p)
  BY <1>1 DEF Elsewhere
<1>3. Stretch(p)'
  BY <1>1 DEF Stretch, RowsStay
<1>4. ASSUME NEW s \in Runs, Rests(p, s) PROVE Still(p, s)'
  BY <1>1, <1>4 DEF Rests, Still
<1> QED BY <1>2, <1>3, <1>4 DEF StretchStep

LEMMA ThreadStretch ==
    ASSUME JobsTypeOK, NEW p \in Replicas, NEW r \in Runs, Stretch(p), RowsStay,
           NEW to \in {"none", "checked", "called"},
           thread' = [thread EXCEPT ![p][r] = to],
           to # "none" => thread[p][r] # "none" \/ task[p][r] = "working",
           UNCHANGED <<task, scan, claimed, listing>>
    PROVE  StretchStep(p)
<1>1. /\ thread'[p][r] = to
      /\ \A q \in Replicas : q # p => thread'[q] = thread[q]
      /\ \A s \in Runs : s # r => thread'[p][s] = thread[p][s]
  BY DEF JobsTypeOK
<1>2. Elsewhere(p)
  BY <1>1 DEF Elsewhere
<1>3. Stretch(p)'
  BY <1>1 DEF Stretch, RowsStay
<1>4. ASSUME NEW s \in Runs, Rests(p, s) PROVE Still(p, s)'
  BY <1>1, <1>4 DEF Rests, Still
<1> QED BY <1>2, <1>3, <1>4 DEF StretchStep

LEMMA StopStretch ==
    ASSUME JobsTypeOK, NEW p \in Replicas, Stretch(p), RowsStay,
           \A q \in Replicas : q # p => task'[q] = task[q],
           \A r \in Runs : task'[p][r] \in {task[p][r], Stopping(task[p][r])},
           UNCHANGED <<thread, scan, claimed, listing>>
    PROVE  StretchStep(p)
<1>1. \A r \in Runs :
         \/ task'[p][r] = task[p][r]
         \/ task[p][r] # "none" /\ task'[p][r] \in {"ending", "stopping"}
               /\ task[p][r] # "ending"
  BY DEF Stopping
<1>2. Elsewhere(p)
  BY DEF Elsewhere
<1>3. Stretch(p)'
  BY <1>1 DEF Stretch, RowsStay
<1>4. ASSUME NEW s \in Runs, Rests(p, s) PROVE Still(p, s)'
  BY <1>1, <1>4 DEF Rests, Still
<1> QED BY <1>2, <1>3, <1>4 DEF StretchStep

(* The steps of the task. *)
LEMMA TaskResultStep ==
    ASSUME JobsTypeOK, NEW p \in Replicas, NEW r \in Runs, Stretch(p), RowsStay,
           TaskBegin(p, r) \/ TaskCancelled(p, r) \/ TaskEnds(p, r) \/ GenerationFails(p, r)
              \/ \E status \in {"valid", "invalid"} : Generated(p, r, status)
    PROVE  StretchStep(p) /\ ResultStep(p)
<1>0. {r} \in SUBSET Runs /\ {} \in SUBSET Runs
  OBVIOUS
<1>1. CASE TaskBegin(p, r)
  <2>1. PICK to \in {"working", "valid"} :
           task[p][r] = "created" /\ task' = [task EXCEPT ![p][r] = to]
    BY <1>1 DEF TaskBegin, Moves
  <2>2. /\ scan[p] = {} /\ claimed[p] = Nobody /\ thread[p][r] = "none" /\ ~Rests(p, r)
        /\ Update(p, {r}, "running", FALSE) /\ UNCHANGED <<thread, scan, claimed, listing>>
    BY <1>1, <2>1 DEF TaskBegin, AtAwait, Stretch, Rests, Still
  <2>3. StretchStep(p)
    BY <2>1, <2>2, MoveStretch
  <2>4. "running" \in Active \cup Terminal
    BY DEF Active
  <2> QED BY <1>0, <2>2, <2>3, <2>4, WriteResultStep DEF StretchStep
<1>2. CASE TaskCancelled(p, r)
  <2>1. /\ task[p][r] = "stopping" /\ task' = [task EXCEPT ![p][r] = "ending"]
        /\ Mark(p, {r}, "cancelled") /\ UNCHANGED <<thread, scan, claimed, listing>>
    BY <1>2 DEF TaskCancelled, Moves
  <2>2. StretchStep(p)
    BY <2>1, MoveStretch
  <2>3. "cancelled" \in Active \cup Terminal /\ "cancelled" \in Withdrawn
    BY DEF Terminal, Withdrawn
  <2> QED BY <1>0, <2>1, <2>2, <2>3, WriteResultStep DEF StretchStep
<1>3. CASE TaskEnds(p, r)
  <2>1. /\ task[p][r] = "ending" /\ task' = [task EXCEPT ![p][r] = "none"]
        /\ UNCHANGED <<row, copy, thread, scan, claimed, listing>>
    BY <1>3 DEF TaskEnds, Moves
  <2>2. StretchStep(p)
    BY <2>1, MoveStretch
  <2>3. "cancelled" \in Active \cup Terminal /\ "cancelled" \in Withdrawn
    BY DEF Terminal, Withdrawn
  <2> QED BY <1>0, <2>1, <2>2, <2>3, WriteResultStep DEF StretchStep
<1>4. CASE GenerationFails(p, r)
  <2>1. /\ task[p][r] = "working" /\ task' = [task EXCEPT ![p][r] = "ending"]
        /\ Mark(p, {r}, "failed") \/ UNCHANGED <<row, copy>>
        /\ UNCHANGED <<thread, scan, claimed, listing>>
    BY <1>4 DEF GenerationFails, Moves
  <2>2. ~Rests(p, r)
    BY <2>1 DEF Rests, Still
  <2>3. StretchStep(p)
    BY <2>1, MoveStretch
  <2>4. "failed" \in Active \cup Terminal
    BY DEF Terminal
  <2> QED BY <1>0, <2>1, <2>2, <2>3, <2>4, WriteResultStep DEF StretchStep
<1>5. ASSUME NEW status \in {"valid", "invalid"}, Generated(p, r, status)
      PROVE  StretchStep(p) /\ ResultStep(p)
  <2>1. /\ task[p][r] = "working" /\ task' = [task EXCEPT ![p][r] = status]
        /\ thread[p][r] = "none" /\ scan[p] = {} /\ claimed[p] = Nobody
        /\ Update(p, {r}, status, FALSE) /\ UNCHANGED <<thread, scan, claimed, listing>>
    BY <1>5 DEF Generated, Moves, AtAwait
  <2>2. ~Rests(p, r)
    BY <2>1 DEF Rests, Still
  <2>3. StretchStep(p)
    BY <2>1, <2>2, MoveStretch
  <2>4. status \in Active \cup Terminal
    BY DEF Terminal
  <2> QED BY <1>0, <2>1, <2>2, <2>3, <2>4, WriteResultStep DEF StretchStep
<1> QED BY <1>1, <1>2, <1>3, <1>4, <1>5

(* A result comes to be where nobody else is at the run. *)
LEMMA PublishResultStep ==
    ASSUME JobsTypeOK, NEW p \in Replicas, NEW r \in Runs, Stretch(p), RowsStay, Publish(p, r)
    PROVE  StretchStep(p) /\ ResultStep(p)
<1>1. /\ task[p][r] \in {"valid", "invalid"} /\ task' = [task EXCEPT ![p][r] = "ending"]
      /\ thread[p][r] = "none" /\ scan[p] = {} /\ claimed[p] = Nobody
      /\ UNCHANGED <<thread, scan, claimed, listing>>
  BY DEF Publish, Stretch
<1>2. StretchStep(p)
  BY <1>1, MoveStretch
<1>3. {r} \in SUBSET Runs
  OBVIOUS
<1>4. CASE UNCHANGED <<row, copy>>
  <2>1. "cancelled" \in Active \cup Terminal /\ "cancelled" \in Withdrawn
    BY DEF Terminal, Withdrawn
  <2> QED BY <1>1, <1>2, <1>3, <1>4, <2>1, WriteResultStep DEF StretchStep
<1>5. ASSUME Update(p, {r}, task[p][r], TRUE)
      PROVE  ResultStep(p)
  <2>1. PICK status \in {"valid", "invalid"} : status = task[p][r]
    BY <1>1
  <2>2. status \in Active \cup Terminal /\ status \in Terminal
    BY DEF Terminal
  <2>3. Update(p, {r}, status, TRUE) /\ TRUE \in BOOLEAN
    BY <1>5, <2>1
  <2>4. \A s \in Runs : row'[s] = row[s] \/ (s \in {r} /\ row'[s].status = status)
    BY <1>3, <2>2, <2>3, UpdateEffect
  <2>5. \A s \in Runs : row'[s].result \/ copy'[p][s].result =>
           \/ row[s].result \/ copy[p][s].result
           \/ s \in {r} /\ TRUE /\ (row'[s].status = status \/ row'[s] = Purged)
    BY <1>3, <2>2, <2>3, UpdateResults
  <2>6. ~Rests(p, r)
    BY <1>1 DEF Rests, Still
  <2>7. Still(p, r)'
    BY <1>1, JobsAssumption DEF Still, JobsTypeOK
  <2>8. ASSUME NEW s \in Runs, Rests(p, s)
        PROVE  row'[s] = row[s] /\ Rests(p, s)'
    <3>1. s # r
      BY <2>6, <2>8
    <3>2. row'[s] = row[s]
      BY <2>4, <3>1
    <3> QED BY <1>2, <2>8, <3>2 DEF StretchStep, Rests
  <2>9. ASSUME NEW s \in Runs, HasResult(p, s)'
        PROVE  HasResult(p, s) \/ Rests(p, s)' \/ row'[s] = Purged
    <3>1. CASE s = r
      BY <1>1, <2>2, <2>5, <2>7, <2>9, <3>1 DEF HasResult, Rests
    <3>2. CASE s # r
      BY <1>1, <2>5, <2>9, <3>2 DEF HasResult
    <3> QED BY <3>1, <3>2
  <2> QED BY <2>8, <2>9 DEF ResultStep
<1> QED BY <1>2, <1>4, <1>5 DEF Publish

(* Reports and threads: a late thread belongs to a run that has no result.  *)
LEMMA ThreadResultStep ==
    ASSUME JobsTypeOK, NEW p \in Replicas, NEW r \in Runs, Stretch(p), RowsStay,
           Progress(p, r) \/ StageCallback(p, r) \/ SandboxStart(p, r) \/ ThreadStep(p, r)
    PROVE  StretchStep(p) /\ ResultStep(p)
<1>0. /\ {r} \in SUBSET Runs /\ {} \in SUBSET Runs
      /\ "running" \in Active \cup Terminal
  BY DEF Active
<1>1. CASE Progress(p, r)
  <2>1. /\ task[p][r] = "working" /\ Update(p, {r}, "running", FALSE)
        /\ UNCHANGED <<task, thread, scan, claimed, listing>>
    BY <1>1 DEF Progress
  <2>2. StretchStep(p) /\ ~Rests(p, r)
    BY <2>1, SameStretch DEF Rests, Still
  <2> QED BY <1>0, <2>1, <2>2, WriteResultStep DEF StretchStep
<1>2. CASE StageCallback(p, r)
  <2>1. /\ thread[p][r] = "checked" /\ Update(p, {r}, "running", FALSE)
        /\ thread' = [thread EXCEPT ![p][r] = "called"]
        /\ UNCHANGED <<task, scan, claimed, listing>>
    BY <1>2 DEF StageCallback
  <2>2. StretchStep(p) /\ ~Rests(p, r)
    BY <2>1, ThreadStretch DEF Rests, Still
  <2> QED BY <1>0, <2>1, <2>2, WriteResultStep DEF StretchStep
<1>3. CASE SandboxStart(p, r) \/ ThreadStep(p, r)
  <2>1. PICK to \in {"none", "checked"} :
           /\ thread' = [thread EXCEPT ![p][r] = to]
           /\ to # "none" => thread[p][r] # "none" \/ task[p][r] = "working"
    BY <1>3 DEF SandboxStart, ThreadStep
  <2>2. UNCHANGED <<row, copy, task, scan, claimed, listing>>
    BY <1>3 DEF SandboxStart, ThreadStep
  <2>3. StretchStep(p)
    BY <2>1, <2>2, ThreadStretch
  <2> QED BY <1>0, <2>2, <2>3, WriteResultStep DEF StretchStep
<1> QED BY <1>1, <1>2, <1>3

(* Requests of users write over a result only to withdraw it. *)
LEMMA RequestResultStep ==
    ASSUME JobsTypeOK, NEW p \in Replicas, NEW r \in Runs, Stretch(p), RowsStay,
           CancelBegin(p, r) \/ CancelTask(p, r) \/ CancelReturn(p, r) \/ Heartbeat(p, r)
    PROVE  StretchStep(p) /\ ResultStep(p)
<1>0. /\ {r} \in SUBSET Runs
      /\ "cancelled" \in Active \cup Terminal /\ "cancelled" \in Withdrawn
  BY DEF Terminal, Withdrawn
<1>1. CASE CancelBegin(p, r) \/ CancelReturn(p, r)
  <2>1. Mark(p, {r}, "cancelled") /\ UNCHANGED <<task, thread, scan, claimed, listing>>
    BY <1>1 DEF CancelBegin, CancelReturn
  <2>2. StretchStep(p)
    BY <2>1, SameStretch
  <2> QED BY <1>0, <2>1, <2>2, WriteResultStep DEF StretchStep
<1>2. CASE CancelTask(p, r) \/ Heartbeat(p, r)
  <2>1. /\ task' = [task EXCEPT ![p][r] = Stopping(task[p][r])]
        /\ UNCHANGED <<row, copy, thread, scan, claimed, listing>>
    BY <1>2 DEF CancelTask, Heartbeat, JobsTypeOK
  <2>2. /\ \A q \in Replicas : q # p => task'[q] = task[q]
        /\ \A s \in Runs : task'[p][s] \in {task[p][s], Stopping(task[p][s])}
    BY <2>1 DEF JobsTypeOK
  <2>3. StretchStep(p)
    BY <2>1, <2>2, StopStretch
  <2> QED BY <1>0, <2>1, <2>3, WriteResultStep DEF StretchStep
<1> QED BY <1>1, <1>2

LEMMA ClearResultStep ==
    ASSUME JobsTypeOK, NEW p \in Replicas, Stretch(p), RowsStay,
           ClearBegin(p) \/ ClearTasks(p) \/ ClearReturn(p)
    PROVE  StretchStep(p) /\ ResultStep(p)
<1>0. /\ {} \in SUBSET Runs
      /\ "cancelled" \in Active \cup Terminal /\ "cancelled" \in Withdrawn
  BY DEF Terminal, Withdrawn
<1>1. CASE ClearBegin(p)
  <2> DEFINE active == {r \in {q \in Runs : copy[p][q] # Absent} : copy[p][r].status \in Active}
  <2>1. /\ Mark(p, active, "cancelled") /\ active \in SUBSET Runs
        /\ UNCHANGED <<task, thread, scan, claimed, listing>>
    BY <1>1 DEF ClearBegin
  <2> HIDE DEF active
  <2>2. StretchStep(p)
    BY <2>1, SameStretch
  <2> QED BY <1>0, <2>1, <2>2, WriteResultStep DEF StretchStep
<1>2. CASE ClearTasks(p)
  <2> DEFINE active == clear[p].active
  <2>1. /\ task' = [task EXCEPT ![p] =
                     [r \in Runs |-> IF r \in active THEN Stopping(task[p][r]) ELSE task[p][r]]]
        /\ UNCHANGED <<row, copy, thread, scan, claimed, listing>>
    BY <1>2 DEF ClearTasks, JobsTypeOK
  <2> HIDE DEF active
  <2>2. /\ \A q \in Replicas : q # p => task'[q] = task[q]
        /\ \A s \in Runs : task'[p][s] \in {task[p][s], Stopping(task[p][s])}
    BY <2>1 DEF JobsTypeOK
  <2>3. StretchStep(p)
    BY <2>1, <2>2, StopStretch
  <2> QED BY <1>0, <2>1, <2>3, WriteResultStep DEF StretchStep
<1>3. CASE ClearReturn(p)
  <2>1. /\ \A r \in Runs : row'[r] = row[r] \/ row'[r] = Purged
        /\ Purged.result = FALSE /\ Absent.result = FALSE
    BY <1>3 DEF ClearReturn, Purged, Absent
  <2>2. \A r \in Runs : copy'[p][r] = copy[p][r] \/ copy'[p][r] = Absent
    BY <1>3 DEF ClearReturn, JobsTypeOK
  <2>3. UNCHANGED <<task, thread, scan, claimed, listing>>
    BY <1>3 DEF ClearReturn
  <2>4. StretchStep(p)
    BY <2>3, SameStretch
  <2>5. ASSUME NEW r \in Runs, Rests(p, r)
        PROVE  (row'[r] = row[r] /\ Rests(p, r)') \/ row'[r] = Purged
    BY <2>1, <2>4, <2>5 DEF StretchStep, Rests
  <2>6. ASSUME NEW r \in Runs, HasResult(p, r)'
        PROVE  HasResult(p, r)
    BY <2>1, <2>2, <2>3, <2>6 DEF HasResult
  <2> QED BY <2>4, <2>5, <2>6 DEF ResultStep
<1> QED BY <1>1, <1>2, <1>3

(* A step that writes no row and copies results from where they are. *)
LEMMA CopyResultStep ==
    ASSUME NEW p \in Replicas, row' = row,
           \A r \in Runs : Rests(p, r) => Still(p, r)',
           \A r \in Runs : HasResult(p, r)' => HasResult(p, r)
    PROVE  ResultStep(p)
BY DEF ResultStep, Rests

LEMMA ListResultStep ==
    ASSUME JobsTypeOK, NEW p \in Replicas, Stretch(p), RowsStay, ListRead(p) \/ ListRefresh(p)
    PROVE  StretchStep(p) /\ ResultStep(p)
<1>0. Absent.result = FALSE
  BY DEF Absent
<1>1. /\ UNCHANGED <<row, task, thread, scan, claimed>>
      /\ \A q \in Replicas : q # p => listing'[q] = listing[q]
  BY DEF ListRead, ListRefresh, JobsTypeOK
<1>2. StretchStep(p)
  BY <1>1, SameStretch
<1>3. CASE ListRead(p)
  <2>1. \A r \in Runs : listing'[p][r] \in {row[r], Absent} /\ copy'[p][r] = copy[p][r]
    BY <1>3 DEF ListRead, JobsTypeOK
  <2>2. \A r \in Runs : HasResult(p, r)' => HasResult(p, r)
    BY <1>0, <1>1, <2>1 DEF HasResult
  <2> QED BY <1>1, <1>2, <2>2, CopyResultStep DEF StretchStep
<1>4. CASE ListRefresh(p)
  <2>1. \A r \in Runs : listing'[p][r] = Absent /\ copy'[p][r] \in {copy[p][r], listing[p][r]}
    BY <1>4 DEF ListRefresh, Refreshed, JobsTypeOK
  <2>2. \A r \in Runs : HasResult(p, r)' => HasResult(p, r)
    BY <1>0, <1>1, <2>1 DEF HasResult
  <2> QED BY <1>1, <1>2, <2>2, CopyResultStep DEF StretchStep
<1> QED BY <1>3, <1>4

(* A recovery looks at active rows, and no task publishes meanwhile. *)
LEMMA ScanResultStep ==
    ASSUME JobsTypeOK, NEW p \in Replicas, Stretch(p), RowsStay,
           ScanBegin(p) \/ ScanFail(p) \/ \E r \in Runs : ScanClaim(p, r)
    PROVE  StretchStep(p) /\ ResultStep(p)
<1>0. \A s \in Terminal : s \notin Active /\ s # "none" /\ s # "purged"
  BY DEF Terminal, Active
<1>1. CASE ScanBegin(p)
  <2> DEFINE fresh == Refreshed(p, row)
             found == {s \in Runs : task[p][s] = "none" /\ fresh[s].status \in Active}
  <2>1. /\ copy' = [copy EXCEPT ![p] = fresh] /\ scan' = [scan EXCEPT ![p] = found]
        /\ \A s \in Runs : task[p][s] \notin {"valid", "invalid"}
        /\ UNCHANGED <<row, task, thread, claimed, listing>>
    BY <1>1 DEF ScanBegin, AtAwait
  <2>2. \A s \in Runs : fresh[s] \in {row[s], copy[p][s]}
    BY DEF Refreshed
  <2>3. ASSUME NEW s \in Runs, row[s].status \in Terminal
        PROVE  s \notin found
    <3>1. row[s] \notin {Absent, Purged}
      BY <1>0, <2>3 DEF Absent, Purged
    <3>2. task[p][s] = "none" => fresh[s] = row[s]
      BY <3>1 DEF Refreshed
    <3> QED BY <1>0, <2>3, <3>2
  <2> HIDE DEF found, fresh
  <2>4. /\ scan'[p] = found /\ \A q \in Replicas : q # p => scan'[q] = scan[q]
        /\ copy'[p] = fresh
    BY <2>1 DEF JobsTypeOK
  <2>5. Elsewhere(p) /\ Stretch(p)'
    BY <2>1, <2>4 DEF Elsewhere, Stretch, RowsStay
  <2>6. \A s \in Runs : Rests(p, s) => Still(p, s)'
    BY <2>1, <2>3, <2>4 DEF Rests, Still
  <2>7. \A s \in Runs : HasResult(p, s)' => HasResult(p, s)
    BY <2>1, <2>2, <2>4 DEF HasResult
  <2> QED BY <2>1, <2>5, <2>6, <2>7, CopyResultStep DEF StretchStep
<1>2. ASSUME NEW r \in Runs, ScanClaim(p, r)
      PROVE  StretchStep(p) /\ ResultStep(p)
  <2>1. /\ r \in scan[p] /\ scan'[p] = scan[p] \ {r} /\ claimed'[p] \in {claimed[p], r}
        /\ \A q \in Replicas : q # p => scan'[q] = scan[q] /\ claimed'[q] = claimed[q]
        /\ UNCHANGED <<row, copy, task, thread, listing>>
    BY <1>2 DEF ScanClaim, JobsTypeOK
  <2>2. Elsewhere(p) /\ Stretch(p)'
    BY <2>1 DEF Elsewhere, Stretch, RowsStay
  <2>3. \A s \in Runs : Rests(p, s) => Still(p, s)'
    BY <2>1 DEF Rests, Still
  <2>4. \A s \in Runs : HasResult(p, s)' => HasResult(p, s)
    BY <2>1 DEF HasResult
  <2> QED BY <2>1, <2>2, <2>3, <2>4, CopyResultStep DEF StretchStep
<1>3. CASE ScanFail(p)
  <2>1. PICK s \in Runs : s = claimed[p]
    BY <1>3 DEF ScanFail, JobsTypeOK
  <2>2. /\ Mark(p, {s}, "failed") /\ claimed' = [claimed EXCEPT ![p] = Nobody]
        /\ UNCHANGED <<task, thread, scan, listing>>
    BY <1>3, <2>1 DEF ScanFail
  <2>3. claimed'[p] = Nobody /\ \A q \in Replicas : q # p => claimed'[q] = claimed[q]
    BY <2>2 DEF JobsTypeOK
  <2>4. Elsewhere(p) /\ Stretch(p)'
    BY <2>2, <2>3 DEF Elsewhere, Stretch, RowsStay
  <2>5. \A q \in Runs : Rests(p, q) => Still(p, q)'
    BY <2>2, <2>3, JobsAssumption DEF Rests, Still
  <2>6. ~Rests(p, s) /\ {s} \in SUBSET Runs /\ "failed" \in Active \cup Terminal
    BY <2>1 DEF Rests, Still, Terminal
  <2> QED BY <2>2, <2>4, <2>5, <2>6, WriteResultStep DEF StretchStep
<1> QED BY <1>1, <1>2, <1>3

LEMMA CrashResultStep ==
    ASSUME JobsTypeOK, NEW p \in Replicas, RowsStay, Crash(p)
    PROVE  StretchStep(p) /\ ResultStep(p)
<1>0. /\ \A s \in Terminal : s \notin Active
      /\ Absent.result = FALSE
  BY DEF Terminal, Active, Absent
<1>1. /\ row' = row
      /\ \A r \in Runs : /\ task'[p][r] = "none" /\ thread'[p][r] = "none"
                         /\ listing'[p][r] = Absent /\ copy'[p][r] \in {row[r], Absent}
      /\ scan'[p] = {r \in Runs : row[r].status \in Active} /\ claimed'[p] = Nobody
  BY DEF Crash, JobsTypeOK
<1>2. Elsewhere(p)
  BY DEF Crash, JobsTypeOK, Elsewhere
<1>3. Stretch(p)'
  BY <1>1 DEF Stretch
<1>4. \A r \in Runs : Rests(p, r) => Still(p, r)'
  BY <1>0, <1>1, JobsAssumption DEF Rests, Still
<1>5. \A r \in Runs : HasResult(p, r)' => HasResult(p, r)
  BY <1>0, <1>1 DEF HasResult
<1> QED BY <1>1, <1>2, <1>3, <1>4, <1>5, CopyResultStep DEF StretchStep

(* A task is started for a run that nobody has seen. *)
LEMMA StartResultStep ==
    ASSUME JobsTypeOK, Seen, NEW p \in Replicas, NEW r \in Runs, Stretch(p), RowsStay,
           Start(p, r)
    PROVE  StretchStep(p) /\ ResultStep(p)
<1>1. /\ Update(p, {r}, "queued", FALSE) /\ row[r] = Absent /\ copy[p][r] = Absent
      /\ scan[p] = {} /\ claimed[p] = Nobody
      /\ task' = [task EXCEPT ![p][r] = "created"]
      /\ UNCHANGED <<thread, scan, claimed, listing>>
  BY DEF Start, Moves, AtAwait
<1>2. thread[p][r] = "none" /\ r \notin purged[p]
  BY <1>1 DEF Stretch, Seen
<1>3. "queued" \in Active \cup Terminal /\ {r} \in SUBSET Runs /\ FALSE \in BOOLEAN
  BY DEF Active
<1>4. row'[r] # Absent
  <2>1. copy'[p][r] # Absent
    BY <1>1, <1>2 DEF Update, JobsTypeOK, Absent
  <2> QED BY <1>1, <1>3, <2>1, UpdateKeepsSeen
<1>5. /\ task'[p][r] = "created"
      /\ \A q \in Replicas : q # p => task'[q] = task[q]
      /\ \A s \in Runs : s # r => task'[p][s] = task[p][s]
  BY <1>1 DEF JobsTypeOK
<1>6. ~Rests(p, r)
  BY <1>1 DEF Rests, Absent, Terminal
<1>7. Elsewhere(p)
  BY <1>1, <1>5 DEF Elsewhere
<1>8. Stretch(p)'
  BY <1>1, <1>2, <1>4, <1>5 DEF Stretch, RowsStay
<1>9. \A s \in Runs : Rests(p, s) => Still(p, s)'
  BY <1>1, <1>5, <1>6 DEF Rests, Still
<1> QED BY <1>1, <1>3, <1>6, <1>7, <1>8, <1>9, WriteResultStep DEF StretchStep

(* Only a deployed replica acts. *)
LEMMA ActorIsDeployed ==
    ASSUME JobsTypeOK, Quiet, StretchInv, NEW p \in Replicas, Replica(p)
    PROVE  p \in deployed
<1>1. CASE \E r \in Runs : Publish(p, r) \/ ThreadStep(p, r) \/ ScanClaim(p, r)
  BY <1>1 DEF Publish, ThreadStep, ScanClaim, Quiet, StretchInv, Idle
<1>2. CASE ScanFail(p)
  BY <1>2 DEF ScanFail, StretchInv, Idle
<1>3. CASE ListRefresh(p)
  <2>1. Idle(p) => listing[p] = [r \in Runs |-> Absent]
    BY DEF Idle, JobsTypeOK
  <2> QED BY <1>3, <2>1 DEF ListRefresh, StretchInv
<1>4. CASE \E r \in Runs :
              \/ Start(p, r) \/ Progress(p, r) \/ SandboxStart(p, r)
              \/ StageCallback(p, r) \/ Heartbeat(p, r)
              \/ CancelBegin(p, r) \/ CancelTask(p, r) \/ CancelReturn(p, r)
  BY <1>4 DEF Start, Progress, SandboxStart, StageCallback, Heartbeat, CancelBegin, CancelTask,
              CancelReturn, AtAwait
<1>5. CASE \E r \in Runs :
              \/ TaskBegin(p, r) \/ TaskCancelled(p, r) \/ TaskEnds(p, r)
              \/ \E status \in {"valid", "invalid"} : Generated(p, r, status)
              \/ GenerationFails(p, r)
  BY <1>5 DEF TaskBegin, TaskCancelled, TaskEnds, Generated, GenerationFails, AtAwait
<1>6. CASE \/ ClearBegin(p) \/ ClearTasks(p) \/ ClearReturn(p)
           \/ ListRead(p) \/ Crash(p) \/ ScanBegin(p)
  BY <1>6 DEF ClearBegin, ClearTasks, ClearReturn, ListRead, Crash, ScanBegin, AtAwait
<1> QED BY <1>1, <1>2, <1>3, <1>4, <1>5, <1>6 DEF Replica, TaskMoves

LEMMA EveryResultStep ==
    ASSUME ResultInv, RowsStay, NEW p \in Replicas, Replica(p)
    PROVE  p \in deployed /\ StretchStep(p) /\ ResultStep(p)
<1>1. JobsTypeOK /\ Seen /\ Quiet /\ StretchInv /\ Stretch(p)
  BY DEF ResultInv, CancelInv, JobsInv, StretchInv
<1>2. ASSUME NEW r \in Runs,
             \/ Start(p, r) \/ TaskMoves(p, r) \/ Progress(p, r) \/ SandboxStart(p, r)
             \/ StageCallback(p, r) \/ ThreadStep(p, r) \/ Heartbeat(p, r)
             \/ CancelBegin(p, r) \/ CancelTask(p, r) \/ CancelReturn(p, r)
             \/ ScanClaim(p, r)
      PROVE  StretchStep(p) /\ ResultStep(p)
  BY <1>1, <1>2, StartResultStep, TaskResultStep, PublishResultStep, ThreadResultStep,
     RequestResultStep, ScanResultStep DEF TaskMoves
<1>3. ASSUME \/ ClearBegin(p) \/ ClearTasks(p) \/ ClearReturn(p)
             \/ ListRead(p) \/ ListRefresh(p) \/ Crash(p) \/ ScanBegin(p) \/ ScanFail(p)
      PROVE  StretchStep(p) /\ ResultStep(p)
  BY <1>1, <1>3, ClearResultStep, ListResultStep, CrashResultStep, ScanResultStep
<1>4. p \in deployed
  BY <1>1, ActorIsDeployed
<1> QED BY <1>2, <1>3, <1>4 DEF Replica

LEMMA ResultInvInitially == JobsInit => ResultInv
<1> SUFFICES ASSUME JobsInit PROVE ResultInv
  OBVIOUS
<1>1. \A p \in Replicas, r \in Runs : ~HasResult(p, r)
  BY DEF JobsInit, HasResult, Absent
<1>2. deployed \subseteq Replicas
  BY DEF JobsInit
<1>3. ResultsRest
  BY <1>1, <1>2 DEF ResultsRest
<1>4. StretchInv
  BY DEF JobsInit, StretchInv, Stretch, Idle
<1> QED BY <1>3, <1>4, CancelInvInitially DEF ResultInv

LEMMA RowsStayInSteps ==
    ASSUME JobsInv, JobsNext
    PROVE  /\ RowsStay /\ deployed' = deployed
           /\ \A r \in Runs : row[r] = Purged => row'[r] = Purged
BY EveryCancelStep, StepKeeps DEF CancelStep, KeepsSeen, RowsStay, RowStep

LEMMA StretchInvKept ==
    ASSUME StretchInv, RowsStay, deployed' = deployed,
           NEW p \in deployed, StretchStep(p)
    PROVE  StretchInv'
<1> SUFFICES ASSUME NEW q \in Replicas PROVE Stretch(q)' /\ (q \notin deployed => Idle(q)')
  BY DEF StretchInv
<1>1. CASE q = p
  BY <1>1 DEF StretchStep
<1>2. CASE q # p
  <2>1. /\ Stretch(q) /\ (q \notin deployed => Idle(q))
        /\ task'[q] = task[q] /\ thread'[q] = thread[q] /\ scan'[q] = scan[q]
        /\ claimed'[q] = claimed[q] /\ listing'[q] = listing[q]
    BY <1>2 DEF StretchInv, StretchStep, Elsewhere
  <2> QED BY <2>1 DEF Stretch, Idle, RowsStay
<1> QED BY <1>1, <1>2

(* With one replica, who acts is the only one that has copies. *)
LEMMA AloneIsSingle ==
    ASSUME JobsTypeOK, Alone, NEW p \in deployed, NEW q \in deployed
    PROVE  p = q
<1>1. IsFiniteSet(deployed)
  BY JobsAssumption, FS_Subset DEF JobsTypeOK
<1>2. PICK x : deployed = {x}
  BY <1>1, FS_Singleton DEF Alone
<1> QED BY <1>2

LEMMA ResultsRestKept ==
    ASSUME JobsTypeOK, ResultsRest, deployed' = deployed, NEW p \in deployed, ResultStep(p),
           \A r \in Runs : row[r] = Purged => row'[r] = Purged
    PROVE  ResultsRest'
<1> SUFFICES ASSUME Alone', NEW q \in deployed', NEW r \in Runs, HasResult(q, r)'
             PROVE  Rests(q, r)' \/ row'[r] = Purged
  BY DEF ResultsRest
<1>1. Alone
  BY DEF Alone
<1>2. q = p
  BY <1>1, AloneIsSingle
<1>3. HasResult(p, r)'
  BY <1>2
<1>4. HasResult(p, r) \/ Rests(p, r)' \/ row'[r] = Purged
  BY <1>3 DEF ResultStep
<1>5. HasResult(p, r) => Rests(p, r) \/ row[r] = Purged
  BY <1>1 DEF ResultsRest
<1>6. Rests(p, r)' \/ row'[r] = Purged
  BY <1>4, <1>5 DEF ResultStep
<1> QED BY <1>2, <1>6

LEMMA ResultInvKept == ResultInv /\ [JobsNext]_jobVars => ResultInv'
<1> SUFFICES ASSUME ResultInv, [JobsNext]_jobVars PROVE ResultInv'
  OBVIOUS
<1>1. CancelInv' /\ JobsInv /\ JobsTypeOK /\ StretchInv /\ ResultsRest
  BY CancelInvKept DEF ResultInv, CancelInv, JobsInv
<1>2. CASE UNCHANGED jobVars
  BY <1>1, <1>2 DEF jobVars, ResultInv, StretchInv, Stretch, Idle, ResultsRest, Alone, HasResult,
                    Rests, Still
<1>3. CASE \E r \in Runs : LeaseExpires(r)
  BY <1>1, <1>3 DEF LeaseExpires, ResultInv, StretchInv, Stretch, Idle, ResultsRest, Alone,
                    HasResult, Rests, Still
<1>4. ASSUME NEW p \in Replicas, Replica(p)
      PROVE  ResultInv'
  <2>1. /\ RowsStay /\ deployed' = deployed
        /\ \A r \in Runs : row[r] = Purged => row'[r] = Purged
    BY <1>1, <1>4, RowsStayInSteps DEF JobsNext
  <2>2. p \in deployed /\ StretchStep(p) /\ ResultStep(p)
    BY <1>4, <2>1, EveryResultStep
  <2>3. StretchInv' /\ ResultsRest'
    BY <1>1, <2>1, <2>2, StretchInvKept, ResultsRestKept
  <2> QED BY <1>1, <2>3 DEF ResultInv
<1> QED BY <1>2, <1>3, <1>4 DEF JobsNext

(* With one replica no step loses a saved result, unless the user cancelled *)
(* or cleared the job: not a list request, a recovery, a late thread or a   *)
(* crash.                                                                   *)
THEOREM ResultKeptHolds == JobsSpec => ResultKept
<1>1. ResultInv /\ [JobsNext]_jobVars =>
         [Alone => \A r \in Runs : row[r].result => row'[r].result \/ Discarded(r)']_jobVars
  <2> SUFFICES ASSUME ResultInv, JobsNext, Alone, NEW r \in Runs, row[r].result
               PROVE  row'[r].result \/ Discarded(r)'
    OBVIOUS
  <2>1. JobsInv /\ JobsTypeOK /\ ResultsRest
    BY DEF ResultInv, CancelInv, JobsInv
  <2>2. RowsStay
    BY <2>1, RowsStayInSteps
  <2>3. CASE \E s \in Runs : LeaseExpires(s)
    BY <2>3 DEF LeaseExpires
  <2>4. ASSUME NEW p \in Replicas, Replica(p)
        PROVE  row'[r].result \/ Discarded(r)'
    <3>1. p \in deployed /\ ResultStep(p)
      BY <2>2, <2>4, EveryResultStep
    <3>2. row[r] # Purged
      BY DEF Purged
    <3>3. Rests(p, r)
      BY <2>1, <3>1, <3>2 DEF ResultsRest, HasResult
    <3>4. row'[r] = row[r] \/ row'[r].status = "cancelled" \/ row'[r] = Purged
      BY <3>1, <3>3 DEF ResultStep
    <3> QED BY <3>4 DEF Discarded, Purged
  <2> QED BY <2>3, <2>4 DEF JobsNext
<1> QED BY <1>1, ResultInvInitially, ResultInvKept, PTL DEF JobsSpec, ResultKept

----------------------------------------------------------------------------
(* The service as a client of its leases.                                   *)

LEMMA GivenBack ==
    ASSUME NEW p \in Replicas, NEW r \in Runs, lease' = Unleased(p, r)
    PROVE  [Holders!Next]_lease
<1>1. CASE lease[r] = p
  <2>1. Holders!Release(p, r)
    BY <1>1 DEF Unleased, Holders!Release, Holders!Passes
  <2> QED BY <2>1 DEF Holders!Next
<1>2. CASE lease[r] # p
  BY <1>2 DEF Unleased
<1> QED BY <1>1, <1>2

LEMMA Taken ==
    ASSUME NEW p \in Replicas, NEW r \in Runs,
           lease[r] = Nobody, lease' = [lease EXCEPT ![r] = p]
    PROVE  Holders!Next
<1>1. Holders!Claim(p, r)
  BY DEF Holders!Claim, Holders!Passes
<1> QED BY <1>1 DEF Holders!Next

LEMMA ReplicaHolders ==
    ASSUME JobsTypeOK, NEW p \in Replicas, Replica(p)
    PROVE  [Holders!Next]_lease
<1>1. ASSUME NEW r \in Runs, Start(p, r) PROVE [Holders!Next]_lease
  BY <1>1, Taken DEF Start
<1>2. ASSUME NEW r \in Runs, TaskMoves(p, r) PROVE [Holders!Next]_lease
  <2>1. CASE TaskEnds(p, r)
    BY <2>1, GivenBack DEF TaskEnds
  <2>2. CASE ~TaskEnds(p, r)
    BY <1>2, <2>2 DEF TaskMoves, TaskBegin, Publish, TaskCancelled, Generated,
                      GenerationFails
  <2> QED BY <2>1, <2>2
<1>3. ASSUME NEW r \in Runs, ScanClaim(p, r) PROVE [Holders!Next]_lease
  BY <1>3, Taken DEF ScanClaim
<1>4. ASSUME NEW r \in Runs,
             \/ Progress(p, r) \/ SandboxStart(p, r) \/ StageCallback(p, r)
             \/ ThreadStep(p, r) \/ Heartbeat(p, r) \/ CancelBegin(p, r)
             \/ CancelTask(p, r) \/ CancelReturn(p, r)
      PROVE  UNCHANGED lease
  BY <1>4 DEF Progress, SandboxStart, StageCallback, ThreadStep, Heartbeat, CancelBegin,
              CancelTask, CancelReturn
<1>5. CASE ScanFail(p)
  <2>1. claimed[p] \in Runs
    BY <1>5 DEF ScanFail, JobsTypeOK
  <2> QED BY <1>5, <2>1, GivenBack DEF ScanFail
<1>6. CASE \/ ClearBegin(p) \/ ClearTasks(p) \/ ClearReturn(p)
           \/ ListRead(p) \/ ListRefresh(p) \/ ScanBegin(p)
  BY <1>6 DEF ClearBegin, ClearTasks, ClearReturn, ListRead, ListRefresh, ScanBegin
<1>7. CASE Crash(p)
  <2>1. Holders!Die(p)
    BY <1>7 DEF Crash, Holders!Die
  <2> QED BY <2>1 DEF Holders!Next
<1> QED BY <1>1, <1>2, <1>3, <1>4, <1>5, <1>6, <1>7 DEF Replica

(* Starts, recoveries, ends of tasks and crashes use the leases only as      *)
(* LeaseHolders allows: recovery claims no job that a task of any replica   *)
(* holds or that a dead one has not yet lost.                               *)
THEOREM JobsImplementHolders == JobsSpec => ImplementsHolders
<1>1. JobsInit => Holders!Init
  BY DEF JobsInit, Holders!Init
<1>2. JobsInv /\ [JobsNext]_jobVars => [Holders!Next]_lease
  <2> SUFFICES ASSUME JobsInv, [JobsNext]_jobVars PROVE [Holders!Next]_lease
    OBVIOUS
  <2>1. ASSUME NEW p \in Replicas, Replica(p) PROVE [Holders!Next]_lease
    BY <2>1, ReplicaHolders DEF JobsInv
  <2>2. ASSUME NEW r \in Runs, LeaseExpires(r) PROVE Holders!Next
    <3>1. Holders!Lapse({r})
      BY <2>2 DEF LeaseExpires, Holders!Lapse, JobsInv, JobsTypeOK
    <3> QED BY <3>1 DEF Holders!Next
  <2>3. CASE UNCHANGED jobVars
    BY <2>3 DEF jobVars
  <2> QED BY <2>1, <2>2, <2>3 DEF JobsNext
<1> QED BY <1>1, <1>2, JobsInvariant, PTL DEF JobsSpec, ImplementsHolders, Holders!Spec

=============================================================================

------------------------- MODULE PipelineRunsProofs -------------------------
(***************************************************************************)
(* Proofs about PipelineRuns, for any number of replicas, runs, keys,       *)
(* crashes and execution servers.                                           *)
(***************************************************************************)
EXTENDS PipelineRuns, ExecutionReceiptsProofs, FiniteSetTheorems

(* A start that is under way holds the lease of a run nobody has heard of. *)
Started(p) ==
    busy[p].op = "start" => lease[busy[p].run] = p /\ rec[busy[p].run] = "none"

(* A terminal record is settled by a replica that is done with the run. *)
Settling(p) ==
    busy[p].op = "settle" =>
        /\ task[p][busy[p].run] \notin Executing
        /\ busy[p].status \in Terminal
        /\ rec[busy[p].run] # "none"
        /\ Acknowledged /\ busy[p].status = "succeeded" => receipt[busy[p].run] = "ok"

(* A replica is in the middle of one stretch of code at a time. *)
OneStretch(p) == busy[p] = Free \/ listed[p] = {}

(* A run without a record has not been submitted, and no replica deals with *)
(* it but to start it.                                                      *)
Unborn(r) ==
    rec[r] = "none" =>
        /\ post[r] = "unsent"
        /\ \A p \in Replicas :
              /\ task[p][r] = "none" /\ r \notin cancels[p] /\ r \notin listed[p]
              /\ lease[r] = p => busy[p].op = "start" /\ busy[p].run = r

CreatedUnsent ==
    \A p \in Replicas, r \in Runs : task[p][r] = "created" => post[r] = "unsent"

(* If a result that can be read is settled, success stays backed by it. *)
SuccessBacked ==
    Acknowledged => \A r \in Runs : rec[r] = "succeeded" => receipt[r] = "ok"

RunnerInv ==
    /\ RunnerTypeOK
    /\ ExecutionHoldsLease
    /\ \A p \in Replicas : Started(p) /\ Settling(p) /\ OneStretch(p)
    /\ \A r \in Runs : Unborn(r)
    /\ CreatedUnsent
    /\ SuccessBacked

LEMMA BusyTypes ==
    ASSUME RunnerInv, NEW p \in Replicas
    PROVE  /\ busy[p].op \in {"start", "settle"} => busy[p].run \in Runs
           /\ busy[p].op \in {"start", "settle"} => busy[p].run # Nobody
           /\ busy[p] = Free <=> busy[p].op = "free"
BY RunsAssumption DEF RunnerInv, RunnerTypeOK, Free

(* The claim of a submission: its lease is new, the rest is as it was. *)
LEMMA StartClaimKeeps ==
    ASSUME RunnerInv, NEW p \in Replicas, NEW r \in Runs, StartClaim(p, r)
    PROVE  RunnerInv'
<1>1. /\ busy[p] = Free /\ listed[p] = {}
      /\ rec[r] = "none" /\ lease[r] = Nobody
      /\ lease' = [lease EXCEPT ![r] = p]
      /\ busy' = [busy EXCEPT ![p] = [op |-> "start", run |-> r, status |-> "none"]]
      /\ rec' = rec /\ summary' = summary /\ task' = task /\ cancels' = cancels
      /\ clear' = clear /\ listed' = listed /\ post' = post /\ crashes' = crashes
      /\ receipt' = receipt
  BY DEF StartClaim, AtAwait, receiptVars
<1>2. RunnerTypeOK'
  BY <1>1 DEF RunnerInv, RunnerTypeOK
<1>3. \A s \in Runs : lease'[s] = IF s = r THEN p ELSE lease[s]
  BY <1>1 DEF RunnerInv, RunnerTypeOK
<1>4. /\ busy'[p] = [op |-> "start", run |-> r, status |-> "none"]
      /\ \A q \in Replicas : q # p => busy'[q] = busy[q]
  BY <1>1 DEF RunnerInv, RunnerTypeOK
<1>5. ExecutionHoldsLease'
  BY <1>1, <1>3, RunsAssumption DEF RunnerInv, ExecutionHoldsLease
<1>6. ASSUME NEW q \in Replicas PROVE Started(q)' /\ Settling(q)' /\ OneStretch(q)'
  BY <1>1, <1>3, <1>4, BusyTypes, RunsAssumption
  DEF RunnerInv, Started, Settling, OneStretch
<1>7. ASSUME NEW s \in Runs PROVE Unborn(s)'
  BY <1>1, <1>3, <1>4 DEF RunnerInv, Unborn, Free
<1>8. CreatedUnsent' /\ SuccessBacked'
  BY <1>1 DEF RunnerInv, CreatedUnsent, SuccessBacked
<1> QED BY <1>2, <1>5, <1>6, <1>7, <1>8 DEF RunnerInv

(* The record is saved and the task created, or the lease is given back. *)
LEMMA StartSaveKeeps ==
    ASSUME RunnerInv, NEW p \in Replicas, NEW r \in Runs, StartSave(p, r)
    PROVE  RunnerInv'
<1>1. /\ busy[p].op = "start" /\ busy[p].run = r
      /\ busy' = [busy EXCEPT ![p] = Free]
      /\ summary' = summary /\ cancels' = cancels /\ clear' = clear
      /\ listed' = listed /\ post' = post /\ crashes' = crashes /\ receipt' = receipt
  BY DEF StartSave, receiptVars
<1>2. lease[r] = p /\ rec[r] = "none" /\ post[r] = "unsent" /\ listed[p] = {}
  BY <1>1, BusyTypes DEF RunnerInv, Started, Unborn, OneStretch
<1>3. /\ busy'[p] = Free
      /\ \A q \in Replicas : q # p => busy'[q] = busy[q]
      /\ \A q \in Replicas : q # p => ~(busy[q].op = "start" /\ busy[q].run = r)
  BY <1>1, <1>2 DEF RunnerInv, RunnerTypeOK, Started
<1>4. CASE rec' = rec /\ task' = task /\ lease' = Unleased(p, r)
  <2>1. lease' = [lease EXCEPT ![r] = Nobody]
    BY <1>2, <1>4 DEF Unleased
  <2>2. RunnerTypeOK'
    BY <1>1, <1>4, <2>1 DEF RunnerInv, RunnerTypeOK
  <2>3. \A s \in Runs : lease'[s] = IF s = r THEN Nobody ELSE lease[s]
    BY <2>1 DEF RunnerInv, RunnerTypeOK
  <2>4. ExecutionHoldsLease'
    BY <1>2, <1>4, <2>3 DEF RunnerInv, ExecutionHoldsLease, Unborn, Executing
  <2>5. ASSUME NEW q \in Replicas PROVE Started(q)' /\ Settling(q)' /\ OneStretch(q)'
    BY <1>1, <1>2, <1>3, <1>4, <2>3, BusyTypes
    DEF RunnerInv, Started, Settling, OneStretch, Free
  <2>6. ASSUME NEW s \in Runs PROVE Unborn(s)'
    BY <1>1, <1>3, <1>4, <2>3, RunsAssumption DEF RunnerInv, Unborn
  <2>7. CreatedUnsent' /\ SuccessBacked'
    BY <1>1, <1>4 DEF RunnerInv, CreatedUnsent, SuccessBacked
  <2> QED BY <2>2, <2>4, <2>5, <2>6, <2>7 DEF RunnerInv
<1>5. CASE Save(r, "queued") /\ SetTask(p, r, "created") /\ lease' = lease
  <2>1. /\ rec' = [rec EXCEPT ![r] = "queued"]
        /\ task' = [task EXCEPT ![p][r] = "created"]
    BY <1>2, <1>5 DEF Save, Saved, SetTask
  <2>2. RunnerTypeOK'
    BY <1>1, <1>5, <2>1 DEF RunnerInv, RunnerTypeOK, Active, Executing
  <2>3. /\ \A s \in Runs : rec'[s] = IF s = r THEN "queued" ELSE rec[s]
        /\ \A q \in Replicas, s \in Runs :
              task'[q][s] = IF q = p /\ s = r THEN "created" ELSE task[q][s]
    BY <2>1 DEF RunnerInv, RunnerTypeOK
  <2>4. ExecutionHoldsLease'
    BY <1>2, <1>5, <2>3 DEF RunnerInv, ExecutionHoldsLease
  <2>5. ASSUME NEW q \in Replicas PROVE Started(q)' /\ Settling(q)' /\ OneStretch(q)'
    <3>1. CASE q = p
      BY <1>3, <3>1 DEF Started, Settling, OneStretch, Free
    <3>2. CASE q # p
      BY <1>1, <1>3, <1>5, <2>3, <3>2, BusyTypes
      DEF RunnerInv, Started, Settling, OneStretch
    <3> QED BY <3>1, <3>2
  <2>6. ASSUME NEW s \in Runs PROVE Unborn(s)'
    BY <1>1, <1>3, <1>5, <2>3 DEF RunnerInv, Unborn
  <2>7. CreatedUnsent' /\ SuccessBacked'
    BY <1>1, <1>2, <2>3 DEF RunnerInv, CreatedUnsent, SuccessBacked
  <2> QED BY <2>2, <2>4, <2>5, <2>6, <2>7 DEF RunnerInv
<1> QED BY <1>4, <1>5 DEF StartSave

(* A task stops executing and touches nothing else. *)
LEMMA EndKeeps ==
    ASSUME RunnerInv, NEW p \in Replicas, NEW r \in Runs, task[p][r] # "none",
           SetTask(p, r, "ending"),
           UNCHANGED <<rec, summary, lease, cancels, clear, busy, listed, post, crashes, receipt>>
    PROVE  RunnerInv'
<1>1. task' = [task EXCEPT ![p][r] = "ending"]
  BY DEF SetTask
<1>2. /\ rec' = rec /\ summary' = summary /\ lease' = lease /\ cancels' = cancels
      /\ clear' = clear /\ busy' = busy /\ listed' = listed /\ post' = post
      /\ crashes' = crashes /\ receipt' = receipt
  OBVIOUS
<1>3. RunnerTypeOK'
  BY <1>1, <1>2 DEF RunnerInv, RunnerTypeOK
<1>4. \A q \in Replicas, s \in Runs :
        task'[q][s] = IF q = p /\ s = r THEN "ending" ELSE task[q][s]
  BY <1>1 DEF RunnerInv, RunnerTypeOK
<1>5. ExecutionHoldsLease'
  BY <1>2, <1>4 DEF RunnerInv, ExecutionHoldsLease, Executing
<1>6. CreatedUnsent' /\ SuccessBacked'
  BY <1>2, <1>4 DEF RunnerInv, CreatedUnsent, SuccessBacked
<1>7. ASSUME NEW q \in Replicas PROVE Started(q)' /\ Settling(q)' /\ OneStretch(q)'
  BY <1>2, <1>4, BusyTypes DEF RunnerInv, Started, Settling, OneStretch, Executing
<1>8. ASSUME NEW s \in Runs PROVE Unborn(s)'
  BY <1>2, <1>4 DEF RunnerInv, Unborn
<1> QED BY <1>3, <1>5, <1>6, <1>7, <1>8 DEF RunnerInv

(* A run that exists is finished by a replica that does not, or no longer,  *)
(* execute it.                                                              *)
LEMMA FinishKeeps ==
    ASSUME RunnerInv, NEW p \in Replicas, NEW r \in Runs, NEW status \in Terminal,
           AtAwait(p), rec[r] # "none", Finish(p, r, status),
           Acknowledged /\ status = "succeeded" => receipt[r] = "ok",
           \/ task' = task /\ task[p][r] = "none"
           \/ task[p][r] # "none" /\ SetTask(p, r, "ending"),
           \/ cancels' = cancels
           \/ cancels' = [cancels EXCEPT ![p] = cancels[p] \ {r}],
           UNCHANGED <<summary, lease, clear, listed, post, crashes, receipt>>
    PROVE  RunnerInv'
<1>1. /\ busy[p] = Free /\ listed[p] = {}
      /\ busy' = [busy EXCEPT ![p] = [op |-> "settle", run |-> r, status |-> status]]
      /\ rec' = Saved(r, status)
  BY DEF AtAwait, Finish, Save
<1>2. /\ summary' = summary /\ lease' = lease /\ clear' = clear /\ listed' = listed
      /\ post' = post /\ crashes' = crashes /\ receipt' = receipt
  OBVIOUS
<1>3. /\ rec' \in [Runs -> Active \cup Terminal \cup Gone]
      /\ \A s \in Runs :
            rec'[s] = IF s = r /\ rec[r] # "purged" THEN status ELSE rec[s]
  BY <1>1 DEF Saved, RunnerInv, RunnerTypeOK
<1>4. /\ task' \in [Replicas -> [Runs -> Executing \cup {"ending", "none"}]]
      /\ task'[p][r] \in {"ending", "none"}
      /\ \A q \in Replicas, s \in Runs : q # p \/ s # r => task'[q][s] = task[q][s]
      /\ task[p][r] = "none" => task'[p][r] = "none"
  <2>1. task \in [Replicas -> [Runs -> Executing \cup {"ending", "none"}]]
    BY DEF RunnerInv, RunnerTypeOK
  <2>2. CASE task' = task /\ task[p][r] = "none"
    BY <2>1, <2>2
  <2>3. CASE task[p][r] # "none" /\ SetTask(p, r, "ending")
    BY <2>1, <2>3 DEF SetTask
  <2> QED BY <2>2, <2>3
<1>5. /\ cancels' \in [Replicas -> SUBSET Runs]
      /\ \A q \in Replicas, s \in Runs : s \in cancels'[q] => s \in cancels[q]
  <2>1. cancels \in [Replicas -> SUBSET Runs]
    BY DEF RunnerInv, RunnerTypeOK
  <2>2. CASE cancels' = cancels
    BY <2>1, <2>2
  <2>3. CASE cancels' = [cancels EXCEPT ![p] = cancels[p] \ {r}]
    BY <2>1, <2>3
  <2> QED BY <2>2, <2>3
<1>6. /\ busy' \in [Replicas -> {Free} \cup
              [op : {"start", "settle"}, run : Runs, status : Terminal \cup {"none"}]]
      /\ busy'[p] = [op |-> "settle", run |-> r, status |-> status]
      /\ \A q \in Replicas : q # p => busy'[q] = busy[q]
  <2>1. busy \in [Replicas -> {Free} \cup
            [op : {"start", "settle"}, run : Runs, status : Terminal \cup {"none"}]]
    BY DEF RunnerInv, RunnerTypeOK
  <2>2. [op |-> "settle", run |-> r, status |-> status] \in
            [op : {"start", "settle"}, run : Runs, status : Terminal \cup {"none"}]
    OBVIOUS
  <2> QED BY ONLY <1>1, <2>1, <2>2, p \in Replicas
<1>7. RunnerTypeOK'
  BY <1>2, <1>3, <1>4, <1>5, <1>6 DEF RunnerInv, RunnerTypeOK
<1>8. ExecutionHoldsLease'
  BY <1>2, <1>4 DEF RunnerInv, ExecutionHoldsLease, Executing
<1>9. CreatedUnsent'
  BY <1>2, <1>4 DEF RunnerInv, CreatedUnsent
<1>10. SuccessBacked'
  BY <1>2, <1>3 DEF RunnerInv, SuccessBacked
<1>11. ASSUME NEW q \in Replicas PROVE Started(q)' /\ Settling(q)' /\ OneStretch(q)'
  <2>1. CASE q = p
    BY <1>1, <1>2, <1>3, <1>4, <1>6, <2>1
    DEF Started, Settling, OneStretch, Executing, Terminal
  <2>2. CASE q # p
    <3>1. Started(q)'
      BY <1>2, <1>3, <1>6, <2>2, BusyTypes DEF RunnerInv, Started
    <3>2. Settling(q)'
      BY <1>2, <1>3, <1>4, <1>6, <2>2, BusyTypes DEF RunnerInv, Settling, Terminal
    <3> QED BY <1>2, <1>6, <2>2, <3>1, <3>2 DEF RunnerInv, OneStretch
  <2> QED BY <2>1, <2>2
<1>12. ASSUME NEW s \in Runs PROVE Unborn(s)'
  <2>1. rec'[s] = "none" => rec[s] = "none" /\ s # r
    BY <1>3 DEF Terminal
  <2> QED BY <1>1, <1>2, <1>4, <1>5, <1>6, <2>1 DEF RunnerInv, Unborn, Free
<1> QED BY <1>7, <1>8, <1>9, <1>10, <1>11, <1>12 DEF RunnerInv

(* The end of a task that was answered or failed: the record is read again. *)
LEMMA ConcludeKeeps ==
    ASSUME RunnerInv, NEW p \in Replicas, NEW r \in Runs, NEW outcome \in Terminal,
           AtAwait(p), task[p][r] # "none", Conclude(p, r, outcome),
           Acknowledged /\ outcome = "succeeded" => receipt[r] = "ok",
           SetTask(p, r, "ending"),
           UNCHANGED <<summary, lease, cancels, clear, listed, post, crashes, receipt>>
    PROVE  RunnerInv'
<1>1. CASE rec[r] \in Gone /\ UNCHANGED <<rec, busy>>
  BY <1>1, EndKeeps
<1>2. CASE rec[r] = "cancelling" /\ Finish(p, r, "cancelled")
  <2>1. "cancelled" \in Terminal /\ rec[r] # "none"
    BY <1>2 DEF Terminal
  <2> QED BY <1>2, <2>1, FinishKeeps
<1>3. CASE rec[r] \notin Gone \cup {"cancelling"} /\ Finish(p, r, outcome)
  <2>1. rec[r] # "none"
    BY <1>3 DEF Gone
  <2> QED BY <1>3, <2>1, FinishKeeps
<1> QED BY <1>1, <1>2, <1>3 DEF Conclude

(* Only a task that was created by a submission sends the POST. *)
LEMMA TaskBeginKeeps ==
    ASSUME RunnerInv, NEW p \in Replicas, NEW r \in Runs, TaskBegin(p, r)
    PROVE  RunnerInv'
<1>1. /\ AtAwait(p) /\ task[p][r] = "created"
      /\ summary' = summary /\ lease' = lease /\ cancels' = cancels /\ clear' = clear
      /\ listed' = listed /\ crashes' = crashes /\ receipt' = receipt
  BY DEF TaskBegin, receiptVars
<1>2. lease[r] = p /\ rec[r] # "none"
  BY <1>1 DEF RunnerInv, ExecutionHoldsLease, Executing, Unborn
<1>3. CASE rec[r] \in Gone /\ SetTask(p, r, "ending") /\ UNCHANGED <<rec, busy, post>>
  BY <1>1, <1>3, EndKeeps
<1>4. CASE rec[r] = "cancelling" /\ Finish(p, r, "cancelled") /\ SetTask(p, r, "ending")
           /\ UNCHANGED post
  <2>1. "cancelled" \in Terminal
    BY DEF Terminal
  <2> QED BY <1>1, <1>2, <1>4, <2>1, FinishKeeps
<1>5. CASE /\ IF rec[r] \in Terminal THEN UNCHANGED rec ELSE Save(r, "running")
           /\ post' = [post EXCEPT ![r] = "sent"]
           /\ SetTask(p, r, "posting")
           /\ UNCHANGED busy
  <2>1. /\ rec' \in [Runs -> Active \cup Terminal \cup Gone]
        /\ \A s \in Runs : s # r => rec'[s] = rec[s]
        /\ rec'[r] # "none"
        /\ rec'[r] = "succeeded" => rec[r] = "succeeded"
    <3>1. rec \in [Runs -> Active \cup Terminal \cup Gone]
      BY DEF RunnerInv, RunnerTypeOK
    <3> QED BY <1>2, <1>5, <3>1 DEF Save, Saved, Active
  <2>2. /\ task' \in [Replicas -> [Runs -> Executing \cup {"ending", "none"}]]
        /\ \A q \in Replicas, s \in Runs :
              task'[q][s] = IF q = p /\ s = r THEN "posting" ELSE task[q][s]
    BY <1>5 DEF SetTask, Executing, RunnerInv, RunnerTypeOK
  <2>3. /\ post' \in [Runs -> {"unsent", "sent", "arrived", "lost"}]
        /\ \A s \in Runs : s # r => post'[s] = post[s]
    BY <1>5 DEF RunnerInv, RunnerTypeOK
  <2>4. RunnerTypeOK'
    BY <1>1, <1>5, <2>1, <2>2, <2>3 DEF RunnerInv, RunnerTypeOK
  <2>5. ExecutionHoldsLease'
    BY <1>1, <1>2, <2>2 DEF RunnerInv, ExecutionHoldsLease
  <2>6. CreatedUnsent'
    BY <1>2, <2>2, <2>3 DEF RunnerInv, ExecutionHoldsLease, CreatedUnsent, Executing
  <2>7. SuccessBacked'
    BY <1>1, <2>1 DEF RunnerInv, SuccessBacked
  <2>8. ASSUME NEW q \in Replicas PROVE Started(q)' /\ Settling(q)' /\ OneStretch(q)'
    <3>1. Started(q)' /\ OneStretch(q)'
      BY <1>1, <1>2, <1>5, <2>1, BusyTypes DEF RunnerInv, Started, OneStretch
    <3>2. Settling(q)'
      BY <1>1, <1>5, <2>1, <2>2, BusyTypes DEF RunnerInv, Settling, AtAwait
    <3> QED BY <3>1, <3>2
  <2>9. ASSUME NEW s \in Runs PROVE Unborn(s)'
    BY <1>1, <1>2, <1>5, <2>1, <2>2, <2>3 DEF RunnerInv, Unborn
  <2> QED BY <2>4, <2>5, <2>6, <2>7, <2>8, <2>9 DEF RunnerInv
<1> QED BY <1>3, <1>4, <1>5 DEF TaskBegin

(* The answer 202 of the service. *)
LEMMA PostAcceptedKeeps ==
    ASSUME RunnerInv, NEW p \in Replicas, NEW r \in Runs, PostAccepted(p, r)
    PROVE  RunnerInv'
<1>1. /\ AtAwait(p) /\ task[p][r] = "posting"
      /\ task' = [task EXCEPT ![p][r] = "polling"]
      /\ rec' = rec /\ summary' = summary /\ lease' = lease /\ cancels' = cancels
      /\ clear' = clear /\ busy' = busy /\ listed' = listed /\ post' = post
      /\ crashes' = crashes /\ receipt' = receipt
  BY DEF PostAccepted, SetTask, receiptVars
<1>2. RunnerTypeOK'
  BY <1>1 DEF RunnerInv, RunnerTypeOK, Executing
<1>3. \A q \in Replicas, s \in Runs :
        task'[q][s] = IF q = p /\ s = r THEN "polling" ELSE task[q][s]
  BY <1>1 DEF RunnerInv, RunnerTypeOK
<1>4. ExecutionHoldsLease'
  BY <1>1, <1>3 DEF RunnerInv, ExecutionHoldsLease, Executing
<1>5. CreatedUnsent' /\ SuccessBacked'
  BY <1>1, <1>3 DEF RunnerInv, CreatedUnsent, SuccessBacked
<1>6. ASSUME NEW q \in Replicas PROVE Started(q)' /\ Settling(q)' /\ OneStretch(q)'
  BY <1>1, <1>3, BusyTypes DEF RunnerInv, Started, Settling, OneStretch, Executing
<1>7. ASSUME NEW s \in Runs PROVE Unborn(s)'
  BY <1>1, <1>3 DEF RunnerInv, Unborn
<1> QED BY <1>2, <1>4, <1>5, <1>6, <1>7 DEF RunnerInv

(* Every step of a task but its last. *)
LEMMA TaskStepKeeps ==
    ASSUME RunnerInv, NEW p \in Replicas, NEW r \in Runs,
           \/ PostFails(p, r) \/ ReadResult(p, r) \/ PollEnds(p, r)
           \/ RecoveryEnds(p, r) \/ Heartbeat(p, r)
    PROVE  RunnerInv'
<1> "failed" \in Terminal /\ "succeeded" \in Terminal /\ "cancelled" \in Terminal
  BY DEF Terminal
<1>1. CASE PostFails(p, r)
  BY <1>1, ConcludeKeeps DEF PostFails, receiptVars
<1>2. CASE ReadResult(p, r)
  <2>1. CASE receipt[r] = "ok" /\ Conclude(p, r, "succeeded")
    BY <1>2, <2>1, ConcludeKeeps DEF ReadResult, receiptVars
  <2>2. CASE Conclude(p, r, "failed")
    BY <1>2, <2>2, ConcludeKeeps DEF ReadResult, receiptVars
  <2> QED BY <1>2, <2>1, <2>2 DEF ReadResult
<1>3. CASE PollEnds(p, r)
  BY <1>3, ConcludeKeeps DEF PollEnds, receiptVars
<1>4. CASE RecoveryEnds(p, r)
  <2>1. rec[r] # "none" /\ task[p][r] # "none"
    BY <1>4 DEF RunnerInv, Unborn, RecoveryEnds
  <2> QED BY <1>4, <2>1, FinishKeeps DEF RecoveryEnds, receiptVars
<1>5. CASE Heartbeat(p, r)
  BY <1>5, EndKeeps DEF Heartbeat, receiptVars
<1> QED BY <1>1, <1>2, <1>3, <1>4, <1>5

(* The lease is given back and the outcome of the publication recorded. *)
LEMMA SettleKeeps ==
    ASSUME RunnerInv, NEW p \in Replicas, Settle(p)
    PROVE  RunnerInv'
<1> DEFINE r == busy[p].run
           status == busy[p].status
<1>1. /\ busy[p].op = "settle"
      /\ lease' = Unleased(p, r)
      /\ busy' = [busy EXCEPT ![p] = Free]
      /\ \/ rec' = Saved(r, status) /\ summary' \in {summary, [summary EXCEPT ![r] = status]}
         \/ rec' = rec /\ summary' = summary
      /\ task' = task /\ cancels' = cancels /\ clear' = clear /\ listed' = listed
      /\ post' = post /\ crashes' = crashes /\ receipt' = receipt
  BY DEF Settle, Save, receiptVars
<1>2. /\ r \in Runs /\ status \in Terminal /\ rec[r] # "none"
      /\ task[p][r] \notin Executing
      /\ Acknowledged /\ status = "succeeded" => receipt[r] = "ok"
  BY <1>1, BusyTypes DEF RunnerInv, Settling
<1> HIDE DEF r, status
<1>3. /\ rec' \in [Runs -> Active \cup Terminal \cup Gone]
      /\ \A s \in Runs : rec'[s] = rec[s] \/ (s = r /\ rec'[s] = status)
  <2>1. rec \in [Runs -> Active \cup Terminal \cup Gone]
    BY DEF RunnerInv, RunnerTypeOK
  <2>2. rec' = rec \/ rec' = [rec EXCEPT ![r] = status]
    BY <1>1 DEF Saved
  <2> QED BY ONLY <1>2, <2>1, <2>2
<1>4. summary' \in [Runs -> Terminal \cup {"none"}]
  BY <1>1, <1>2 DEF RunnerInv, RunnerTypeOK
<1>5. /\ lease' \in [Runs -> Replicas \cup {"orphan", Nobody}]
      /\ \A s \in Runs : lease'[s] = IF s = r /\ lease[s] = p THEN Nobody ELSE lease[s]
  BY <1>1, <1>2 DEF Unleased, RunnerInv, RunnerTypeOK
<1>6. /\ busy' \in [Replicas -> {Free} \cup
              [op : {"start", "settle"}, run : Runs, status : Terminal \cup {"none"}]]
      /\ busy'[p] = Free
      /\ \A q \in Replicas : q # p => busy'[q] = busy[q]
  <2>1. busy \in [Replicas -> {Free} \cup
            [op : {"start", "settle"}, run : Runs, status : Terminal \cup {"none"}]]
    BY DEF RunnerInv, RunnerTypeOK
  <2> QED BY ONLY <1>1, <2>1, p \in Replicas
<1>7. RunnerTypeOK'
  BY <1>1, <1>3, <1>4, <1>5, <1>6 DEF RunnerInv, RunnerTypeOK
<1>8. ExecutionHoldsLease'
  BY <1>1, <1>2, <1>5 DEF RunnerInv, ExecutionHoldsLease
<1>9. CreatedUnsent'
  BY <1>1 DEF RunnerInv, CreatedUnsent
<1>10. SuccessBacked'
  BY <1>1, <1>2, <1>3 DEF RunnerInv, SuccessBacked
<1>11. ASSUME NEW q \in Replicas PROVE Started(q)' /\ Settling(q)' /\ OneStretch(q)'
  <2>1. CASE q = p
    BY <1>6, <2>1 DEF Started, Settling, OneStretch, Free
  <2>2. CASE q # p
    <3>1. Started(q)'
      BY <1>2, <1>3, <1>5, <1>6, <2>2, BusyTypes DEF RunnerInv, Started
    <3>2. Settling(q)'
      BY <1>1, <1>2, <1>3, <1>6, <2>2, BusyTypes DEF RunnerInv, Settling, Terminal
    <3> QED BY <1>1, <1>6, <2>2, <3>1, <3>2 DEF RunnerInv, OneStretch
  <2> QED BY <2>1, <2>2
<1>12. ASSUME NEW s \in Runs PROVE Unborn(s)'
  <2>1. rec'[s] = "none" => rec[s] = "none" /\ s # r
    BY <1>2, <1>3 DEF Terminal
  <2>2. ASSUME rec[s] = "none", NEW q \in Replicas, lease'[s] = q
        PROVE  busy'[q].op = "start" /\ busy'[q].run = s
    <3>1. busy[q].op = "start" /\ busy[q].run = s
      BY <1>5, <2>2, RunsAssumption DEF RunnerInv, Unborn
    <3> QED BY <1>1, <1>6, <3>1
  <2> QED BY <1>1, <2>1, <2>2 DEF RunnerInv, Unborn
<1> QED BY <1>7, <1>8, <1>9, <1>10, <1>11, <1>12 DEF RunnerInv

(* The finally clauses release the lease of a task that is over. *)
LEMMA TaskEndsKeeps ==
    ASSUME RunnerInv, NEW p \in Replicas, NEW r \in Runs, TaskEnds(p, r)
    PROVE  RunnerInv'
<1>1. /\ busy[p] = Free /\ task[p][r] = "ending"
      /\ lease' = Unleased(p, r) \/ (lease[r] = p /\ lease' = [lease EXCEPT ![r] = "orphan"])
      /\ task' = [task EXCEPT ![p][r] = "none"]
      /\ rec' = rec /\ summary' = summary /\ cancels' = cancels /\ clear' = clear
      /\ busy' = busy /\ listed' = listed /\ post' = post /\ crashes' = crashes
      /\ receipt' = receipt
  BY DEF TaskEnds, Unrenewed, AtAwait, SetTask, receiptVars
<1>2. /\ lease' \in [Runs -> Replicas \cup {"orphan", Nobody}]
      /\ \A s \in Runs :
            lease'[s] = lease[s] \/ (s = r /\ lease[s] = p /\ lease'[s] \in {"orphan", Nobody})
  BY <1>1 DEF Unleased, RunnerInv, RunnerTypeOK
<1>3. /\ task' \in [Replicas -> [Runs -> Executing \cup {"ending", "none"}]]
      /\ \A q \in Replicas, s \in Runs :
            task'[q][s] = IF q = p /\ s = r THEN "none" ELSE task[q][s]
  BY <1>1 DEF RunnerInv, RunnerTypeOK
<1>4. RunnerTypeOK'
  BY <1>1, <1>2, <1>3 DEF RunnerInv, RunnerTypeOK
<1>5. ExecutionHoldsLease'
  BY <1>1, <1>2, <1>3 DEF RunnerInv, ExecutionHoldsLease, Executing
<1>6. CreatedUnsent' /\ SuccessBacked'
  BY <1>1, <1>3 DEF RunnerInv, CreatedUnsent, SuccessBacked
<1>7. ASSUME NEW q \in Replicas PROVE Started(q)' /\ Settling(q)' /\ OneStretch(q)'
  <2>1. Started(q)'
    BY <1>1, <1>2, BusyTypes DEF RunnerInv, Started, Free
  <2>2. Settling(q)' /\ OneStretch(q)'
    BY <1>1, <1>3, BusyTypes DEF RunnerInv, Settling, OneStretch, Executing
  <2> QED BY <2>1, <2>2
<1>8. ASSUME NEW s \in Runs PROVE Unborn(s)'
  BY <1>1, <1>2, <1>3, RunsAssumption DEF RunnerInv, Unborn
<1> QED BY <1>4, <1>5, <1>6, <1>7, <1>8 DEF RunnerInv

(* A user asks for the cancellation of an active run. *)
LEMMA CancelRequestKeeps ==
    ASSUME RunnerInv, NEW p \in Replicas, NEW r \in Runs, CancelRequest(p, r)
    PROVE  RunnerInv'
<1>1. /\ rec[r] \in Active
      /\ rec' = [rec EXCEPT ![r] = "cancelling"]
      /\ cancels' = [cancels EXCEPT ![p] = cancels[p] \cup {r}]
      /\ summary' = summary /\ lease' = lease /\ task' = task /\ clear' = clear
      /\ busy' = busy /\ listed' = listed /\ post' = post /\ crashes' = crashes
      /\ receipt' = receipt
  BY DEF CancelRequest, Save, Saved, Active, receiptVars
<1>2. /\ rec' \in [Runs -> Active \cup Terminal \cup Gone]
      /\ \A s \in Runs : rec'[s] = IF s = r THEN "cancelling" ELSE rec[s]
      /\ rec[r] # "none"
  BY <1>1 DEF RunnerInv, RunnerTypeOK, Active
<1>3. /\ cancels' \in [Replicas -> SUBSET Runs]
      /\ \A q \in Replicas, s \in Runs : s # r => (s \in cancels'[q] <=> s \in cancels[q])
  <2>1. cancels \in [Replicas -> SUBSET Runs]
    BY DEF RunnerInv, RunnerTypeOK
  <2> QED BY <1>1, <2>1
<1>4. RunnerTypeOK'
  BY <1>1, <1>2, <1>3 DEF RunnerInv, RunnerTypeOK
<1>5. ExecutionHoldsLease' /\ CreatedUnsent' /\ SuccessBacked'
  BY <1>1, <1>2 DEF RunnerInv, ExecutionHoldsLease, CreatedUnsent, SuccessBacked
<1>6. ASSUME NEW q \in Replicas PROVE Started(q)' /\ Settling(q)' /\ OneStretch(q)'
  BY <1>1, <1>2, BusyTypes DEF RunnerInv, Started, Settling, OneStretch
<1>7. ASSUME NEW s \in Runs PROVE Unborn(s)'
  BY <1>1, <1>2, <1>3 DEF RunnerInv, Unborn
<1> QED BY <1>4, <1>5, <1>6, <1>7 DEF RunnerInv

(* The answer to the DELETE: the run exists, since a request awaits it. *)
LEMMA CancelReturnKeeps ==
    ASSUME RunnerInv, NEW p \in Replicas, NEW r \in Runs, CancelReturn(p, r)
    PROVE  RunnerInv'
<1>1. /\ AtAwait(p) /\ r \in cancels[p]
      /\ cancels' = [cancels EXCEPT ![p] = cancels[p] \ {r}]
      /\ summary' = summary /\ lease' = lease /\ task' = task /\ clear' = clear
      /\ listed' = listed /\ post' = post /\ crashes' = crashes /\ receipt' = receipt
  BY DEF CancelReturn, receiptVars
<1>2. CASE task[p][r] = "none" /\ Finish(p, r, "cancelled")
  <2>1. "cancelled" \in Terminal /\ rec[r] # "none"
    BY <1>1 DEF Terminal, RunnerInv, Unborn
  <2> QED BY <1>1, <1>2, <2>1, FinishKeeps
<1>3. CASE UNCHANGED <<rec, busy>>
  <2>1. /\ cancels' \in [Replicas -> SUBSET Runs]
        /\ \A q \in Replicas, s \in Runs : s \in cancels'[q] => s \in cancels[q]
    <3>1. cancels \in [Replicas -> SUBSET Runs]
      BY DEF RunnerInv, RunnerTypeOK
    <3> QED BY <1>1, <3>1
  <2>2. RunnerTypeOK'
    BY <1>1, <1>3, <2>1 DEF RunnerInv, RunnerTypeOK
  <2>3. ExecutionHoldsLease' /\ CreatedUnsent' /\ SuccessBacked'
    BY <1>1, <1>3 DEF RunnerInv, ExecutionHoldsLease, CreatedUnsent, SuccessBacked
  <2>4. ASSUME NEW q \in Replicas PROVE Started(q)' /\ Settling(q)' /\ OneStretch(q)'
    BY <1>1, <1>3 DEF RunnerInv, Started, Settling, OneStretch
  <2>5. ASSUME NEW s \in Runs PROVE Unborn(s)'
    BY <1>1, <1>3, <2>1 DEF RunnerInv, Unborn
  <2> QED BY <2>2, <2>3, <2>4, <2>5 DEF RunnerInv
<1> QED BY <1>2, <1>3 DEF CancelReturn

(* A step that leaves the work of the replicas alone: of the users and the  *)
(* graph database, of the network, or of the execution service.             *)
LEMMA AsideKeeps ==
    ASSUME RunnerInv, RunnerTypeOK',
           UNCHANGED <<rec, lease, task, cancels, busy, listed>>,
           \A s \in Runs : post[s] = "unsent" => post'[s] = "unsent",
           Acknowledged => \A s \in Runs : receipt[s] = "ok" => receipt'[s] = "ok"
    PROVE  RunnerInv'
<1>1. /\ rec' = rec /\ lease' = lease /\ task' = task /\ cancels' = cancels
      /\ busy' = busy /\ listed' = listed
  OBVIOUS
<1>2. CreatedUnsent'
  BY <1>1 DEF RunnerInv, CreatedUnsent
<1>3. SuccessBacked' /\ ExecutionHoldsLease'
  BY <1>1 DEF RunnerInv, SuccessBacked, ExecutionHoldsLease
<1>4. ASSUME NEW q \in Replicas PROVE Started(q)' /\ Settling(q)' /\ OneStretch(q)'
  BY <1>1, BusyTypes DEF RunnerInv, Started, Settling, OneStretch
<1>5. ASSUME NEW s \in Runs PROVE Unborn(s)'
  BY <1>1 DEF RunnerInv, Unborn
<1> QED BY <1>2, <1>3, <1>4, <1>5 DEF RunnerInv

LEMMA AsideStepsKeep ==
    ASSUME RunnerInv,
           \/ \E p \in Replicas : ClearBegin(p)
           \/ \E p \in Replicas, r \in Runs : PublishLate(p, r)
           \/ \E r \in Runs : PostLost(r)
    PROVE  RunnerInv'
<1>1. ASSUME NEW p \in Replicas, ClearBegin(p) PROVE RunnerInv'
  <2>1. /\ clear' = [clear EXCEPT ![p] = [phase |-> "signal", ids |-> ActiveRuns]]
        /\ rec' = rec /\ summary' = summary /\ lease' = lease /\ task' = task
        /\ cancels' = cancels /\ busy' = busy /\ listed' = listed /\ post' = post
        /\ crashes' = crashes /\ receipt' = receipt
    BY <1>1 DEF ClearBegin, receiptVars
  <2>2. RunnerTypeOK'
    BY <2>1 DEF RunnerInv, RunnerTypeOK, ActiveRuns
  <2> QED BY <2>1, <2>2, AsideKeeps
<1>2. ASSUME NEW p \in Replicas, NEW r \in Runs, PublishLate(p, r) PROVE RunnerInv'
  <2>1. /\ rec[r] \in Terminal
        /\ summary' = [summary EXCEPT ![r] = rec[r]]
        /\ rec' = rec /\ lease' = lease /\ task' = task /\ cancels' = cancels
        /\ clear' = clear /\ busy' = busy /\ listed' = listed /\ post' = post
        /\ crashes' = crashes /\ receipt' = receipt
    BY <1>2 DEF PublishLate, receiptVars
  <2>2. RunnerTypeOK'
    BY <2>1 DEF RunnerInv, RunnerTypeOK
  <2> QED BY <2>1, <2>2, AsideKeeps
<1>3. ASSUME NEW r \in Runs, PostLost(r) PROVE RunnerInv'
  <2>1. /\ post[r] = "sent" /\ post' = [post EXCEPT ![r] = "lost"]
        /\ rec' = rec /\ summary' = summary /\ lease' = lease /\ task' = task
        /\ cancels' = cancels /\ clear' = clear /\ busy' = busy /\ listed' = listed
        /\ crashes' = crashes /\ receipt' = receipt
    BY <1>3 DEF PostLost, receiptVars
  <2>2. RunnerTypeOK' /\ \A s \in Runs : post[s] = "unsent" => post'[s] = "unsent"
    BY <2>1 DEF RunnerInv, RunnerTypeOK
  <2> QED BY <2>1, <2>2, AsideKeeps
<1> QED BY <1>1, <1>2, <1>3

(* clear_all stops the tasks of this replica; another replica's go on. *)
LEMMA ClearStopKeeps ==
    ASSUME RunnerInv, NEW p \in Replicas, ClearStop(p)
    PROVE  RunnerInv'
<1>1. /\ task' = [task EXCEPT ![p] = [r \in Runs |->
            IF r \in clear[p].ids /\ task[p][r] # "none" THEN "ending" ELSE task[p][r]]]
      /\ clear' = [clear EXCEPT ![p] =
            [phase |-> "stop", ids |-> {r \in clear[p].ids : task[p][r] # "none"}]]
      /\ rec' = rec /\ summary' = summary /\ lease' = lease /\ cancels' = cancels
      /\ busy' = busy /\ listed' = listed /\ post' = post /\ crashes' = crashes
      /\ receipt' = receipt
  BY DEF ClearStop, receiptVars
<1>2. /\ task' \in [Replicas -> [Runs -> Executing \cup {"ending", "none"}]]
      /\ \A q \in Replicas, s \in Runs :
            \/ task'[q][s] = task[q][s]
            \/ task[q][s] # "none" /\ task'[q][s] = "ending"
  <2>1. task \in [Replicas -> [Runs -> Executing \cup {"ending", "none"}]]
    BY DEF RunnerInv, RunnerTypeOK
  <2> QED BY ONLY <1>1, <2>1, p \in Replicas
<1>3. clear' \in [Replicas -> [phase : {"none", "signal", "stop"}, ids : SUBSET Runs]]
  <2>1. clear[p] \in [phase : {"none", "signal", "stop"}, ids : SUBSET Runs]
    BY DEF RunnerInv, RunnerTypeOK
  <2>2. [phase |-> "stop", ids |-> {r \in clear[p].ids : task[p][r] # "none"}] \in
            [phase : {"none", "signal", "stop"}, ids : SUBSET Runs]
    BY <2>1
  <2> QED BY <1>1, <2>2 DEF RunnerInv, RunnerTypeOK
<1>4. RunnerTypeOK'
  BY <1>1, <1>2, <1>3 DEF RunnerInv, RunnerTypeOK
<1>5. ExecutionHoldsLease'
  BY <1>1, <1>2 DEF RunnerInv, ExecutionHoldsLease, Executing
<1>6. CreatedUnsent' /\ SuccessBacked'
  BY <1>1, <1>2 DEF RunnerInv, CreatedUnsent, SuccessBacked
<1>7. ASSUME NEW q \in Replicas PROVE Started(q)' /\ Settling(q)' /\ OneStretch(q)'
  BY <1>1, <1>2, BusyTypes DEF RunnerInv, Started, Settling, OneStretch, Executing
<1>8. ASSUME NEW s \in Runs PROVE Unborn(s)'
  BY <1>1, <1>2 DEF RunnerInv, Unborn
<1> QED BY <1>4, <1>5, <1>6, <1>7, <1>8 DEF RunnerInv

(* ... and purges every run on record, whoever executes it. *)
LEMMA ClearPurgeKeeps ==
    ASSUME RunnerInv, NEW p \in Replicas, ClearPurge(p)
    PROVE  RunnerInv'
<1>1. /\ rec' = [r \in Runs |-> IF rec[r] = "none" THEN "none" ELSE "purged"]
      /\ clear' = [clear EXCEPT ![p] = NoClear]
      /\ summary' = summary /\ lease' = lease /\ task' = task /\ cancels' = cancels
      /\ busy' = busy /\ listed' = listed /\ post' = post /\ crashes' = crashes
      /\ receipt' = receipt
  BY DEF ClearPurge, receiptVars
<1>2. RunnerTypeOK'
  BY <1>1 DEF RunnerInv, RunnerTypeOK, Gone, NoClear
<1>3. ExecutionHoldsLease' /\ CreatedUnsent' /\ SuccessBacked'
  BY <1>1 DEF RunnerInv, ExecutionHoldsLease, CreatedUnsent, SuccessBacked
<1>4. ASSUME NEW q \in Replicas PROVE Started(q)' /\ Settling(q)' /\ OneStretch(q)'
  BY <1>1, BusyTypes DEF RunnerInv, Started, Settling, OneStretch
<1>5. ASSUME NEW s \in Runs PROVE Unborn(s)'
  BY <1>1 DEF RunnerInv, Unborn
<1> QED BY <1>2, <1>3, <1>4, <1>5 DEF RunnerInv

(* A crash leaves the leases of the replica orphaned, and no task. *)
LEMMA CrashKeeps ==
    ASSUME RunnerInv, NEW p \in Replicas, Crash(p)
    PROVE  RunnerInv'
<1>1. /\ crashes < MaxCrashes /\ crashes' = crashes + 1
      /\ task' = [task EXCEPT ![p] = [r \in Runs |-> "none"]]
      /\ cancels' = [cancels EXCEPT ![p] = {}]
      /\ clear' = [clear EXCEPT ![p] = NoClear]
      /\ busy' = [busy EXCEPT ![p] = Free]
      /\ listed' = [listed EXCEPT ![p] = {}]
      /\ lease' = [r \in Runs |-> IF lease[r] = p THEN "orphan" ELSE lease[r]]
      /\ rec' = rec /\ summary' = summary /\ post' = post /\ receipt' = receipt
  BY DEF Crash, receiptVars
<1>2. /\ task' \in [Replicas -> [Runs -> Executing \cup {"ending", "none"}]]
      /\ \A q \in Replicas, s \in Runs :
            task'[q][s] = IF q = p THEN "none" ELSE task[q][s]
  BY <1>1 DEF RunnerInv, RunnerTypeOK
<1>3. /\ lease' \in [Runs -> Replicas \cup {"orphan", Nobody}]
      /\ \A s \in Runs : lease'[s] = IF lease[s] = p THEN "orphan" ELSE lease[s]
  BY <1>1 DEF RunnerInv, RunnerTypeOK
<1>4. /\ busy' \in [Replicas -> {Free} \cup
              [op : {"start", "settle"}, run : Runs, status : Terminal \cup {"none"}]]
      /\ busy'[p] = Free
      /\ \A q \in Replicas : q # p => busy'[q] = busy[q]
  <2>1. busy \in [Replicas -> {Free} \cup
            [op : {"start", "settle"}, run : Runs, status : Terminal \cup {"none"}]]
    BY DEF RunnerInv, RunnerTypeOK
  <2> QED BY ONLY <1>1, <2>1, p \in Replicas
<1>5. /\ cancels' \in [Replicas -> SUBSET Runs] /\ listed' \in [Replicas -> SUBSET Runs]
      /\ \A q \in Replicas, s \in Runs : s \in cancels'[q] => s \in cancels[q]
      /\ \A q \in Replicas, s \in Runs : s \in listed'[q] => s \in listed[q]
      /\ \A q \in Replicas : q # p => listed'[q] = listed[q]
  <2>1. cancels \in [Replicas -> SUBSET Runs] /\ listed \in [Replicas -> SUBSET Runs]
    BY DEF RunnerInv, RunnerTypeOK
  <2> QED BY ONLY <1>1, <2>1, p \in Replicas
<1>6. clear' \in [Replicas -> [phase : {"none", "signal", "stop"}, ids : SUBSET Runs]]
  BY <1>1 DEF RunnerInv, RunnerTypeOK, NoClear
<1>7. crashes' \in 0..MaxCrashes
  BY <1>1, RunsAssumption DEF RunnerInv, RunnerTypeOK
<1>8. RunnerTypeOK'
  BY <1>1, <1>2, <1>3, <1>4, <1>5, <1>6, <1>7 DEF RunnerInv, RunnerTypeOK
<1>9. ExecutionHoldsLease'
  BY <1>2, <1>3 DEF RunnerInv, ExecutionHoldsLease, Executing
<1>10. CreatedUnsent' /\ SuccessBacked'
  BY <1>1, <1>2 DEF RunnerInv, CreatedUnsent, SuccessBacked
<1>11. ASSUME NEW q \in Replicas PROVE Started(q)' /\ Settling(q)' /\ OneStretch(q)'
  <2>1. CASE q = p
    BY <1>4, <2>1 DEF Started, Settling, OneStretch, Free
  <2>2. CASE q # p
    BY <1>1, <1>2, <1>3, <1>4, <1>5, <2>2, BusyTypes
    DEF RunnerInv, Started, Settling, OneStretch
  <2> QED BY <2>1, <2>2
<1>12. ASSUME NEW s \in Runs PROVE Unborn(s)'
  <2>1. ASSUME rec[s] = "none", NEW q \in Replicas, lease'[s] = q
        PROVE  busy'[q].op = "start" /\ busy'[q].run = s
    <3>1. lease[s] = q /\ q # p
      BY <1>3, <2>1, RunsAssumption
    <3> QED BY <1>4, <2>1, <3>1 DEF RunnerInv, Unborn
  <2> QED BY <1>1, <1>2, <1>5, <2>1 DEF RunnerInv, Unborn
<1> QED BY <1>8, <1>9, <1>10, <1>11, <1>12 DEF RunnerInv

(* The lease of a crashed replica expires; nobody executes under it. *)
LEMMA LeaseExpiresKeeps ==
    ASSUME RunnerInv, NEW r \in Runs, LeaseExpires(r)
    PROVE  RunnerInv'
<1>1. /\ lease[r] = "orphan"
      /\ lease' = [lease EXCEPT ![r] = Nobody]
      /\ rec' = rec /\ summary' = summary /\ task' = task /\ cancels' = cancels
      /\ clear' = clear /\ busy' = busy /\ listed' = listed /\ post' = post
      /\ crashes' = crashes /\ receipt' = receipt
  BY DEF LeaseExpires, receiptVars
<1>2. RunnerTypeOK'
  BY <1>1 DEF RunnerInv, RunnerTypeOK
<1>3. \A s \in Runs : lease'[s] = IF s = r THEN Nobody ELSE lease[s]
  BY <1>1 DEF RunnerInv, RunnerTypeOK
<1>4. ExecutionHoldsLease'
  BY <1>1, <1>3, RunsAssumption DEF RunnerInv, ExecutionHoldsLease
<1>5. CreatedUnsent' /\ SuccessBacked'
  BY <1>1 DEF RunnerInv, CreatedUnsent, SuccessBacked
<1>6. ASSUME NEW q \in Replicas PROVE Started(q)' /\ Settling(q)' /\ OneStretch(q)'
  BY <1>1, <1>3, BusyTypes, RunsAssumption DEF RunnerInv, Started, Settling, OneStretch
<1>7. ASSUME NEW s \in Runs PROVE Unborn(s)'
  BY <1>1, <1>3, RunsAssumption DEF RunnerInv, Unborn
<1> QED BY <1>2, <1>4, <1>5, <1>6, <1>7 DEF RunnerInv

(* The scan lists runs that have an active record. *)
LEMMA ReconcileKeeps ==
    ASSUME RunnerInv, NEW p \in Replicas, Reconcile(p)
    PROVE  RunnerInv'
<1>1. /\ busy[p] = Free
      /\ listed' = [listed EXCEPT ![p] = ActiveRuns]
      /\ rec' = rec /\ summary' = summary /\ lease' = lease /\ task' = task
      /\ cancels' = cancels /\ clear' = clear /\ busy' = busy /\ post' = post
      /\ crashes' = crashes /\ receipt' = receipt
  BY DEF Reconcile, AtAwait, receiptVars
<1>2. /\ listed' \in [Replicas -> SUBSET Runs]
      /\ \A q \in Replicas : q # p => listed'[q] = listed[q]
      /\ \A s \in Runs : s \in listed'[p] => rec[s] # "none"
  BY <1>1 DEF ActiveRuns, Active, RunnerInv, RunnerTypeOK
<1>3. RunnerTypeOK'
  BY <1>1, <1>2 DEF RunnerInv, RunnerTypeOK
<1>4. ExecutionHoldsLease' /\ CreatedUnsent' /\ SuccessBacked'
  BY <1>1 DEF RunnerInv, ExecutionHoldsLease, CreatedUnsent, SuccessBacked
<1>5. ASSUME NEW q \in Replicas PROVE Started(q)' /\ Settling(q)' /\ OneStretch(q)'
  BY <1>1, <1>2 DEF RunnerInv, Started, Settling, OneStretch
<1>6. ASSUME NEW s \in Runs PROVE Unborn(s)'
  BY <1>1, <1>2 DEF RunnerInv, Unborn
<1> QED BY <1>3, <1>4, <1>5, <1>6 DEF RunnerInv

(* A run whose lease is free has no task anywhere; the recovery of it never *)
(* becomes a task that submits.                                             *)
LEMMA RecoverKeeps ==
    ASSUME RunnerInv, NEW p \in Replicas, NEW r \in Runs, Recover(p, r)
    PROVE  RunnerInv'
<1>1. /\ r \in listed[p]
      /\ listed' = [listed EXCEPT ![p] = listed[p] \ {r}]
      /\ rec' = rec /\ summary' = summary /\ cancels' = cancels /\ clear' = clear
      /\ busy' = busy /\ post' = post /\ crashes' = crashes /\ receipt' = receipt
  BY DEF Recover, receiptVars
<1>2. busy[p] = Free /\ rec[r] # "none"
  BY <1>1 DEF RunnerInv, OneStretch, Unborn
<1>3. /\ listed' \in [Replicas -> SUBSET Runs]
      /\ \A q \in Replicas, s \in Runs : s \in listed'[q] => s \in listed[q]
      /\ \A q \in Replicas : q # p => listed'[q] = listed[q]
  <2>1. listed \in [Replicas -> SUBSET Runs]
    BY DEF RunnerInv, RunnerTypeOK
  <2> QED BY ONLY <1>1, <2>1, p \in Replicas
<1>4. /\ SuccessBacked'
      /\ \A q \in Replicas : OneStretch(q)'
  BY <1>1, <1>2, <1>3 DEF RunnerInv, SuccessBacked, OneStretch
<1>5. CASE lease[r] = Nobody /\ lease' = [lease EXCEPT ![r] = p]
           /\ SetTask(p, r, "recovering")
  <2>1. /\ task' \in [Replicas -> [Runs -> Executing \cup {"ending", "none"}]]
        /\ \A q \in Replicas, s \in Runs :
              task'[q][s] = IF q = p /\ s = r THEN "recovering" ELSE task[q][s]
    BY <1>5 DEF SetTask, Executing, RunnerInv, RunnerTypeOK
  <2>2. /\ lease' \in [Runs -> Replicas \cup {"orphan", Nobody}]
        /\ \A s \in Runs : lease'[s] = IF s = r THEN p ELSE lease[s]
    BY <1>5 DEF RunnerInv, RunnerTypeOK
  <2>3. RunnerTypeOK'
    BY <1>1, <1>3, <2>1, <2>2 DEF RunnerInv, RunnerTypeOK
  <2>4. ExecutionHoldsLease'
    BY <1>5, <2>1, <2>2, RunsAssumption DEF RunnerInv, ExecutionHoldsLease
  <2>5. CreatedUnsent'
    BY <1>1, <2>1 DEF RunnerInv, CreatedUnsent
  <2>6. ASSUME NEW q \in Replicas PROVE Started(q)' /\ Settling(q)'
    <3>1. CASE q = p
      BY <1>1, <1>2, <3>1 DEF Started, Settling, Free
    <3>2. CASE q # p
      BY <1>1, <1>2, <2>1, <2>2, <3>2, BusyTypes DEF RunnerInv, Started, Settling
    <3> QED BY <3>1, <3>2
  <2>7. ASSUME NEW s \in Runs PROVE Unborn(s)'
    BY <1>1, <1>2, <1>3, <2>1, <2>2 DEF RunnerInv, Unborn
  <2> QED BY <1>4, <2>3, <2>4, <2>5, <2>6, <2>7 DEF RunnerInv
<1>6. CASE UNCHANGED <<lease, task>>
  <2>1. RunnerTypeOK'
    BY <1>1, <1>3, <1>6 DEF RunnerInv, RunnerTypeOK
  <2>2. ExecutionHoldsLease' /\ CreatedUnsent'
    BY <1>1, <1>6 DEF RunnerInv, ExecutionHoldsLease, CreatedUnsent
  <2>3. ASSUME NEW q \in Replicas PROVE Started(q)' /\ Settling(q)'
    BY <1>1, <1>6 DEF RunnerInv, Started, Settling
  <2>4. ASSUME NEW s \in Runs PROVE Unborn(s)'
    BY <1>1, <1>3, <1>6 DEF RunnerInv, Unborn
  <2> QED BY <1>4, <2>1, <2>2, <2>3, <2>4 DEF RunnerInv
<1> QED BY <1>5, <1>6 DEF Recover

----------------------------------------------------------------------------
(* The execution service inside the composition                             *)

(* Every step of the composition is a step of the service or leaves it     *)
(* alone.                                                                   *)
LEMMA NextIsReceiptsStep == [Next]_vars => [ReceiptsNext]_receiptVars
<1> SUFFICES ASSUME [Next]_vars PROVE ReceiptsNext \/ UNCHANGED receiptVars
  OBVIOUS
<1>1. ASSUME NEW p \in Replicas, ReplicaStep(p) PROVE UNCHANGED receiptVars
  <2>1. ASSUME NEW r \in Runs, TaskStep(p, r) PROVE UNCHANGED receiptVars
    BY <2>1 DEF TaskStep, TaskBegin, PostAccepted, PostFails, ReadResult, PollEnds,
                RecoveryEnds, TaskEnds
  <2>2. ASSUME NEW r \in Runs,
               \/ StartClaim(p, r) \/ StartSave(p, r) \/ Heartbeat(p, r)
               \/ CancelRequest(p, r) \/ CancelReturn(p, r)
               \/ Recover(p, r) \/ PublishLate(p, r)
        PROVE  UNCHANGED receiptVars
    BY <2>2 DEF StartClaim, StartSave, Heartbeat, CancelRequest, CancelReturn,
                Recover, PublishLate
  <2>3. CASE Settle(p) \/ ClearBegin(p) \/ ClearStop(p) \/ ClearPurge(p)
             \/ Reconcile(p) \/ Crash(p)
    BY <2>3 DEF Settle, ClearBegin, ClearStop, ClearPurge, Reconcile, Crash
  <2> QED BY <1>1, <2>1, <2>2, <2>3 DEF ReplicaStep
<1>2. ASSUME NEW r \in Runs, PostArrives(r) \/ PostLost(r) \/ LeaseExpires(r)
      PROVE  ReceiptsNext \/ UNCHANGED receiptVars
  BY <1>2 DEF PostArrives, PostLost, LeaseExpires, ReceiptsNext, Runs
<1>3. CASE Service
  BY <1>3 DEF Service, ReceiptsNext
<1>4. CASE UNCHANGED vars
  BY <1>4 DEF vars
<1> QED BY <1>1, <1>2, <1>3, <1>4 DEF Next

(* The POST of a run arrives, or the service works on its own: a result     *)
(* that is stored stays.                                                    *)
LEMMA ServiceStepsKeep ==
    ASSUME RunnerInv, ReceiptsInv, [Next]_vars,
           Service \/ \E r \in Runs : PostArrives(r)
    PROVE  RunnerInv'
<1>1. Acknowledged => \A s \in Runs : receipt[s] = "ok" => receipt'[s] = "ok"
  BY NextIsReceiptsStep, StepKeepsResults DEF Kept, Settled, Completed, Runs
<1>2. CASE Service
  <2>1. /\ rec' = rec /\ summary' = summary /\ lease' = lease /\ task' = task
        /\ cancels' = cancels /\ clear' = clear /\ busy' = busy /\ listed' = listed
        /\ post' = post /\ crashes' = crashes
    BY <1>2 DEF Service, runnerVars
  <2>2. RunnerTypeOK'
    BY <2>1 DEF RunnerInv, RunnerTypeOK
  <2> QED BY <1>1, <2>1, <2>2, AsideKeeps
<1>3. ASSUME NEW r \in Runs, PostArrives(r) PROVE RunnerInv'
  <2>1. /\ post[r] = "sent" /\ post' = [post EXCEPT ![r] = "arrived"]
        /\ rec' = rec /\ summary' = summary /\ lease' = lease /\ task' = task
        /\ cancels' = cancels /\ clear' = clear /\ busy' = busy /\ listed' = listed
        /\ crashes' = crashes
    BY <1>3 DEF PostArrives
  <2>2. RunnerTypeOK' /\ \A s \in Runs : post[s] = "unsent" => post'[s] = "unsent"
    BY <2>1 DEF RunnerInv, RunnerTypeOK
  <2> QED BY <1>1, <2>1, <2>2, AsideKeeps
<1> QED BY <1>2, <1>3

----------------------------------------------------------------------------
(* Runs that are gone, and keys *)

(* A save on a run that has been on record changes no run that is gone. *)
LEMMA SaveKeepsGone ==
    ASSUME RunnerTypeOK, NEW r \in Runs, rec[r] # "none", NEW status, Save(r, status),
           NEW s \in Runs, rec[s] \in Gone
    PROVE  rec'[s] = rec[s]
BY DEF RunnerTypeOK, Save, Saved, Gone

(* No step changes a run that is gone, but the one that saves a new run.    *)
LEMMA GoneStays ==
    ASSUME RunnerInv, [Next]_vars, NEW s \in Runs, rec[s] \in Gone
    PROVE  \/ rec'[s] = rec[s]
           \/ /\ rec[s] = "none" /\ ~KeyTaken(s)
              /\ rec' = [rec EXCEPT ![s] = "queued"]
              /\ \E p \in Replicas : StartSave(p, s)
<1>1. ASSUME NEW p \in Replicas, NEW r \in Runs, NEW outcome, task[p][r] # "none",
             Conclude(p, r, outcome)
      PROVE  rec'[s] = rec[s]
  <2>1. rec[r] # "none"
    BY <1>1 DEF RunnerInv, Unborn
  <2> QED BY <1>1, <2>1, SaveKeepsGone DEF Conclude, Finish, RunnerInv
<1>2. ASSUME NEW p \in Replicas, NEW r \in Runs, TaskStep(p, r)
      PROVE  rec'[s] = rec[s]
  <2>1. CASE TaskBegin(p, r)
    <3>1. rec[r] # "none"
      BY <2>1 DEF TaskBegin, RunnerInv, Unborn
    <3> QED BY <2>1, <3>1, SaveKeepsGone DEF TaskBegin, Finish, RunnerInv
  <2>2. CASE PostFails(p, r)
    BY <1>1, <2>2 DEF PostFails
  <2>3. CASE ReadResult(p, r)
    <3>1. task[p][r] # "none"
      BY <2>3 DEF ReadResult
    <3> QED BY <1>1, <2>3, <3>1 DEF ReadResult
  <2>4. CASE PollEnds(p, r)
    BY <1>1, <2>4 DEF PollEnds
  <2>5. CASE RecoveryEnds(p, r)
    <3>1. rec[r] # "none"
      BY <2>5 DEF RecoveryEnds, RunnerInv, Unborn
    <3> QED BY <2>5, <3>1, SaveKeepsGone DEF RecoveryEnds, Finish, RunnerInv
  <2>6. CASE PostAccepted(p, r) \/ TaskEnds(p, r)
    BY <2>6 DEF PostAccepted, TaskEnds
  <2> QED BY <1>2, <2>1, <2>2, <2>3, <2>4, <2>5, <2>6 DEF TaskStep
<1>3. ASSUME NEW p \in Replicas, NEW r \in Runs, CancelRequest(p, r) \/ CancelReturn(p, r)
      PROVE  rec'[s] = rec[s]
  <2>1. rec[r] # "none"
    BY <1>3 DEF CancelRequest, CancelReturn, Active, RunnerInv, Unborn
  <2> QED BY <1>3, <2>1, SaveKeepsGone DEF CancelRequest, CancelReturn, Finish, RunnerInv
<1>4. ASSUME NEW p \in Replicas, Settle(p)
      PROVE  rec'[s] = rec[s]
  <2>1. busy[p].run \in Runs /\ rec[busy[p].run] # "none"
    BY <1>4, BusyTypes DEF Settle, RunnerInv, Settling
  <2> QED BY <1>4, <2>1, SaveKeepsGone DEF Settle, RunnerInv
<1>5. ASSUME NEW p \in Replicas, ClearPurge(p)
      PROVE  rec'[s] = rec[s]
  BY <1>5 DEF ClearPurge, Gone
<1>6. ASSUME NEW p \in Replicas, NEW r \in Runs, StartSave(p, r)
      PROVE  \/ rec'[s] = rec[s]
             \/ /\ rec[s] = "none" /\ ~KeyTaken(s)
                /\ rec' = [rec EXCEPT ![s] = "queued"]
                /\ \E q \in Replicas : StartSave(q, s)
  <2>1. rec[r] = "none"
    BY <1>6, BusyTypes DEF StartSave, RunnerInv, Started
  <2>2. CASE UNCHANGED rec
    BY <2>2
  <2>3. CASE ~KeyTaken(r) /\ rec' = [rec EXCEPT ![r] = "queued"]
    <3>1. CASE s = r
      BY <1>6, <2>1, <2>3, <3>1
    <3>2. CASE s # r
      BY <2>3, <3>2 DEF RunnerInv, RunnerTypeOK
    <3> QED BY <3>1, <3>2
  <2> QED BY <1>6, <2>1, <2>2, <2>3 DEF StartSave, Save, Saved
<1>7. ASSUME NEW p \in Replicas, ReplicaStep(p)
      PROVE  \/ rec'[s] = rec[s]
             \/ /\ rec[s] = "none" /\ ~KeyTaken(s)
                /\ rec' = [rec EXCEPT ![s] = "queued"]
                /\ \E q \in Replicas : StartSave(q, s)
  <2>1. ASSUME NEW r \in Runs,
               \/ StartClaim(p, r) \/ Heartbeat(p, r) \/ Recover(p, r) \/ PublishLate(p, r)
        PROVE  UNCHANGED rec
    BY <2>1 DEF StartClaim, Heartbeat, Recover, PublishLate
  <2>2. CASE ClearBegin(p) \/ ClearStop(p) \/ Reconcile(p) \/ Crash(p)
    BY <2>2 DEF ClearBegin, ClearStop, Reconcile, Crash
  <2> QED BY <1>2, <1>3, <1>4, <1>5, <1>6, <1>7, <2>1, <2>2 DEF ReplicaStep
<1>8. CASE \E r \in Runs : PostArrives(r) \/ PostLost(r) \/ LeaseExpires(r)
  BY <1>8 DEF PostArrives, PostLost, LeaseExpires
<1>9. CASE Service \/ UNCHANGED vars
  BY <1>9 DEF Service, vars, runnerVars
<1> QED BY <1>7, <1>8, <1>9 DEF Next

(* A save of a terminal status leaves a terminal record terminal. *)
LEMMA SaveKeepsTerminal ==
    ASSUME RunnerTypeOK, NEW r \in Runs, NEW status \in Terminal, Save(r, status),
           NEW s \in Runs, rec[s] \in Terminal
    PROVE  rec'[s] \in Terminal
BY DEF RunnerTypeOK, Save, Saved

(* No step makes a terminal record active again, at any replica. *)
LEMMA TerminalStays ==
    ASSUME RunnerInv, [Next]_vars, NEW s \in Runs, rec[s] \in Terminal
    PROVE  rec'[s] \in Terminal \cup {"purged"}
<1>1. ASSUME NEW p \in Replicas, NEW r \in Runs, NEW outcome \in Terminal,
             Conclude(p, r, outcome)
      PROVE  rec'[s] \in Terminal
  BY <1>1, SaveKeepsTerminal DEF Conclude, Finish, RunnerInv, Terminal
<1>2. ASSUME NEW p \in Replicas, NEW r \in Runs, TaskStep(p, r)
      PROVE  rec'[s] \in Terminal
  <2>0. "failed" \in Terminal /\ "succeeded" \in Terminal /\ "cancelled" \in Terminal
    BY DEF Terminal
  <2>1. CASE TaskBegin(p, r)
    <3>1. CASE UNCHANGED rec
      BY <3>1
    <3>2. CASE Finish(p, r, "cancelled")
      BY <2>0, <3>2, SaveKeepsTerminal DEF Finish, RunnerInv
    <3>3. CASE rec[r] \notin Terminal /\ Save(r, "running")
      BY <3>3 DEF Save, Saved, RunnerInv, RunnerTypeOK
    <3> QED BY <2>1, <3>1, <3>2, <3>3 DEF TaskBegin
  <2>2. CASE PostFails(p, r) \/ ReadResult(p, r) \/ PollEnds(p, r)
    BY <1>1, <2>0, <2>2 DEF PostFails, ReadResult, PollEnds
  <2>3. CASE RecoveryEnds(p, r)
    BY <2>0, <2>3, SaveKeepsTerminal DEF RecoveryEnds, Finish, RunnerInv
  <2>4. CASE PostAccepted(p, r) \/ TaskEnds(p, r)
    BY <2>4 DEF PostAccepted, TaskEnds
  <2> QED BY <1>2, <2>1, <2>2, <2>3, <2>4 DEF TaskStep
<1>3. ASSUME NEW p \in Replicas, NEW r \in Runs, CancelRequest(p, r) \/ CancelReturn(p, r)
      PROVE  rec'[s] \in Terminal
  <2>1. CASE CancelRequest(p, r)
    <3>1. r # s /\ Save(r, "cancelling")
      BY <2>1 DEF CancelRequest, Active, Terminal
    <3> QED BY <3>1 DEF Save, Saved, RunnerInv, RunnerTypeOK
  <2>2. CASE CancelReturn(p, r)
    BY <2>2, SaveKeepsTerminal DEF CancelReturn, Finish, RunnerInv, Terminal
  <2> QED BY <1>3, <2>1, <2>2
<1>4. ASSUME NEW p \in Replicas, NEW r \in Runs, StartSave(p, r)
      PROVE  rec'[s] \in Terminal
  <2>1. rec[r] = "none" /\ r # s
    BY <1>4, BusyTypes DEF StartSave, RunnerInv, Started, Terminal
  <2> QED BY <1>4, <2>1 DEF StartSave, Save, Saved, RunnerInv, RunnerTypeOK
<1>5. ASSUME NEW p \in Replicas, Settle(p)
      PROVE  rec'[s] \in Terminal
  <2>1. busy[p].run \in Runs /\ busy[p].status \in Terminal
    BY <1>5, BusyTypes DEF Settle, RunnerInv, Settling
  <2> QED BY <1>5, <2>1, SaveKeepsTerminal DEF Settle, RunnerInv
<1>6. ASSUME NEW p \in Replicas, ReplicaStep(p)
      PROVE  rec'[s] \in Terminal \cup {"purged"}
  <2>1. ASSUME NEW r \in Runs,
               \/ StartClaim(p, r) \/ Heartbeat(p, r) \/ Recover(p, r) \/ PublishLate(p, r)
        PROVE  UNCHANGED rec
    BY <2>1 DEF StartClaim, Heartbeat, Recover, PublishLate
  <2>2. CASE ClearBegin(p) \/ ClearStop(p) \/ Reconcile(p) \/ Crash(p)
    BY <2>2 DEF ClearBegin, ClearStop, Reconcile, Crash
  <2>3. CASE ClearPurge(p)
    BY <2>3 DEF ClearPurge, Terminal
  <2> QED BY <1>2, <1>3, <1>4, <1>5, <1>6, <2>1, <2>2, <2>3 DEF ReplicaStep
<1>7. CASE \E r \in Runs : PostArrives(r) \/ PostLost(r) \/ LeaseExpires(r)
  BY <1>7 DEF PostArrives, PostLost, LeaseExpires
<1>8. CASE Service \/ UNCHANGED vars
  BY <1>8 DEF Service, vars, runnerVars
<1> QED BY <1>6, <1>7, <1>8 DEF Next

KeysUnique ==
    \A q, r \in Runs : KeyOf[q] = KeyOf[r] /\ q # r => rec[q] \in Gone \/ rec[r] \in Gone

(* The UNIQUE constraint is tested where the record is written. *)
LEMMA KeysUniqueKept ==
    ASSUME RunnerInv, KeysUnique, [Next]_vars
    PROVE  KeysUnique'
<1> SUFFICES ASSUME NEW q \in Runs, NEW r \in Runs, KeyOf[q] = KeyOf[r], q # r
             PROVE  rec'[q] \in Gone \/ rec'[r] \in Gone
  BY DEF KeysUnique
<1>1. ASSUME NEW s \in Runs, NEW t \in Runs, KeyOf[s] = KeyOf[t], s # t, rec[s] \in Gone
      PROVE  rec'[s] \in Gone \/ rec'[t] \in Gone
  <2>1. CASE rec'[s] = rec[s]
    BY <1>1, <2>1
  <2>2. CASE ~KeyTaken(s) /\ rec' = [rec EXCEPT ![s] = "queued"]
    <3>1. rec[t] \in Gone
      BY <1>1, <2>2 DEF KeyTaken
    <3>2. rec'[t] = rec[t]
      BY <1>1, <2>2
    <3> QED BY <3>1, <3>2
  <2> QED BY <1>1, <2>1, <2>2, GoneStays
<1>2. rec[q] \in Gone \/ rec[r] \in Gone
  BY DEF KeysUnique
<1> QED BY <1>1, <1>2

----------------------------------------------------------------------------
(* The invariant of the composition *)

RunsInv == RunnerInv /\ ReceiptsInv /\ KeysUnique

LEMMA RunsInvInitially == Init => RunsInv
<1> SUFFICES ASSUME Init PROVE RunsInv
  OBVIOUS
<1>1. ReceiptsInv
  BY ReceiptsInvInitially DEF Init
<1>2. RunnerTypeOK
  BY RunsAssumption DEF Init, RunnerTypeOK, Gone, NoClear
<1>3. \A p \in Replicas : Started(p) /\ Settling(p) /\ OneStretch(p)
  BY DEF Init, Free, Started, Settling, OneStretch
<1>4. ExecutionHoldsLease /\ CreatedUnsent /\ SuccessBacked
  BY DEF Init, Executing, ExecutionHoldsLease, CreatedUnsent, SuccessBacked
<1>5. \A r \in Runs : Unborn(r)
  BY RunsAssumption DEF Init, Unborn
<1>6. KeysUnique
  BY DEF Init, KeysUnique, Gone
<1> QED BY <1>1, <1>2, <1>3, <1>4, <1>5, <1>6 DEF RunsInv, RunnerInv

LEMMA RunsInvKept == RunsInv /\ [Next]_vars => RunsInv'
<1> SUFFICES ASSUME RunsInv, [Next]_vars PROVE RunsInv'
  OBVIOUS
<1>1. RunnerInv /\ ReceiptsInv /\ KeysUnique
  BY DEF RunsInv
<1>2. ReceiptsInv'
  BY <1>1, NextIsReceiptsStep, ReceiptsInvKept
<1>3. KeysUnique'
  BY <1>1, KeysUniqueKept
<1>4. RunnerInv'
  <2>1. ASSUME NEW p \in Replicas, ReplicaStep(p) PROVE RunnerInv'
    <3>1. ASSUME NEW r \in Runs, TaskStep(p, r) PROVE RunnerInv'
      BY <1>1, <3>1, TaskBeginKeeps, PostAcceptedKeeps, TaskStepKeeps, TaskEndsKeeps
      DEF TaskStep
    <3>2. ASSUME NEW r \in Runs, StartClaim(p, r) \/ StartSave(p, r) \/ Heartbeat(p, r)
          PROVE  RunnerInv'
      BY <1>1, <3>2, StartClaimKeeps, StartSaveKeeps, TaskStepKeeps
    <3>3. ASSUME NEW r \in Runs, CancelRequest(p, r) \/ CancelReturn(p, r)
          PROVE  RunnerInv'
      BY <1>1, <3>3, CancelRequestKeeps, CancelReturnKeeps
    <3>4. ASSUME NEW r \in Runs, Recover(p, r) \/ PublishLate(p, r)
          PROVE  RunnerInv'
      BY <1>1, <3>4, RecoverKeeps, AsideStepsKeep
    <3>5. CASE Settle(p) \/ ClearBegin(p) \/ ClearStop(p) \/ ClearPurge(p)
      BY <1>1, <3>5, SettleKeeps, AsideStepsKeep, ClearStopKeeps, ClearPurgeKeeps
    <3>6. CASE Reconcile(p) \/ Crash(p)
      BY <1>1, <3>6, ReconcileKeeps, CrashKeeps
    <3> QED BY <2>1, <3>1, <3>2, <3>3, <3>4, <3>5, <3>6 DEF ReplicaStep
  <2>2. CASE \E r \in Runs : PostLost(r) \/ LeaseExpires(r)
    BY <1>1, <2>2, AsideStepsKeep, LeaseExpiresKeeps
  <2>3. CASE Service \/ \E r \in Runs : PostArrives(r)
    BY <1>1, <2>3, ServiceStepsKeep
  <2>4. CASE UNCHANGED vars
    <3>1. /\ rec' = rec /\ summary' = summary /\ lease' = lease /\ task' = task
          /\ cancels' = cancels /\ clear' = clear /\ busy' = busy /\ listed' = listed
          /\ post' = post /\ crashes' = crashes /\ receipt' = receipt
      BY <2>4 DEF vars, runnerVars, receiptVars
    <3>2. RunnerTypeOK'
      BY <1>1, <3>1 DEF RunnerInv, RunnerTypeOK
    <3> QED BY <1>1, <3>1, <3>2, AsideKeeps
  <2> QED BY <2>1, <2>2, <2>3, <2>4 DEF Next
<1> QED BY <1>2, <1>3, <1>4 DEF RunsInv

LEMMA RunsInvariant == Spec => []RunsInv
BY RunsInvInitially, RunsInvKept, PTL DEF Spec

----------------------------------------------------------------------------
(* One replica: its runs on record and the lifecycle                        *)

OneReplica == \A p, q \in Replicas : p = q

(* A submission counts the runs and saves its record in one stretch of the  *)
(* only replica, so the count still holds when the record is saved.         *)
CapacityInv ==
    /\ IsFiniteSet(ActiveRuns)
    /\ CapacityBound
    /\ \A p \in Replicas : busy[p].op = "start" => HasRoom

(* No step but the save of a submission makes a run active. *)
LEMMA ActiveShrinks ==
    ASSUME RunnerInv, [Next]_vars, \A p \in Replicas, r \in Runs : ~StartSave(p, r)
    PROVE  ActiveRuns' \subseteq ActiveRuns
<1> SUFFICES ASSUME NEW s \in Runs, rec'[s] \in Active PROVE rec[s] \in Active
  BY DEF ActiveRuns
<1>1. CASE rec[s] \in Gone
  BY <1>1, GoneStays
<1>2. CASE rec[s] \in Terminal
  BY <1>2, TerminalStays DEF Active, Terminal
<1> QED BY <1>1, <1>2 DEF RunnerInv, RunnerTypeOK

(* Only StartClaim, which finds room, begins a submission. *)
LEMMA StartHasRoom ==
    ASSUME RunnerInv, [Next]_vars, NEW q \in Replicas, busy'[q].op = "start"
    PROVE  busy[q].op = "start" \/ (HasRoom /\ UNCHANGED rec)
<1>1. ASSUME NEW p \in Replicas, NEW b \in {Free} \cup [op : {"settle"}, run : Runs, status : Terminal],
             busy' = [busy EXCEPT ![p] = b]
      PROVE  busy[q].op = "start"
  <2>1. b.op # "start" /\ busy'[p] = b
    BY <1>1 DEF Free, RunnerInv, RunnerTypeOK
  <2>2. p # q
    BY <2>1
  <2> QED BY <1>1, <2>2 DEF RunnerInv, RunnerTypeOK
<1>2. ASSUME NEW p \in Replicas, NEW r \in Runs, NEW status \in Terminal, Finish(p, r, status)
      PROVE  busy[q].op = "start"
  <2>1. [op |-> "settle", run |-> r, status |-> status]
           \in [op : {"settle"}, run : Runs, status : Terminal]
    OBVIOUS
  <2> QED BY <1>1, <1>2, <2>1 DEF Finish
<1>3. ASSUME NEW p \in Replicas, NEW r \in Runs, NEW outcome \in Terminal, Conclude(p, r, outcome)
      PROVE  busy[q].op = "start"
  BY <1>2, <1>3 DEF Conclude, Terminal
<1>4. ASSUME NEW p \in Replicas, NEW r \in Runs, TaskStep(p, r) PROVE busy[q].op = "start"
  <2>1. CASE TaskBegin(p, r)
    BY <1>2, <2>1 DEF TaskBegin, Terminal
  <2>2. CASE PostFails(p, r) \/ ReadResult(p, r) \/ PollEnds(p, r) \/ RecoveryEnds(p, r)
    BY <1>2, <1>3, <2>2 DEF PostFails, ReadResult, PollEnds, RecoveryEnds, Terminal
  <2>3. CASE PostAccepted(p, r) \/ TaskEnds(p, r)
    BY <2>3 DEF PostAccepted, TaskEnds
  <2> QED BY <1>4, <2>1, <2>2, <2>3 DEF TaskStep
<1>5. ASSUME NEW p \in Replicas, ReplicaStep(p)
      PROVE  busy[q].op = "start" \/ (HasRoom /\ UNCHANGED rec)
  <2>1. ASSUME NEW r \in Runs, StartClaim(p, r)
        PROVE  HasRoom /\ UNCHANGED rec
    BY <2>1 DEF StartClaim
  <2>2. ASSUME NEW r \in Runs, CancelReturn(p, r)
        PROVE  busy[q].op = "start"
    BY <1>2, <2>2 DEF CancelReturn, Terminal
  <2>3. ASSUME NEW r \in Runs,
               Heartbeat(p, r) \/ CancelRequest(p, r) \/ Recover(p, r) \/ PublishLate(p, r)
        PROVE  busy[q].op = "start"
    BY <2>3 DEF Heartbeat, CancelRequest, Recover, PublishLate
  <2>4. ASSUME NEW r \in Runs, StartSave(p, r) PROVE busy[q].op = "start"
    BY <1>1, <2>4 DEF StartSave
  <2>5. CASE Settle(p) \/ Crash(p)
    <3>1. busy' = [busy EXCEPT ![p] = Free]
      BY <2>5 DEF Settle, Crash
    <3> QED BY <1>1, <3>1
  <2>6. CASE ClearBegin(p) \/ ClearStop(p) \/ ClearPurge(p) \/ Reconcile(p)
    <3>1. UNCHANGED busy
      BY <2>6 DEF ClearBegin, ClearStop, ClearPurge, Reconcile
    <3> QED BY <3>1
  <2> QED BY <1>4, <1>5, <2>1, <2>2, <2>3, <2>4, <2>5, <2>6 DEF ReplicaStep
<1>6. CASE \E r \in Runs : PostArrives(r) \/ PostLost(r) \/ LeaseExpires(r)
  BY <1>6 DEF PostArrives, PostLost, LeaseExpires
<1>7. CASE Service \/ UNCHANGED vars
  BY <1>7 DEF Service, vars, runnerVars
<1> QED BY <1>5, <1>6, <1>7 DEF Next

LEMMA CapacityInvKept ==
    OneReplica /\ RunsInv /\ CapacityInv /\ [Next]_vars => CapacityInv'
<1> SUFFICES ASSUME OneReplica, RunnerInv, CapacityInv, [Next]_vars
             PROVE  CapacityInv'
  BY DEF RunsInv
<1>1. CASE \A p \in Replicas, r \in Runs : ~StartSave(p, r)
  <2>1. /\ IsFiniteSet(ActiveRuns')
        /\ Cardinality(ActiveRuns') <= Cardinality(ActiveRuns)
        /\ Cardinality(ActiveRuns') \in Nat /\ Cardinality(ActiveRuns) \in Nat
    BY <1>1, ActiveShrinks, FS_Subset, FS_CardinalityType DEF CapacityInv
  <2>2. ASSUME NEW q \in Replicas, busy'[q].op = "start" PROVE HasRoom'
    <3>1. HasRoom
      BY <2>2, StartHasRoom DEF CapacityInv
    <3> QED BY <2>1, <3>1, RunsAssumption DEF HasRoom
  <2>3. CapacityBound'
    BY <2>1, RunsAssumption DEF CapacityInv, CapacityBound
  <2> QED BY <2>1, <2>2, <2>3 DEF CapacityInv
<1>2. ASSUME NEW p \in Replicas, NEW r \in Runs, StartSave(p, r) PROVE CapacityInv'
  <2>1. /\ busy[p].op = "start" /\ busy[p].run = r
        /\ busy' = [busy EXCEPT ![p] = Free]
    BY <1>2 DEF StartSave
  <2>2. rec[r] = "none"
    BY <2>1 DEF RunnerInv, Started
  <2>3. ActiveRuns' \subseteq ActiveRuns \cup {r}
    BY <1>2, <2>2 DEF StartSave, Save, Saved, ActiveRuns, RunnerInv, RunnerTypeOK
  <2>4. HasRoom
    BY <2>1 DEF CapacityInv
  <2>5. /\ IsFiniteSet(ActiveRuns \cup {r})
        /\ Cardinality(ActiveRuns \cup {r}) <= Cardinality(ActiveRuns) + 1
        /\ Cardinality(ActiveRuns) \in Nat /\ Cardinality(ActiveRuns \cup {r}) \in Nat
    <3>1. IsFiniteSet(ActiveRuns)
      BY DEF CapacityInv
    <3>2. /\ IsFiniteSet(ActiveRuns \cup {r})
          /\ Cardinality(ActiveRuns \cup {r}) =
                IF r \in ActiveRuns THEN Cardinality(ActiveRuns) ELSE Cardinality(ActiveRuns) + 1
      BY <3>1, FS_AddElement
    <3> QED BY <3>1, <3>2, FS_CardinalityType
  <2>6. /\ IsFiniteSet(ActiveRuns')
        /\ Cardinality(ActiveRuns') <= Cardinality(ActiveRuns \cup {r})
        /\ Cardinality(ActiveRuns') \in Nat
    BY <2>3, <2>5, FS_Subset, FS_CardinalityType
  <2>7. CapacityBound'
    BY <2>4, <2>5, <2>6, RunsAssumption DEF CapacityBound, HasRoom
  <2>8. ASSUME NEW q \in Replicas PROVE busy'[q].op # "start"
    <3>1. q = p
      BY DEF OneReplica
    <3> QED BY <2>1, <3>1 DEF Free, RunnerInv, RunnerTypeOK
  <2> QED BY <2>6, <2>7, <2>8 DEF CapacityInv
<1> QED BY <1>1, <1>2

(* No crash and no clear_all takes its task away from an active run. *)
Undisturbed == "clear" \notin Activities /\ MaxCrashes = 0

(* A run that is executed is active or was cleared under its task; one that *)
(* a cancellation waits for, or a scan still lists, is where they left it;  *)
(* and a record is settled as it was saved.                                 *)
LifeInv ==
    /\ \A p \in Replicas, r \in Runs :
          /\ task[p][r] \in Executing => rec[r] \in Active \cup {"purged"}
          /\ task[p][r] = "recovering" => "scan" \in Activities /\ ~Undisturbed
          /\ r \in cancels[p] => rec[r] \in {"cancelling", "cancelled", "purged"}
          /\ r \in listed[p] => rec[r] \in Active /\ "scan" \in Activities
    /\ \A p \in Replicas :
          busy[p].op = "settle" => rec[busy[p].run] \in {busy[p].status, "purged"}
    /\ \A r \in Runs : rec[r] = "cancelling" => "cancel" \in Activities
    /\ SummaryAgrees

(* Recovery overrules a cancellation, which the lifecycle forbids: no       *)
(* cancellations, no recovery, or nothing to recover from.                  *)
NoOverruling == "cancel" \notin Activities \/ "scan" \notin Activities \/ Undisturbed

(* Undisturbed, somebody works on each active run. *)
Working == {"created", "posting", "polling"}
Attended ==
    /\ \A p \in Replicas : clear[p] = NoClear
    /\ \A r \in Runs : rec[r] \in Active => \E p \in Replicas : task[p][r] \in Working

(* A step that only ends tasks, cancellations, settlements and scans. *)
LEMMA LifeAside ==
    ASSUME LifeInv, rec' = rec, summary' = summary,
           \A q \in Replicas, s \in Runs :
              /\ task'[q][s] \in Executing => task[q][s] \in Executing
              /\ task'[q][s] = "recovering" => task[q][s] = "recovering"
              /\ s \in cancels'[q] => s \in cancels[q]
              /\ s \in listed'[q] => s \in listed[q],
           \A q \in Replicas : busy'[q].op = "settle" => busy'[q] = busy[q]
    PROVE  LifeInv' /\ [Lifecycle!Next]_rec
BY DEF LifeInv, SummaryAgrees

(* A record is saved with the terminal status its lifecycle allows. *)
LEMMA FinishLife ==
    ASSUME OneReplica, RunnerInv, LifeInv, NEW p \in Replicas, NEW r \in Runs,
           NEW status \in Terminal, AtAwait(p), Finish(p, r, status),
           \/ rec[r] \in {status, "purged"}
           \/ rec[r] = "cancelling" /\ status = "cancelled"
           \/ rec[r] \in {"queued", "running"} /\ status # "cancelled",
           task'[p][r] \notin Executing,
           \A s \in Runs : s # r => task'[p][s] = task[p][s],
           \A s \in Runs : s \in cancels'[p] => s \in cancels[p],
           UNCHANGED <<summary, listed>>
    PROVE  LifeInv' /\ [Lifecycle!Next]_rec
<1>1. /\ busy[p] = Free /\ listed[p] = {} /\ listed' = listed /\ summary' = summary
      /\ busy' = [busy EXCEPT ![p] = [op |-> "settle", run |-> r, status |-> status]]
      /\ rec' = Saved(r, status)
  BY DEF AtAwait, Finish, Save
<1>2. \A s \in Runs : rec'[s] = IF s = r /\ rec[r] # "purged" THEN status ELSE rec[s]
  BY <1>1 DEF Saved, RunnerInv, RunnerTypeOK
<1>3. busy'[p] = [op |-> "settle", run |-> r, status |-> status]
  BY <1>1 DEF RunnerInv, RunnerTypeOK
<1>4. \A q \in Replicas : q = p
  BY DEF OneReplica
<1>5. [Lifecycle!Next]_rec
  <2>1. CASE rec[r] \in {status, "purged"}
    <3>1. rec' = rec
      BY <1>1, <2>1 DEF Saved, RunnerInv, RunnerTypeOK
    <3> QED BY <3>1
  <2>2. CASE rec[r] = "cancelling" /\ status = "cancelled"
    BY <1>1, <2>2 DEF Saved, Lifecycle!Next, Lifecycle!End, Lifecycle!Becomes
  <2>3. CASE rec[r] \in {"queued", "running"} /\ status # "cancelled"
    BY <1>1, <2>3 DEF Saved, Terminal, Lifecycle!Next, Lifecycle!End, Lifecycle!Becomes
  <2> QED BY <2>1, <2>2, <2>3
<1>6. ASSUME NEW s \in Runs
      PROVE  /\ task'[p][s] \in Executing => rec'[s] \in Active \cup {"purged"}
             /\ task'[p][s] = "recovering" => "scan" \in Activities /\ ~Undisturbed
             /\ s \in cancels'[p] => rec'[s] \in {"cancelling", "cancelled", "purged"}
             /\ rec'[s] = "cancelling" => "cancel" \in Activities
  BY <1>2 DEF LifeInv, Executing, Terminal
<1>7. SummaryAgrees'
  <2> SUFFICES ASSUME NEW s \in Runs, summary[s] # "none"
               PROVE  rec'[s] \in {summary[s], "purged"}
    BY <1>1 DEF SummaryAgrees
  <2>1. rec[s] \in {summary[s], "purged"} /\ summary[s] \in Terminal
    BY DEF LifeInv, SummaryAgrees, RunnerInv, RunnerTypeOK
  <2> QED BY <1>2, <2>1 DEF Terminal
<1>8. rec'[r] \in {status, "purged"}
  BY <1>2
<1> QED BY <1>1, <1>3, <1>4, <1>5, <1>6, <1>7, <1>8 DEF LifeInv

(* The end of a task that read the record again. *)
LEMMA ConcludeLife ==
    ASSUME OneReplica, RunnerInv, LifeInv, NEW p \in Replicas, NEW r \in Runs,
           NEW outcome \in {"succeeded", "failed"}, AtAwait(p),
           task[p][r] \in Executing, Conclude(p, r, outcome), SetTask(p, r, "ending"),
           UNCHANGED <<summary, cancels, listed>>
    PROVE  LifeInv' /\ [Lifecycle!Next]_rec
<1>1. /\ task'[p][r] = "ending"
      /\ \A q \in Replicas, s \in Runs : q # p \/ s # r => task'[q][s] = task[q][s]
  BY DEF SetTask, RunnerInv, RunnerTypeOK
<1>2. "ending" \notin Executing
  BY DEF Executing
<1>3. cancels' = cancels /\ listed' = listed /\ summary' = summary
  OBVIOUS
<1>4. CASE rec[r] \in Gone /\ UNCHANGED <<rec, busy>>
  BY <1>1, <1>2, <1>3, <1>4, LifeAside
<1>5. CASE rec[r] = "cancelling" /\ Finish(p, r, "cancelled")
  <2>1. "cancelled" \in Terminal
    BY DEF Terminal
  <2> QED BY <1>1, <1>2, <1>3, <1>5, <2>1, FinishLife
<1>6. CASE rec[r] \notin Gone \cup {"cancelling"} /\ Finish(p, r, outcome)
  <2>1. rec[r] \in {"queued", "running"}
    BY <1>6 DEF LifeInv, Active, Gone
  <2>2. outcome \in Terminal /\ outcome # "cancelled"
    BY DEF Terminal
  <2> QED BY <1>1, <1>2, <1>3, <1>6, <2>1, <2>2, FinishLife
<1> QED BY <1>4, <1>5, <1>6 DEF Conclude

LEMMA TaskBeginLife ==
    ASSUME OneReplica, RunnerInv, LifeInv, NEW p \in Replicas, NEW r \in Runs,
           TaskBegin(p, r)
    PROVE  LifeInv' /\ [Lifecycle!Next]_rec
<1>1. /\ AtAwait(p) /\ task[p][r] = "created" /\ busy[p] = Free /\ listed[p] = {}
      /\ cancels' = cancels /\ listed' = listed /\ summary' = summary
      /\ task[p][r] \in Executing
  BY DEF TaskBegin, AtAwait, Executing
<1>2. "ending" \notin Executing /\ "cancelled" \in Terminal
  BY DEF Executing, Terminal
<1>3. CASE SetTask(p, r, "ending")
  <2>1. /\ task'[p][r] = "ending"
        /\ \A q \in Replicas, s \in Runs : q # p \/ s # r => task'[q][s] = task[q][s]
    BY <1>3 DEF SetTask, RunnerInv, RunnerTypeOK
  <2>2. CASE UNCHANGED <<rec, busy>>
    BY <1>1, <1>2, <2>1, <2>2, LifeAside
  <2>3. CASE rec[r] = "cancelling" /\ Finish(p, r, "cancelled")
    BY <1>1, <1>2, <2>1, <2>3, FinishLife
  <2>4. CASE SetTask(p, r, "posting")
    BY <2>1, <2>4 DEF SetTask, RunnerInv, RunnerTypeOK
  <2> QED BY <2>2, <2>3, <2>4 DEF TaskBegin
<1>4. CASE /\ rec[r] \notin Gone \cup {"cancelling"} /\ SetTask(p, r, "posting")
           /\ IF rec[r] \in Terminal THEN UNCHANGED rec ELSE Save(r, "running")
           /\ UNCHANGED busy
  <2>1. rec[r] \in {"queued", "running"}
    BY <1>1, <1>4 DEF LifeInv, Active, Gone
  <2>2. rec' = [rec EXCEPT ![r] = "running"]
    BY <1>4, <2>1 DEF Save, Saved, Terminal
  <2>3. \A s \in Runs : rec'[s] = IF s = r THEN "running" ELSE rec[s]
    BY <2>2 DEF RunnerInv, RunnerTypeOK
  <2>4. [Lifecycle!Next]_rec
    <3>1. CASE rec[r] = "queued"
      BY <2>2, <3>1 DEF Lifecycle!Next, Lifecycle!Begin, Lifecycle!Becomes
    <3>2. CASE rec[r] = "running"
      <4>1. rec' = rec
        BY <2>2, <3>2 DEF RunnerInv, RunnerTypeOK
      <4> QED BY <4>1
    <3> QED BY <2>1, <3>1, <3>2
  <2>5. \A q \in Replicas, s \in Runs :
          task'[q][s] = IF q = p /\ s = r THEN "posting" ELSE task[q][s]
    BY <1>4 DEF SetTask, RunnerInv, RunnerTypeOK
  <2>6. \A q \in Replicas : q = p
    BY DEF OneReplica
  <2>7. SummaryAgrees'
    BY <1>1, <2>1, <2>3 DEF LifeInv, SummaryAgrees, RunnerInv, RunnerTypeOK, Terminal
  <2>8. ASSUME NEW s \in Runs
        PROVE  /\ task'[p][s] \in Executing => rec'[s] \in Active \cup {"purged"}
               /\ task'[p][s] = "recovering" => "scan" \in Activities /\ ~Undisturbed
               /\ s \in cancels'[p] => rec'[s] \in {"cancelling", "cancelled", "purged"}
               /\ rec'[s] = "cancelling" => "cancel" \in Activities
    BY <1>1, <2>1, <2>3, <2>5 DEF LifeInv, Active
  <2> QED BY <1>1, <1>4, <2>4, <2>6, <2>7, <2>8 DEF LifeInv, Free
<1> QED BY <1>3, <1>4 DEF TaskBegin

(* The submission is refused, or the run is accepted. *)
LEMMA StartSaveLife ==
    ASSUME OneReplica, RunnerInv, LifeInv, NEW p \in Replicas, NEW r \in Runs,
           StartSave(p, r)
    PROVE  LifeInv' /\ [Lifecycle!Next]_rec
<1>1. /\ busy[p].op = "start" /\ busy[p].run = r
      /\ busy' = [busy EXCEPT ![p] = Free] /\ busy'[p].op = "free"
      /\ cancels' = cancels /\ listed' = listed /\ summary' = summary
  BY DEF StartSave, RunnerInv, RunnerTypeOK, Free
<1>2. rec[r] = "none" /\ listed[p] = {} /\ r \notin cancels[p]
  BY <1>1, BusyTypes DEF RunnerInv, Started, Unborn, OneStretch
<1>3. \A q \in Replicas : q = p
  BY DEF OneReplica
<1>4. CASE UNCHANGED <<rec, task>>
  BY <1>1, <1>3, <1>4, LifeAside
<1>5. CASE Save(r, "queued") /\ SetTask(p, r, "created")
  <2>1. rec' = [rec EXCEPT ![r] = "queued"]
    BY <1>2, <1>5 DEF Save, Saved
  <2>2. \A s \in Runs : rec'[s] = IF s = r THEN "queued" ELSE rec[s]
    BY <2>1 DEF RunnerInv, RunnerTypeOK
  <2>3. [Lifecycle!Next]_rec
    BY <1>2, <2>1 DEF Lifecycle!Next, Lifecycle!Accept, Lifecycle!Becomes
  <2>4. \A q \in Replicas, s \in Runs :
          task'[q][s] = IF q = p /\ s = r THEN "created" ELSE task[q][s]
    BY <1>5 DEF SetTask, RunnerInv, RunnerTypeOK
  <2>5. SummaryAgrees'
    BY <1>1, <1>2, <2>2 DEF LifeInv, SummaryAgrees, RunnerInv, RunnerTypeOK, Terminal
  <2>6. ASSUME NEW s \in Runs
        PROVE  /\ task'[p][s] \in Executing => rec'[s] \in Active \cup {"purged"}
               /\ task'[p][s] = "recovering" => "scan" \in Activities /\ ~Undisturbed
               /\ s \in cancels'[p] => rec'[s] \in {"cancelling", "cancelled", "purged"}
               /\ rec'[s] = "cancelling" => "cancel" \in Activities
    BY <1>1, <1>2, <2>2, <2>4 DEF LifeInv, Active
  <2> QED BY <1>1, <1>2, <1>3, <2>3, <2>5, <2>6 DEF LifeInv
<1> QED BY <1>4, <1>5 DEF StartSave

(* Recovery fails the run; no cancellation is under way where it does. *)
LEMMA RecoveryEndsLife ==
    ASSUME OneReplica, NoOverruling, RunnerInv, LifeInv, NEW p \in Replicas, NEW r \in Runs,
           RecoveryEnds(p, r)
    PROVE  LifeInv' /\ [Lifecycle!Next]_rec
<1>1. /\ AtAwait(p) /\ task[p][r] = "recovering" /\ Finish(p, r, "failed")
      /\ SetTask(p, r, "ending")
      /\ cancels' = cancels /\ listed' = listed /\ summary' = summary
  BY DEF RecoveryEnds
<1>2. rec[r] \in {"queued", "running", "purged"}
  BY <1>1 DEF LifeInv, NoOverruling, Executing, Active
<1>3. /\ task'[p][r] = "ending" /\ "ending" \notin Executing
      /\ \A s \in Runs : s # r => task'[p][s] = task[p][s]
  BY <1>1 DEF SetTask, RunnerInv, RunnerTypeOK, Executing
<1>4. "failed" \in Terminal
  BY DEF Terminal
<1> QED BY <1>1, <1>2, <1>3, <1>4, FinishLife

LEMMA CancelRequestLife ==
    ASSUME OneReplica, RunnerInv, LifeInv, NEW p \in Replicas, NEW r \in Runs,
           CancelRequest(p, r)
    PROVE  LifeInv' /\ [Lifecycle!Next]_rec
<1>1. /\ busy[p] = Free /\ listed[p] = {} /\ "cancel" \in Activities
      /\ rec[r] \in Active
      /\ cancels' = [cancels EXCEPT ![p] = cancels[p] \cup {r}]
      /\ rec' = [rec EXCEPT ![r] = "cancelling"]
      /\ busy' = busy /\ listed' = listed /\ summary' = summary /\ task' = task
  BY DEF CancelRequest, AtAwait, Save, Saved, Active
<1>2. \A s \in Runs : rec'[s] = IF s = r THEN "cancelling" ELSE rec[s]
  BY <1>1 DEF RunnerInv, RunnerTypeOK
<1>3. cancels'[p] = cancels[p] \cup {r}
  BY <1>1 DEF RunnerInv, RunnerTypeOK
<1>4. \A q \in Replicas : q = p
  BY DEF OneReplica
<1>5. [Lifecycle!Next]_rec
  <2>1. CASE rec[r] = "cancelling"
    <3>1. rec' = rec
      BY <1>1, <2>1 DEF RunnerInv, RunnerTypeOK
    <3> QED BY <3>1
  <2>2. CASE rec[r] \in {"queued", "running"}
    BY <1>1, <2>2 DEF Lifecycle!Next, Lifecycle!RequestCancel, Lifecycle!Becomes
  <2> QED BY <1>1, <2>1, <2>2 DEF Active
<1>6. SummaryAgrees'
  BY <1>1, <1>2 DEF LifeInv, SummaryAgrees, RunnerInv, RunnerTypeOK, Terminal, Active
<1>7. ASSUME NEW s \in Runs
      PROVE  /\ task'[p][s] \in Executing => rec'[s] \in Active \cup {"purged"}
             /\ task'[p][s] = "recovering" => "scan" \in Activities /\ ~Undisturbed
             /\ s \in cancels'[p] => rec'[s] \in {"cancelling", "cancelled", "purged"}
  BY <1>1, <1>2, <1>3 DEF LifeInv, Active
<1> QED BY <1>1, <1>4, <1>5, <1>6, <1>7 DEF LifeInv, Free

(* A cancellation that finds no task ends the run. *)
LEMMA CancelReturnLife ==
    ASSUME OneReplica, RunnerInv, LifeInv, NEW p \in Replicas, NEW r \in Runs,
           CancelReturn(p, r)
    PROVE  LifeInv' /\ [Lifecycle!Next]_rec
<1>1. /\ AtAwait(p) /\ r \in cancels[p]
      /\ cancels' = [cancels EXCEPT ![p] = cancels[p] \ {r}]
      /\ task' = task /\ listed' = listed /\ summary' = summary
  BY DEF CancelReturn
<1>2. \A q \in Replicas, s \in Runs : s \in cancels'[q] => s \in cancels[q]
  BY <1>1 DEF RunnerInv, RunnerTypeOK
<1>3. CASE UNCHANGED <<rec, busy>>
  BY <1>1, <1>2, <1>3, LifeAside
<1>4. CASE task[p][r] = "none" /\ Finish(p, r, "cancelled")
  <2>1. rec[r] \in {"cancelling", "cancelled", "purged"}
    BY <1>1 DEF LifeInv
  <2>2. task'[p][r] \notin Executing /\ "cancelled" \in Terminal
    BY <1>1, <1>4 DEF Executing, Terminal
  <2> QED BY <1>1, <1>2, <1>4, <2>1, <2>2, FinishLife
<1> QED BY <1>3, <1>4 DEF CancelReturn

(* What is settled shows in the summary as it is on record. *)
LEMMA SettleLife ==
    ASSUME RunnerInv, LifeInv, NEW p \in Replicas, Settle(p)
    PROVE  LifeInv' /\ [Lifecycle!Next]_rec
<1> DEFINE r == busy[p].run
<1>1. /\ busy[p].op = "settle"
      /\ busy' = [busy EXCEPT ![p] = Free]
      /\ cancels' = cancels /\ listed' = listed /\ task' = task
  BY DEF Settle
<1>2. r \in Runs /\ rec[r] \in {busy[p].status, "purged"}
  BY <1>1, BusyTypes DEF LifeInv
<1>3. rec' = rec
  BY <1>2 DEF Settle, Save, Saved, RunnerInv, RunnerTypeOK
<1>4. SummaryAgrees'
  <2> SUFFICES ASSUME NEW s \in Runs, summary'[s] # "none"
               PROVE  rec[s] \in {summary'[s], "purged"}
    BY <1>3 DEF SummaryAgrees
  <2>1. CASE summary' = [summary EXCEPT ![r] = busy[p].status]
    BY <1>2, <2>1 DEF LifeInv, SummaryAgrees, RunnerInv, RunnerTypeOK
  <2>2. CASE summary' = summary
    BY <2>2 DEF LifeInv, SummaryAgrees
  <2> QED BY <2>1, <2>2 DEF Settle
<1>5. \A q \in Replicas : busy'[q].op = "settle" => busy'[q] = busy[q]
  BY <1>1 DEF Free, RunnerInv, RunnerTypeOK
<1> QED BY <1>1, <1>3, <1>4, <1>5 DEF LifeInv

LEMMA ClearPurgeLife ==
    ASSUME OneReplica, RunnerInv, LifeInv, NEW p \in Replicas, ClearPurge(p)
    PROVE  LifeInv' /\ [Lifecycle!Next]_rec
<1>1. /\ busy[p] = Free /\ listed[p] = {}
      /\ rec' = [s \in Runs |-> IF rec[s] = "none" THEN "none" ELSE "purged"]
      /\ cancels' = cancels /\ listed' = listed /\ summary' = summary
      /\ task' = task /\ busy' = busy
  BY DEF ClearPurge, AtAwait
<1>2. \A q \in Replicas : q = p
  BY DEF OneReplica
<1>3. [Lifecycle!Next]_rec
  BY <1>1 DEF Lifecycle!Next, Lifecycle!Purge
<1>4. SummaryAgrees'
  BY <1>1 DEF LifeInv, SummaryAgrees, RunnerInv, RunnerTypeOK, Terminal
<1>5. ASSUME NEW s \in Runs
      PROVE  /\ task'[p][s] \in Executing => rec'[s] \in Active \cup {"purged"}
             /\ task'[p][s] = "recovering" => "scan" \in Activities /\ ~Undisturbed
             /\ s \in cancels'[p] => rec'[s] \in {"cancelling", "cancelled", "purged"}
             /\ rec'[s] # "cancelling"
  BY <1>1 DEF LifeInv, Active
<1> QED BY <1>1, <1>2, <1>3, <1>4, <1>5 DEF LifeInv, Free

(* The scan and what it does later. *)
LEMMA ScanLife ==
    ASSUME RunnerInv, LifeInv, Undisturbed => Attended, NEW p \in Replicas, NEW r \in Runs,
           Reconcile(p) \/ Recover(p, r) \/ PublishLate(p, r)
    PROVE  LifeInv' /\ [Lifecycle!Next]_rec
<1>1. /\ rec' = rec /\ cancels' = cancels /\ busy' = busy
  BY DEF Reconcile, Recover, PublishLate
<1>2. CASE Reconcile(p)
  <2>1. /\ "scan" \in Activities /\ listed' = [listed EXCEPT ![p] = ActiveRuns]
        /\ summary' = summary /\ task' = task
    BY <1>2 DEF Reconcile
  <2>2. \A q \in Replicas, s \in Runs :
          s \in listed'[q] => s \in listed[q] \/ rec[s] \in Active
    BY <2>1 DEF ActiveRuns, RunnerInv, RunnerTypeOK
  <2> QED BY <1>1, <2>1, <2>2 DEF LifeInv, SummaryAgrees
<1>3. CASE Recover(p, r)
  <2>1. /\ r \in listed[p] /\ listed' = [listed EXCEPT ![p] = listed[p] \ {r}]
        /\ summary' = summary
        /\ (SetTask(p, r, "recovering") /\ lease[r] = Nobody) \/ task' = task
    BY <1>3 DEF Recover
  <2>2. \A q \in Replicas, s \in Runs : s \in listed'[q] => s \in listed[q]
    BY <2>1 DEF RunnerInv, RunnerTypeOK
  <2>3. \A q \in Replicas, s \in Runs :
          task'[q][s] = task[q][s] \/ (q = p /\ s = r)
    BY <2>1 DEF SetTask, RunnerInv, RunnerTypeOK
  <2>4. rec[r] \in Active /\ "scan" \in Activities
    BY <2>1 DEF LifeInv
  <2>5. Undisturbed => lease[r] # Nobody
    BY <2>4, RunsAssumption DEF Attended, Working, Executing, RunnerInv, ExecutionHoldsLease
  <2> QED BY <1>1, <2>1, <2>2, <2>3, <2>4, <2>5 DEF LifeInv, SummaryAgrees
<1>4. CASE PublishLate(p, r)
  <2>1. /\ summary' = [summary EXCEPT ![r] = rec[r]]
        /\ listed' = listed /\ task' = task
    BY <1>4 DEF PublishLate
  <2>2. SummaryAgrees'
    BY <1>1, <2>1 DEF LifeInv, SummaryAgrees, RunnerInv, RunnerTypeOK
  <2> QED BY <1>1, <2>1, <2>2 DEF LifeInv
<1> QED BY <1>2, <1>3, <1>4

(* Every step of one replica is a step of the lifecycle or none. *)
LEMMA LifeKept ==
    OneReplica /\ NoOverruling /\ RunsInv /\ LifeInv /\ (Undisturbed => Attended) /\ [Next]_vars =>
        LifeInv' /\ [Lifecycle!Next]_rec
<1> SUFFICES ASSUME OneReplica, NoOverruling, RunnerInv, LifeInv, Undisturbed => Attended,
                    [Next]_vars
             PROVE  LifeInv' /\ [Lifecycle!Next]_rec
  BY DEF RunsInv
<1>0. "ending" \notin Executing /\ "none" \notin Executing
  BY DEF Executing
<1>1. ASSUME NEW p \in Replicas, NEW r \in Runs, TaskStep(p, r)
      PROVE  LifeInv' /\ [Lifecycle!Next]_rec
  <2>1. CASE TaskBegin(p, r)
    BY <2>1, TaskBeginLife
  <2>2. CASE PostFails(p, r) \/ ReadResult(p, r) \/ PollEnds(p, r)
    <3>1. /\ AtAwait(p) /\ task[p][r] \in Executing
          /\ Conclude(p, r, "failed") \/ Conclude(p, r, "succeeded")
          /\ SetTask(p, r, "ending")
          /\ UNCHANGED <<summary, cancels, listed>>
      BY <2>2 DEF PostFails, ReadResult, PollEnds, Executing
    <3> QED BY <3>1, ConcludeLife
  <2>3. CASE RecoveryEnds(p, r)
    BY <2>3, RecoveryEndsLife
  <2>4. CASE PostAccepted(p, r)
    <3>1. /\ task[p][r] = "posting" /\ task' = [task EXCEPT ![p][r] = "polling"]
          /\ UNCHANGED <<rec, summary, cancels, busy, listed>>
      BY <2>4 DEF PostAccepted, SetTask
    <3>2. \A q \in Replicas, s \in Runs :
            /\ task'[q][s] \in Executing => task[q][s] \in Executing
            /\ task'[q][s] = "recovering" => task[q][s] = "recovering"
      BY <3>1 DEF Executing, RunnerInv, RunnerTypeOK
    <3> QED BY <3>1, <3>2, LifeAside
  <2>5. CASE TaskEnds(p, r)
    <3>1. /\ task' = [task EXCEPT ![p][r] = "none"]
          /\ UNCHANGED <<rec, summary, cancels, busy, listed>>
      BY <2>5 DEF TaskEnds, SetTask
    <3>2. \A q \in Replicas, s \in Runs : task'[q][s] \in {"none", task[q][s]}
      BY <3>1 DEF RunnerInv, RunnerTypeOK
    <3> QED BY <1>0, <3>1, <3>2, LifeAside
  <2> QED BY <1>1, <2>1, <2>2, <2>3, <2>4, <2>5 DEF TaskStep
<1>2. ASSUME NEW p \in Replicas, NEW r \in Runs, StartClaim(p, r)
      PROVE  LifeInv' /\ [Lifecycle!Next]_rec
  <2>1. /\ busy' = [busy EXCEPT ![p] = [op |-> "start", run |-> r, status |-> "none"]]
        /\ UNCHANGED <<rec, summary, task, cancels, listed>>
    BY <1>2 DEF StartClaim
  <2>2. \A q \in Replicas : busy'[q].op = "settle" => busy'[q] = busy[q]
    BY <2>1 DEF RunnerInv, RunnerTypeOK
  <2> QED BY <2>1, <2>2, LifeAside
<1>3. ASSUME NEW p \in Replicas, NEW r \in Runs, Heartbeat(p, r)
      PROVE  LifeInv' /\ [Lifecycle!Next]_rec
  <2>1. /\ task' = [task EXCEPT ![p][r] = "ending"]
        /\ UNCHANGED <<rec, summary, cancels, busy, listed>>
    BY <1>3 DEF Heartbeat, SetTask
  <2>2. \A q \in Replicas, s \in Runs : task'[q][s] \in {"ending", task[q][s]}
    BY <2>1 DEF RunnerInv, RunnerTypeOK
  <2> QED BY <1>0, <2>1, <2>2, LifeAside
<1>4. ASSUME NEW p \in Replicas, ClearStop(p)
      PROVE  LifeInv' /\ [Lifecycle!Next]_rec
  <2>1. /\ task' = [task EXCEPT ![p] = [r \in Runs |->
               IF r \in clear[p].ids /\ task[p][r] # "none" THEN "ending" ELSE task[p][r]]]
        /\ UNCHANGED <<rec, summary, cancels, busy, listed>>
    BY <1>4 DEF ClearStop
  <2>2. \A q \in Replicas, s \in Runs : task'[q][s] \in {"ending", task[q][s]}
    BY <2>1 DEF RunnerInv, RunnerTypeOK
  <2> QED BY <1>0, <2>1, <2>2, LifeAside
<1>5. ASSUME NEW p \in Replicas, Crash(p)
      PROVE  LifeInv' /\ [Lifecycle!Next]_rec
  <2>1. /\ task' = [task EXCEPT ![p] = [r \in Runs |-> "none"]]
        /\ cancels' = [cancels EXCEPT ![p] = {}]
        /\ busy' = [busy EXCEPT ![p] = Free]
        /\ listed' = [listed EXCEPT ![p] = {}]
        /\ UNCHANGED <<rec, summary>>
    BY <1>5 DEF Crash
  <2>2. \A q \in Replicas, s \in Runs : task'[q][s] \in {"none", task[q][s]}
    BY <2>1 DEF RunnerInv, RunnerTypeOK
  <2>3. \A q \in Replicas, s \in Runs :
          (s \in cancels'[q] => s \in cancels[q]) /\ (s \in listed'[q] => s \in listed[q])
    BY <2>1 DEF RunnerInv, RunnerTypeOK
  <2>4. \A q \in Replicas : busy'[q].op = "settle" => busy'[q] = busy[q]
    BY <2>1 DEF Free, RunnerInv, RunnerTypeOK
  <2> QED BY <1>0, <2>1, <2>2, <2>3, <2>4, LifeAside
<1>6. ASSUME UNCHANGED <<rec, summary, task, cancels, busy, listed>>
      PROVE  LifeInv' /\ [Lifecycle!Next]_rec
  BY <1>6, LifeAside
<1>7. ASSUME NEW p \in Replicas, ReplicaStep(p)
      PROVE  LifeInv' /\ [Lifecycle!Next]_rec
  <2>1. ASSUME NEW r \in Runs,
               \/ StartSave(p, r) \/ CancelRequest(p, r) \/ CancelReturn(p, r)
               \/ Recover(p, r) \/ PublishLate(p, r)
        PROVE  LifeInv' /\ [Lifecycle!Next]_rec
    BY <2>1, StartSaveLife, CancelRequestLife, CancelReturnLife, ScanLife
  <2>2. CASE ClearBegin(p)
    BY <1>6, <2>2 DEF ClearBegin
  <2>3. CASE Reconcile(p)
    <3>1. PICK r \in Runs : TRUE
      BY <2>3 DEF Reconcile, ActiveRuns
    <3> QED BY <2>3, ScanLife
  <2>4. CASE Settle(p) \/ ClearPurge(p)
    BY <2>4, SettleLife, ClearPurgeLife
  <2> QED BY <1>1, <1>2, <1>3, <1>4, <1>5, <1>7, <2>1, <2>2, <2>3, <2>4 DEF ReplicaStep
<1>8. CASE \E r \in Runs : PostArrives(r) \/ PostLost(r) \/ LeaseExpires(r)
  <2>1. UNCHANGED <<rec, summary, task, cancels, busy, listed>>
    BY <1>8 DEF PostArrives, PostLost, LeaseExpires
  <2> QED BY <1>6, <2>1
<1>9. CASE Service \/ UNCHANGED vars
  <2>1. UNCHANGED <<rec, summary, task, cancels, busy, listed>>
    BY <1>9 DEF Service, vars, runnerVars
  <2> QED BY <1>6, <2>1
<1> QED BY <1>7, <1>8, <1>9 DEF Next

(* A step on one run of a replica leaves nobody unattended if the run is    *)
(* worked on there, ended, or was worked on elsewhere.                      *)
LEMMA AttendedOneRun ==
    ASSUME RunnerInv, Attended, NEW p \in Replicas, NEW r \in Runs, clear' = clear,
           \A s \in Runs : s # r => rec'[s] = rec[s],
           \A q \in Replicas, s \in Runs : q # p \/ s # r => task'[q][s] = task[q][s],
           \/ rec'[r] \notin Active \/ task'[p][r] \in Working
           \/ rec[r] \in Active /\ task[p][r] \notin Working
    PROVE  Attended'
<1> SUFFICES ASSUME NEW s \in Runs, rec'[s] \in Active
             PROVE  \E q \in Replicas : task'[q][s] \in Working
  BY DEF Attended
<1>1. CASE task'[p][r] \in Working /\ s = r
  BY <1>1
<1>2. CASE s # r
  BY <1>2 DEF Attended
<1>3. CASE s = r /\ rec[r] \in Active /\ task[p][r] \notin Working
  BY <1>3 DEF Attended
<1> QED BY <1>1, <1>2, <1>3

LEMMA AttendedKept ==
    ASSUME Undisturbed, RunnerInv, LifeInv, Attended, [Next]_vars
    PROVE  Attended'
<1>0. "ending" \notin Working /\ "none" \notin Working /\ \A x \in Terminal : x \notin Active
  BY DEF Working, Terminal, Active
<1>1. ASSUME UNCHANGED <<rec, task, clear>>
      PROVE  Attended'
  BY <1>1 DEF Attended
<1>2. ASSUME NEW p \in Replicas, NEW r \in Runs, NEW status \in Terminal, Finish(p, r, status)
      PROVE  rec'[r] \notin Active /\ \A s \in Runs : s # r => rec'[s] = rec[s]
  BY <1>0, <1>2 DEF Finish, Save, Saved, Active, RunnerInv, RunnerTypeOK
<1>3. ASSUME NEW p \in Replicas, NEW r \in Runs, NEW to, SetTask(p, r, to)
      PROVE  /\ task'[p][r] = to
             /\ \A q \in Replicas, s \in Runs : q # p \/ s # r => task'[q][s] = task[q][s]
  BY <1>3 DEF SetTask, RunnerInv, RunnerTypeOK
<1>4. /\ "cancelled" \in Terminal /\ "failed" \in Terminal /\ "succeeded" \in Terminal
      /\ \A x \in Gone : x \notin Active
  BY DEF Terminal, Gone, Active
<1>5. ASSUME NEW p \in Replicas, NEW r \in Runs, TaskStep(p, r)
      PROVE  Attended'
  <2>0. clear' = clear
    BY <1>5 DEF TaskStep, TaskBegin, PostAccepted, PostFails, ReadResult, PollEnds,
                RecoveryEnds, TaskEnds
  <2>1. CASE TaskBegin(p, r)
    <3>1. CASE rec[r] \in Gone /\ SetTask(p, r, "ending") /\ rec' = rec
      BY <1>3, <1>4, <2>0, <3>1, AttendedOneRun
    <3>2. CASE Finish(p, r, "cancelled") /\ SetTask(p, r, "ending")
      BY <1>2, <1>3, <1>4, <2>0, <3>2, AttendedOneRun
    <3>3. CASE SetTask(p, r, "posting") /\ (rec' = rec \/ Save(r, "running"))
      <4>1. \A s \in Runs : s # r => rec'[s] = rec[s]
        BY <3>3 DEF Save, Saved, RunnerInv, RunnerTypeOK
      <4>2. task'[p][r] \in Working
        BY <1>3, <3>3 DEF Working
      <4> QED BY <1>3, <2>0, <3>3, <4>1, <4>2, AttendedOneRun
    <3> QED BY <2>1, <3>1, <3>2, <3>3 DEF TaskBegin
  <2>2. CASE PostFails(p, r) \/ ReadResult(p, r) \/ PollEnds(p, r) \/ RecoveryEnds(p, r)
    <3>1. SetTask(p, r, "ending")
      BY <2>2 DEF PostFails, ReadResult, PollEnds, RecoveryEnds
    <3>2. \/ rec[r] \in Gone /\ rec' = rec
          \/ \E status \in Terminal : Finish(p, r, status)
      BY <1>4, <2>2 DEF PostFails, ReadResult, PollEnds, RecoveryEnds, Conclude
    <3>3. rec'[r] \notin Active /\ \A s \in Runs : s # r => rec'[s] = rec[s]
      BY <1>2, <1>4, <3>2
    <3> QED BY <1>3, <2>0, <3>1, <3>3, AttendedOneRun
  <2>3. CASE PostAccepted(p, r)
    <3>1. SetTask(p, r, "polling") /\ rec' = rec /\ "polling" \in Working
      BY <2>3 DEF PostAccepted, Working
    <3> QED BY <1>3, <2>0, <3>1, AttendedOneRun
  <2>4. CASE TaskEnds(p, r)
    <3>1. SetTask(p, r, "none") /\ rec' = rec /\ task[p][r] = "ending"
      BY <2>4 DEF TaskEnds
    <3> QED BY <1>0, <1>3, <2>0, <3>1, AttendedOneRun
  <2> QED BY <1>5, <2>1, <2>2, <2>3, <2>4 DEF TaskStep
<1>6. ASSUME NEW p \in Replicas, NEW r \in Runs, StartSave(p, r)
      PROVE  Attended'
  <2>1. CASE UNCHANGED <<rec, task>>
    BY <1>1, <1>6, <2>1 DEF StartSave
  <2>2. CASE Save(r, "queued") /\ SetTask(p, r, "created")
    <3>1. \A s \in Runs : s # r => rec'[s] = rec[s]
      BY <2>2 DEF Save, Saved, RunnerInv, RunnerTypeOK
    <3>2. task'[p][r] \in Working /\ clear' = clear
      BY <1>3, <1>6, <2>2 DEF StartSave, Working
    <3> QED BY <1>3, <2>2, <3>1, <3>2, AttendedOneRun
  <2> QED BY <1>6, <2>1, <2>2 DEF StartSave
<1>7. ASSUME NEW p \in Replicas, NEW r \in Runs, Heartbeat(p, r)
      PROVE  Attended'
  <2>1. rec[r] \in Gone /\ SetTask(p, r, "ending") /\ rec' = rec /\ clear' = clear
    BY <1>7 DEF Heartbeat
  <2> QED BY <1>3, <1>4, <2>1, AttendedOneRun
<1>8. ASSUME NEW p \in Replicas, NEW r \in Runs, CancelRequest(p, r)
      PROVE  Attended'
  <2>1. /\ rec[r] \in Active /\ task' = task /\ clear' = clear
        /\ \A s \in Runs : s # r => rec'[s] = rec[s]
    BY <1>8 DEF CancelRequest, Save, Saved, RunnerInv, RunnerTypeOK
  <2> QED BY <2>1, AttendedOneRun
<1>9. ASSUME NEW p \in Replicas, NEW r \in Runs, CancelReturn(p, r)
      PROVE  Attended'
  <2>1. task' = task /\ clear' = clear /\ (rec' = rec \/ Finish(p, r, "cancelled"))
    BY <1>9 DEF CancelReturn
  <2> QED BY <1>1, <1>2, <1>4, <2>1, AttendedOneRun
<1>10. ASSUME NEW p \in Replicas, NEW r \in Runs, Recover(p, r)
       PROVE  Attended'
  <2>1. /\ rec' = rec /\ clear' = clear
        /\ (SetTask(p, r, "recovering") /\ lease[r] = Nobody) \/ task' = task
    BY <1>10 DEF Recover
  <2>2. lease[r] = Nobody => task[p][r] \notin Working
    BY RunsAssumption DEF Working, Executing, RunnerInv, ExecutionHoldsLease
  <2>3. rec[r] \in Active
    BY <1>10 DEF Recover, LifeInv
  <2> QED BY <1>1, <1>3, <2>1, <2>2, <2>3, AttendedOneRun
<1>11. ASSUME NEW p \in Replicas, Settle(p)
       PROVE  Attended'
  <2>1. busy[p].op = "settle" /\ task' = task /\ clear' = clear
    BY <1>11 DEF Settle
  <2>2. busy[p].run \in Runs /\ rec[busy[p].run] \in {busy[p].status, "purged"}
    BY <2>1, BusyTypes DEF LifeInv
  <2>3. rec' = rec
    BY <1>11, <2>2 DEF Settle, Save, Saved, RunnerInv, RunnerTypeOK
  <2> QED BY <1>1, <2>1, <2>3
<1>12. ASSUME NEW p \in Replicas
       PROVE  ~ClearBegin(p) /\ ~ClearStop(p) /\ ~ClearPurge(p) /\ ~Crash(p)
  <2>1. ~(crashes < MaxCrashes)
    BY DEF Undisturbed, RunnerInv, RunnerTypeOK
  <2> QED BY <2>1 DEF Undisturbed, Attended, NoClear, ClearBegin, ClearStop, ClearPurge, Crash
<1>13. ASSUME NEW p \in Replicas, ReplicaStep(p)
       PROVE  Attended'
  <2>1. CASE \E r \in Runs : StartClaim(p, r) \/ PublishLate(p, r)
    BY <1>1, <2>1 DEF StartClaim, PublishLate
  <2>2. CASE Reconcile(p)
    BY <1>1, <2>2 DEF Reconcile
  <2> QED BY <1>5, <1>6, <1>7, <1>8, <1>9, <1>10, <1>11, <1>12, <1>13, <2>1, <2>2 DEF ReplicaStep
<1>14. CASE \E r \in Runs : PostArrives(r) \/ PostLost(r) \/ LeaseExpires(r)
  BY <1>1, <1>14 DEF PostArrives, PostLost, LeaseExpires
<1>15. CASE Service \/ UNCHANGED vars
  BY <1>1, <1>15 DEF Service, vars, runnerVars
<1> QED BY <1>13, <1>14, <1>15 DEF Next

LEMMA LifeInvariant ==
    ASSUME OneReplica, NoOverruling
    PROVE  Spec => [](RunsInv /\ LifeInv /\ (Undisturbed => Attended))
<1>1. Init => LifeInv /\ Attended
  BY DEF Init, LifeInv, Executing, SummaryAgrees, Free, Attended, Active
<1>2. RunsInv /\ LifeInv /\ (Undisturbed => Attended) /\ [Next]_vars => LifeInv'
  BY LifeKept
<1>3. RunsInv /\ LifeInv /\ (Undisturbed => Attended) /\ [Next]_vars
         => (Undisturbed => Attended)'
  BY AttendedKept DEF RunsInv, Undisturbed
<1> DEFINE Watched == Undisturbed => Attended
<1>4. Init => Watched
  BY <1>1
<1>5. RunsInv /\ LifeInv /\ Watched /\ [Next]_vars => LifeInv' /\ Watched'
  BY <1>2, <1>3
<1> HIDE DEF Watched
<1>6. Spec => [](RunsInv /\ LifeInv /\ Watched)
  BY <1>1, <1>4, <1>5, RunsInvariant, PTL DEF Spec
<1> QED BY <1>6 DEF Watched

----------------------------------------------------------------------------
(* Theorems *)

(* The variables of the runner and of the service keep their types. *)
THEOREM RunsTypeCorrect == Spec => []TypeOK
<1>1. RunsInv => TypeOK
  BY DEF RunsInv, RunnerInv, ReceiptsInv, TypeOK
<1> QED BY <1>1, RunsInvariant, PTL

(* Whoever executes or recovers a run holds its lease. *)
THEOREM ExecutionHoldsLeaseHolds == Spec => []ExecutionHoldsLease
<1>1. RunsInv => ExecutionHoldsLease
  BY DEF RunsInv, RunnerInv
<1> QED BY <1>1, RunsInvariant, PTL

(* A run that is reported succeeded has a receipt that says so, if the      *)
(* service never writes a result twice because a commit went unanswered.    *)
THEOREM SuccessHasReceiptHolds ==
    ASSUME Acknowledged
    PROVE  Spec => []SuccessHasReceipt
<1>1. RunsInv => SuccessHasReceipt
  BY DEF RunsInv, RunnerInv, SuccessBacked, SuccessHasReceipt
<1> QED BY <1>1, RunsInvariant, PTL

(* One idempotency key has one run on record, and a refused submission      *)
(* holds no lease.                                                          *)
THEOREM OneRunPerKeyHolds == Spec => []OneRunPerKey
<1>1. RunsInv => OneRunPerKey
  BY DEF RunsInv, RunnerInv, KeysUnique, Unborn, OneRunPerKey
<1> QED BY <1>1, RunsInvariant, PTL

(* No late save brings back a run that clear_all purged. *)
THEOREM NoResurrectionHolds == Spec => NoResurrection
<1>1. ASSUME RunsInv, [Next]_vars
      PROVE  [\A r \in Runs : rec[r] = "purged" => rec'[r] = "purged"]_vars
  <2>1. ASSUME NEW r \in Runs, rec[r] = "purged" PROVE rec'[r] = "purged"
    BY <1>1, <2>1, GoneStays DEF RunsInv, Gone
  <2> QED BY <2>1
<1> QED BY <1>1, RunsInvariant, PTL DEF Spec, NoResurrection

(* A run that was submitted to the service is never submitted again.        *)
THEOREM NoResubmissionHolds == Spec => NoResubmission
<1>1. ASSUME RunsInv, [Next]_vars, NEW s \in Runs, post[s] # "unsent", post'[s] # post[s]
      PROVE  post'[s] # "sent"
  <2>1. ASSUME NEW p \in Replicas, ReplicaStep(p) PROVE post'[s] = post[s]
    <3>1. ASSUME NEW r \in Runs, TaskStep(p, r) PROVE post'[s] = post[s]
      <4>1. CASE TaskBegin(p, r)
        <5>1. post[r] = "unsent"
          BY <1>1, <4>1 DEF TaskBegin, RunsInv, RunnerInv, CreatedUnsent
        <5> QED BY <1>1, <4>1, <5>1 DEF TaskBegin, RunsInv, RunnerInv, RunnerTypeOK
      <4>2. CASE ~TaskBegin(p, r)
        BY <3>1, <4>2 DEF TaskStep, PostAccepted, PostFails, ReadResult, PollEnds,
                          RecoveryEnds, TaskEnds
      <4> QED BY <4>1, <4>2
    <3>2. ASSUME NEW r \in Runs,
                 \/ StartClaim(p, r) \/ StartSave(p, r) \/ Heartbeat(p, r)
                 \/ CancelRequest(p, r) \/ CancelReturn(p, r)
                 \/ Recover(p, r) \/ PublishLate(p, r)
          PROVE  post'[s] = post[s]
      BY <3>2 DEF StartClaim, StartSave, Heartbeat, CancelRequest, CancelReturn,
                  Recover, PublishLate
    <3>3. CASE Settle(p) \/ ClearBegin(p) \/ ClearStop(p) \/ ClearPurge(p)
               \/ Reconcile(p) \/ Crash(p)
      BY <3>3 DEF Settle, ClearBegin, ClearStop, ClearPurge, Reconcile, Crash
    <3> QED BY <2>1, <3>1, <3>2, <3>3 DEF ReplicaStep
  <2>2. ASSUME NEW r \in Runs, PostArrives(r) \/ PostLost(r) \/ LeaseExpires(r)
        PROVE  post'[s] # "sent"
    <3>1. post \in [Runs -> {"unsent", "sent", "arrived", "lost"}]
      BY <1>1 DEF RunsInv, RunnerInv, RunnerTypeOK
    <3>2. \/ post' = [post EXCEPT ![r] = "arrived"]
          \/ post' = [post EXCEPT ![r] = "lost"]
          \/ post' = post
      BY <2>2 DEF PostArrives, PostLost, LeaseExpires
    <3> QED BY ONLY <1>1, <3>1, <3>2, r \in Runs, s \in Runs
  <2>3. CASE Service \/ UNCHANGED vars
    BY <1>1, <2>3 DEF Service, vars, runnerVars
  <2>4. CASE \E p \in Replicas : ReplicaStep(p)
    BY <1>1, <2>1, <2>4
  <2> QED BY <1>1, <2>2, <2>3, <2>4 DEF Next
<1>2. ASSUME RunsInv, [Next]_vars
      PROVE  [\A r \in Runs : post[r] # "unsent" /\ post'[r] # post[r] => post'[r] # "sent"]_vars
  BY <1>1, <1>2
<1> QED BY <1>2, RunsInvariant, PTL DEF Spec, NoResubmission

(* One replica never has more runs on record that are not terminal than its *)
(* limit, through any number of crashes.                                    *)
THEOREM CapacityBoundHolds ==
    ASSUME OneReplica
    PROVE  Spec => []CapacityBound
<1>1. Init => CapacityInv
  <2> SUFFICES ASSUME Init PROVE CapacityInv
    OBVIOUS
  <2>1. ActiveRuns = {} /\ Cardinality({}) = 0 /\ IsFiniteSet({})
    BY FS_EmptySet DEF Init, ActiveRuns, Active
  <2>2. \A p \in Replicas : busy[p].op # "start"
    BY DEF Init, Free
  <2> QED BY <2>1, <2>2, RunsAssumption DEF CapacityInv, CapacityBound
<1>2. RunsInv /\ CapacityInv /\ [Next]_vars => CapacityInv'
  BY CapacityInvKept
<1>3. CapacityInv => CapacityBound
  BY DEF CapacityInv
<1> QED BY <1>1, <1>2, <1>3, RunsInvariant, PTL DEF Spec

(* Every step of one replica is a step of the lifecycle of its runs or none, *)
(* crashes and clear_all included, unless a recovery meets a cancellation,   *)
(* which it takes a crash or a clear_all for.                                *)
THEOREM ImplementsLifecycleHolds ==
    ASSUME OneReplica, NoOverruling
    PROVE  Spec => ImplementsLifecycle
<1>1. Init => Lifecycle!Init
  BY DEF Init, Lifecycle!Init
<1>2. RunsInv /\ LifeInv /\ (Undisturbed => Attended) /\ [Next]_vars => [Lifecycle!Next]_rec
  BY LifeKept
<1> QED BY <1>1, <1>2, LifeInvariant, PTL DEF Spec, ImplementsLifecycle, Lifecycle!Spec

(* Under the same condition the summary in Neo4j shows the status of the     *)
(* record, whatever of its publication fails and whenever it is retried.     *)
THEOREM SummaryAgreesHolds ==
    ASSUME OneReplica, NoOverruling
    PROVE  Spec => []SummaryAgrees
<1>1. LifeInv => SummaryAgrees
  BY DEF LifeInv
<1> QED BY <1>1, LifeInvariant, PTL

(* What the runner and its network do to the service is what its own        *)
(* specification allows: all that is proved of ExecutionReceipts holds here.*)
THEOREM ImplementsReceipts == Spec => ReceiptsSpec
<1>1. Init => ReceiptsInit
  BY DEF Init
<1> QED BY <1>1, NextIsReceiptsStep, PTL DEF Spec, ReceiptsSpec

----------------------------------------------------------------------------
(* The manager as a client of its leases.                                   *)

LEMMA GivenBack ==
    ASSUME RunnerInv, NEW p \in Replicas, NEW r \in Runs, lease' = Unleased(p, r)
    PROVE  [Holders!Next]_lease
<1>1. CASE lease[r] = p
  <2>1. Holders!Release(p, r)
    BY <1>1 DEF Unleased, Holders!Release, Holders!Passes
  <2> QED BY <2>1 DEF Holders!Next
<1>2. CASE lease[r] # p
  BY <1>2 DEF Unleased
<1> QED BY <1>1, <1>2

LEMMA Taken ==
    ASSUME NEW p \in Replicas, NEW r \in Runs,
           lease[r] = Nobody, lease' = [lease EXCEPT ![r] = p]
    PROVE  Holders!Next
<1>1. Holders!Claim(p, r)
  BY DEF Holders!Claim, Holders!Passes
<1> QED BY <1>1 DEF Holders!Next

LEMMA ReplicaStepHolders ==
    ASSUME RunnerInv, NEW p \in Replicas, ReplicaStep(p)
    PROVE  [Holders!Next]_lease
<1>1. ASSUME NEW r \in Runs, StartClaim(p, r) PROVE [Holders!Next]_lease
  BY <1>1, Taken DEF StartClaim
<1>2. ASSUME NEW r \in Runs, StartSave(p, r) PROVE [Holders!Next]_lease
  BY <1>2, GivenBack DEF StartSave
<1>3. ASSUME NEW r \in Runs, TaskStep(p, r) PROVE [Holders!Next]_lease
  <2>1. CASE TaskEnds(p, r)
    <3>1. CASE lease' = Unleased(p, r)
      BY <3>1, GivenBack
    <3>2. CASE Unrenewed(p, r)
      <4>1. Holders!Abandon(p, r)
        BY <3>2 DEF Unrenewed, Holders!Abandon, Holders!Passes
      <4> QED BY <4>1 DEF Holders!Next
    <3> QED BY <2>1, <3>1, <3>2 DEF TaskEnds
  <2>2. CASE ~TaskEnds(p, r)
    BY <1>3, <2>2 DEF TaskStep, TaskBegin, PostAccepted, PostFails, ReadResult, PollEnds,
                      RecoveryEnds
  <2> QED BY <2>1, <2>2
<1>4. ASSUME NEW r \in Runs, Recover(p, r) PROVE [Holders!Next]_lease
  BY <1>4, Taken DEF Recover
<1>5. ASSUME NEW r \in Runs,
             \/ Heartbeat(p, r) \/ CancelRequest(p, r) \/ CancelReturn(p, r)
             \/ PublishLate(p, r)
      PROVE  UNCHANGED lease
  BY <1>5 DEF Heartbeat, CancelRequest, CancelReturn, PublishLate
<1>6. CASE Settle(p)
  <2>1. busy[p].run \in Runs
    BY <1>6, BusyTypes DEF Settle
  <2> QED BY <1>6, <2>1, GivenBack DEF Settle
<1>7. CASE ClearBegin(p) \/ ClearStop(p) \/ ClearPurge(p) \/ Reconcile(p)
  BY <1>7 DEF ClearBegin, ClearStop, ClearPurge, Reconcile
<1>8. CASE Crash(p)
  <2>1. Holders!Die(p)
    BY <1>8 DEF Crash, Holders!Die
  <2> QED BY <2>1 DEF Holders!Next
<1> QED BY <1>1, <1>2, <1>3, <1>4, <1>5, <1>6, <1>7, <1>8 DEF ReplicaStep

(* Starts, recoveries, terminal records and crashes use the leases only as  *)
(* LeaseHolders allows: none claims a run that another replica or a dead    *)
(* process holds, and no release (DELETE ... WHERE owner = self) meets the  *)
(* lease of another.                                                        *)
THEOREM RunsImplementHolders == Spec => ImplementsHolders
<1>1. Init => Holders!Init
  BY DEF Init, Holders!Init
<1>2. RunsInv /\ [Next]_vars => [Holders!Next]_lease
  <2> SUFFICES ASSUME RunsInv, [Next]_vars PROVE [Holders!Next]_lease
    OBVIOUS
  <2>1. ASSUME NEW p \in Replicas, ReplicaStep(p) PROVE [Holders!Next]_lease
    BY <2>1, ReplicaStepHolders DEF RunsInv
  <2>2. ASSUME NEW r \in Runs, LeaseExpires(r) PROVE Holders!Next
    <3>1. Holders!Lapse({r})
      BY <2>2 DEF LeaseExpires, Holders!Lapse, RunsInv, RunnerInv, RunnerTypeOK
    <3> QED BY <3>1 DEF Holders!Next
  <2>3. CASE \E r \in Runs : PostArrives(r) \/ PostLost(r)
    BY <2>3 DEF PostArrives, PostLost
  <2>4. CASE Service \/ UNCHANGED vars
    BY <2>4 DEF Service, vars, runnerVars
  <2> QED BY <2>1, <2>2, <2>3, <2>4 DEF Next
<1> QED BY <1>1, <1>2, RunsInvariant, PTL DEF Spec, ImplementsHolders, Holders!Spec

=============================================================================

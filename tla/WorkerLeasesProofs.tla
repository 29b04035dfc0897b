------------------------- MODULE WorkerLeasesProofs -------------------------
(***************************************************************************)
(* Proofs about WorkerLeases for every number of workers, runs and          *)
(* workspaces, every TTL and every pair of limits.                          *)
(*                                                                          *)
(*   BaseInv    holds whatever the workers' speed: types, and the clock a   *)
(*              call carries lies in the past.                              *)
(*   TimelyInv  is inductive beside BaseInv when live workers meet Beat and *)
(*              Delay: a worker that executes a run owns an unexpired row.  *)
(***************************************************************************)
EXTENDS WorkerLeases, FiniteSetTheorems, TLAPS

CallsReadThePast == \A w \in Workers : call[w].at <= now

BaseInv == TypeOK /\ CallsReadThePast

(* A pending call is as young as Delay, and belongs to a live worker. *)
CallsArePrompt ==
    \A w \in Workers : call[w] # Idle => w \in alive /\ now <= call[w].at + Delay

(* A claim was started by a worker without a lease on the run. *)
ClaimsLackALease ==
    \A w \in Workers :
        call[w].op \in {"submit", "recover"} =>
            ~Renewable(w, call[w].run, call[w].at)

RenewalsHaveATask ==
    \A w \in Workers : call[w].op = "renew" => task[w][call[w].run] # "none"

(* What a worker that executes r knows: the row is its own, and reaches far  *)
(* enough beyond its last commit.                                           *)
Secure(w, r) ==
    /\ w \in alive
    /\ task[w][r] = "running"
    /\ lease[r].owner = w
    /\ beat[w][r] <= now
    /\ beat[w][r] + TTL <= lease[r].expiry + Delay
    /\ IF Renewing(w, r) THEN call[w].at <= beat[w][r] + Beat
                         ELSE now <= beat[w][r] + Beat

ExecutionsAreSecure ==
    \A w \in Workers, r \in Runs : task[w][r] # "none" => Secure(w, r)

TimelyInv ==
    CallsArePrompt /\ ClaimsLackALease /\ RenewalsHaveATask /\ ExecutionsAreSecure

----------------------------------------------------------------------------
(* The call a worker has under way is of one of two shapes. *)
LEMMA CallShape ==
    ASSUME TypeOK, NEW w \in Workers
    PROVE  /\ call[w] = Idle \/ (call[w].run \in Runs /\ call[w].at \in Nat)
           /\ call[w].op \in {"submit", "recover", "renew"} => call[w] # Idle
           /\ call[w].at \in Nat
  BY DEF TypeOK, Call, Idle

LEMMA InitBase == Init => BaseInv
  <1> SUFFICES ASSUME Init PROVE BaseInv
    OBVIOUS
  <1>1. TypeOK
    BY LeaseAssumption DEF Init, TypeOK, Row, NoRow, Call, Idle, Time
  <1>2. CallsReadThePast
    BY DEF Init, CallsReadThePast, Idle
  <1> QED BY <1>1, <1>2 DEF BaseInv

(* Every step keeps the types: one case per action. *)
LEMMA StepType == TypeOK /\ [Next]_vars => TypeOK'
  <1> SUFFICES ASSUME TypeOK, [Next]_vars PROVE TypeOK'
    OBVIOUS
  <1> USE LeaseAssumption
  <1>1. CASE Tick
    BY <1>1 DEF Tick, TypeOK, Time
  <1>2. ASSUME NEW w \in Workers, NEW r \in Runs, NEW op \in {"submit", "recover"},
               StartClaim(w, r, op)
        PROVE  TypeOK'
    <2>1. call' \in [Workers -> Call]
      BY <1>2 DEF StartClaim, TypeOK, Call, Time
    <2> QED BY <1>2, <2>1 DEF StartClaim, TypeOK
  <1>3. ASSUME NEW w \in Workers, CommitClaim(w) PROVE TypeOK'
    <2> DEFINE r == call[w].run
               t == call[w].at
    <2>1. r \in Runs /\ t \in Nat
      BY <1>3, CallShape DEF CommitClaim, Idle
    <2>2. call' \in [Workers -> Call]
      BY <1>3 DEF CommitClaim, TypeOK, Call
    <2>3. CASE UNCHANGED <<lease, job, task, beat>>
      BY <1>3, <2>2, <2>3 DEF CommitClaim, TypeOK
    <2>4. CASE Granted(w, r) /\ UNCHANGED lease
      <3>1. /\ job' \in [Runs -> {"new", "active", "finished"}]
            /\ task' \in [Workers -> [Runs -> {"none", "running", "stopping"}]]
            /\ beat' \in [Workers -> [Runs -> Nat]]
        BY <2>1, <2>4 DEF Granted, TypeOK, Time
      <3> QED BY <1>3, <2>2, <2>4, <3>1 DEF CommitClaim, TypeOK
    <2>5. CASE /\ Granted(w, r)
               /\ lease' = [lease EXCEPT ![r] =
                     [owner |-> w, expiry |-> t + TTL, via |-> call[w].op]]
      <3>1. /\ job' \in [Runs -> {"new", "active", "finished"}]
            /\ task' \in [Workers -> [Runs -> {"none", "running", "stopping"}]]
            /\ beat' \in [Workers -> [Runs -> Nat]]
        BY <2>1, <2>5 DEF Granted, TypeOK, Time
      <3>2. lease' \in [Runs -> Row]
        <4>1. [owner |-> w, expiry |-> t + TTL, via |-> call[w].op] \in Row
          BY <1>3, <2>1 DEF Row, CommitClaim
        <4> QED BY <2>1, <2>5, <4>1 DEF TypeOK
      <3> QED BY <1>3, <2>2, <3>1, <3>2 DEF CommitClaim, TypeOK
    <2> QED BY <1>3, <2>3, <2>4, <2>5 DEF CommitClaim
  <1>4. ASSUME NEW w \in Workers, NEW r \in Runs, StartRenew(w, r) PROVE TypeOK'
    <2>1. call' \in [Workers -> Call]
      BY <1>4 DEF StartRenew, TypeOK, Call, Time
    <2> QED BY <1>4, <2>1 DEF StartRenew, TypeOK
  <1>5. ASSUME NEW w \in Workers, CommitRenew(w) PROVE TypeOK'
    <2> DEFINE r == call[w].run
               t == call[w].at
    <2>1. r \in Runs /\ t \in Nat
      BY <1>5, CallShape DEF CommitRenew, Idle
    <2>2. call' \in [Workers -> Call]
      BY <1>5 DEF CommitRenew, TypeOK, Call
    <2>3. lease' \in [Runs -> Row]
      <3>1. CASE lease' = [lease EXCEPT ![r] =
                       [owner |-> w, expiry |-> t + TTL, via |-> lease[r].via]]
        <4>1. [owner |-> w, expiry |-> t + TTL, via |-> lease[r].via] \in Row
          BY LeaseAssumption, <2>1 DEF TypeOK, Row
        <4> QED BY <2>1, <3>1, <4>1 DEF TypeOK
      <3>2. CASE UNCHANGED lease
        BY <3>2 DEF TypeOK
      <3> QED BY <1>5, <3>1, <3>2 DEF CommitRenew
    <2>4. /\ task' \in [Workers -> [Runs -> {"none", "running", "stopping"}]]
          /\ beat' \in [Workers -> [Runs -> Nat]]
      <3>1. now \in Nat
        BY DEF TypeOK, Time
      <3>2. CASE beat' = [beat EXCEPT ![w][r] = now] /\ UNCHANGED task
        BY <2>1, <3>1, <3>2 DEF TypeOK
      <3>3. CASE task' = [task EXCEPT ![w][r] = "stopping"] /\ UNCHANGED beat
        BY <2>1, <3>3 DEF TypeOK
      <3> QED BY <1>5, <3>2, <3>3 DEF CommitRenew
    <2> QED BY <1>5, <2>2, <2>3, <2>4 DEF CommitRenew, TypeOK
  <1>6. ASSUME NEW w \in Workers, NEW r \in Runs, Release(w, r) PROVE TypeOK'
    <2>1. lease' \in [Runs -> Row]
      BY <1>6 DEF Release, Unlease, TypeOK, Row, NoRow
    <2>2. /\ job' \in [Runs -> {"new", "active", "finished"}]
          /\ task' \in [Workers -> [Runs -> {"none", "running", "stopping"}]]
      BY <1>6 DEF Release, TypeOK
    <2> QED BY <1>6, <2>1, <2>2 DEF Release, TypeOK
  <1>7. ASSUME NEW w \in Workers, Crash(w) PROVE TypeOK'
    BY <1>7 DEF Crash, TypeOK, Call
  <1>8. ASSUME NEW w \in Workers, NEW r \in Runs, Abandon(w, r) PROVE TypeOK'
    BY <1>8 DEF Abandon, TypeOK
  <1>9. CASE UNCHANGED vars
    BY <1>9 DEF vars, TypeOK
  <1> QED BY <1>1, <1>2, <1>3, <1>4, <1>5, <1>6, <1>7, <1>8, <1>9 DEF Next, WorkerStep

LEMMA StepBase == BaseInv /\ [Next]_vars => BaseInv'
  <1> SUFFICES ASSUME BaseInv, [Next]_vars PROVE BaseInv'
    OBVIOUS
  <1>1. TypeOK'
    BY StepType DEF BaseInv
  <1>2. CallsReadThePast'
    <2> SUFFICES ASSUME NEW v \in Workers PROVE (call[v].at)' <= now'
      BY DEF CallsReadThePast
    <2>1. now \in Nat /\ now' \in Nat /\ call[v].at \in Nat /\ call[v].at <= now
      BY <1>1, LeaseAssumption, CallShape DEF BaseInv, TypeOK, Time, CallsReadThePast
    <2>2. CASE Tick
      BY <2>1, <2>2 DEF Tick
    <2>3. ASSUME NEW w \in Workers, WorkerStep(w)
          PROVE  /\ now' = now
                 /\ call'[v] \in {call[v], Idle} \/ call'[v].at = now
      <3>1. ASSUME NEW r \in Runs, NEW op \in {"submit", "recover"}, StartClaim(w, r, op)
            PROVE  now' = now /\ (call'[v] = call[v] \/ call'[v].at = now)
        BY <3>1 DEF StartClaim, BaseInv, TypeOK
      <3>2. ASSUME NEW r \in Runs, StartRenew(w, r)
            PROVE  now' = now /\ (call'[v] = call[v] \/ call'[v].at = now)
        BY <3>2 DEF StartRenew, BaseInv, TypeOK
      <3>3. CASE CommitClaim(w) \/ CommitRenew(w) \/ Crash(w)
        BY <3>3 DEF CommitClaim, CommitRenew, Crash, BaseInv, TypeOK
      <3>4. ASSUME NEW r \in Runs, Release(w, r) \/ Abandon(w, r)
            PROVE  now' = now /\ call' = call
        BY <3>4 DEF Release, Abandon
      <3> QED BY <2>3, <3>1, <3>2, <3>3, <3>4 DEF WorkerStep
    <2>4. CASE UNCHANGED vars
      BY <2>1, <2>4 DEF vars
    <2> QED BY <2>1, <2>2, <2>3, <2>4 DEF Idle, Next
  <1> QED BY <1>1, <1>2 DEF BaseInv

(* Type correctness of the lease protocol (leases.py). *)
THEOREM TypeCorrect == Spec => []TypeOK
  <1>1. Spec => []BaseInv
    BY InitBase, StepBase, PTL DEF Spec
  <1>2. BaseInv => TypeOK
    BY DEF BaseInv
  <1> QED BY <1>1, <1>2, PTL

----------------------------------------------------------------------------
(* With live workers on time: the inductive invariant of exclusive          *)
(* execution.                                                               *)

(* A worker that executes a run holds an unexpired lease on it: the last    *)
(* commit plus Beat plus Delay is still before the expiry.                  *)
LEMMA SecureIsActive ==
    ASSUME Timely, BaseInv, TimelyInv,
           NEW w \in Workers, NEW r \in Runs, task[w][r] # "none"
    PROVE  lease[r].owner = w /\ lease[r].expiry > now /\ Active(r, now)
  <1>1. Secure(w, r)
    BY DEF TimelyInv, ExecutionsAreSecure
  <1>2. lease[r].owner = w /\ w # Nobody
    BY <1>1, LeaseAssumption DEF Secure
  <1>3. /\ now \in Nat /\ beat[w][r] \in Nat /\ lease[r].expiry \in Nat
        /\ TTL \in Nat /\ Beat \in Nat /\ Delay \in Nat
    BY LeaseAssumption DEF BaseInv, TypeOK, Time, Row
  <1>4. now <= beat[w][r] + Beat + Delay
    <2>1. CASE Renewing(w, r)
      <3>1. call[w].at \in Nat /\ now <= call[w].at + Delay
        BY <2>1, CallShape DEF Renewing, TimelyInv, CallsArePrompt, BaseInv
      <3> QED BY <1>1, <1>3, <2>1, <3>1 DEF Secure
    <2>2. CASE ~Renewing(w, r)
      BY <1>1, <1>3, <2>2 DEF Secure
    <2> QED BY <2>1, <2>2
  <1>5. lease[r].expiry > now
    BY <1>1, <1>3, <1>4, TimelyAssumption DEF Secure
  <1> QED BY <1>2, <1>5 DEF Active

LEMMA InitTimely == Init => TimelyInv
  <1> SUFFICES ASSUME Init PROVE TimelyInv
    OBVIOUS
  <1>1. \A w \in Workers : call[w] = Idle /\ \A r \in Runs : task[w][r] = "none"
    BY DEF Init
  <1> QED BY <1>1 DEF Idle, TimelyInv, CallsArePrompt, ClaimsLackALease,
                      RenewalsHaveATask, ExecutionsAreSecure

LEMMA TickTimely ==
    ASSUME Timely, BaseInv, TimelyInv, Tick
    PROVE  TimelyInv'
  <1>1. /\ now' = now + 1 /\ now \in Nat /\ Delay \in Nat /\ Beat \in Nat
        /\ UNCHANGED <<lease, task, beat, call, alive>>
    BY LeaseAssumption DEF Tick, BaseInv, TypeOK, Time
  <1>2. \A w \in alive : OnTime(w)
    BY DEF Tick
  <1>3. CallsArePrompt'
    BY <1>1, <1>2, CallShape DEF TimelyInv, CallsArePrompt, OnTime, BaseInv
  <1>4. ClaimsLackALease' /\ RenewalsHaveATask'
    BY <1>1 DEF TimelyInv, ClaimsLackALease, RenewalsHaveATask, Renewable
  <1>5. ExecutionsAreSecure'
    <2> SUFFICES ASSUME NEW w \in Workers, NEW r \in Runs, task[w][r] # "none"
                 PROVE  Secure(w, r)'
      BY <1>1 DEF ExecutionsAreSecure
    <2>1. Secure(w, r) /\ OnTime(w) /\ beat[w][r] \in Nat
      BY <1>2 DEF TimelyInv, ExecutionsAreSecure, Secure, BaseInv, TypeOK
    <2>2. ~Renewing(w, r) => now < beat[w][r] + Beat
      BY <2>1 DEF OnTime, Secure
    <2> QED BY <1>1, <2>1, <2>2 DEF Secure, Renewing
  <1> QED BY <1>3, <1>4, <1>5 DEF TimelyInv

(* The steps that only add or drop a call of worker w. *)
LEMMA StartClaimTimely ==
    ASSUME Timely, BaseInv, TimelyInv,
           NEW w \in Workers, NEW r \in Runs, NEW op \in {"submit", "recover"},
           StartClaim(w, r, op)
    PROVE  TimelyInv'
  <1>1. /\ w \in alive /\ call[w] = Idle /\ ~Active(r, now)
        /\ call' = [call EXCEPT ![w] = [op |-> op, run |-> r, at |-> now]]
        /\ UNCHANGED <<now, lease, job, task, beat, alive>>
    BY DEF StartClaim, CallIsIdle
  <1>2. \A v \in Workers : v # w => call'[v] = call[v]
    BY <1>1 DEF BaseInv, TypeOK
  <1>3. call'[w] = [op |-> op, run |-> r, at |-> now] /\ now \in Nat /\ Delay \in Nat
    BY <1>1, LeaseAssumption DEF BaseInv, TypeOK, Time
  <1>4. CallsArePrompt'
    BY <1>1, <1>2, <1>3 DEF TimelyInv, CallsArePrompt
  <1>5. ClaimsLackALease'
    <2>1. ~Renewable(w, r, now)
      BY <1>1, LeaseAssumption DEF Active, Renewable
    <2> QED BY <1>1, <1>2, <1>3, <2>1 DEF TimelyInv, ClaimsLackALease, Renewable
  <1>6. RenewalsHaveATask'
    BY <1>1, <1>2, <1>3 DEF TimelyInv, RenewalsHaveATask
  <1>7. ExecutionsAreSecure'
    <2>1. \A v \in Workers, q \in Runs :
                /\ Renewing(v, q)' <=> Renewing(v, q)
                /\ Renewing(v, q) => call'[v] = call[v]
      BY <1>1, <1>2, <1>3 DEF Renewing, Idle
    <2> QED BY <1>1, <1>2, <2>1 DEF TimelyInv, ExecutionsAreSecure, Secure
  <1> QED BY <1>4, <1>5, <1>6, <1>7 DEF TimelyInv

LEMMA StartRenewTimely ==
    ASSUME Timely, BaseInv, TimelyInv,
           NEW w \in Workers, NEW r \in Runs, StartRenew(w, r)
    PROVE  TimelyInv'
  <1>1. /\ w \in alive /\ call[w] = Idle /\ task[w][r] = "running"
        /\ call' = [call EXCEPT ![w] = [op |-> "renew", run |-> r, at |-> now]]
        /\ UNCHANGED <<now, lease, job, task, beat, alive>>
    BY DEF StartRenew, CallIsIdle
  <1>2. \A v \in Workers : v # w => call'[v] = call[v]
    BY <1>1 DEF BaseInv, TypeOK
  <1>3. call'[w] = [op |-> "renew", run |-> r, at |-> now] /\ now \in Nat /\ Delay \in Nat
    BY <1>1, LeaseAssumption DEF BaseInv, TypeOK, Time
  <1>4. CallsArePrompt' /\ ClaimsLackALease' /\ RenewalsHaveATask'
    BY <1>1, <1>2, <1>3
       DEF TimelyInv, CallsArePrompt, ClaimsLackALease, RenewalsHaveATask, Renewable
  <1>5. ExecutionsAreSecure'
    <2> SUFFICES ASSUME NEW v \in Workers, NEW q \in Runs, task[v][q] # "none"
                 PROVE  Secure(v, q)'
      BY <1>1 DEF ExecutionsAreSecure
    <2>1. Secure(v, q)
      BY DEF TimelyInv, ExecutionsAreSecure
    <2>2. CASE v = w
      <3>1. ~Renewing(w, q)
        BY <1>1 DEF Renewing, Idle
      <3>2. now <= beat[w][q] + Beat
        BY <2>1, <2>2, <3>1 DEF Secure
      <3> QED BY <1>1, <1>3, <2>1, <2>2, <3>2 DEF Secure
    <2>3. CASE v # w
      BY <1>1, <1>2, <2>1, <2>3 DEF Secure, Renewing
    <2> QED BY <2>2, <2>3
  <1> QED BY <1>4, <1>5 DEF TimelyInv

(* A claim is granted only while nobody executes the run. *)
LEMMA CommitClaimTimely ==
    ASSUME Timely, BaseInv, TimelyInv, NEW w \in Workers, CommitClaim(w)
    PROVE  TimelyInv'
  <1> DEFINE r == call[w].run
             t == call[w].at
  <1>1. /\ w \in alive /\ r \in Runs /\ t \in Nat /\ now \in Nat
        /\ t <= now /\ now <= t + Delay
        /\ TTL \in Nat /\ Delay \in Nat /\ Beat \in Nat
        /\ call[w].op \in {"submit", "recover"}
    BY CallShape, LeaseAssumption
       DEF CommitClaim, BaseInv, TypeOK, Time, CallsReadThePast, TimelyInv, CallsArePrompt
  <1>2. call' = [call EXCEPT ![w] = Idle] /\ UNCHANGED <<now, alive>>
    BY DEF CommitClaim
  <1>3. call'[w] = Idle /\ \A v \in Workers : v # w => call'[v] = call[v]
    BY <1>2 DEF BaseInv, TypeOK
  <1>4. CallsArePrompt'
    BY <1>2, <1>3 DEF TimelyInv, CallsArePrompt
  <1>5. CASE UNCHANGED <<lease, job, task, beat>>
    <2>1. ClaimsLackALease' /\ RenewalsHaveATask'
      BY <1>3, <1>5 DEF TimelyInv, ClaimsLackALease, RenewalsHaveATask, Renewable, Idle
    <2>2. \A v \in Workers, q \in Runs :
                /\ Renewing(v, q)' <=> Renewing(v, q)
                /\ Renewing(v, q) => call'[v] = call[v]
      BY <1>1, <1>3 DEF Renewing, Idle
    <2>3. ExecutionsAreSecure'
      BY <1>2, <1>5, <2>2 DEF TimelyInv, ExecutionsAreSecure, Secure
    <2> QED BY <1>4, <2>1, <2>3 DEF TimelyInv
  <1>6. CASE /\ ~Active(r, t)
             /\ lease' = [lease EXCEPT ![r] =
                            [owner |-> w, expiry |-> t + TTL, via |-> call[w].op]]
             /\ Granted(w, r)
    <2>1. \A v \in Workers : task[v][r] = "none"
      <3> SUFFICES ASSUME NEW v \in Workers, task[v][r] # "none" PROVE FALSE
        OBVIOUS
      <3>1. lease[r].owner = v /\ lease[r].expiry > now /\ lease[r].expiry \in Nat
        BY <1>1, SecureIsActive DEF BaseInv, TypeOK, Row
      <3> QED BY <1>1, <1>6, <3>1, LeaseAssumption DEF Active
    <2>2. /\ lease'[r].owner = w /\ lease'[r].expiry = t + TTL
          /\ \A q \in Runs : q # r => lease'[q] = lease[q]
      BY <1>1, <1>6 DEF BaseInv, TypeOK
    <2>3. /\ task'[w][r] = "running" /\ beat'[w][r] = now
          /\ \A v \in Workers, q \in Runs :
                v # w \/ q # r => task'[v][q] = task[v][q] /\ beat'[v][q] = beat[v][q]
      BY <1>1, <1>6 DEF Granted, BaseInv, TypeOK
    <2>4. ClaimsLackALease'
      <3> SUFFICES ASSUME NEW v \in Workers, call'[v].op \in {"submit", "recover"}
                   PROVE  ~Renewable(v, call[v].run, call[v].at)' /\ call'[v] = call[v]
        BY DEF ClaimsLackALease, Renewable
      <3>1. v # w /\ call'[v] = call[v] /\ call[v].run \in Runs
        BY <1>3, CallShape DEF Idle, BaseInv
      <3>2. ~Renewable(v, call[v].run, call[v].at)
        BY <3>1 DEF TimelyInv, ClaimsLackALease
      <3> QED BY <2>2, <3>1, <3>2 DEF Renewable
    <2>5. RenewalsHaveATask'
      <3> SUFFICES ASSUME NEW v \in Workers, call'[v].op = "renew"
                   PROVE  task'[v][call'[v].run] # "none"
        BY DEF RenewalsHaveATask
      <3>1. v # w /\ call'[v] = call[v] /\ call[v].run \in Runs
        BY <1>3, CallShape DEF Idle, BaseInv
      <3> QED BY <2>3, <3>1 DEF TimelyInv, RenewalsHaveATask
    <2>6. ExecutionsAreSecure'
      <3> SUFFICES ASSUME NEW v \in Workers, NEW q \in Runs, task'[v][q] # "none"
                   PROVE  Secure(v, q)'
        BY DEF ExecutionsAreSecure
      <3>1. CASE v = w /\ q = r
        BY <1>1, <1>2, <1>3, <2>2, <2>3, <3>1 DEF Secure, Renewing, Idle
      <3>2. CASE ~(v = w /\ q = r)
        <4>1. task[v][q] # "none" /\ task'[v][q] = task[v][q] /\ beat'[v][q] = beat[v][q]
          BY <2>3, <3>2
        <4>2. Secure(v, q) /\ q # r
          BY <2>1, <4>1 DEF TimelyInv, ExecutionsAreSecure
        <4>3. lease'[q] = lease[q]
          BY <2>2, <4>2
        <4>4. /\ Renewing(v, q)' <=> Renewing(v, q)
              /\ Renewing(v, q) => call'[v] = call[v]
          BY <1>1, <1>3 DEF Renewing, Idle
        <4> QED BY <1>2, <1>3, <4>1, <4>2, <4>3, <4>4 DEF Secure
      <3> QED BY <3>1, <3>2
    <2> QED BY <1>4, <2>4, <2>5, <2>6 DEF TimelyInv
  <1>7. ~(Active(r, t) /\ lease[r].owner = w)
    BY <1>1 DEF Active, TimelyInv, ClaimsLackALease, Renewable
  <1> QED BY <1>5, <1>6, <1>7 DEF CommitClaim

(* A timely renewal always finds its row: the heartbeat never has to cancel. *)
LEMMA RenewalSucceeds ==
    ASSUME Timely, BaseInv, TimelyInv, NEW w \in Workers, CommitRenew(w)
    PROVE  /\ call[w].run \in Runs /\ call[w].at \in Nat
           /\ task[w][call[w].run] = "running"
           /\ Active(call[w].run, now)
           /\ lease' = [lease EXCEPT ![call[w].run] =
                           [owner |-> w, expiry |-> call[w].at + TTL,
                            via |-> lease[call[w].run].via]]
           /\ beat' = [beat EXCEPT ![w][call[w].run] = now]
           /\ UNCHANGED task
  <1>1. call[w].run \in Runs /\ call[w].at \in Nat /\ call[w].op = "renew"
    BY CallShape DEF CommitRenew, BaseInv
  <1>2. task[w][call[w].run] # "none"
    BY <1>1 DEF TimelyInv, RenewalsHaveATask
  <1>3. task[w][call[w].run] = "running"
    BY <1>1, <1>2 DEF TimelyInv, ExecutionsAreSecure, Secure
  <1>4. /\ lease[call[w].run].owner = w
        /\ lease[call[w].run].expiry > now
        /\ Active(call[w].run, now)
    BY <1>1, <1>2, SecureIsActive
  <1>5. /\ lease[call[w].run].expiry \in Nat /\ now \in Nat
        /\ call[w].at <= now
    BY <1>1 DEF BaseInv, TypeOK, Row, Time, CallsReadThePast
  <1>6. Renewable(w, call[w].run, call[w].at)
    BY <1>1, <1>4, <1>5 DEF Renewable
  <1> QED BY <1>1, <1>3, <1>4, <1>6 DEF CommitRenew

LEMMA CommitRenewTimely ==
    ASSUME Timely, BaseInv, TimelyInv, NEW w \in Workers, CommitRenew(w)
    PROVE  TimelyInv'
  <1> DEFINE r == call[w].run
             t == call[w].at
  <1>1. /\ r \in Runs /\ t \in Nat /\ now \in Nat /\ now <= t + Delay
        /\ TTL \in Nat /\ Delay \in Nat /\ Beat \in Nat
        /\ task[w][r] = "running" /\ lease[r].owner = w /\ UNCHANGED task
    <2>1. r \in Runs /\ t \in Nat /\ task[w][r] = "running" /\ UNCHANGED task
      BY RenewalSucceeds
    <2>2. lease[r].owner = w
      BY <2>1, SecureIsActive
    <2>3. now <= t + Delay
      BY DEF CommitRenew, Idle, TimelyInv, CallsArePrompt
    <2>4. now \in Nat /\ TTL \in Nat /\ Delay \in Nat /\ Beat \in Nat
      BY LeaseAssumption DEF BaseInv, TypeOK, Time
    <2> QED BY <2>1, <2>2, <2>3, <2>4
  <1>2. call' = [call EXCEPT ![w] = Idle] /\ UNCHANGED <<now, job, alive>>
    BY DEF CommitRenew
  <1>3. call'[w] = Idle /\ \A v \in Workers : v # w => call'[v] = call[v]
    BY <1>2 DEF BaseInv, TypeOK
  <1>4. /\ lease'[r].owner = w /\ lease'[r].expiry = t + TTL
        /\ \A q \in Runs : q # r => lease'[q] = lease[q]
    <2>1. lease' = [lease EXCEPT ![r] =
                       [owner |-> w, expiry |-> t + TTL, via |-> lease[r].via]]
      BY RenewalSucceeds
    <2> QED BY <1>1, <2>1 DEF BaseInv, TypeOK
  <1>5. /\ beat'[w][r] = now
        /\ \A v \in Workers, q \in Runs : v # w \/ q # r => beat'[v][q] = beat[v][q]
    <2>1. beat' = [beat EXCEPT ![w][r] = now]
      BY RenewalSucceeds
    <2> QED BY <1>1, <2>1 DEF BaseInv, TypeOK
  <1>6. CallsArePrompt'
    BY <1>2, <1>3 DEF TimelyInv, CallsArePrompt
  <1>7. RenewalsHaveATask'
    BY <1>1, <1>3 DEF TimelyInv, RenewalsHaveATask, Idle
  <1>8. ClaimsLackALease'
    <2> SUFFICES ASSUME NEW v \in Workers, call'[v].op \in {"submit", "recover"}
                 PROVE  ~Renewable(v, call[v].run, call[v].at)' /\ call'[v] = call[v]
      BY DEF ClaimsLackALease, Renewable
    <2>1. v # w /\ call'[v] = call[v] /\ call[v].run \in Runs
      BY <1>3, CallShape DEF Idle, BaseInv
    <2>2. ~Renewable(v, call[v].run, call[v].at)
      BY <2>1 DEF TimelyInv, ClaimsLackALease
    <2> QED BY <1>4, <2>1, <2>2 DEF Renewable
  <1>9. ExecutionsAreSecure'
    <2> SUFFICES ASSUME NEW v \in Workers, NEW q \in Runs, task[v][q] # "none"
                 PROVE  Secure(v, q)'
      BY <1>1 DEF ExecutionsAreSecure
    <2>1. Secure(v, q)
      BY DEF TimelyInv, ExecutionsAreSecure
    <2>2. CASE v = w /\ q = r
      BY <1>1, <1>2, <1>3, <1>4, <1>5, <2>1, <2>2 DEF Secure, Renewing, Idle
    <2>3. CASE ~(v = w /\ q = r)
      <3>1. beat'[v][q] = beat[v][q] /\ q # r /\ lease'[q] = lease[q]
        BY <1>1, <1>4, <1>5, <2>1, <2>3 DEF Secure
      <3>2. /\ Renewing(v, q)' <=> Renewing(v, q)
            /\ Renewing(v, q) => call'[v] = call[v]
        BY <1>3, <2>3, <3>1 DEF Renewing, Idle
      <3> QED BY <1>1, <1>2, <2>1, <3>1, <3>2 DEF Secure
    <2> QED BY <2>2, <2>3
  <1> QED BY <1>6, <1>7, <1>8, <1>9 DEF TimelyInv

LEMMA ReleaseTimely ==
    ASSUME Timely, BaseInv, TimelyInv,
           NEW w \in Workers, NEW r \in Runs, Release(w, r)
    PROVE  TimelyInv'
  <1>1. /\ call[w] = Idle /\ task[w][r] # "none" /\ Unlease(w, r)
        /\ task' = [task EXCEPT ![w][r] = "none"]
        /\ UNCHANGED <<now, beat, call, alive>>
    BY DEF Release, CallIsIdle
  <1>2. lease[r].owner = w /\ lease' = [lease EXCEPT ![r] = NoRow]
    BY <1>1, SecureIsActive DEF Unlease
  <1>3. /\ lease'[r] = NoRow
        /\ \A q \in Runs : q # r => lease'[q] = lease[q]
    BY <1>2 DEF BaseInv, TypeOK
  <1>4. /\ task'[w][r] = "none"
        /\ \A v \in Workers, q \in Runs : v # w \/ q # r => task'[v][q] = task[v][q]
    BY <1>1 DEF BaseInv, TypeOK
  <1>5. CallsArePrompt'
    BY <1>1 DEF TimelyInv, CallsArePrompt
  <1>6. ClaimsLackALease'
    <2> SUFFICES ASSUME NEW v \in Workers, call[v].op \in {"submit", "recover"}
                 PROVE  ~Renewable(v, call[v].run, call[v].at)'
      BY <1>1 DEF ClaimsLackALease
    <2>1. call[v].run \in Runs /\ ~Renewable(v, call[v].run, call[v].at)
      BY CallShape DEF TimelyInv, ClaimsLackALease, BaseInv, Idle
    <2> QED BY <1>1, <1>3, <2>1, LeaseAssumption DEF Renewable, NoRow
  <1>7. RenewalsHaveATask'
    <2> SUFFICES ASSUME NEW v \in Workers, call[v].op = "renew"
                 PROVE  task'[v][call[v].run] # "none"
      BY <1>1 DEF RenewalsHaveATask
    <2>1. v # w /\ call[v].run \in Runs /\ task[v][call[v].run] # "none"
      BY <1>1, CallShape DEF TimelyInv, RenewalsHaveATask, BaseInv, Idle
    <2> QED BY <1>4, <2>1
  <1>8. ExecutionsAreSecure'
    <2> SUFFICES ASSUME NEW v \in Workers, NEW q \in Runs, task'[v][q] # "none"
                 PROVE  Secure(v, q)'
      BY DEF ExecutionsAreSecure
    <2>1. task'[v][q] = task[v][q] /\ Secure(v, q) /\ ~(v = w /\ q = r)
      BY <1>4 DEF TimelyInv, ExecutionsAreSecure
    <2>2. q # r
      BY <1>2, <2>1 DEF Secure
    <2> QED BY <1>1, <1>3, <2>1, <2>2 DEF Secure, Renewing
  <1> QED BY <1>5, <1>6, <1>7, <1>8 DEF TimelyInv

LEMMA AbandonTimely ==
    ASSUME Timely, BaseInv, TimelyInv,
           NEW w \in Workers, NEW r \in Runs, Abandon(w, r)
    PROVE  TimelyInv'
  <1>1. /\ call[w] = Idle /\ task' = [task EXCEPT ![w][r] = "none"]
        /\ UNCHANGED <<now, lease, beat, call, alive>>
    BY DEF Abandon, CallIsIdle
  <1>2. \A v \in Workers, q \in Runs :
            task'[v][q] = IF v = w /\ q = r THEN "none" ELSE task[v][q]
    BY <1>1 DEF BaseInv, TypeOK
  <1>3. CallsArePrompt' /\ ClaimsLackALease'
    BY <1>1 DEF TimelyInv, CallsArePrompt, ClaimsLackALease, Renewable
  <1>4. RenewalsHaveATask'
    <2> SUFFICES ASSUME NEW v \in Workers, call[v].op = "renew"
                 PROVE  task'[v][call[v].run] # "none"
      BY <1>1 DEF RenewalsHaveATask
    <2>1. v # w /\ call[v].run \in Runs /\ task[v][call[v].run] # "none"
      BY <1>1, CallShape DEF TimelyInv, RenewalsHaveATask, BaseInv, Idle
    <2> QED BY <1>2, <2>1
  <1>5. ExecutionsAreSecure'
    BY <1>1, <1>2 DEF TimelyInv, ExecutionsAreSecure, Secure, Renewing
  <1> QED BY <1>3, <1>4, <1>5 DEF TimelyInv

LEMMA CrashTimely ==
    ASSUME Timely, BaseInv, TimelyInv, NEW w \in Workers, Crash(w)
    PROVE  TimelyInv'
  <1>1. /\ alive' = alive \ {w} /\ UNCHANGED <<now, lease, job, beat>>
        /\ \A r \in Runs : task'[w][r] = "none"
        /\ \A v \in Workers : v # w => task'[v] = task[v]
        /\ call'[w] = Idle
        /\ \A v \in Workers : v # w => call'[v] = call[v]
    BY DEF Crash, BaseInv, TypeOK
  <1>2. CallsArePrompt' /\ ClaimsLackALease' /\ RenewalsHaveATask'
    BY <1>1 DEF TimelyInv, CallsArePrompt, ClaimsLackALease, RenewalsHaveATask,
                Renewable, Idle
  <1>3. ExecutionsAreSecure'
    <2> SUFFICES ASSUME NEW v \in Workers, NEW q \in Runs, task'[v][q] # "none"
                 PROVE  Secure(v, q)'
      BY DEF ExecutionsAreSecure
    <2>1. v # w
      BY <1>1
    <2>2. Secure(v, q)
      BY <1>1, <2>1 DEF TimelyInv, ExecutionsAreSecure
    <2> QED BY <1>1, <2>1, <2>2 DEF Secure, Renewing
  <1> QED BY <1>2, <1>3 DEF TimelyInv

LEMMA StepTimely ==
    ASSUME Timely, BaseInv, TimelyInv, [Next]_vars
    PROVE  TimelyInv'
  <1>1. ASSUME NEW w \in Workers, WorkerStep(w) PROVE TimelyInv'
    BY <1>1, StartClaimTimely, CommitClaimTimely, StartRenewTimely,
       CommitRenewTimely, ReleaseTimely, AbandonTimely, CrashTimely DEF WorkerStep
  <1>2. CASE UNCHANGED vars
    BY <1>2 DEF vars, TimelyInv, CallsArePrompt, ClaimsLackALease, RenewalsHaveATask,
                ExecutionsAreSecure, Secure, Renewable, Renewing
  <1> QED BY <1>1, <1>2, TickTimely DEF Next

LEMMA TimelyAlways == ASSUME Timely PROVE Spec => [](BaseInv /\ TimelyInv)
  <1>1. Init => BaseInv /\ TimelyInv
    BY InitBase, InitTimely
  <1>2. BaseInv /\ TimelyInv /\ [Next]_vars => BaseInv' /\ TimelyInv'
    BY StepBase, StepTimely
  <1> QED BY <1>1, <1>2, PTL DEF Spec

(* At most one worker executes a run, provided a live worker commits every  *)
(* renewal within Beat + 2 * Delay of the previous one and that is shorter  *)
(* than the TTL (15 s against 60 s in leases.py and manager.py).            *)
THEOREM ExclusiveExecutionHolds == ASSUME Timely PROVE Spec => []ExclusiveExecution
  <1>1. BaseInv /\ TimelyInv => ExclusiveExecution
    BY DEF TimelyInv, ExecutionsAreSecure, Secure, ExclusiveExecution
  <1> QED BY <1>1, TimelyAlways, PTL

----------------------------------------------------------------------------
(* Whatever the speed of the workers.                                       *)

LEMMA StepKeepsLeases ==
    ASSUME BaseInv, [Next]_vars, NEW q \in Runs
    PROVE  Unstolen(q)
  <1> SUFFICES ASSUME Active(q, now), lease'[q].owner # lease[q].owner
               PROVE  /\ lease'[q] = NoRow
                      /\ lease[q].owner \in alive
                      /\ task'[lease[q].owner][q] = "none"
    BY DEF Unstolen
  <1>1. CASE Tick \/ UNCHANGED vars
    BY <1>1 DEF Tick, vars
  <1>2. ASSUME NEW w \in Workers, NEW r \in Runs, NEW op \in {"submit", "recover"},
               StartClaim(w, r, op)
        PROVE  FALSE
    BY <1>2 DEF StartClaim
  <1>3. ASSUME NEW w \in Workers, NEW r \in Runs, StartRenew(w, r) PROVE FALSE
    BY <1>3 DEF StartRenew
  <1>4. ASSUME NEW w \in Workers, CommitClaim(w) PROVE FALSE
    <2> DEFINE r == call[w].run
               t == call[w].at
    <2>1. r \in Runs /\ t \in Nat /\ now \in Nat /\ t <= now /\ lease[q].expiry \in Nat
      BY <1>4, CallShape DEF CommitClaim, Idle, BaseInv, TypeOK, Time, Row, CallsReadThePast
    <2>2. /\ ~Active(r, t)
          /\ lease' = [lease EXCEPT ![r] =
                          [owner |-> w, expiry |-> t + TTL, via |-> call[w].op]]
      BY <1>4 DEF CommitClaim
    <2>3. q = r
      BY <2>1, <2>2 DEF BaseInv, TypeOK
    <2> QED BY <2>1, <2>2, <2>3 DEF Active
  <1>5. ASSUME NEW w \in Workers, CommitRenew(w) PROVE FALSE
    <2> DEFINE r == call[w].run
    <2>1. r \in Runs
      BY <1>5, CallShape DEF CommitRenew, Idle, BaseInv
    <2>2. CASE Renewable(w, r, call[w].at)
      <3>1. /\ lease[r].owner = w
            /\ lease' = [lease EXCEPT ![r] =
                    [owner |-> w, expiry |-> call[w].at + TTL, via |-> lease[r].via]]
        BY <1>5, <2>2 DEF CommitRenew, Renewable
      <3> QED BY <2>1, <3>1 DEF BaseInv, TypeOK
    <2>3. CASE ~Renewable(w, r, call[w].at)
      BY <1>5, <2>3 DEF CommitRenew
    <2> QED BY <2>2, <2>3
  <1>6. ASSUME NEW w \in Workers, NEW r \in Runs, Release(w, r)
        PROVE  /\ lease'[q] = NoRow
               /\ lease[q].owner \in alive
               /\ task'[lease[q].owner][q] = "none"
    <2>1. w \in alive /\ Unlease(w, r) /\ task' = [task EXCEPT ![w][r] = "none"]
      BY <1>6 DEF Release
    <2>2. lease[r].owner = w /\ lease' = [lease EXCEPT ![r] = NoRow]
      BY <2>1 DEF Unlease
    <2>3. q = r
      BY <2>2 DEF BaseInv, TypeOK
    <2> QED BY <2>1, <2>2, <2>3 DEF BaseInv, TypeOK
  <1>7. ASSUME NEW w \in Workers, Crash(w) \/ \E r \in Runs : Abandon(w, r) PROVE FALSE
    BY <1>7 DEF Crash, Abandon
  <1> QED BY <1>1, <1>2, <1>3, <1>4, <1>5, <1>6, <1>7 DEF Next, WorkerStep

(* An unexpired lease changes hands in no step, however late a statement    *)
(* commits: the owner alone ends it.                                        *)
THEOREM NoStealHolds == Spec => NoSteal
  <1>1. BaseInv /\ [Next]_vars => [\A r \in Runs : Unstolen(r)]_vars
    BY StepKeepsLeases
  <1>2. Spec => []BaseInv
    BY InitBase, StepBase, PTL DEF Spec
  <1> QED BY <1>1, <1>2, PTL DEF Spec, NoSteal

----------------------------------------------------------------------------
(* The admission bound.                                                     *)

Quota(set) ==
    /\ Cardinality(set) <= GlobalLimit
    /\ \A q \in Runs : Cardinality(set \cap InWorkspaceOf(q)) <= Limit

(* Fewer leases meet the limits too. *)
LEMMA QuotaShrinks ==
    ASSUME NEW S \in SUBSET Runs, NEW T \in SUBSET S, Quota(S)
    PROVE  Quota(T)
  <1>1. IsFiniteSet(S)
    BY LeaseAssumption, FS_Subset
  <1>2. /\ Cardinality(T) <= Cardinality(S)
        /\ Cardinality(S) \in Nat /\ Cardinality(T) \in Nat
    BY <1>1, FS_Subset, FS_CardinalityType
  <1>3. ASSUME NEW q \in Runs
        PROVE  Cardinality(T \cap InWorkspaceOf(q)) <= Limit
    <2>1. IsFiniteSet(S \cap InWorkspaceOf(q))
      BY <1>1, FS_Subset
    <2>2. T \cap InWorkspaceOf(q) \subseteq S \cap InWorkspaceOf(q)
      OBVIOUS
    <2>3. /\ Cardinality(T \cap InWorkspaceOf(q)) <= Cardinality(S \cap InWorkspaceOf(q))
          /\ Cardinality(T \cap InWorkspaceOf(q)) \in Nat
          /\ Cardinality(S \cap InWorkspaceOf(q)) \in Nat
      BY <2>1, <2>2, FS_Subset, FS_CardinalityType
    <2> QED BY <2>3, LeaseAssumption DEF Quota
  <1> QED BY <1>2, <1>3, LeaseAssumption DEF Quota

(* One more lease fits when the claim counted fewer than both limits, even  *)
(* if the rows it counted (A) are more than the ones that count now (S).    *)
LEMMA QuotaAdmits ==
    ASSUME NEW S \in SUBSET Runs, NEW A \in SUBSET Runs, NEW r \in Runs,
           S \subseteq A, Quota(S),
           Cardinality(A) < GlobalLimit,
           Cardinality(A \cap InWorkspaceOf(r)) < Limit
    PROVE  Quota(S \cup {r})
  <1>1. IsFiniteSet(S) /\ IsFiniteSet(A)
    BY LeaseAssumption, FS_Subset
  <1>2. ASSUME NEW X \in SUBSET Runs
        PROVE  /\ IsFiniteSet(X) /\ Cardinality(X) \in Nat
               /\ Cardinality(X \cup {r}) \in Nat
               /\ Cardinality(X \cup {r}) <= Cardinality(X) + 1
    <2>1. IsFiniteSet(X)
      BY LeaseAssumption, FS_Subset
    <2>2. /\ IsFiniteSet(X \cup {r})
          /\ Cardinality(X \cup {r}) =
                IF r \in X THEN Cardinality(X) ELSE Cardinality(X) + 1
      BY <2>1, FS_AddElement
    <2>3. Cardinality(X) \in Nat /\ Cardinality(X \cup {r}) \in Nat
      BY <2>1, <2>2, FS_CardinalityType
    <2> QED BY <2>1, <2>2, <2>3
  <1>3. Cardinality(S) <= Cardinality(A)
    BY <1>1, FS_Subset
  <1>4. Cardinality(S \cup {r}) <= GlobalLimit
    <2>1. /\ Cardinality(S \cup {r}) \in Nat /\ Cardinality(S) \in Nat
          /\ Cardinality(S \cup {r}) <= Cardinality(S) + 1
      BY <1>2
    <2>2. Cardinality(A) \in Nat
      BY <1>2
    <2>3. GlobalLimit \in Nat
      BY LeaseAssumption
    <2> QED BY <1>3, <2>1, <2>2, <2>3
  <1>5. ASSUME NEW q \in Runs
        PROVE  Cardinality((S \cup {r}) \cap InWorkspaceOf(q)) <= Limit
    <2>1. CASE r \in InWorkspaceOf(q)
      <3>1. InWorkspaceOf(q) = InWorkspaceOf(r)
        BY <2>1 DEF InWorkspaceOf
      <3>2. (S \cup {r}) \cap InWorkspaceOf(q) = (S \cap InWorkspaceOf(r)) \cup {r}
        BY <2>1, <3>1
      <3>3. Cardinality(S \cap InWorkspaceOf(r)) <= Cardinality(A \cap InWorkspaceOf(r))
        <4>1. S \cap InWorkspaceOf(r) \subseteq A \cap InWorkspaceOf(r)
          OBVIOUS
        <4>2. IsFiniteSet(A \cap InWorkspaceOf(r))
          BY <1>1, FS_Subset
        <4> QED BY <4>1, <4>2, FS_Subset
      <3>4. /\ S \cap InWorkspaceOf(r) \in SUBSET Runs
            /\ A \cap InWorkspaceOf(r) \in SUBSET Runs
        OBVIOUS
      <3>5. /\ Cardinality(A \cap InWorkspaceOf(r)) \in Nat
            /\ Cardinality(S \cap InWorkspaceOf(r)) \in Nat
            /\ Cardinality((S \cap InWorkspaceOf(r)) \cup {r}) \in Nat
            /\ Cardinality((S \cap InWorkspaceOf(r)) \cup {r})
                  <= Cardinality(S \cap InWorkspaceOf(r)) + 1
        BY <1>2, <3>4
      <3>6. Limit \in Nat
        BY LeaseAssumption
      <3> QED BY <3>2, <3>3, <3>5, <3>6
    <2>2. CASE r \notin InWorkspaceOf(q)
      <3>1. (S \cup {r}) \cap InWorkspaceOf(q) = S \cap InWorkspaceOf(q)
        BY <2>2
      <3> QED BY <3>1 DEF Quota
    <2> QED BY <2>1, <2>2
  <1> QED BY <1>4, <1>5 DEF Quota

LEMMA BoundIsQuota == AdmissionBound <=> Quota(Submitted(now))
  BY DEF AdmissionBound, Quota

LEMMA InitBound == Init => AdmissionBound
  <1> SUFFICES ASSUME Init PROVE Quota(Submitted(now))
    BY BoundIsQuota
  <1>1. Submitted(now) = {}
    BY DEF Init, Submitted, ActiveRuns, Active, NoRow
  <1>2. \A q \in Runs : {} \cap InWorkspaceOf(q) = {}
    OBVIOUS
  <1> QED BY <1>1, <1>2, FS_EmptySet, LeaseAssumption DEF Quota

LEMMA StepBound ==
    ASSUME Timely, BaseInv, TimelyInv, AdmissionBound, [Next]_vars
    PROVE  AdmissionBound'
  <1> DEFINE S == Submitted(now)
             T == Submitted(now)'
  <1>1. Quota(S) /\ S \in SUBSET Runs /\ T \in SUBSET Runs
    BY BoundIsQuota DEF Submitted, ActiveRuns
  <1>2. SUFFICES Quota(T)
    BY DEF AdmissionBound, Quota
  <1>3. ASSUME NEW w \in Workers, CommitClaim(w) PROVE Quota(T)
    <2> DEFINE r == call[w].run
               t == call[w].at
    <2>1. r \in Runs /\ t \in Nat /\ now \in Nat /\ t <= now /\ now' = now
      BY <1>3, CallShape DEF CommitClaim, Idle, BaseInv, TypeOK, Time, CallsReadThePast
    <2>2. CASE UNCHANGED lease
      BY <1>1, <2>1, <2>2 DEF Submitted, ActiveRuns, Active
    <2>3. CASE /\ Admits(call[w].op, r, t)
               /\ lease' = [lease EXCEPT ![r] =
                              [owner |-> w, expiry |-> t + TTL, via |-> call[w].op]]
      <3>1. /\ lease'[r].via = call[w].op
            /\ \A q \in Runs : q # r => lease'[q] = lease[q]
        BY <2>1, <2>3 DEF BaseInv, TypeOK
      <3>2. CASE call[w].op = "recover"
        <4>1. T \in SUBSET S
          BY <2>1, <3>1, <3>2 DEF Submitted, ActiveRuns, Active
        <4> QED BY <1>1, <4>1, QuotaShrinks
      <3>3. CASE call[w].op = "submit"
        <4>1. /\ Cardinality(ActiveRuns(t)) < GlobalLimit
              /\ Cardinality(ActiveRuns(t) \cap InWorkspaceOf(r)) < Limit
          BY <2>3, <3>3 DEF Admits
        <4>2. S \subseteq ActiveRuns(t) /\ ActiveRuns(t) \in SUBSET Runs
          BY <2>1 DEF Submitted, ActiveRuns, Active, BaseInv, TypeOK, Row
        <4>3. Quota(S \cup {r})
          BY <1>1, <2>1, <4>1, <4>2, QuotaAdmits
        <4>4. T \in SUBSET (S \cup {r})
          BY <2>1, <3>1 DEF Submitted, ActiveRuns, Active
        <4>5. S \cup {r} \in SUBSET Runs
          BY <1>1, <2>1
        <4> QED BY <4>3, <4>4, <4>5, QuotaShrinks
      <3> QED BY <1>3, <3>2, <3>3 DEF CommitClaim
    <2> QED BY <1>3, <2>2, <2>3 DEF CommitClaim
  <1>4. ASSUME NEW w \in Workers, CommitRenew(w) PROVE T \in SUBSET S
    <2> DEFINE r == call[w].run
    <2>1. r \in Runs /\ Active(r, now)
      BY <1>4, RenewalSucceeds
    <2>2. lease' = [lease EXCEPT ![r] =
                      [owner |-> w, expiry |-> call[w].at + TTL, via |-> lease[r].via]]
      BY <1>4, RenewalSucceeds
    <2>3. /\ lease'[r].via = lease[r].via /\ now' = now
          /\ \A q \in Runs : q # r => lease'[q] = lease[q]
      BY <1>4, <2>1, <2>2 DEF CommitRenew, BaseInv, TypeOK
    <2> QED BY <2>1, <2>3 DEF Submitted, ActiveRuns, Active
  <1>5. CASE Tick
    <2>1. now \in Nat /\ now' = now + 1 /\ lease' = lease
      BY <1>5 DEF Tick, BaseInv, TypeOK, Time
    <2>2. T \in SUBSET S
      BY <2>1 DEF Submitted, ActiveRuns, Active, BaseInv, TypeOK, Row
    <2> QED BY <1>1, <2>2, QuotaShrinks
  <1>6. ASSUME NEW w \in Workers, NEW r \in Runs, Release(w, r) PROVE T \in SUBSET S
    <2>1. now' = now /\ \A q \in Runs : lease'[q] \in {lease[q], NoRow}
      BY <1>6 DEF Release, Unlease, BaseInv, TypeOK
    <2> QED BY <2>1 DEF Submitted, ActiveRuns, Active, NoRow
  <1>7. ASSUME UNCHANGED <<now, lease>> PROVE Quota(T)
    BY <1>1, <1>7 DEF Submitted, ActiveRuns, Active
  <1>8. ASSUME NEW w \in Workers, WorkerStep(w) PROVE Quota(T)
    <2>1. ASSUME NEW r \in Runs, NEW op \in {"submit", "recover"}, StartClaim(w, r, op)
          PROVE  Quota(T)
      BY <1>7, <2>1 DEF StartClaim
    <2>2. ASSUME NEW r \in Runs, StartRenew(w, r) PROVE Quota(T)
      BY <1>7, <2>2 DEF StartRenew
    <2>3. CASE Crash(w) \/ \E r \in Runs : Abandon(w, r)
      BY <1>7, <2>3 DEF Crash, Abandon
    <2>4. CASE CommitRenew(w) \/ \E r \in Runs : Release(w, r)
      BY <1>1, <1>4, <1>6, <2>4, QuotaShrinks
    <2> QED BY <1>3, <1>8, <2>1, <2>2, <2>3, <2>4 DEF WorkerStep
  <1>9. CASE UNCHANGED vars
    BY <1>7, <1>9 DEF vars
  <1> QED BY <1>5, <1>8, <1>9 DEF Next

(* Submitted runs never hold more leases than the limits, although a claim  *)
(* counts with a stale clock and a renewal does not count.                  *)
THEOREM AdmissionBoundHolds == ASSUME Timely PROVE Spec => []AdmissionBound
  <1>1. Init => BaseInv /\ TimelyInv /\ AdmissionBound
    BY InitBase, InitTimely, InitBound
  <1>2. BaseInv /\ TimelyInv /\ AdmissionBound /\ [Next]_vars
        => BaseInv' /\ TimelyInv' /\ AdmissionBound'
    BY StepBase, StepTimely, StepBound
  <1> QED BY <1>1, <1>2, PTL DEF Spec

----------------------------------------------------------------------------
(* The refinement of LeaseHolders.                                          *)

HoldInv == BaseInv /\ TimelyInv

(* What is executed is leased at this moment. *)
ExecutionsAreActive ==
    \A w \in Workers, r \in Runs : task[w][r] # "none" => Active(r, now)

LEMMA HoldIsActive == ASSUME Timely, HoldInv PROVE ExecutionsAreActive
BY SecureIsActive DEF HoldInv, ExecutionsAreActive

(* While time passes only the rows of the dead run out. *)
LEMMA TickLapses ==
    ASSUME HoldInv, ExecutionsAreActive', Tick
    PROVE  Holders!Next
  <1> DEFINE rs == {r \in Runs : held[r] = "orphan" /\ ~Active(r, now)'}
  <1>1. now \in Nat /\ now' = now + 1 /\ UNCHANGED <<lease, task, alive>>
    BY LeaseAssumption DEF Tick, HoldInv, BaseInv, TypeOK, Time
  <1>2. ASSUME NEW r \in Runs
        PROVE  Holder(r)' = IF r \in rs THEN Nobody ELSE held[r]
    <2>1. lease[r].expiry \in Nat /\ lease[r].owner \in Workers \cup {Nobody}
      BY DEF HoldInv, BaseInv, TypeOK, Row
    <2>2. CASE ~Active(r, now)
      <3>1. ~Active(r, now)'
        BY <1>1, <2>1, <2>2 DEF Active
      <3> QED BY <2>2, <3>1 DEF held, Holder
    <2>3. CASE Active(r, now) /\ Owned(r)
      <3>1. lease[r].owner \in Workers
        BY <2>1, <2>3 DEF Active
      <3>2. Active(r, now)' /\ Owned(r)'
        BY <1>1, <2>3, <3>1 DEF ExecutionsAreActive, Owned
      <3>3. held[r] = lease[r].owner /\ Holder(r)' = lease[r].owner
        BY <1>1, <2>3, <3>2 DEF held, Holder
      <3> QED BY <3>2, <3>3
    <2>4. CASE Active(r, now) /\ ~Owned(r)
      <3>1. held[r] = "orphan" /\ ~Owned(r)'
        BY <1>1, <2>4 DEF held, Holder, Owned
      <3> QED BY <1>1, <3>1 DEF Holder
    <2> QED BY <2>2, <2>3, <2>4
  <1>3. Holders!Lapse(rs)
    BY <1>2 DEF Holders!Lapse, held
  <1> QED BY <1>3 DEF Holders!Next

(* A claim that commits found the run free, and is unexpired at once. *)
LEMMA ClaimHolds ==
    ASSUME Timely, HoldInv, NEW w \in Workers, CommitClaim(w)
    PROVE  [Holders!Next]_held
  <1>1. PICK r \in Runs, t \in Nat :
        /\ r = call[w].run /\ t = call[w].at /\ now \in Nat /\ TTL \in Nat
        /\ t <= now /\ now < t + TTL /\ ~Renewable(w, r, t)
        /\ UNCHANGED <<now, alive>> /\ w \in alive /\ w # Nobody
    <2> DEFINE r == call[w].run
               t == call[w].at
    <2>1. /\ r \in Runs /\ t \in Nat /\ now \in Nat /\ t <= now /\ now <= t + Delay
          /\ TTL \in Nat /\ Delay \in Nat /\ Beat \in Nat /\ Beat + 2 * Delay < TTL
      BY CallShape, LeaseAssumption, TimelyAssumption
         DEF CommitClaim, HoldInv, BaseInv, TypeOK, Time, CallsReadThePast, TimelyInv,
             CallsArePrompt
    <2>2. now < t + TTL
      BY <2>1
    <2>3. ~Renewable(w, r, t)
      BY DEF HoldInv, TimelyInv, ClaimsLackALease, CommitClaim
    <2> QED BY <2>1, <2>2, <2>3, LeaseAssumption DEF CommitClaim
  <1>2. CASE UNCHANGED <<lease, task>>
    BY <1>1, <1>2 DEF held, Holder, Owned, Active
  <1>3. CASE Active(r, t) /\ lease[r].owner = w
    BY <1>1, <1>3 DEF Active, Renewable
  <1>4. CASE /\ ~Active(r, t)
             /\ lease' = [lease EXCEPT ![r] =
                    [owner |-> w, expiry |-> t + TTL, via |-> call[w].op]]
             /\ Granted(w, r)
    <2>1. held[r] = Nobody
      <3>1. lease[r].expiry \in Nat
        BY <1>1 DEF HoldInv, BaseInv, TypeOK, Row
      <3>2. ~Active(r, now)
        BY <1>1, <1>4, <3>1 DEF Active
      <3> QED BY <1>1, <3>2 DEF held, Holder
    <2>2. /\ lease'[r] = [owner |-> w, expiry |-> t + TTL, via |-> call[w].op]
          /\ task'[w][r] = "running"
      BY <1>1, <1>4 DEF HoldInv, BaseInv, TypeOK, Granted
    <2>3. Holder(r)' = w
      BY <1>1, <2>2 DEF Holder, Owned, Active
    <2>4. ASSUME NEW q \in Runs, q # r PROVE Holder(q)' = Holder(q)
      <3>1. lease'[q] = lease[q] /\ \A v \in Workers : task'[v][q] = task[v][q]
        BY <1>4, <2>4 DEF HoldInv, BaseInv, TypeOK, Granted
      <3>2. alive \subseteq Workers
        BY DEF HoldInv, BaseInv, TypeOK
      <3> QED BY <1>1, <3>1, <3>2 DEF Holder, Owned, Active
    <2>5. Holders!Claim(w, r)
      BY <1>1, <2>1, <2>3, <2>4 DEF Holders!Claim, Holders!Passes, held
    <2> QED BY <1>1, <2>5 DEF Holders!Next
  <1> QED BY <1>1, <1>2, <1>3, <1>4 DEF CommitClaim

(* A renewal changes how long a lease lasts and not who holds it. *)
LEMMA RenewalHolds ==
    ASSUME Timely, HoldInv, NEW w \in Workers, CommitRenew(w)
    PROVE  held' = held
  <1>1. PICK r \in Runs, t \in Nat :
        /\ r = call[w].run /\ t = call[w].at /\ now \in Nat /\ TTL \in Nat /\ now < t + TTL
        /\ UNCHANGED <<now, alive>> /\ w \in alive /\ w # Nobody
    <2> DEFINE r == call[w].run
               t == call[w].at
    <2>1. /\ r \in Runs /\ t \in Nat /\ now \in Nat /\ now <= t + Delay
          /\ TTL \in Nat /\ Delay \in Nat /\ Beat \in Nat /\ Beat + 2 * Delay < TTL
      BY CallShape, LeaseAssumption, TimelyAssumption
         DEF CommitRenew, HoldInv, BaseInv, TypeOK, Time, TimelyInv, CallsArePrompt
    <2>2. now < t + TTL
      BY <2>1
    <2> QED BY <2>1, <2>2, LeaseAssumption DEF CommitRenew
  <1>2. /\ task[w][r] = "running" /\ Active(r, now) /\ UNCHANGED task
        /\ lease' = [lease EXCEPT ![r] =
              [owner |-> w, expiry |-> t + TTL, via |-> lease[r].via]]
    BY <1>1, RenewalSucceeds DEF HoldInv
  <1>3. lease[r].owner = w
    BY <1>1, <1>2, SecureIsActive DEF HoldInv
  <1>4. lease'[r].owner = w /\ lease'[r].expiry = t + TTL
    BY <1>1, <1>2 DEF HoldInv, BaseInv, TypeOK
  <1>5. Holder(r)' = Holder(r)
    BY <1>1, <1>2, <1>3, <1>4 DEF Holder, Owned, Active
  <1>6. ASSUME NEW q \in Runs, q # r PROVE Holder(q)' = Holder(q)
    <2>1. lease'[q] = lease[q]
      BY <1>2, <1>6 DEF HoldInv, BaseInv, TypeOK
    <2> QED BY <1>1, <1>2, <2>1 DEF Holder, Owned, Active
  <1> QED BY <1>5, <1>6 DEF held

(* A task that ends gives back what its worker holds, or forgets it. *)
LEMMA ReleaseHolds ==
    ASSUME Timely, HoldInv, NEW w \in Workers, NEW r \in Runs,
           Release(w, r) \/ Abandon(w, r)
    PROVE  Holders!Next
  <1>1. /\ w \in alive /\ task[w][r] # "none" /\ UNCHANGED <<now, alive>>
        /\ task' = [task EXCEPT ![w][r] = "none"]
        /\ Unlease(w, r) \/ UNCHANGED lease
    BY DEF Release, Abandon
  <1>2. lease[r].owner = w /\ Active(r, now)
    BY <1>1, SecureIsActive DEF HoldInv
  <1>3. /\ \A q \in Runs : q # r => lease'[q] = lease[q]
        /\ \A v \in Workers, q \in Runs : q # r => task'[v][q] = task[v][q]
        /\ task'[w][r] = "none" /\ alive \subseteq Workers
    BY <1>1, <1>2 DEF Unlease, HoldInv, BaseInv, TypeOK
  <1>4. held[r] = w
    BY <1>1, <1>2 DEF held, Holder, Owned
  <1>5. \A q \in Runs : q # r => Holder(q)' = Holder(q)
    BY <1>1, <1>3 DEF Holder, Owned, Active
  <1>6. CASE Unlease(w, r)
    <2>1. lease'[r] = NoRow
      BY <1>2, <1>6 DEF Unlease, HoldInv, BaseInv, TypeOK
    <2>2. Holder(r)' = Nobody
      BY <2>1 DEF Holder, Active, NoRow
    <2>3. Holders!Release(w, r)
      BY <1>4, <1>5, <2>2 DEF Holders!Release, Holders!Passes, held
    <2> QED BY <2>3 DEF Holders!Next
  <1>7. CASE UNCHANGED lease
    <2>1. Holder(r)' = "orphan"
      BY <1>1, <1>2, <1>3, <1>7 DEF Holder, Owned, Active
    <2>2. Holders!Abandon(w, r)
      BY <1>4, <1>5, <2>1 DEF Holders!Abandon, Holders!Passes, held
    <2> QED BY <2>2 DEF Holders!Next
  <1> QED BY <1>1, <1>6, <1>7

LEMMA CrashHolds ==
    ASSUME HoldInv, NEW w \in Workers, Crash(w)
    PROVE  Holders!Next
  <1>1. /\ w \in alive /\ alive' = alive \ {w} /\ UNCHANGED <<now, lease>>
        /\ task' = [task EXCEPT ![w] = [r \in Runs |-> "none"]]
    BY DEF Crash
  <1>2. w # Nobody /\ alive \subseteq Workers
    BY LeaseAssumption DEF HoldInv, BaseInv, TypeOK
  <1>3. ASSUME NEW r \in Runs
        PROVE  /\ Active(r, now)' = Active(r, now)
               /\ Owned(r)' <=> Owned(r) /\ lease[r].owner # w
    BY <1>1, <1>2 DEF Active, Owned, HoldInv, BaseInv, TypeOK
  <1>4. ASSUME NEW r \in Runs
        PROVE  Holder(r)' = IF held[r] = w THEN "orphan" ELSE held[r]
    BY <1>1, <1>2, <1>3 DEF held, Holder
  <1>5. Holders!Die(w)
    BY <1>4 DEF Holders!Die, held
  <1> QED BY <1>5 DEF Holders!Next

LEMMA StepHolders ==
    ASSUME Timely, HoldInv, ExecutionsAreActive', [Next]_vars
    PROVE  [Holders!Next]_held
  <1>1. ASSUME UNCHANGED <<now, lease, alive, task>> PROVE held' = held
    BY <1>1 DEF held, Holder, Owned, Active
  <1>2. ASSUME NEW w \in Workers, WorkerStep(w) PROVE [Holders!Next]_held
    <2>1. ASSUME NEW r \in Runs, NEW op \in {"submit", "recover"}, StartClaim(w, r, op)
          PROVE  UNCHANGED <<now, lease, alive, task>>
      BY <2>1 DEF StartClaim
    <2>2. ASSUME NEW r \in Runs, StartRenew(w, r) PROVE UNCHANGED <<now, lease, alive, task>>
      BY <2>2 DEF StartRenew
    <2> QED BY <1>1, <1>2, <2>1, <2>2, ClaimHolds, RenewalHolds, ReleaseHolds, CrashHolds
            DEF WorkerStep
  <1>3. CASE Tick
    BY <1>3, TickLapses
  <1>4. CASE UNCHANGED vars
    BY <1>1, <1>4 DEF vars
  <1> QED BY <1>2, <1>3, <1>4 DEF Next

(* The lease table keeps the promise of LeaseHolders, on which the managers  *)
(* of runs and of generation jobs are modelled, if live workers are on time *)
(* (leases.py with the heartbeats of manager.py and main.py).               *)
THEOREM ImplementsHoldersHolds == ASSUME Timely PROVE Spec => ImplementsHolders
  <1>1. Init => HoldInv
    BY InitBase, InitTimely DEF HoldInv
  <1>2. HoldInv /\ [Next]_vars => HoldInv'
    BY StepBase, StepTimely DEF HoldInv
  <1>3. HoldInv => ExecutionsAreActive
    BY HoldIsActive
  <1>4. Init => Holders!Init
    BY DEF Init, Holders!Init, held, Holder, Active, NoRow
  <1>5. HoldInv /\ ExecutionsAreActive' /\ [Next]_vars => [Holders!Next]_held
    BY StepHolders
  <1> QED BY <1>1, <1>2, <1>3, <1>4, <1>5, PTL DEF Spec, ImplementsHolders, Holders!Spec

=============================================================================

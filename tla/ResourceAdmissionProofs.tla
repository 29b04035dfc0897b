----------------------- MODULE ResourceAdmissionProofs -----------------------
(***************************************************************************)
(* Proofs about ResourceAdmission, for any requests, wants and hosts.       *)
(* NoOvertaking is not inductive: it needs that the queue is ordered by     *)
(* arrival, whatever was removed from its middle, and that an execution     *)
(* arrives once.  Accounted needs that removing one execution removes no    *)
(* other.  NoOvercommit needs what a sum over a set is when an element is   *)
(* added or removed, which is proved by induction on its size, as the       *)
(* absence of a least counterexample.                                       *)
(***************************************************************************)
EXTENDS ResourceAdmission, SequenceTheorems, FiniteSetTheorems, WellFoundedInduction, TLAPS

Among(s, e) == \E i \in DOMAIN s : s[i] = e

Distinct(s) == \A i, j \in DOMAIN s : s[i] = s[j] => i = j

(* t is s without e, in the order of s. *)
Without(s, t, e) ==
    /\ ~Among(t, e)
    /\ \A i \in DOMAIN t : Among(s, t[i])
    /\ \A i \in DOMAIN s : s[i] # e => Among(t, s[i])
    /\ \A i, j \in DOMAIN t :
          i < j => \E k, l \in DOMAIN s : k < l /\ s[k] = t[i] /\ s[l] = t[j]

(* The queue is ordered by arrival, and nobody arrives twice. *)
Ordered ==
    /\ \A i, j \in DOMAIN waiting : i < j => Before(waiting[i], waiting[j])
    /\ \A i \in DOMAIN waiting : Among(arrived, waiting[i])
    /\ Distinct(arrived)
    /\ \A i \in DOMAIN arrived : pc[arrived[i]] # "new"

AdmissionInv == TypeOK /\ Accounted /\ Ordered

----------------------------------------------------------------------------
(* Sequences                                                                *)

LEMMA SequenceFacts ==
    ASSUME NEW S, NEW s \in Seq(S)
    PROVE  /\ Len(s) \in Nat
           /\ DOMAIN s = 1..Len(s)
           /\ \A i \in DOMAIN s : s[i] \in S
OBVIOUS

(* RemoveFirst takes out the one occurrence there may be. *)
LEMMA RemoveFirstWithout ==
    ASSUME NEW S, NEW s \in Seq(S), NEW e, Distinct(s)
    PROVE  RemoveFirst(s, e) \in Seq(S) /\ Without(s, RemoveFirst(s, e), e)
<1>1. CASE ~Among(s, e)
  <2>1. RemoveFirst(s, e) = s
    BY <1>1, SequenceFacts DEF RemoveFirst, Among
  <2>2. Without(s, s, e)
    BY <1>1 DEF Without, Among
  <2> QED BY <2>1, <2>2
<1>2. CASE Among(s, e)
  <2>1. PICK n \in 1..Len(s) : s[n] = e
    BY <1>2, SequenceFacts DEF Among
  <2>2. {i \in 1..Len(s) : s[i] = e} = {n}
    BY <2>1, SequenceFacts DEF Distinct
  <2>3. Min({n}) = n
    BY <2>1 DEF Min
  <2>4. SelectInSeq(s, LAMBDA v : v = e) = n
    BY <2>2, <2>3 DEF SelectInSeq
  <2>5. RemoveFirst(s, e) = SubSeq(s, 1, n - 1) \o SubSeq(s, n + 1, Len(s))
    BY <2>1, <2>4 DEF RemoveFirst, RemoveAt
  <2> DEFINE t == SubSeq(s, 1, n - 1) \o SubSeq(s, n + 1, Len(s))
  <2>6. /\ t \in Seq(S)
        /\ Len(t) = Len(s) - 1
        /\ \A i \in 1..Len(s) - 1 : t[i] = IF i < n THEN s[i] ELSE s[i + 1]
    <3> DEFINE left == SubSeq(s, 1, n - 1)
               right == SubSeq(s, n + 1, Len(s))
    <3>1. /\ left \in Seq(S) /\ Len(left) = n - 1
          /\ \A i \in 1..n - 1 : left[i] = s[i]
      <4>1. \A i \in 1..n - 1 : s[i] \in S
        BY <2>1
      <4>2. Len(left) = n - 1
        BY <2>1
      <4> QED BY <2>1, <4>1, <4>2
    <3>2. /\ right \in Seq(S) /\ Len(right) = Len(s) - n
          /\ \A i \in 1..Len(s) - n : right[i] = s[n + i]
      <4>1. \A i \in n + 1..Len(s) : s[i] \in S
        BY <2>1
      <4>2. Len(right) = Len(s) - n
        BY <2>1
      <4> QED BY <2>1, <4>1, <4>2
    <3>3. /\ left \o right \in Seq(S)
          /\ Len(left \o right) = Len(left) + Len(right)
          /\ \A i \in 1..Len(left) + Len(right) :
                (left \o right)[i] = IF i <= Len(left) THEN left[i] ELSE right[i - Len(left)]
      <4> HIDE DEF left, right
      <4> QED BY <3>1, <3>2, ConcatProperties
    <3>4. t = left \o right
      OBVIOUS
    <3> HIDE DEF left, right, t
    <3>5. Len(s) \in Nat /\ n \in 1..Len(s)
      BY <2>1
    <3>6. t \in Seq(S) /\ Len(t) = Len(s) - 1
      BY <3>1, <3>2, <3>3, <3>4, <3>5
    <3>7. ASSUME NEW i \in 1..Len(s) - 1
          PROVE  t[i] = IF i < n THEN s[i] ELSE s[i + 1]
      <4>1. t[i] = IF i <= n - 1 THEN left[i] ELSE right[i - (n - 1)]
        BY <3>1, <3>2, <3>3, <3>4, <3>5
      <4>2. CASE i < n
        BY <4>1, <4>2, <3>1, <3>5
      <4>3. CASE ~(i < n)
        <5>1. i - (n - 1) \in 1..Len(s) - n /\ n + (i - (n - 1)) = i + 1
          BY <4>3, <3>5
        <5>2. right[i - (n - 1)] = s[i + 1]
          BY <5>1, <3>2
        <5> QED BY <4>1, <4>3, <5>2, <3>5
      <4> QED BY <4>2, <4>3
    <3> QED BY <3>6, <3>7
  <2> HIDE DEF t
  <2>7. DOMAIN t = 1..Len(s) - 1 /\ DOMAIN s = 1..Len(s) /\ Len(s) \in Nat
    BY <2>6, SequenceFacts
  <2>8. ~Among(t, e)
    BY <2>1, <2>6, <2>7 DEF Among, Distinct
  <2>9. \A i \in DOMAIN t : Among(s, t[i])
    BY <2>1, <2>6, <2>7 DEF Among
  <2>10. ASSUME NEW i \in DOMAIN s, s[i] # e
         PROVE  Among(t, s[i])
    <3>1. CASE i < n
      BY <3>1, <2>1, <2>6, <2>7 DEF Among
    <3>2. CASE i > n
      <4>1. i - 1 \in DOMAIN t /\ t[i - 1] = s[i]
        BY <3>2, <2>1, <2>6, <2>7
      <4> QED BY <4>1 DEF Among
    <3> QED BY <3>1, <3>2, <2>1, <2>7, <2>10
  <2>11. ASSUME NEW i \in DOMAIN t, NEW j \in DOMAIN t, i < j
         PROVE  \E k, l \in DOMAIN s : k < l /\ s[k] = t[i] /\ s[l] = t[j]
    <3> DEFINE Place(m) == IF m < n THEN m ELSE m + 1
    <3>1. Place(i) \in DOMAIN s /\ Place(j) \in DOMAIN s /\ Place(i) < Place(j)
      BY <2>1, <2>7, <2>11
    <3>2. s[Place(i)] = t[i] /\ s[Place(j)] = t[j]
      BY <2>6, <2>7
    <3> QED BY <3>1, <3>2
  <2>12. Without(s, t, e)
    BY <2>8, <2>9, <2>10, <2>11 DEF Without
  <2>13. t = RemoveFirst(s, e)
    BY <2>5 DEF t
  <2> QED BY <2>6, <2>12, <2>13
<1> QED BY <1>1, <1>2

(* So does Tail, of the head. *)
LEMMA TailWithout ==
    ASSUME NEW S, NEW s \in Seq(S), s # <<>>, Distinct(s)
    PROVE  Tail(s) \in Seq(S) /\ Without(s, Tail(s), Head(s))
<1>1. /\ Tail(s) \in Seq(S)
      /\ DOMAIN s = 1..Len(s) /\ Len(s) \in Nat \ {0}
      /\ DOMAIN Tail(s) = 1..Len(s) - 1
      /\ \A i \in 1..Len(s) - 1 : Tail(s)[i] = s[i + 1]
      /\ Head(s) = s[1]
  OBVIOUS
<1>2. ~Among(Tail(s), Head(s))
  BY <1>1 DEF Among, Distinct
<1>3. \A i \in DOMAIN Tail(s) : Among(s, Tail(s)[i])
  BY <1>1 DEF Among
<1>4. ASSUME NEW i \in DOMAIN s, s[i] # Head(s)
      PROVE  Among(Tail(s), s[i])
  <2>1. i - 1 \in DOMAIN Tail(s) /\ Tail(s)[i - 1] = s[i]
    BY <1>1, <1>4
  <2> QED BY <2>1 DEF Among
<1>5. ASSUME NEW i \in DOMAIN Tail(s), NEW j \in DOMAIN Tail(s), i < j
      PROVE  \E k, l \in DOMAIN s : k < l /\ s[k] = Tail(s)[i] /\ s[l] = Tail(s)[j]
  <2>1. /\ i + 1 \in DOMAIN s /\ j + 1 \in DOMAIN s /\ i + 1 < j + 1
        /\ s[i + 1] = Tail(s)[i] /\ s[j + 1] = Tail(s)[j]
    BY <1>1, <1>5
  <2> QED BY <2>1
<1> QED BY <1>1, <1>2, <1>3, <1>4, <1>5 DEF Without

----------------------------------------------------------------------------
(* The effects a step has on the queue                                      *)

LEMMA AdmissionInvInitially == Init => AdmissionInv
BY DEF Init, AdmissionInv, TypeOK, Accounted, Ordered, Distinct, Among, Waiting

(* e leaves the queue, if it was in it, and is no longer waiting. *)
LEMMA LeavingKeeps ==
    ASSUME AdmissionInv, NEW e \in Requests, pc[e] # "new",
           NEW to \in {"running", "passed", "failed", "done"},
           pc' = [pc EXCEPT ![e] = to],
           active' = {f \in Requests : pc'[f] = "running"},
           waiting' \in Seq(Requests), Without(waiting, waiting', e),
           arrived' = arrived, cancelled' \in SUBSET Requests, overdue' \in SUBSET Requests
    PROVE  AdmissionInv'
<1> USE DEF AdmissionInv, TypeOK
<1>1. TypeOK'
  BY DEF Waiting
<1>2. \A f \in Requests : f # e => pc'[f] = pc[f]
  OBVIOUS
<1>3. pc'[e] = to /\ to \notin Waiting
  BY DEF Waiting
<1>4. \A f \in Requests : Among(waiting', f) => f # e /\ Among(waiting, f)
  BY DEF Without, Among
<1>5. \A f \in Requests : f # e /\ Among(waiting, f) => Among(waiting', f)
  BY DEF Without, Among
<1>6. DOMAIN waiting' = 1..Len(waiting') /\ Len(waiting') \in Nat
  BY SequenceFacts
<1>7. Accounted'
  <2>1. \A f \in Requests :
           /\ pc'[f] \in Waiting => Among(waiting', f)
           /\ pc'[f] \in {"new", "running", "passed", "done"} => ~Among(waiting', f)
    BY <1>2, <1>3, <1>4, <1>5 DEF Accounted, Among
  <2>2. ASSUME NEW i \in DOMAIN waiting', NEW j \in DOMAIN waiting', i < j
        PROVE  waiting'[i] # waiting'[j]
    <3>1. PICK k \in DOMAIN waiting, l \in DOMAIN waiting :
             k < l /\ waiting[k] = waiting'[i] /\ waiting[l] = waiting'[j]
      BY <2>2 DEF Without
    <3>2. k # l
      BY <3>1, SequenceFacts
    <3> QED BY <3>1, <3>2 DEF Accounted
  <2>3. \A i, j \in DOMAIN waiting' : i # j => i < j \/ j < i
    BY <1>6
  <2>4. \A i, j \in DOMAIN waiting' : waiting'[i] = waiting'[j] => i = j
    BY <2>2, <2>3
  <2> QED BY <2>1, <2>4 DEF Accounted, Among
<1>8. Ordered'
  <2>1. \A i, j \in DOMAIN waiting' : i < j => Before(waiting'[i], waiting'[j])
    BY DEF Without, Ordered
  <2>2. \A f, g : Before(f, g)' <=> Before(f, g)
    BY DEF Before
  <2>3. \A i \in DOMAIN waiting' : Among(arrived, waiting'[i])
    BY DEF Without, Ordered, Among
  <2>4. \A i \in DOMAIN arrived : arrived[i] \in Requests
    BY SequenceFacts
  <2>5. \A i \in DOMAIN arrived : pc'[arrived[i]] # "new"
    BY <1>2, <1>3, <2>4 DEF Ordered
  <2> QED BY <2>1, <2>2, <2>3, <2>5 DEF Ordered, Distinct, Among
<1> QED BY <1>1, <1>7, <1>8

(* e moves on and the queue does not change. *)
LEMMA MovingKeeps ==
    ASSUME AdmissionInv, NEW e \in Requests,
           NEW to \in Waiting \cup {"passed", "failed"},
           pc' = [pc EXCEPT ![e] = to], pc[e] # "running",
           to \in Waiting => pc[e] \in Waiting,
           to = "passed" => pc[e] = "new",
           UNCHANGED <<waiting, active, arrived>>,
           cancelled' \in SUBSET Requests, overdue' \in SUBSET Requests
    PROVE  AdmissionInv'
<1> USE DEF AdmissionInv, TypeOK
<1>1. TypeOK'
  BY DEF Waiting
<1>2. \A f \in Requests : f # e => pc'[f] = pc[f]
  OBVIOUS
<1>3. pc'[e] = to /\ to # "running" /\ to # "new" /\ to # "done"
  BY DEF Waiting
<1>4. Accounted'
  BY <1>2, <1>3 DEF Accounted
<1>5. Ordered'
  <2>1. \A i \in DOMAIN arrived : arrived[i] \in Requests
    BY SequenceFacts
  <2>2. \A i \in DOMAIN arrived : pc'[arrived[i]] # "new"
    BY <1>2, <1>3, <2>1 DEF Ordered
  <2> QED BY <2>2 DEF Ordered, Before, Distinct, Among
<1> QED BY <1>1, <1>4, <1>5

(* A new execution goes behind all others. *)
LEMMA EnqueueKeeps ==
    ASSUME AdmissionInv, NEW e \in Requests, Enqueue(e)
    PROVE  AdmissionInv'
<1> USE DEF AdmissionInv, TypeOK
<1>1. /\ pc[e] = "new" /\ pc' = [pc EXCEPT ![e] = "preparing"]
      /\ waiting' = Append(waiting, e) /\ arrived' = Append(arrived, e)
      /\ active' = active /\ overdue' = overdue /\ cancelled' = cancelled \ {e}
  BY DEF Enqueue, Moves
<1> DEFINE n == Len(waiting)
           m == Len(arrived)
<1>2. /\ n \in Nat /\ DOMAIN waiting = 1..n /\ DOMAIN waiting' = 1..n + 1
      /\ \A i \in 1..n : waiting'[i] = waiting[i]
      /\ waiting'[n + 1] = e /\ waiting' \in Seq(Requests)
      /\ \A i \in 1..n : waiting[i] \in Requests
  BY <1>1
<1>3. /\ m \in Nat /\ DOMAIN arrived = 1..m /\ DOMAIN arrived' = 1..m + 1
      /\ \A i \in 1..m : arrived'[i] = arrived[i]
      /\ arrived'[m + 1] = e /\ arrived' \in Seq(Requests)
      /\ \A i \in 1..m : arrived[i] \in Requests
  BY <1>1
<1> HIDE DEF n, m
<1>4. TypeOK'
  BY <1>1, <1>2, <1>3 DEF Waiting
<1>5. \A i \in 1..n : waiting[i] # e
  BY <1>1, <1>2 DEF Accounted
<1>6. \A i \in 1..m : arrived[i] # e
  BY <1>1, <1>3 DEF Ordered
<1>7. \A f \in Requests : f # e => pc'[f] = pc[f]
  BY <1>1
<1>8. pc'[e] = "preparing"
  BY <1>1
<1>9. Accounted'
  <2>1. active' = {f \in Requests : pc'[f] = "running"}
    BY <1>1, <1>7, <1>8 DEF Accounted
  <2>2. ASSUME NEW f \in Requests, pc'[f] \in Waiting
        PROVE  Among(waiting', f)
    <3>1. CASE f = e
      BY <3>1, <1>2 DEF Among
    <3>2. CASE f # e
      BY <3>2, <2>2, <1>2, <1>7 DEF Among, Accounted
    <3> QED BY <3>1, <3>2
  <2>3. ASSUME NEW f \in Requests, pc'[f] \in {"new", "running", "passed", "done"},
               NEW i \in DOMAIN waiting'
        PROVE  waiting'[i] # f
    <3>1. f # e
      BY <2>3, <1>8
    <3>2. \A j \in 1..n : waiting[j] # f
      BY <3>1, <2>3, <1>2, <1>7 DEF Accounted
    <3> QED BY <3>1, <3>2, <1>2
  <2>4. \A i, j \in DOMAIN waiting' : waiting'[i] = waiting'[j] => i = j
    BY <1>2, <1>5 DEF Accounted
  <2> QED BY <2>1, <2>2, <2>3, <2>4 DEF Accounted, Among
<1>10. Ordered'
  <2>1. Distinct(arrived')
    BY <1>3, <1>6 DEF Ordered, Distinct
  <2>2. \A i \in DOMAIN arrived' : pc'[arrived'[i]] # "new"
    BY <1>3, <1>7, <1>8 DEF Ordered
  <2>3. \A i \in DOMAIN waiting' : Among(arrived', waiting'[i])
    <3>1. ASSUME NEW i \in 1..n PROVE Among(arrived', waiting'[i])
      <4>1. PICK k \in 1..m : arrived[k] = waiting[i]
        BY <1>2, <1>3 DEF Ordered, Among
      <4>2. k \in DOMAIN arrived' /\ arrived'[k] = waiting'[i]
        BY <4>1, <1>2, <1>3
      <4> QED BY <4>2 DEF Among
    <3>2. Among(arrived', e)
      BY <1>3 DEF Among
    <3> QED BY <3>1, <3>2, <1>2
  <2>4. ASSUME NEW i \in DOMAIN waiting', NEW j \in DOMAIN waiting', i < j
        PROVE  \E k, l \in DOMAIN arrived' :
                  k < l /\ arrived'[k] = waiting'[i] /\ arrived'[l] = waiting'[j]
    <3>1. i \in 1..n /\ waiting'[i] = waiting[i]
      BY <2>4, <1>2
    <3>2. CASE j = n + 1
      <4>1. PICK k \in 1..m : arrived[k] = waiting[i]
        BY <3>1, <1>2, <1>3 DEF Ordered, Among
      <4>2. k \in DOMAIN arrived' /\ m + 1 \in DOMAIN arrived' /\ k < m + 1
        BY <1>3
      <4> QED BY <3>1, <3>2, <4>1, <4>2, <1>2, <1>3
    <3>3. CASE j \in 1..n
      <4>1. Before(waiting[i], waiting[j])
        BY <3>1, <3>3, <2>4, <1>2 DEF Ordered
      <4>2. PICK k \in 1..m, l \in 1..m :
               k < l /\ arrived[k] = waiting[i] /\ arrived[l] = waiting[j]
        BY <4>1, <1>3 DEF Before
      <4>3. /\ k \in DOMAIN arrived' /\ l \in DOMAIN arrived'
            /\ arrived'[k] = arrived[k] /\ arrived'[l] = arrived[l]
        BY <1>3
      <4> QED BY <3>1, <3>3, <4>2, <4>3, <1>2
    <3> QED BY <3>2, <3>3, <1>2
  <2> QED BY <2>1, <2>2, <2>3, <2>4 DEF Ordered, Before, Distinct, Among
<1> QED BY <1>4, <1>9, <1>10

(* Nothing that the queue depends on changes. *)
LEMMA MarkingKeeps ==
    ASSUME AdmissionInv, UNCHANGED <<waiting, active, pc, arrived>>,
           cancelled' \in SUBSET Requests, overdue' \in SUBSET Requests
    PROVE  AdmissionInv'
BY DEF AdmissionInv, TypeOK, Accounted, Ordered, Before, Distinct, Among

----------------------------------------------------------------------------
(* The steps                                                                *)

(* What RemoveWaiter(e) does to the queue. *)
LEMMA RemoveWaiterWithout ==
    ASSUME AdmissionInv, NEW e, RemoveWaiter(e)
    PROVE  waiting' \in Seq(Requests) /\ Without(waiting, waiting', e)
<1>1. waiting \in Seq(Requests) /\ Distinct(waiting)
  BY DEF AdmissionInv, TypeOK, Accounted, Distinct
<1> QED BY <1>1, RemoveFirstWithout DEF RemoveWaiter

LEMMA CheckKeeps ==
    ASSUME AdmissionInv, NEW e \in Requests, Check(e)
    PROVE  AdmissionInv'
<1> USE DEF Check, Moves
<1>1. /\ pc[e] = "check" /\ UNCHANGED <<active, cancelled, overdue, arrived>>
      /\ cancelled' \in SUBSET Requests /\ overdue' \in SUBSET Requests
  BY DEF AdmissionInv, TypeOK
<1>2. CASE e \in cancelled \cup overdue
  <2>1. pc' = [pc EXCEPT ![e] = "failed"] /\ RemoveWaiter(e)
    BY <1>2
  <2>2. active' = {f \in Requests : pc'[f] = "running"}
    BY <1>1, <2>1 DEF AdmissionInv, TypeOK, Accounted
  <2> QED BY <1>1, <2>1, <2>2, RemoveWaiterWithout, LeavingKeeps
<1>3. CASE e \notin cancelled \cup overdue
  <2>1. pc' = [pc EXCEPT ![e] = "try"] /\ waiting' = waiting
    BY <1>3
  <2> QED BY <1>1, <2>1, MovingKeeps DEF Waiting
<1> QED BY <1>2, <1>3

LEMMA TryKeeps ==
    ASSUME AdmissionInv, NEW e \in Requests, Try(e)
    PROVE  AdmissionInv'
<1> USE DEF Try, Moves
<1>1. /\ pc[e] = "try" /\ UNCHANGED <<cancelled, overdue, arrived>>
      /\ cancelled' \in SUBSET Requests /\ overdue' \in SUBSET Requests
  BY DEF AdmissionInv, TypeOK
<1>2. CASE IsNext(e) /\ Fits(e)
  <2>1. /\ pc' = [pc EXCEPT ![e] = "running"] /\ active' = active \cup {e}
        /\ waiting' = Tail(waiting) /\ waiting # <<>> /\ Head(waiting) = e
    BY <1>2 DEF IsNext
  <2>2. waiting' \in Seq(Requests) /\ Without(waiting, waiting', e)
    <3>1. waiting \in Seq(Requests) /\ Distinct(waiting)
      BY DEF AdmissionInv, TypeOK, Accounted, Distinct
    <3> QED BY <2>1, <3>1, TailWithout
  <2>3. active' = {f \in Requests : pc'[f] = "running"}
    BY <2>1 DEF AdmissionInv, TypeOK, Accounted
  <2> QED BY <1>1, <2>1, <2>2, <2>3, LeavingKeeps
<1>3. CASE ~(IsNext(e) /\ Fits(e))
  <2>1. pc' = [pc EXCEPT ![e] = "wait"] /\ UNCHANGED <<waiting, active>>
    BY <1>3
  <2> QED BY <1>1, <2>1, MovingKeeps DEF Waiting
<1> QED BY <1>2, <1>3

LEMMA FinishKeeps ==
    ASSUME AdmissionInv, NEW e \in Requests, Finish(e)
    PROVE  AdmissionInv'
<1>1. PICK to \in {"passed", "failed"} : pc[e] = "running" /\ pc' = [pc EXCEPT ![e] = to]
  BY DEF Finish, Moves
<1>2. /\ RemoveWaiter(e) /\ active' = active \ {e} /\ arrived' = arrived
      /\ cancelled' \in SUBSET Requests /\ overdue' \in SUBSET Requests
  BY DEF Finish, AdmissionInv, TypeOK
<1>3. active' = {f \in Requests : pc'[f] = "running"}
  BY <1>1, <1>2 DEF AdmissionInv, TypeOK, Accounted
<1> QED BY <1>1, <1>2, <1>3, RemoveWaiterWithout, LeavingKeeps

LEMMA LeaveKeeps ==
    ASSUME AdmissionInv, NEW e \in Requests, Leave(e)
    PROVE  AdmissionInv'
<1>1. pc[e] \in {"passed", "failed"} /\ pc' = [pc EXCEPT ![e] = "done"]
  BY DEF Leave, Moves
<1>2. /\ RemoveWaiter(e) /\ active' = active \ {e} /\ arrived' = arrived
      /\ cancelled' \in SUBSET Requests /\ overdue' \in SUBSET Requests
  BY DEF Leave, AdmissionInv, TypeOK
<1>3. active' = {f \in Requests : pc'[f] = "running"}
  BY <1>1, <1>2 DEF AdmissionInv, TypeOK, Accounted
<1> QED BY <1>1, <1>2, <1>3, RemoveWaiterWithout, LeavingKeeps

LEMMA RequestKeeps ==
    ASSUME AdmissionInv, NEW e \in Requests,
           Enqueue(e) \/ Bypass(e) \/ Worker(e) \/ Leave(e) \/ Cancel(e) \/ Expire(e)
    PROVE  AdmissionInv'
<1>1. cancelled \in SUBSET Requests /\ overdue \in SUBSET Requests
  BY DEF AdmissionInv, TypeOK
<1>2. CASE Bypass(e)
  <2>1. PICK to \in {"passed", "failed"} : pc[e] = "new" /\ pc' = [pc EXCEPT ![e] = to]
    BY <1>2 DEF Bypass, Moves
  <2>2. /\ UNCHANGED <<waiting, active, overdue, arrived>>
        /\ cancelled' \in SUBSET Requests /\ overdue' \in SUBSET Requests
    BY <1>1, <1>2 DEF Bypass
  <2> QED BY <2>1, <2>2, MovingKeeps DEF Waiting
<1>3. CASE Acquire(e)
  BY <1>1, <1>3, MovingKeeps DEF Acquire, Moves, Waiting
<1>4. CASE Abandon(e)
  BY <1>1, <1>4, MovingKeeps DEF Abandon, Moves, Waiting
<1>5. CASE Wake(e)
  BY <1>1, <1>5, MovingKeeps DEF Wake, Moves, Waiting
<1>6. CASE Cancel(e)
  BY <1>1, <1>6, MarkingKeeps DEF Cancel
<1>7. CASE Expire(e)
  BY <1>1, <1>7, MarkingKeeps DEF Expire
<1> QED BY <1>2, <1>3, <1>4, <1>5, <1>6, <1>7,
           EnqueueKeeps, CheckKeeps, TryKeeps, FinishKeeps, LeaveKeeps DEF Worker

LEMMA AdmissionInvKept == AdmissionInv /\ [Next]_vars => AdmissionInv'
<1> SUFFICES ASSUME AdmissionInv, [Next]_vars PROVE AdmissionInv'
  OBVIOUS
<1>1. CASE Next
  BY <1>1, RequestKeeps DEF Next
<1>2. CASE UNCHANGED vars
  BY <1>2, MarkingKeeps DEF vars, AdmissionInv, TypeOK
<1> QED BY <1>1, <1>2

LEMMA AdmissionInvariant == Spec => []AdmissionInv
BY AdmissionInvInitially, AdmissionInvKept, PTL DEF Spec

(* The queue, the reservations and the progress of every execution keep     *)
(* their types.                                                             *)
THEOREM AdmissionTypeCorrect == Spec => []TypeOK
BY AdmissionInvariant, PTL DEF AdmissionInv

(* Whatever leaves the queue, and however often an execution is released,   *)
(* reservations belong to running containers and places to who waits.       *)
THEOREM AccountedHolds == Spec => []Accounted
BY AdmissionInvariant, PTL DEF AdmissionInv

(* A step that admits an execution admits the head of the queue, and what   *)
(* is ahead of the head by arrival waits no more.                           *)
Admitting == \A e \in active' \ active : \A f \in Requests : Before(f, e) => pc[f] \notin Waiting

LEMMA HeadArrivedFirst ==
    ASSUME AdmissionInv, waiting # <<>>, NEW f \in Requests, pc[f] \in Waiting
    PROVE  ~Before(f, Head(waiting))
<1> DEFINE e == Head(waiting)
<1>1. /\ DOMAIN waiting = 1..Len(waiting) /\ Len(waiting) \in Nat \ {0} /\ e = waiting[1]
      /\ DOMAIN arrived = 1..Len(arrived) /\ Len(arrived) \in Nat
  BY DEF AdmissionInv, TypeOK
<1>2. PICK i \in DOMAIN waiting : waiting[i] = f
  BY DEF AdmissionInv, Accounted
<1>3. SUFFICES ASSUME NEW k \in DOMAIN arrived, NEW l \in DOMAIN arrived,
                      k < l, arrived[k] = f, arrived[l] = e
               PROVE  FALSE
  BY DEF Before
<1>4. Distinct(arrived)
  BY DEF AdmissionInv, Ordered
<1>5. CASE i = 1
  <2>1. k = l
    BY <1>1, <1>2, <1>3, <1>4, <1>5 DEF Distinct
  <2> QED BY <2>1, <1>1, <1>3
<1>6. CASE i # 1
  <2>1. 1 \in DOMAIN waiting /\ 1 < i
    BY <1>1, <1>6
  <2>2. Before(e, f)
    BY <1>1, <1>2, <2>1 DEF AdmissionInv, Ordered
  <2>3. PICK a \in DOMAIN arrived, b \in DOMAIN arrived :
           a < b /\ arrived[a] = e /\ arrived[b] = f
    BY <2>2 DEF Before
  <2>4. a = l /\ b = k
    BY <1>3, <1>4, <2>3 DEF Distinct
  <2> QED BY <1>1, <1>3, <2>3, <2>4
<1> QED BY <1>5, <1>6

LEMMA StepAdmitsInOrder == AdmissionInv /\ [Next]_vars => Admitting
<1> SUFFICES ASSUME AdmissionInv, Next, NEW e \in active' \ active, NEW f \in Requests,
                    pc[f] \in Waiting
             PROVE  ~Before(f, e)
  BY DEF Admitting, vars
<1>1. PICK g \in Requests :
         Enqueue(g) \/ Bypass(g) \/ Worker(g) \/ Leave(g) \/ Cancel(g) \/ Expire(g)
  BY DEF Next
<1>2. Try(g) /\ IsNext(g) /\ Fits(g)
  BY <1>1 DEF Enqueue, Bypass, Worker, Acquire, Abandon, Check, Try, Wake, Finish, Leave, Cancel, Expire
<1>3. e = g /\ waiting # <<>> /\ Head(waiting) = e
  BY <1>2 DEF Try, IsNext
<1> QED BY <1>3, HeadArrivedFirst

(* No execution is admitted before one that arrived earlier and waits.      *)
THEOREM NoOvertakingHolds == Spec => NoOvertaking
<1>1. AdmissionInv /\ [Next]_vars =>
         [\A e \in active' \ active : \A f \in Requests : Before(f, e) => pc[f] \notin Waiting]_vars
  BY StepAdmitsInOrder DEF Admitting
<1> QED BY <1>1, AdmissionInvariant, PTL DEF Spec, NoOvertaking

----------------------------------------------------------------------------
(* Sums over sets of executions                                             *)

(* The order in which MapThenSumSet takes the elements of a set. *)
Pick(s) == CHOOSE x \in s : TRUE

Load(s, total, k) ==
    IF s = {} THEN 0 ELSE Allocation(Pick(s))[k] + total[s \ {Pick(s)}]

Totals(S, k) == CHOOSE total : total = [s \in SUBSET S |-> Load(s, total, k)]

(* What the executions of S reserve. *)
Reserved(S, k) == Totals(S, k)[S]

LEMMA UsedIsReserved ==
    ASSUME NEW k
    PROVE  Used(k) = Reserved(active, k) /\ Used(k)' = Reserved(active', k)
BY DEF Used, MapThenSumSet, MapThenFoldSet, Reserved, Totals, Load, Pick

(* Every set of numbers has a least one.  The library has induction over    *)
(* finite sets as a fact about minimal elements: a number is taken for the  *)
(* interval it bounds.                                                      *)
LEMMA LeastNumber ==
    ASSUME NEW T \in SUBSET Nat, T # {}
    PROVE  \E n \in T : \A m \in T : n <= m
<1> DEFINE Up(n) == 1..n
           Us == {Up(n) : n \in T}
<1>1. Us \subseteq FiniteSubsetsOf(Nat) /\ Us # {}
  <2>1. ASSUME NEW n \in T PROVE IsFiniteSet(1..n)
    BY FS_Interval
  <2>2. \A n \in T : Up(n) \in SUBSET Nat
    OBVIOUS
  <2> HIDE DEF Up
  <2> QED BY <2>1, <2>2 DEF FiniteSubsetsOf, Up
<1>2. IsWellFoundedOn(StrictSubsetOrdering(Nat), FiniteSubsetsOf(Nat))
  BY FS_StrictSubsetOrderingWellFounded
<1> HIDE DEF Us
<1>3. PICK U \in Us : \A V \in Us : ~(<<V, U>> \in StrictSubsetOrdering(Nat))
  BY <1>1, <1>2, WFMin
<1>4. PICK n \in T : U = Up(n)
  BY <1>3 DEF Us
<1>5. ASSUME NEW m \in T, m < n PROVE FALSE
  <2>1. Up(m) \subseteq Up(n) /\ Up(m) # Up(n) /\ Up(m) \in SUBSET Nat /\ Up(n) \in SUBSET Nat
    BY <1>5
  <2>2. <<Up(m), Up(n)>> \in StrictSubsetOrdering(Nat)
    BY <2>1 DEF StrictSubsetOrdering
  <2>3. Up(m) \in Us
    BY DEF Us
  <2> QED BY <1>3, <1>4, <2>2, <2>3
<1> QED BY <1>5

(* Allocations are natural numbers, and so is what is left of the host.     *)
LEMMA MaxOfTwo ==
    ASSUME NEW a \in Int, NEW b \in Int
    PROVE  Max({a, b}) = IF a >= b THEN a ELSE b
BY DEF Max

LEMMA AllocationType ==
    ASSUME NEW e \in Requests, NEW k \in Kinds
    PROVE  Allocation(e)[k] \in Nat
<1>1. Wants[e][k] \in Nat /\ Host[k] \in Nat /\ Floor[k] \in Nat
  BY AdmissionAssumption
<1>2. Min({Wants[e][k], Host[k]}) \in Nat
  BY <1>1 DEF Min
<1> QED BY <1>1, <1>2, MaxOfTwo DEF Allocation

(* The recursion has a solution: one that is right for all sets of at most  *)
(* n elements gives one for n + 1.                                          *)
Solves(S, total, k, n) ==
    /\ total \in [SUBSET S -> Nat]
    /\ \A s \in SUBSET S : Cardinality(s) <= n => total[s] = Load(s, total, k)

LEMMA PickFacts ==
    ASSUME NEW S \in SUBSET Requests, IsFiniteSet(S), NEW s \in SUBSET S, s # {}
    PROVE  /\ Pick(s) \in s
           /\ s \ {Pick(s)} \in SUBSET S
           /\ Cardinality(s) \in Nat
           /\ Cardinality(s \ {Pick(s)}) = Cardinality(s) - 1
<1>1. Pick(s) \in s
  BY DEF Pick
<1>2. IsFiniteSet(s)
  BY FS_Subset
<1> QED BY <1>1, <1>2, FS_RemoveElement, FS_CardinalityType

LEMMA LoadType ==
    ASSUME NEW S \in SUBSET Requests, IsFiniteSet(S), NEW k \in Kinds,
           NEW total \in [SUBSET S -> Nat], NEW s \in SUBSET S
    PROVE  Load(s, total, k) \in Nat
<1>1. CASE s = {}
  BY <1>1 DEF Load
<1>2. CASE s # {}
  BY <1>2, PickFacts, AllocationType DEF Load
<1> QED BY <1>1, <1>2

LEMMA SolutionGrows ==
    ASSUME NEW S \in SUBSET Requests, IsFiniteSet(S), NEW k \in Kinds, NEW n \in Nat,
           NEW total, Solves(S, total, k, n)
    PROVE  Solves(S, [s \in SUBSET S |-> Load(s, total, k)], k, n + 1)
<1> DEFINE next == [s \in SUBSET S |-> Load(s, total, k)]
<1>1. next \in [SUBSET S -> Nat]
  BY LoadType DEF Solves
<1>2. ASSUME NEW s \in SUBSET S, Cardinality(s) <= n + 1
      PROVE  next[s] = Load(s, next, k)
  <2>1. CASE s = {}
    BY <2>1 DEF Load
  <2>2. CASE s # {}
    <3> DEFINE t == s \ {Pick(s)}
    <3>1. t \in SUBSET S /\ Cardinality(t) <= n
      BY <1>2, <2>2, PickFacts
    <3>2. total[t] = Load(t, total, k)
      BY <3>1 DEF Solves
    <3>3. next[t] = total[t]
      BY <3>1, <3>2
    <3> QED BY <2>2, <3>3 DEF Load
  <2> QED BY <2>1, <2>2
<1> QED BY <1>1, <1>2 DEF Solves

LEMMA SolutionExists ==
    ASSUME NEW S \in SUBSET Requests, IsFiniteSet(S), NEW k \in Kinds
    PROVE  \A n \in Nat : \E total : Solves(S, total, k, n)
<1> DEFINE Bad == {n \in Nat : ~\E total : Solves(S, total, k, n)}
<1>1. SUFFICES ASSUME Bad # {} PROVE FALSE
  OBVIOUS
<1>2. PICK n \in Bad : \A m \in Bad : n <= m
  BY <1>1, LeastNumber
<1>3. CASE n = 0
  <2> DEFINE zero == [s \in SUBSET S |-> 0]
  <2>1. \A s \in SUBSET S : Cardinality(s) <= 0 => s = {}
    <3> TAKE s \in SUBSET S
    <3>1. IsFiniteSet(s)
      BY FS_Subset
    <3>2. Cardinality(s) \in Nat /\ (Cardinality(s) = 0 <=> s = {})
      BY <3>1, FS_EmptySet, FS_CardinalityType
    <3> QED BY <3>2
  <2>2. Solves(S, zero, k, 0)
    BY <2>1 DEF Solves, Load
  <2> QED BY <1>3, <2>2
<1>4. CASE n # 0
  <2>1. n - 1 \in Nat /\ n - 1 \notin Bad
    BY <1>2, <1>4
  <2>2. PICK total : Solves(S, total, k, n - 1)
    BY <2>1
  <2>3. Solves(S, [s \in SUBSET S |-> Load(s, total, k)], k, (n - 1) + 1)
    BY <2>1, <2>2, SolutionGrows
  <2>4. (n - 1) + 1 = n
    BY <1>2
  <2> QED BY <1>2, <2>3, <2>4
<1> QED BY <1>3, <1>4

(* Solutions agree wherever both are defined. *)
LEMMA SolutionsAgree ==
    ASSUME NEW S \in SUBSET Requests, IsFiniteSet(S), NEW T \in SUBSET Requests, IsFiniteSet(T),
           NEW k \in Kinds, NEW g, NEW h,
           \A s \in SUBSET S : g[s] = Load(s, g, k),
           \A s \in SUBSET T : h[s] = Load(s, h, k)
    PROVE  \A s \in (SUBSET S) \cap (SUBSET T) : g[s] = h[s]
<1> DEFINE Both == (SUBSET S) \cap (SUBSET T)
           Bad == {Cardinality(s) : s \in {t \in Both : g[t] # h[t]}}
<1>1. SUFFICES ASSUME NEW u \in Both, g[u] # h[u] PROVE FALSE
  OBVIOUS
<1>2. Bad \in SUBSET Nat /\ Bad # {}
  <2>1. \A s \in Both : Cardinality(s) \in Nat
    BY FS_Subset, FS_CardinalityType
  <2> QED BY <1>1, <2>1
<1>3. PICK n \in Bad : \A m \in Bad : n <= m
  BY <1>2, LeastNumber
<1>4. PICK s \in Both : g[s] # h[s] /\ Cardinality(s) = n
  BY <1>3
<1>5. g[s] = Load(s, g, k) /\ h[s] = Load(s, h, k)
  OBVIOUS
<1>6. s # {}
  BY <1>4, <1>5 DEF Load
<1> DEFINE t == s \ {Pick(s)}
<1>7. t \in Both /\ Cardinality(t) < n
  BY <1>4, <1>6, PickFacts
<1>8. g[t] = h[t]
  <2> SUFFICES ASSUME g[t] # h[t] PROVE FALSE
    OBVIOUS
  <2>1. Cardinality(t) \in Bad
    BY <1>7
  <2> QED BY <1>2, <1>3, <1>7, <2>1
<1> QED BY <1>4, <1>5, <1>6, <1>8 DEF Load

LEMMA TotalsUnfolded ==
    ASSUME NEW S \in SUBSET Requests, IsFiniteSet(S), NEW k \in Kinds
    PROVE  /\ Totals(S, k) \in [SUBSET S -> Nat]
           /\ \A s \in SUBSET S : Totals(S, k)[s] = Load(s, Totals(S, k), k)
<1>1. Cardinality(S) \in Nat
  BY FS_CardinalityType
<1>2. PICK total : Solves(S, total, k, Cardinality(S))
  BY <1>1, SolutionExists
<1>3. \A s \in SUBSET S : Cardinality(s) <= Cardinality(S)
  BY FS_Subset
<1>4. total = [s \in SUBSET S |-> Load(s, total, k)] /\ total \in [SUBSET S -> Nat]
  BY <1>2, <1>3 DEF Solves
<1>5. Totals(S, k) = [s \in SUBSET S |-> Load(s, Totals(S, k), k)]
  BY <1>4 DEF Totals
<1>6. \A s \in SUBSET S : Totals(S, k)[s] = Load(s, Totals(S, k), k)
  BY <1>5
<1>7. \A s \in SUBSET S : total[s] = Load(s, total, k)
  BY <1>4
<1>8. \A s \in SUBSET S : Totals(S, k)[s] = total[s]
  BY <1>6, <1>7, SolutionsAgree
<1>9. \A s \in SUBSET S : Totals(S, k)[s] \in Nat
  BY <1>4, <1>8
<1> QED BY <1>5, <1>6, <1>9

(* An element may be taken out of a sum in any order. *)
LEMMA TotalWithout ==
    ASSUME NEW S \in SUBSET Requests, IsFiniteSet(S), NEW k \in Kinds
    PROVE  \A s \in SUBSET S : \A e \in s :
              Totals(S, k)[s] = Allocation(e)[k] + Totals(S, k)[s \ {e}]
<1> DEFINE total == Totals(S, k)
           Right(s) == \A e \in s : total[s] = Allocation(e)[k] + total[s \ {e}]
           Bad == {Cardinality(s) : s \in {t \in SUBSET S : ~Right(t)}}
<1>0. total \in [SUBSET S -> Nat] /\ \A s \in SUBSET S : total[s] = Load(s, total, k)
  BY TotalsUnfolded
<1> HIDE DEF total
<1>1. SUFFICES ASSUME NEW u \in SUBSET S, ~Right(u) PROVE FALSE
  BY DEF total
<1>2. Bad \in SUBSET Nat /\ Bad # {}
  <2>1. \A s \in SUBSET S : Cardinality(s) \in Nat
    BY FS_Subset, FS_CardinalityType
  <2> HIDE DEF Right
  <2> QED BY <1>1, <2>1
<1>3. PICK n \in Bad : \A m \in Bad : n <= m
  BY <1>2, LeastNumber
<1>4. PICK s \in SUBSET S : ~Right(s) /\ Cardinality(s) = n
  BY <1>3
<1>5. PICK e \in s : total[s] # Allocation(e)[k] + total[s \ {e}]
  BY <1>4
<1> DEFINE c == Pick(s)
<1>6. c \in s /\ total[s] = Allocation(c)[k] + total[s \ {c}]
  BY <1>0, <1>5, PickFacts DEF Load
<1> HIDE DEF c
<1>7. c # e
  BY <1>5, <1>6
<1>8. ASSUME NEW d \in s PROVE Right(s \ {d})
  <2>1. s \ {d} \in SUBSET S /\ Cardinality(s \ {d}) = n - 1
    BY <1>4, FS_Subset, FS_RemoveElement
  <2>2. n \in Nat
    BY <1>2, <1>3
  <2> HIDE DEF Right
  <2> SUFFICES ASSUME ~Right(s \ {d}) PROVE FALSE
    OBVIOUS
  <2>3. n - 1 \in Bad
    BY <2>1
  <2> HIDE DEF Bad
  <2> QED BY <1>3, <2>2, <2>3
<1> DEFINE rest == (s \ {c}) \ {e}
<1>9. total[s \ {c}] = Allocation(e)[k] + total[rest]
  BY <1>6, <1>7, <1>8
<1>10. total[s \ {e}] = Allocation(c)[k] + total[rest]
  <2>1. rest = (s \ {e}) \ {c}
    OBVIOUS
  <2>2. total[s \ {e}] = Allocation(c)[k] + total[(s \ {e}) \ {c}]
    BY <1>6, <1>7, <1>8
  <2> QED BY <2>1, <2>2
<1>11. Allocation(e)[k] \in Nat /\ Allocation(c)[k] \in Nat /\ total[rest] \in Nat
  <2>1. rest \in SUBSET S
    OBVIOUS
  <2> QED BY <1>0, <1>6, <2>1, AllocationType
<1> HIDE DEF rest, Bad, Right
<1> QED BY <1>5, <1>6, <1>9, <1>10, <1>11

(* What the controller needs of its sums. *)
LEMMA SumType ==
    ASSUME NEW S \in SUBSET Requests, IsFiniteSet(S), NEW k \in Kinds
    PROVE  Reserved(S, k) \in Nat
<1>1. Totals(S, k) \in [SUBSET S -> Nat]
  BY TotalsUnfolded
<1>2. Reserved(S, k) = Totals(S, k)[S]
  BY DEF Reserved
<1> QED BY <1>1, <1>2

LEMMA SumOfNothing ==
    ASSUME NEW k \in Kinds
    PROVE  Reserved({}, k) = 0
<1>1. IsFiniteSet({})
  BY FS_EmptySet
<1> QED BY <1>1, TotalsUnfolded DEF Reserved, Load

LEMMA SumWithout ==
    ASSUME NEW S \in SUBSET Requests, IsFiniteSet(S), NEW e \in S, NEW k \in Kinds
    PROVE  Reserved(S, k) = Allocation(e)[k] + Reserved(S \ {e}, k)
<1> DEFINE T == S \ {e}
<1>1. T \in SUBSET Requests /\ IsFiniteSet(T) /\ T \in (SUBSET S) \cap (SUBSET T)
  BY FS_RemoveElement
<1>2. Totals(S, k)[S] = Allocation(e)[k] + Totals(S, k)[T]
  BY TotalWithout
<1>3. Totals(S, k)[T] = Totals(T, k)[T]
  <2>1. \A s \in SUBSET S : Totals(S, k)[s] = Load(s, Totals(S, k), k)
    BY TotalsUnfolded
  <2> HIDE DEF T
  <2>2. \A s \in SUBSET T : Totals(T, k)[s] = Load(s, Totals(T, k), k)
    BY <1>1, TotalsUnfolded
  <2> QED BY <1>1, <2>1, <2>2, SolutionsAgree
<1> QED BY <1>2, <1>3 DEF Reserved

----------------------------------------------------------------------------
(* The host is never overcommitted                                          *)

WithinHost == IsFiniteSet(active) /\ NoOvercommit

LEMMA AdmittingFits ==
    ASSUME active \in SUBSET Requests, WithinHost, NEW e \in Requests, Fits(e),
           active' = active \cup {e}
    PROVE  WithinHost'
<1> USE DEF WithinHost, NoOvercommit
<1>1. CASE e \in active
  <2>1. active' = active
    BY <1>1
  <2>2. \A k \in Kinds : Used(k)' = Used(k)
    BY <2>1, UsedIsReserved
  <2> QED BY <2>1, <2>2
<1>2. CASE e \notin active
  <2>1. /\ active' \in SUBSET Requests /\ IsFiniteSet(active')
        /\ Cardinality(active') = Cardinality(active) + 1
    BY <1>2, FS_AddElement
  <2>2. Cardinality(active') <= MaxActive
    BY <2>1, FS_CardinalityType, AdmissionAssumption DEF Fits
  <2>3. ASSUME NEW k \in Kinds PROVE Used(k)' <= Host[k]
    <3>1. Reserved(active', k) = Allocation(e)[k] + Reserved(active, k)
      <4>1. active' \ {e} = active /\ e \in active'
        BY <1>2
      <4> QED BY <2>1, <4>1, SumWithout
    <3>2. Used(k) = Reserved(active, k) /\ Used(k)' = Reserved(active', k)
      BY UsedIsReserved
    <3>3. /\ Used(k) \in Nat /\ Used(k) <= Host[k] /\ Host[k] \in Nat
          /\ Allocation(e)[k] \in Nat
      BY <3>2, SumType, AllocationType, AdmissionAssumption
    <3>4. Allocation(e)[k] <= Host[k] - Used(k)
      <4>1. Allocation(e)[k] <= Max({Host[k] - Used(k), 0})
        BY DEF Fits
      <4>2. Max({Host[k] - Used(k), 0}) = Host[k] - Used(k)
        BY <3>3, MaxOfTwo
      <4> QED BY <4>1, <4>2
    <3> QED BY <3>1, <3>2, <3>3, <3>4
  <2> QED BY <2>1, <2>2, <2>3
<1> QED BY <1>1, <1>2

LEMMA ReleasingFits ==
    ASSUME active \in SUBSET Requests, WithinHost, NEW e, active' = active \ {e}
    PROVE  WithinHost'
<1> USE DEF WithinHost, NoOvercommit
<1>1. /\ IsFiniteSet(active') /\ active' \in SUBSET Requests
      /\ Cardinality(active') <= Cardinality(active)
      /\ Cardinality(active) \in Nat /\ Cardinality(active') \in Nat
  BY FS_Subset, FS_CardinalityType
<1>2. ASSUME NEW k \in Kinds PROVE Used(k)' <= Host[k]
  <2>1. Used(k) = Reserved(active, k) /\ Used(k)' = Reserved(active', k)
    BY UsedIsReserved
  <2>2. CASE e \notin active
    <3>1. active' = active
      BY <2>2
    <3> QED BY <2>1, <3>1
  <2>3. CASE e \in active
    <3>1. Reserved(active, k) = Allocation(e)[k] + Reserved(active', k)
      BY <2>3, SumWithout
    <3>2. /\ Allocation(e)[k] \in Nat /\ Reserved(active', k) \in Nat
          /\ Used(k) <= Host[k] /\ Host[k] \in Nat
      BY <1>1, <2>3, SumType, AllocationType, AdmissionAssumption
    <3> QED BY <2>1, <3>1, <3>2
  <2> QED BY <2>2, <2>3
<1> QED BY <1>1, <1>2, AdmissionAssumption

LEMMA WithinHostInitially == active = {} => WithinHost
<1> SUFFICES ASSUME active = {} PROVE WithinHost
  OBVIOUS
<1>1. \A k \in Kinds : Used(k) = 0
  BY SumOfNothing, UsedIsReserved
<1> QED BY <1>1, FS_EmptySet, AdmissionAssumption DEF WithinHost, NoOvercommit

LEMMA EmptyFits == active' = {} => WithinHost'
<1> SUFFICES ASSUME active' = {} PROVE WithinHost'
  OBVIOUS
<1>1. \A k \in Kinds : Used(k)' = 0
  BY SumOfNothing, UsedIsReserved
<1> QED BY <1>1, FS_EmptySet, AdmissionAssumption DEF WithinHost, NoOvercommit

LEMMA SameActiveFits ==
    ASSUME WithinHost, active' = active
    PROVE  WithinHost'
<1>1. \A k \in Kinds : Used(k)' = Used(k)
  BY UsedIsReserved
<1> QED BY <1>1 DEF WithinHost, NoOvercommit

(* A step of one execution admits it if it fits, releases it, or changes no *)
(* reservation.                                                             *)
LEMMA RequestFits ==
    ASSUME active \in SUBSET Requests, WithinHost, NEW e \in Requests,
           Enqueue(e) \/ Bypass(e) \/ Worker(e) \/ Leave(e) \/ Cancel(e) \/ Expire(e)
    PROVE  WithinHost'
<1>1. CASE Try(e)
  BY <1>1, AdmittingFits, SameActiveFits DEF Try
<1>2. CASE Finish(e) \/ Leave(e)
  BY <1>2, ReleasingFits DEF Finish, Leave
<1>3. CASE Enqueue(e) \/ Bypass(e) \/ Acquire(e) \/ Abandon(e) \/ Check(e) \/ Wake(e)
             \/ Cancel(e) \/ Expire(e)
  BY <1>3, SameActiveFits
     DEF Enqueue, Bypass, Acquire, Abandon, Check, Wake, Cancel, Expire
<1> QED BY <1>1, <1>2, <1>3 DEF Worker

LEMMA WithinHostKept == AdmissionInv /\ WithinHost /\ [Next]_vars => WithinHost'
<1> SUFFICES ASSUME AdmissionInv, WithinHost, [Next]_vars PROVE WithinHost'
  OBVIOUS
<1>1. active \in SUBSET Requests
  BY DEF AdmissionInv, TypeOK
<1>2. CASE Next
  BY <1>1, <1>2, RequestFits DEF Next
<1>3. CASE UNCHANGED vars
  BY <1>3, SameActiveFits DEF vars
<1> QED BY <1>2, <1>3

(* Neither CPU nor memory of the host nor the number of containers is ever  *)
(* exceeded, for any profiles and any order of admissions and releases.     *)
THEOREM NoOvercommitHolds == Spec => []NoOvercommit
<1>1. Init => WithinHost
  BY WithinHostInitially DEF Init
<1>2. WithinHost => NoOvercommit
  BY DEF WithinHost
<1> QED BY <1>1, <1>2, AdmissionInvariant, WithinHostKept, PTL DEF Spec

=============================================================================

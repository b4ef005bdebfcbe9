--------------------------- MODULE AcquisitionProofs ---------------------------
(***************************************************************************)
(* Theorems about distributed acquisition, for every set of requests,       *)
(* workers and collectors, every assignment of workers to collectors, every *)
(* lease time and every bound.                                              *)
(***************************************************************************)
EXTENDS AcquisitionTasks, SequenceTheorems, WellFoundedInduction, TLAPS

Leased(w) == worker[w].at \in {"running", "signed", "checked", "completed"}
Signed(w) == worker[w].at \in {"signed", "checked", "completed"}

LastOf(s) == s[Len(s)]
LeasedTo(t, c) == leases[t] # <<>> /\ LastOf(leases[t]) = c

(* On either backend: the owner of a row is the last collector the task was *)
(* leased to, and a row that is done has none.                              *)
OwnerOK ==
  \A t \in Task :
    /\ Done(t) => tasks[t].owner = NoOne
    /\ tasks[t].owner # NoOne => LeasedTo(t, tasks[t].owner)

(* Whoever executes a task leased it, and signs for itself.                 *)
RunsOK ==
  \A w \in Worker :
    /\ Leased(w) => \E i \in DOMAIN leases[worker[w].task] : leases[worker[w].task][i] = Me(w)
    /\ Signed(w) => worker[w].receipt.by = Me(w) /\ files[w][worker[w].task] = worker[w].receipt

SignerOK ==
  \A t \in Task :
    Done(t) =>
      /\ \E i \in DOMAIN leases[t] : leases[t][i] = tasks[t].receipt.by
      /\ \E w \in Worker : Me(w) = tasks[t].receipt.by

(* A worker between the read of its row and the commit holds the row's lock *)
(* and the row is as it was read.                                           *)
LockOK ==
  \A w \in Worker :
    /\ At(w, "selected") =>
         /\ locks[worker[w].task] = w /\ ~Done(worker[w].task)
         /\ tasks[worker[w].task].attempt = worker[w].attempt
    /\ At(w, "checked") => locks[worker[w].task] = w /\ tasks[worker[w].task].owner = Me(w)

(* No worker has an attempt that is yet to come.                            *)
AttemptOK ==
  \A w \in Worker : \A t \in Task : Holding(w, t) => AttemptOf(w) <= tasks[t].attempt

(* What is done was done by a worker that was the last to lease it and that *)
(* does not execute it again.                                               *)
FinalOK ==
  \A t \in Task :
    Done(t) =>
      /\ LeasedTo(t, tasks[t].receipt.by)
      /\ \E w \in Worker :
           /\ Me(w) = tasks[t].receipt.by /\ files[w][t] = tasks[t].receipt
           /\ At(w, "running") => worker[w].task # t

(* A completion is recorded once: before it is, one worker is about to.     *)
TrailOK ==
  /\ \A t \in Task : ~Done(t) => events[t] = <<>>
  /\ \A w \in Worker :
       LET t == worker[w].task
       IN  At(w, "completed") =>
             /\ Done(t) /\ tasks[t].receipt = worker[w].receipt
             /\ tasks[t].state = worker[w].receipt.state
             /\ events[t] = <<>>
             /\ \A v \in Worker : At(v, "completed") /\ worker[v].task = t => v = w

(* A worker that has read its enrolment has not leased since its collector  *)
(* was disabled, and neither has one whose collector is enabled.            *)
LateOK ==
  \A w \in Worker :
    /\ late[w] <= 1
    /\ registry[Me(w)].enabled \/ worker[w].at \in {"polled", "selected"} => late[w] = 0

Serial == LockOK /\ AttemptOK /\ OneRunPerLease /\ FinalOK /\ TrailOK /\ AuditAgrees
Safe == OwnerOK /\ RunsOK /\ SignerOK /\ LateOK /\ (Postgres => Serial)
IInv == TypeOK /\ Safe

-----------------------------------------------------------------------------
(* What the steps of a worker start from, and what they change.             *)

LEMMA RunFields ==
  ASSUME TypeOK, NEW w \in Worker
  PROVE  /\ At(w, "polled") => worker[w].now \in Nat /\ worker[w].caps \subseteq Type
         /\ At(w, "selected") => worker[w].now \in Nat /\ worker[w].attempt \in Nat
         /\ At(w, "running") => worker[w].attempt \in Nat
         /\ At(w, "selected") \/ Leased(w) => worker[w].task \in Task
         /\ Signed(w) => worker[w].receipt \in Receipt
         /\ Me(w) \in Collector /\ Me(w) # NoOne /\ w # NoOne
<1>1. worker[w] \in Run \cup {Resting}
  BY DEF TypeOK
<1>2. Me(w) \in Collector /\ Me(w) # NoOne /\ w # NoOne
  BY AcquisitionAssumption DEF Me
<1> QED
  BY <1>1, <1>2 DEF Run, Resting, At, Leased, Signed

LEMMA Becoming ==
  ASSUME TypeOK, NEW w \in Worker, NEW run, Become(w, run)
  PROVE  worker'[w] = run /\ \A v \in Worker : v # w => worker'[v] = worker[v]
  BY DEF TypeOK, Become

LEMMA Releasing ==
  ASSUME TypeOK, NEW w \in Worker, locks' = Released(w)
  PROVE  \A t \in Task : locks'[t] = IF locks[t] = w THEN NoOne ELSE locks[t]
  BY DEF Released

LEMMA ReceiptFields ==
  \A r \in Receipt : r.by \in Collector /\ r.attempt \in Nat /\ r.state \in Outcome
  BY DEF Receipt

-----------------------------------------------------------------------------
(* Safe, step by step.                                                      *)

LEMMA InitSafe == Init => Safe
<1> SUFFICES ASSUME Init PROVE Safe
  OBVIOUS
<1>1. \A t \in Task : ~Done(t) /\ tasks[t].owner = NoOne /\ events[t] = <<>>
  BY DEF Init, Done, Outcome
<1>2. \A w \in Worker : worker[w].at = "idle" /\ late[w] = 0
  BY DEF Init, Resting
<1> QED
  BY <1>1, <1>2 DEF Safe, Serial, OwnerOK, RunsOK, SignerOK, LateOK, LockOK, AttemptOK, OneRunPerLease,
     FinalOK, TrailOK, AuditAgrees, Holding, Leased, Signed, At

(* Steps that leave all alone that Safe is about.                           *)
LEMMA ElsewhereSafe ==
  ASSUME Safe, UNCHANGED <<backend, registry, tasks, locks, worker, files, events, leases, late>>
  PROVE  Safe'
<1> USE DEF Done, At, Me, Holding, AttemptOf, Leased, Signed, LeasedTo, LastOf, Postgres
<1>1. OwnerOK' /\ RunsOK' /\ SignerOK' /\ LateOK'
  BY DEF Safe, OwnerOK, RunsOK, SignerOK, LateOK
<1>2. Postgres => Serial'
  <2>1. Postgres => LockOK' /\ AttemptOK' /\ OneRunPerLease'
    BY DEF Safe, Serial, LockOK, AttemptOK, OneRunPerLease
  <2>2. Postgres => FinalOK' /\ TrailOK' /\ AuditAgrees'
    BY DEF Safe, Serial, FinalOK, TrailOK, AuditAgrees
  <2> QED
    BY <2>1, <2>2 DEF Serial
<1> QED
  BY <1>1, <1>2 DEF Safe

(* A worker rests, or has read its enrolment, and lets go of its locks.     *)
LEMMA RestingSafe ==
  ASSUME IInv, NEW w \in Worker, NEW run, Become(w, run),
         run.at = "idle" \/ (run.at = "polled" /\ late[w] = 0),
         \A t \in Task : locks'[t] = locks[t] \/ locks[t] = w,
         UNCHANGED <<backend, registry, tasks, files, events, leases, late>>
  PROVE  Safe'
<1> USE DEF Done, At, Me, Holding, AttemptOf, Leased, Signed, LeasedTo, LastOf, Postgres
<1>1. worker'[w] = run /\ \A v \in Worker : v # w => worker'[v] = worker[v]
  BY Becoming DEF IInv
<1>2. \A v \in Worker : worker'[v].at \notin {"idle", "polled"} => v # w
  BY <1>1
<1>3. OwnerOK' /\ RunsOK' /\ SignerOK' /\ LateOK'
  <2>1. OwnerOK' /\ SignerOK'
    BY DEF IInv, Safe, OwnerOK, SignerOK
  <2>2. RunsOK'
    BY <1>1, <1>2 DEF IInv, Safe, RunsOK
  <2>3. LateOK'
    BY <1>1, <1>2 DEF IInv, Safe, LateOK
  <2> QED
    BY <2>1, <2>2, <2>3
<1>4. Postgres => Serial'
  <2> SUFFICES ASSUME Postgres PROVE Serial'
    OBVIOUS
  <2>1. LockOK'
    <3>1. \A v \in Worker : At(v, "selected") => worker[v].task \in Task
      BY RunFields DEF IInv
    <3>2. \A v \in Worker : At(v, "checked") => worker[v].task \in Task
      BY RunFields DEF IInv
    <3> QED
      BY <1>1, <1>2, <3>1, <3>2 DEF IInv, Safe, Serial, LockOK
  <2>2. AttemptOK' /\ OneRunPerLease'
    BY <1>1, <1>2 DEF IInv, Safe, Serial, AttemptOK, OneRunPerLease
  <2>3. FinalOK'
    BY <1>1, <1>2 DEF IInv, Safe, Serial, FinalOK
  <2>4. TrailOK' /\ AuditAgrees'
    BY <1>1, <1>2 DEF IInv, Safe, Serial, TrailOK, AuditAgrees
  <2> QED
    BY <2>1, <2>2, <2>3, <2>4 DEF Serial
<1> QED
  BY <1>3, <1>4 DEF Safe, Postgres

LEMMA LeastIndex ==
  ASSUME NEW S \in SUBSET Nat, S # {}
  PROVE  \E i \in S : \A j \in S : i <= j
<1> DEFINE R == OpToRel(<, Nat)
<1>1. IsWellFoundedOn(R, Nat)
  BY NatLessThanWellFounded
<1>2. PICK i \in S : \A j \in S : ~(<<j, i>> \in R)
  BY <1>1, WFMin, Zenon
<1>3. \A j \in S : ~(j < i)
  BY <1>2 DEF OpToRel
<1> QED
  BY <1>3

(* What a query finds: nothing, or a row that can be claimed and that the   *)
(* query has locked if the database locks rows at all.                      *)
LEMMA Selecting ==
  ASSUME TypeOK, NEW w \in Worker, Select(w)
  PROVE  \/ Become(w, Resting) /\ UNCHANGED locks
         \/ \E t \in Task :
              /\ Become(w, [at |-> "selected", now |-> worker[w].now, task |-> t,
                            attempt |-> tasks[t].attempt])
              /\ Claimable(t, worker[w].now)
              /\ \A u \in Task : locks'[u] = locks[u] \/ (locks[u] = NoOne /\ locks'[u] = w)
              /\ Postgres => locks'[t] = w
              /\ locks' \in [Task -> Worker \cup {NoOne}]
<1> DEFINE found == {i \in DOMAIN queue : Claimable(queue[i], worker[w].now)}
           fits == {i \in found : TypeOf[queue[i]] \in worker[w].caps}
           oldest == CHOOSE i \in fits : \A j \in fits : i <= j
<1>1. CASE fits = {}
  <2>1. Become(w, Resting) /\ UNCHANGED locks
    BY <1>1, ZenonT(60) DEF Select
  <2> QED
    BY <2>1
<1>2. CASE fits # {}
  <2>1. /\ Become(w, [at |-> "selected", now |-> worker[w].now, task |-> queue[oldest],
                      attempt |-> tasks[queue[oldest]].attempt])
        /\ locks' = [t \in Task |-> IF Postgres /\ \E i \in found : queue[i] = t THEN w ELSE locks[t]]
    BY <1>2 DEF Select
  <2>2. fits \in SUBSET Nat
    BY LenProperties, SMTT(60) DEF TypeOK
  <2>3. oldest \in fits
    <3>1. \E i \in fits : \A j \in fits : i <= j
      BY <1>2, <2>2, LeastIndex
    <3> QED
      BY <3>1
  <2>4. queue[oldest] \in Task /\ Claimable(queue[oldest], worker[w].now)
    BY <2>3, ElementOfSeq, LenProperties, SMTT(60) DEF TypeOK
  <2>5. \A u \in Task : locks'[u] = locks[u] \/ (locks[u] = NoOne /\ locks'[u] = w)
    BY <2>1, ZenonT(60) DEF Claimable
  <2>6. Postgres => locks'[queue[oldest]] = w
    BY <2>1, <2>3, <2>4, ZenonT(60)
  <2>7. locks' \in [Task -> Worker \cup {NoOne}]
    BY <2>1 DEF TypeOK
  <2> QED
    BY <2>1, <2>4, <2>5, <2>6, <2>7, ZenonT(60)
<1> QED
  BY <1>1, <1>2

LEMMA SelectSafe ==
  ASSUME IInv, NEW w \in Worker, Select(w)
  PROVE  Safe'
<1>1. UNCHANGED <<backend, registry, tasks, files, events, leases, late>> /\ At(w, "polled")
  BY DEF Select
<1>2. late[w] = 0
  BY <1>1 DEF IInv, Safe, LateOK, At
<1>3. CASE Become(w, Resting) /\ UNCHANGED locks
  BY <1>1, <1>3, RestingSafe DEF Resting
<1>4. ASSUME NEW t \in Task,
             Become(w, [at |-> "selected", now |-> worker[w].now, task |-> t, attempt |-> tasks[t].attempt]),
             Claimable(t, worker[w].now),
             \A u \in Task : locks'[u] = locks[u] \/ (locks[u] = NoOne /\ locks'[u] = w),
             Postgres => locks'[t] = w
      PROVE  Safe'
  <2> USE DEF Done, At, Me, Holding, AttemptOf, Leased, Signed, LeasedTo, LastOf, Postgres
  <2>1. /\ worker'[w].at = "selected" /\ worker'[w].task = t /\ worker'[w].attempt = tasks[t].attempt
        /\ \A v \in Worker : v # w => worker'[v] = worker[v]
    BY <1>4, Becoming DEF IInv
  <2>2. ~Done(t)
    BY <1>4 DEF Claimable, Outcome
  <2>3. OwnerOK' /\ SignerOK'
    BY <1>1 DEF IInv, Safe, OwnerOK, SignerOK
  <2>4. RunsOK'
    BY <1>1, <2>1 DEF IInv, Safe, RunsOK
  <2>5. LateOK'
    BY <1>1, <1>2, <2>1 DEF IInv, Safe, LateOK
  <2>6. Postgres => Serial'
    <3> SUFFICES ASSUME Postgres PROVE Serial'
      OBVIOUS
    <3>1. LockOK'
      <4>1. \A v \in Worker : At(v, "selected") \/ At(v, "checked") => worker[v].task \in Task /\ v # NoOne
        BY RunFields DEF IInv
      <4> QED
        BY <1>1, <1>4, <2>1, <2>2, <4>1 DEF IInv, Safe, Serial, LockOK
    <3>2. AttemptOK' /\ OneRunPerLease'
      BY <1>1, <2>1 DEF IInv, Safe, Serial, AttemptOK, OneRunPerLease
    <3>3. FinalOK'
      BY <1>1, <2>1 DEF IInv, Safe, Serial, FinalOK
    <3>4. TrailOK' /\ AuditAgrees'
      BY <1>1, <2>1 DEF IInv, Safe, Serial, TrailOK, AuditAgrees
    <3> QED
      BY <3>1, <3>2, <3>3, <3>4 DEF Serial
  <2> QED
    BY <1>1, <2>3, <2>4, <2>5, <2>6 DEF Safe
<1> QED
  BY <1>3, <1>4, Selecting DEF IInv

LEMMA ExecuteSafe ==
  ASSUME IInv, NEW w \in Worker, NEW state \in Results, Execute(w, state)
  PROVE  Safe'
<1> DEFINE t == worker[w].task
           r == [by |-> Me(w), attempt |-> worker[w].attempt, state |-> state]
<1>1. /\ At(w, "running") /\ files' = [files EXCEPT ![w][t] = r]
      /\ Become(w, [at |-> "signed", task |-> t, receipt |-> r])
      /\ UNCHANGED <<backend, registry, tasks, locks, events, leases, late>>
  BY DEF Execute
<1>2. t \in Task
  BY <1>1, RunFields DEF IInv, At, Leased
<1>3. /\ worker'[w].at = "signed" /\ worker'[w].task = t /\ worker'[w].receipt = r
      /\ \A v \in Worker : v # w => worker'[v] = worker[v]
  BY <1>1, Becoming DEF IInv
<1>4. /\ files'[w][t] = r
      /\ \A u \in Task : u # t => files'[w][u] = files[w][u]
      /\ \A v \in Worker : v # w => files'[v] = files[v]
  BY <1>1, <1>2 DEF IInv, TypeOK
<1> HIDE DEF t
<1>5. r.by = Me(w) /\ r.attempt = worker[w].attempt
  OBVIOUS
<1> HIDE DEF r
<1>6. worker[w].task = t
  BY DEF t
<1> USE DEF Done, At, Me, Holding, AttemptOf, Leased, Signed, LeasedTo, LastOf, Postgres
<1>7. OwnerOK' /\ SignerOK'
  BY <1>1 DEF IInv, Safe, OwnerOK, SignerOK
<1>8. RunsOK'
  BY <1>1, <1>3, <1>4, <1>5, <1>6, SMTT(60) DEF IInv, Safe, RunsOK
<1>9. LateOK'
  BY <1>1, <1>3 DEF IInv, Safe, LateOK
<1>10. Postgres => Serial'
  <2> SUFFICES ASSUME Postgres PROVE Serial'
    OBVIOUS
  <2>1. LockOK'
    BY <1>1, <1>3 DEF IInv, Safe, Serial, LockOK
  <2>2. AttemptOK' /\ OneRunPerLease'
    BY <1>1, <1>3, <1>5, <1>6 DEF IInv, Safe, Serial, AttemptOK, OneRunPerLease
  <2>3. FinalOK'
    BY <1>1, <1>3, <1>4, <1>6 DEF IInv, Safe, Serial, FinalOK
  <2>4. TrailOK' /\ AuditAgrees'
    BY <1>1, <1>3 DEF IInv, Safe, Serial, TrailOK, AuditAgrees
  <2> QED
    BY <2>1, <2>2, <2>3, <2>4 DEF Serial
<1> QED
  BY <1>1, <1>7, <1>8, <1>9, <1>10 DEF Safe

(* A collector added to the history of a task.                              *)
LEMMA Added ==
  ASSUME NEW s \in Seq(Collector), NEW c \in Collector
  PROVE  /\ Append(s, c) \in Seq(Collector)
         /\ Append(s, c) # <<>> /\ LastOf(Append(s, c)) = c
         /\ \A i \in DOMAIN s : i \in DOMAIN Append(s, c) /\ Append(s, c)[i] = s[i]
         /\ \E i \in DOMAIN Append(s, c) : Append(s, c)[i] = c
<1>1. /\ Append(s, c) \in Seq(Collector)
      /\ Len(s) \in Nat /\ DOMAIN s = 1..Len(s)
      /\ DOMAIN Append(s, c) = 1..Len(s) + 1
      /\ Len(Append(s, c)) = Len(s) + 1
      /\ \A i \in 1..Len(s) : Append(s, c)[i] = s[i]
      /\ Append(s, c)[Len(s) + 1] = c
      /\ Append(s, c) # <<>>
  BY AppendProperties, LenProperties
<1> QED
  BY <1>1 DEF LastOf

(* A lease is entered into the row of the task.                             *)
LEMMA LeaseRow ==
  ASSUME TypeOK, NEW w \in Worker, Lease(w)
  PROVE  tasks' = [tasks EXCEPT ![worker[w].task] =
           [state |-> "LEASED", owner |-> Me(w), until |-> worker[w].now + LeaseTime,
            attempt |-> tasks[worker[w].task].attempt + 1, receipt |-> tasks[worker[w].task].receipt]]
<1> DEFINE t == worker[w].task
<1>1. t \in Task
  BY RunFields DEF Lease, At
<1>2. PICK row \in Row : row = tasks[t]
  BY <1>1, SMTT(60) DEF TypeOK
<1>3. tasks' = [tasks EXCEPT ![t] =
        [row EXCEPT !.state = "LEASED", !.owner = Me(w), !.until = worker[w].now + LeaseTime,
                    !.attempt = row.attempt + 1]]
  BY <1>1, <1>2 DEF Lease, TypeOK
<1>4. [row EXCEPT !.state = "LEASED", !.owner = Me(w), !.until = worker[w].now + LeaseTime,
                  !.attempt = row.attempt + 1]
        = [state |-> "LEASED", owner |-> Me(w), until |-> worker[w].now + LeaseTime,
           attempt |-> row.attempt + 1, receipt |-> row.receipt]
  <2> DEFINE r1 == [row EXCEPT !.state = "LEASED"]
             r2 == [r1 EXCEPT !.owner = Me(w)]
             r3 == [r2 EXCEPT !.until = worker[w].now + LeaseTime]
             r4 == [r3 EXCEPT !.attempt = row.attempt + 1]
  <2>1. [row EXCEPT !.state = "LEASED", !.owner = Me(w), !.until = worker[w].now + LeaseTime,
                    !.attempt = row.attempt + 1] = r4
    OBVIOUS
  <2> HIDE DEF r1, r2, r3, r4
  <2>2. r1 = [state |-> "LEASED", owner |-> row.owner, until |-> row.until, attempt |-> row.attempt,
              receipt |-> row.receipt]
    BY DEF Row, r1
  <2>3. r2 = [state |-> "LEASED", owner |-> Me(w), until |-> row.until, attempt |-> row.attempt,
              receipt |-> row.receipt]
    BY <2>2 DEF r2
  <2>4. r3 = [state |-> "LEASED", owner |-> Me(w), until |-> worker[w].now + LeaseTime,
              attempt |-> row.attempt, receipt |-> row.receipt]
    BY <2>3 DEF r3
  <2>5. r4 = [state |-> "LEASED", owner |-> Me(w), until |-> worker[w].now + LeaseTime,
              attempt |-> row.attempt + 1, receipt |-> row.receipt]
    BY <2>4 DEF r4
  <2> QED
    BY <2>1, <2>5
<1> QED
  BY <1>2, <1>3, <1>4

(* An outcome is entered into the row of the task.                          *)
LEMMA OutcomeRow ==
  ASSUME TypeOK, NEW w \in Worker, Complete(w)
  PROVE  tasks' = [tasks EXCEPT ![worker[w].task] =
           [state |-> worker[w].receipt.state, owner |-> NoOne, until |-> 0,
            attempt |-> tasks[worker[w].task].attempt, receipt |-> worker[w].receipt]]
<1> DEFINE t == worker[w].task
           r == worker[w].receipt
<1>1. t \in Task
  BY RunFields DEF Complete, At, Leased
<1>2. PICK row \in Row : row = tasks[t]
  BY <1>1 DEF TypeOK
<1>3. tasks' = [tasks EXCEPT ![t] =
        [row EXCEPT !.state = r.state, !.receipt = r, !.owner = NoOne, !.until = 0]]
  BY <1>1, <1>2 DEF Complete, TypeOK
<1>4. [row EXCEPT !.state = r.state, !.receipt = r, !.owner = NoOne, !.until = 0]
        = [state |-> r.state, owner |-> NoOne, until |-> 0, attempt |-> row.attempt, receipt |-> r]
  <2> DEFINE r1 == [row EXCEPT !.state = r.state]
             r2 == [r1 EXCEPT !.receipt = r]
             r3 == [r2 EXCEPT !.owner = NoOne]
             r4 == [r3 EXCEPT !.until = 0]
  <2>1. [row EXCEPT !.state = r.state, !.receipt = r, !.owner = NoOne, !.until = 0] = r4
    OBVIOUS
  <2> HIDE DEF r1, r2, r3, r4, r
  <2>2. r1 = [state |-> r.state, owner |-> row.owner, until |-> row.until, attempt |-> row.attempt,
              receipt |-> row.receipt]
    BY DEF Row, r1
  <2>3. r2 = [state |-> r.state, owner |-> row.owner, until |-> row.until, attempt |-> row.attempt,
              receipt |-> r]
    BY <2>2 DEF r2
  <2>4. r3 = [state |-> r.state, owner |-> NoOne, until |-> row.until, attempt |-> row.attempt,
              receipt |-> r]
    BY <2>3 DEF r3
  <2>5. r4 = [state |-> r.state, owner |-> NoOne, until |-> 0, attempt |-> row.attempt, receipt |-> r]
    BY <2>4 DEF r4
  <2> QED
    BY <2>1, <2>5
<1> QED
  BY <1>2, <1>3, <1>4

LEMMA LeaseSafe ==
  ASSUME IInv, NEW w \in Worker, Lease(w)
  PROVE  Safe'
<1> DEFINE t == worker[w].task
<1>1. /\ At(w, "selected") /\ UNCHANGED <<backend, registry, files, events>> /\ t \in Task
      /\ \A u \in Task : locks'[u] = IF locks[u] = w THEN NoOne ELSE locks[u]
  BY RunFields, Releasing DEF IInv, Lease
<1>2. /\ tasks'[t].state = "LEASED" /\ tasks'[t].owner = Me(w) /\ tasks'[t].attempt = tasks[t].attempt + 1
      /\ tasks[t].attempt \in Nat
      /\ \A u \in Task : u # t => tasks'[u] = tasks[u] /\ leases'[u] = leases[u]
  <2>1. tasks[t].attempt \in Nat /\ \A u \in Task : u # t => leases'[u] = leases[u]
    BY <1>1 DEF IInv, TypeOK, Row, Lease
  <2>2. tasks' = [tasks EXCEPT ![t] =
          [state |-> "LEASED", owner |-> Me(w), until |-> worker[w].now + LeaseTime,
           attempt |-> tasks[t].attempt + 1, receipt |-> tasks[t].receipt]]
    BY LeaseRow DEF IInv
  <2>3. tasks'[t] = [state |-> "LEASED", owner |-> Me(w), until |-> worker[w].now + LeaseTime,
                     attempt |-> tasks[t].attempt + 1, receipt |-> tasks[t].receipt]
        /\ \A u \in Task : u # t => tasks'[u] = tasks[u]
    BY <1>1, <2>2, SMTT(60) DEF IInv, TypeOK
  <2> QED
    BY <2>1, <2>3
<1>3. /\ leases'[t] # <<>> /\ LastOf(leases'[t]) = Me(w)
      /\ \A i \in DOMAIN leases[t] : i \in DOMAIN leases'[t] /\ leases'[t][i] = leases[t][i]
      /\ \E i \in DOMAIN leases'[t] : leases'[t][i] = Me(w)
  <2>1. leases'[t] = Append(leases[t], Me(w)) /\ leases[t] \in Seq(Collector) /\ Me(w) \in Collector
    BY <1>1, RunFields DEF IInv, TypeOK, Lease
  <2>2. /\ Append(leases[t], Me(w)) # <<>> /\ LastOf(Append(leases[t], Me(w))) = Me(w)
        /\ \A i \in DOMAIN leases[t] :
             i \in DOMAIN Append(leases[t], Me(w)) /\ Append(leases[t], Me(w))[i] = leases[t][i]
        /\ \E i \in DOMAIN Append(leases[t], Me(w)) : Append(leases[t], Me(w))[i] = Me(w)
    BY <2>1, Added
  <2> QED
    BY <2>1, <2>2, SMTT(60)
<1>4. /\ worker'[w].at = "running" /\ worker'[w].task = t /\ worker'[w].attempt = worker[w].attempt + 1
      /\ \A v \in Worker : v # w => worker'[v] = worker[v] /\ late'[v] = late[v]
      /\ late'[w] = IF registry[Me(w)].enabled THEN late[w] ELSE late[w] + 1
  <2>1. worker'[w] = [at |-> "running", task |-> t, attempt |-> worker[w].attempt + 1]
        /\ \A v \in Worker : v # w => worker'[v] = worker[v]
    BY Becoming DEF IInv, Lease
  <2>2. /\ late'[w] = IF registry[Me(w)].enabled THEN late[w] ELSE late[w] + 1
        /\ \A v \in Worker : v # w => late'[v] = late[v]
    BY DEF IInv, TypeOK, Lease
  <2> QED
    BY <2>1, <2>2
<1> HIDE DEF t
<1>5. worker[w].task = t
  BY DEF t
<1>6. \A v \in Worker : At(v, "selected") \/ Leased(v) => worker[v].task \in Task
  BY RunFields DEF IInv
<1> USE DEF Done, At, Me, Holding, AttemptOf, Leased, Signed, LeasedTo, Postgres
<1>7. \A u \in Task : Done(u)' => u # t /\ Done(u)
  BY <1>1, <1>2 DEF Outcome
<1>8. OwnerOK'
  BY <1>1, <1>2, <1>3, <1>7 DEF IInv, Safe, OwnerOK
<1>9. RunsOK'
  BY <1>1, <1>2, <1>3, <1>4, <1>6, SMTT(60) DEF IInv, Safe, RunsOK
<1>10. SignerOK'
  BY <1>1, <1>2, <1>7 DEF IInv, Safe, SignerOK
<1>11. LateOK'
  BY <1>1, <1>4 DEF IInv, Safe, LateOK
<1>12. Postgres => Serial'
  <2> SUFFICES ASSUME Postgres PROVE Serial'
    OBVIOUS
  <2>1. locks[t] = w /\ ~Done(t) /\ tasks[t].attempt = worker[w].attempt
    BY <1>1, <1>5 DEF IInv, Safe, Serial, LockOK
  <2>2. LockOK'
    <3>1. \A v \in Worker : At(v, "selected")' \/ At(v, "checked")' =>
             v # w /\ worker'[v] = worker[v] /\ worker[v].task \in Task
      BY <1>4, <1>6
    <3>2. \A v \in Worker : At(v, "selected")' \/ At(v, "checked")' =>
             locks[worker[v].task] = v /\ worker[v].task # t
      BY <2>1, <3>1 DEF IInv, Safe, Serial, LockOK
    <3> QED
      BY <1>1, <1>2, <3>1, <3>2 DEF IInv, Safe, Serial, LockOK
  <2>3. \A v \in Worker : \A u \in Task : v # w /\ Holding(v, u) =>
           AttemptOf(v)' = AttemptOf(v) /\ AttemptOf(v) <= tasks[u].attempt /\ AttemptOf(v) \in Nat
    <3>1. \A v \in Worker : At(v, "running") => worker[v].attempt \in Nat
      BY RunFields DEF IInv
    <3>2. \A v \in Worker : Signed(v) => worker[v].receipt.attempt \in Nat
      BY RunFields, ReceiptFields DEF IInv
    <3> QED
      BY <1>4, <3>1, <3>2 DEF IInv, Safe, Serial, AttemptOK
  <2>4. AttemptOf(w)' = tasks'[t].attempt /\ \A u : Holding(w, u)' => u = t
    BY <1>2, <1>4, <2>1
  <2>5. AttemptOK'
    <3> SUFFICES ASSUME NEW v \in Worker, NEW u \in Task, Holding(v, u)'
                 PROVE  AttemptOf(v)' <= tasks'[u].attempt
      BY DEF AttemptOK
    <3>1. CASE v = w
      BY <1>2, <2>4, <3>1
    <3>2. CASE v # w
      <4>1. Holding(v, u)
        BY <1>4, <3>2 DEF Holding
      <4> QED
        BY <1>2, <2>3, <3>2, <4>1
    <3> QED
      BY <3>1, <3>2
  <2>6. OneRunPerLease'
    <3>1. \A v \in Worker : \A u \in Task :
             v # w /\ u = t /\ Holding(v, u) => AttemptOf(v)' # AttemptOf(w)'
      <4> SUFFICES ASSUME NEW v \in Worker, NEW u \in Task, v # w, u = t, Holding(v, u)
                   PROVE  AttemptOf(v)' # AttemptOf(w)'
        OBVIOUS
      <4> HIDE DEF AttemptOf, Holding
      <4>1. AttemptOf(v)' = AttemptOf(v) /\ AttemptOf(v) <= tasks[u].attempt /\ AttemptOf(v) \in Nat
        BY <2>3
      <4> QED
        BY <1>2, <2>4, <4>1
    <3>2. \A v \in Worker : \A u : v # w => (Holding(v, u)' <=> Holding(v, u)) /\ AttemptOf(v)' = AttemptOf(v)
      BY <1>4
    <3>3. \A v, y \in Worker : \A u \in Task :
             v # y /\ Holding(v, u) /\ Holding(y, u) => AttemptOf(v) # AttemptOf(y)
      BY DEF IInv, Safe, Serial, OneRunPerLease
    <3> HIDE DEF AttemptOf, Holding
    <3> QED
      BY <2>4, <3>1, <3>2, <3>3 DEF OneRunPerLease
  <2>7. FinalOK'
    BY <1>1, <1>2, <1>4, <1>7 DEF IInv, Safe, Serial, FinalOK
  <2>8. TrailOK'
    <3>1. \A u \in Task : ~Done(u)' => events'[u] = <<>>
      BY <1>1, <1>2, <2>1 DEF IInv, Safe, Serial, TrailOK
    <3>2. \A v \in Worker : At(v, "completed")' => v # w /\ worker'[v] = worker[v] /\ worker[v].task \in Task
      BY <1>4, <1>6
    <3>3. \A v \in Worker : At(v, "completed")' => worker[v].task # t
      BY <2>1, <3>2 DEF IInv, Safe, Serial, TrailOK
    <3> QED
      BY <1>1, <1>2, <1>4, <3>1, <3>2, <3>3 DEF IInv, Safe, Serial, TrailOK
  <2>9. AuditAgrees'
    <3>1. events[t] = <<>>
      BY <1>1, <2>1 DEF IInv, Safe, Serial, TrailOK
    <3> QED
      BY <1>1, <1>2, <3>1 DEF IInv, Safe, Serial, AuditAgrees
  <2> QED
    BY <2>2, <2>5, <2>6, <2>7, <2>8, <2>9 DEF Serial
<1> QED
  BY <1>1, <1>8, <1>9, <1>10, <1>11, <1>12, SMTT(60) DEF Safe

LEMMA CheckSafe ==
  ASSUME IInv, NEW w \in Worker, Check(w)
  PROVE  Safe'
<1> DEFINE t == worker[w].task
<1>1. /\ At(w, "signed") /\ t \in Task /\ locks[t] = NoOne /\ Me(w) # NoOne
      /\ UNCHANGED <<backend, registry, tasks, files, events, leases, late>>
  BY RunFields DEF IInv, Check, Signed, Leased, At
<1>2. CASE tasks[t].owner # Me(w)
  BY <1>1, <1>2, RestingSafe DEF Check, Resting
<1>3. CASE tasks[t].owner = Me(w)
  <2>1. /\ worker' = [worker EXCEPT ![w].at = "checked"]
        /\ locks' = IF Postgres THEN [locks EXCEPT ![t] = w] ELSE locks
    BY <1>3 DEF Check
  <2>2. /\ worker'[w].at = "checked" /\ worker'[w].task = t /\ worker'[w].receipt = worker[w].receipt
        /\ \A v \in Worker : v # w => worker'[v] = worker[v]
    <3>1. worker[w] \in Run \cup {Resting} /\ worker'[w] = [worker[w] EXCEPT !.at = "checked"]
          /\ \A v \in Worker : v # w => worker'[v] = worker[v]
      BY <2>1 DEF IInv, TypeOK
    <3>2. PICK r \in Receipt : worker[w] = [at |-> "signed", task |-> t, receipt |-> r]
      BY <1>1, <3>1 DEF Run, Resting, At
    <3>3. worker'[w] = [at |-> "checked", task |-> t, receipt |-> r]
      BY <3>1, <3>2
    <3> QED
      BY <3>1, <3>2, <3>3
  <2>3. Postgres => locks'[t] = w /\ \A u \in Task : u # t => locks'[u] = locks[u]
    BY <1>1, <2>1 DEF IInv, TypeOK
  <2> HIDE DEF t
  <2>4. worker[w].task = t
    BY DEF t
  <2>5. \A v \in Worker : At(v, "selected") \/ At(v, "checked") => worker[v].task \in Task /\ v # NoOne
    BY RunFields DEF IInv, Leased, At
  <2> USE DEF Done, At, Me, Holding, AttemptOf, Leased, Signed, LeasedTo, LastOf, Postgres
  <2>6. OwnerOK' /\ SignerOK'
    BY <1>1 DEF IInv, Safe, OwnerOK, SignerOK
  <2>7. RunsOK'
    BY <1>1, <2>2, <2>4 DEF IInv, Safe, RunsOK
  <2>8. LateOK'
    BY <1>1, <2>2 DEF IInv, Safe, LateOK
  <2>9. Postgres => Serial'
    <3> SUFFICES ASSUME Postgres PROVE Serial'
      OBVIOUS
    <3>1. LockOK'
      BY <1>1, <1>3, <2>2, <2>3, <2>4, <2>5 DEF IInv, Safe, Serial, LockOK
    <3>2. AttemptOK' /\ OneRunPerLease'
      BY <1>1, <2>2, <2>4 DEF IInv, Safe, Serial, AttemptOK, OneRunPerLease
    <3>3. FinalOK'
      BY <1>1, <2>2 DEF IInv, Safe, Serial, FinalOK
    <3>4. TrailOK' /\ AuditAgrees'
      BY <1>1, <2>2, SMTT(60) DEF IInv, Safe, Serial, TrailOK, AuditAgrees
    <3> QED
      BY <3>1, <3>2, <3>3, <3>4 DEF Serial
  <2> QED
    BY <1>1, <2>6, <2>7, <2>8, <2>9 DEF Safe
<1> QED
  BY <1>2, <1>3

LEMMA CompleteSafe ==
  ASSUME IInv, NEW w \in Worker, Complete(w)
  PROVE  Safe'
<1> DEFINE t == worker[w].task
           r == worker[w].receipt
<1>1. /\ At(w, "checked") /\ t \in Task /\ r \in Receipt /\ Me(w) # NoOne
      /\ UNCHANGED <<backend, registry, files, events, leases, late>>
      /\ \A u \in Task : locks'[u] = IF locks[u] = w THEN NoOne ELSE locks[u]
  BY RunFields, Releasing DEF IInv, Complete, Signed, Leased, At
<1>2. /\ tasks'[t].state = r.state /\ tasks'[t].owner = NoOne /\ tasks'[t].attempt = tasks[t].attempt
      /\ tasks'[t].receipt = r /\ r.state \in Outcome
      /\ \A u \in Task : u # t => tasks'[u] = tasks[u]
  <2>1. tasks' = [tasks EXCEPT ![t] =
          [state |-> r.state, owner |-> NoOne, until |-> 0, attempt |-> tasks[t].attempt, receipt |-> r]]
    BY OutcomeRow DEF IInv
  <2>2. tasks'[t] = [state |-> r.state, owner |-> NoOne, until |-> 0, attempt |-> tasks[t].attempt,
                     receipt |-> r]
        /\ \A u \in Task : u # t => tasks'[u] = tasks[u]
    BY <1>1, <2>1 DEF IInv, TypeOK
  <2> QED
    BY <1>1, <2>2, ReceiptFields
<1>3. /\ worker'[w].at = "completed" /\ worker'[w].task = t /\ worker'[w].receipt = r
      /\ \A v \in Worker : v # w => worker'[v] = worker[v]
  <2>1. worker[w] \in Run \cup {Resting} /\ worker'[w] = [worker[w] EXCEPT !.at = "completed"]
        /\ \A v \in Worker : v # w => worker'[v] = worker[v]
    BY DEF IInv, TypeOK, Complete
  <2>2. PICK x \in Receipt : worker[w] = [at |-> "checked", task |-> t, receipt |-> x]
    BY <1>1, <2>1 DEF Run, Resting, At
  <2>3. worker'[w] = [at |-> "completed", task |-> t, receipt |-> x]
    BY <2>1, <2>2
  <2> QED
    BY <2>1, <2>2, <2>3
<1> HIDE DEF t, r
<1>4. worker[w].task = t /\ worker[w].receipt = r
  BY DEF t, r
<1>5. \A v \in Worker : At(v, "selected") \/ Leased(v) => worker[v].task \in Task /\ v # NoOne
  BY RunFields DEF IInv
<1> USE DEF Done, At, Me, Holding, AttemptOf, Leased, Signed, LeasedTo, LastOf, Postgres
<1>6. /\ r.by = Me(w) /\ files[w][t] = r
      /\ \E i \in DOMAIN leases[t] : leases[t][i] = Me(w)
  BY <1>1, <1>4 DEF IInv, Safe, RunsOK
<1>7. OwnerOK'
  BY <1>1, <1>2 DEF IInv, Safe, OwnerOK
<1>8. RunsOK'
  BY <1>1, <1>3, <1>4 DEF IInv, Safe, RunsOK
<1>9. SignerOK'
  BY <1>1, <1>2, <1>6 DEF IInv, Safe, SignerOK
<1>10. LateOK'
  BY <1>1, <1>3 DEF IInv, Safe, LateOK
<1>11. Postgres => Serial'
  <2> SUFFICES ASSUME Postgres PROVE Serial'
    OBVIOUS
  <2>1. locks[t] = w /\ tasks[t].owner = Me(w)
    BY <1>1, <1>4 DEF IInv, Safe, Serial, LockOK
  <2>2. ~Done(t) /\ LeasedTo(t, Me(w)) /\ events[t] = <<>>
    <3>1. ~Done(t) /\ LeasedTo(t, Me(w))
      BY <1>1, <2>1 DEF IInv, Safe, OwnerOK
    <3> QED
      BY <1>1, <3>1 DEF IInv, Safe, Serial, TrailOK
  <2>3. LockOK'
    <3>1. \A v \in Worker : At(v, "selected")' \/ At(v, "checked")' =>
             v # w /\ worker'[v] = worker[v] /\ worker[v].task \in Task
      BY <1>3, <1>5
    <3>2. \A v \in Worker : At(v, "selected")' \/ At(v, "checked")' =>
             locks[worker[v].task] = v /\ worker[v].task # t
      BY <2>1, <3>1 DEF IInv, Safe, Serial, LockOK
    <3> QED
      BY <1>1, <1>2, <3>1, <3>2 DEF IInv, Safe, Serial, LockOK
  <2>4. AttemptOK' /\ OneRunPerLease'
    <3>1. \A v \in Worker : \A u : Holding(v, u)' =>
             v # w /\ Holding(v, u) /\ AttemptOf(v)' = AttemptOf(v)
      BY <1>3
    <3>2. \A u \in Task : tasks'[u].attempt = tasks[u].attempt
      BY <1>2
    <3> HIDE DEF Holding, AttemptOf
    <3> QED
      BY <1>1, <3>1, <3>2 DEF IInv, Safe, Serial, AttemptOK, OneRunPerLease
  <2>5. FinalOK'
    <3>1. ASSUME NEW u \in Task, Done(u)', u # t
          PROVE  /\ LeasedTo(u, tasks[u].receipt.by)'
                 /\ \E v \in Worker : Me(v) = tasks'[u].receipt.by /\ files'[v][u] = tasks'[u].receipt
                                       /\ (At(v, "running")' => worker'[v].task # u)
      BY <1>1, <1>2, <1>3, <3>1 DEF IInv, Safe, Serial, FinalOK
    <3>2. /\ leases'[t] # <<>> /\ LastOf(leases'[t]) = tasks'[t].receipt.by
          /\ Me(w) = tasks'[t].receipt.by /\ files'[w][t] = tasks'[t].receipt /\ ~At(w, "running")'
      BY <1>1, <1>2, <1>3, <1>6, <2>2
    <3>3. ASSUME NEW u \in Task, Done(u)', u = t
          PROVE  /\ LeasedTo(u, tasks[u].receipt.by)'
                 /\ \E v \in Worker : Me(v) = tasks'[u].receipt.by /\ files'[v][u] = tasks'[u].receipt
                                       /\ (At(v, "running")' => worker'[v].task # u)
      BY <3>2, <3>3
    <3>4. ASSUME NEW u \in Task, Done(u)'
          PROVE  \E v \in Worker : Me(v) = tasks'[u].receipt.by /\ files'[v][u] = tasks'[u].receipt
                                       /\ (At(v, "running")' => worker'[v].task # u)
      <4>1. CASE u = t
        BY <3>3, <3>4, <4>1
      <4>2. CASE u # t
        BY <3>1, <3>4, <4>2
      <4> QED
        BY <4>1, <4>2
    <3>5. \A u \in Task : Done(u)' => LeasedTo(u, tasks[u].receipt.by)'
      BY <3>1, <3>3
    <3> QED
      BY <1>1, <3>4, <3>5 DEF FinalOK
  <2>6. TrailOK'
    <3>1. \A u \in Task : ~Done(u)' => events'[u] = <<>>
      BY <1>1, <1>2, <2>2 DEF IInv, Safe, Serial, TrailOK
    <3>2. \A v \in Worker : At(v, "completed") => v # w /\ worker[v].task \in Task /\ worker[v].task # t
      BY <1>1, <1>5, <2>2 DEF IInv, Safe, Serial, TrailOK
    <3> QED
      BY <1>1, <1>2, <1>3, <2>2, <3>1, <3>2 DEF IInv, Safe, Serial, TrailOK
  <2>7. AuditAgrees'
    BY <1>1, <1>2, <2>2 DEF IInv, Safe, Serial, AuditAgrees
  <2> QED
    BY <2>3, <2>4, <2>5, <2>6, <2>7 DEF Serial
<1> QED
  BY <1>1, <1>7, <1>8, <1>9, <1>10, <1>11, SMTT(60) DEF Safe

LEMMA AuditSafe ==
  ASSUME IInv, NEW w \in Worker, Audit(w)
  PROVE  Safe'
<1> DEFINE t == worker[w].task
           entry == [actor |-> Me(w), state |-> worker[w].receipt.state]
<1>1. /\ At(w, "completed") /\ t \in Task /\ Become(w, Resting)
      /\ events' = [events EXCEPT ![t] = Append(@, entry)]
      /\ UNCHANGED <<backend, registry, tasks, locks, files, leases, late>>
  BY RunFields DEF IInv, Audit, Leased, At
<1>2. /\ events'[t] = Append(events[t], entry)
      /\ \A u \in Task : u # t => events'[u] = events[u]
  BY <1>1 DEF IInv, TypeOK
<1>3. worker'[w].at = "idle" /\ \A v \in Worker : v # w => worker'[v] = worker[v]
  BY <1>1, Becoming DEF IInv, Resting
<1>4. entry.actor = Me(w) /\ entry.state = worker[w].receipt.state
  OBVIOUS
<1>5. \A e : Append(<<>>, e) = <<e>> /\ Len(<<e>>) = 1 /\ <<e>>[1] = e
  OBVIOUS
<1> HIDE DEF t, entry
<1>6. worker[w].task = t
  BY DEF t
<1>7. \A v \in Worker : Leased(v) => worker[v].task \in Task
  BY RunFields DEF IInv
<1> USE DEF Done, At, Me, Holding, AttemptOf, Leased, Signed, LeasedTo, LastOf, Postgres
<1>8. OwnerOK' /\ SignerOK'
  BY <1>1 DEF IInv, Safe, OwnerOK, SignerOK
<1>9. RunsOK'
  BY <1>1, <1>3, SMTT(60) DEF IInv, Safe, RunsOK
<1>10. LateOK'
  BY <1>1, <1>3 DEF IInv, Safe, LateOK
<1>11. Postgres => Serial'
  <2> SUFFICES ASSUME Postgres PROVE Serial'
    OBVIOUS
  <2>1. /\ Done(t) /\ tasks[t].receipt = worker[w].receipt /\ tasks[t].state = worker[w].receipt.state
        /\ events[t] = <<>> /\ \A v \in Worker : At(v, "completed") /\ worker[v].task = t => v = w
    BY <1>1, <1>6 DEF IInv, Safe, Serial, TrailOK
  <2>2. worker[w].receipt.by = Me(w)
    BY <1>1 DEF IInv, Safe, RunsOK
  <2>3. LockOK'
    BY <1>1, <1>3 DEF IInv, Safe, Serial, LockOK
  <2>4. AttemptOK' /\ OneRunPerLease'
    BY <1>1, <1>3 DEF IInv, Safe, Serial, AttemptOK, OneRunPerLease
  <2>5. FinalOK'
    BY <1>1, <1>3 DEF IInv, Safe, Serial, FinalOK
  <2>6. TrailOK'
    <3>1. \A u \in Task : ~Done(u)' => events'[u] = <<>>
      BY <1>1, <1>2, <2>1 DEF IInv, Safe, Serial, TrailOK
    <3>2. \A v \in Worker : At(v, "completed")' =>
             v # w /\ worker'[v] = worker[v] /\ worker[v].task \in Task /\ worker[v].task # t
      BY <1>3, <1>7, <2>1
    <3> QED
      BY <1>1, <1>2, <1>3, <3>1, <3>2 DEF IInv, Safe, Serial, TrailOK
  <2>7. AuditAgrees'
    <3>1. events'[t] = <<entry>> /\ Len(events'[t]) = 1 /\ events'[t][1] = entry
      BY <1>2, <1>5, <2>1
    <3>2. events'[t][1].state = tasks'[t].state /\ events'[t][1].actor = tasks'[t].receipt.by
      BY <1>1, <1>4, <2>1, <2>2, <3>1
    <3> QED
      BY <1>1, <1>2, <3>1, <3>2 DEF IInv, Safe, Serial, AuditAgrees
  <2> QED
    BY <2>3, <2>4, <2>5, <2>6, <2>7 DEF Serial
<1> QED
  BY <1>1, <1>8, <1>9, <1>10, <1>11 DEF Safe

(* The registry changes: an enrolment starts the count again, and disabling *)
(* a collector leaves it alone.                                             *)
LEMMA RegistrySafe ==
  ASSUME IInv, UNCHANGED <<backend, tasks, locks, worker, files, events, leases>>,
         \A w \in Worker : late'[w] = 0 \/ (late'[w] = late[w] /\ (registry'[Me(w)].enabled => registry[Me(w)].enabled))
  PROVE  Safe'
<1> USE DEF Done, At, Holding, AttemptOf, Leased, Signed, LeasedTo, LastOf, Postgres
<1>1. OwnerOK' /\ RunsOK' /\ SignerOK'
  BY DEF IInv, Safe, OwnerOK, RunsOK, SignerOK, Me
<1>2. LateOK'
  BY DEF IInv, Safe, LateOK, Me
<1>3. Postgres => Serial'
  <2>1. Postgres => LockOK' /\ AttemptOK' /\ OneRunPerLease'
    BY DEF IInv, Safe, Serial, LockOK, AttemptOK, OneRunPerLease, Me
  <2>2. Postgres => FinalOK' /\ TrailOK' /\ AuditAgrees'
    BY DEF IInv, Safe, Serial, FinalOK, TrailOK, AuditAgrees, Me
  <2> QED
    BY <2>1, <2>2 DEF Serial
<1> QED
  BY <1>1, <1>2, <1>3 DEF Safe

LEMMA NextSafe ==
  ASSUME IInv, [Next]_vars
  PROVE  Safe'
<1>1. ASSUME NEW t \in Task, Enqueue(t) PROVE Safe'
  BY <1>1, ElsewhereSafe DEF IInv, Enqueue
<1>2. ASSUME NEW w \in Worker, Poll(w) PROVE Safe'
  <2>1. late[w] = 0
    BY <1>2 DEF IInv, Safe, LateOK, Poll
  <2> QED
    BY <1>2, <2>1, RestingSafe DEF Poll
<1>3. ASSUME NEW w \in Worker, Crash(w) PROVE Safe'
  <2>1. \A t \in Task : locks'[t] = locks[t] \/ locks[t] = w
    BY <1>3, Releasing DEF IInv, Crash
  <2> QED
    BY <1>3, <2>1, RestingSafe DEF Crash, Resting
<1>4. CASE Tick
  BY <1>4, ElsewhereSafe DEF IInv, Tick
<1>5. ASSUME NEW c \in Collector, NEW caps \in Capabilities, Register(c, caps) PROVE Safe'
  <2>1. \A w \in Worker : Me(w) \in Collector
    BY RunFields DEF IInv
  <2>2. \A w \in Worker : late'[w] = IF Me(w) = c THEN 0 ELSE late[w]
    BY <1>5 DEF Register
  <2>3. \A w \in Worker : Me(w) # c => registry'[Me(w)] = registry[Me(w)]
    BY <1>5, <2>1 DEF IInv, TypeOK, Register
  <2> QED
    BY <1>5, <2>2, <2>3, RegistrySafe DEF Register
<1>6. ASSUME NEW c \in Collector, Disable(c) PROVE Safe'
  <2>1. \A w \in Worker : registry'[Me(w)].enabled => registry[Me(w)].enabled
    BY <1>6, RunFields DEF IInv, TypeOK, Disable
  <2> QED
    BY <1>6, <2>1, RegistrySafe DEF Disable
<1>7. CASE UNCHANGED vars
  BY <1>7, ElsewhereSafe DEF IInv, vars
<1> QED
  BY <1>1, <1>2, <1>3, <1>4, <1>5, <1>6, <1>7, SelectSafe, LeaseSafe, ExecuteSafe, CheckSafe, CompleteSafe,
     AuditSafe DEF Next, RunOnce

-----------------------------------------------------------------------------
(* Types.                                                                   *)

LEMMA InitTyped == Init => TypeOK
<1> SUFFICES ASSUME Init PROVE TypeOK
  OBVIOUS
<1>1. /\ backend \in DOMAIN Requests /\ clock \in 0..MaxClock
      /\ crashes \in 0..MaxCrashes /\ changes \in 0..MaxChanges
  BY AcquisitionAssumption DEF Init
<1>2. registry \in [Collector -> [enabled : BOOLEAN, caps : Capabilities]]
  BY AcquisitionAssumption DEF Init
<1>3. NoReceipt \in Receipt \cup {NoReceipt} /\ <<>> \in Seq(Task)
      /\ <<>> \in Seq([actor : Collector, state : Outcome]) /\ <<>> \in Seq(Collector)
  BY EmptySeq
<1>4. [state |-> "QUEUED", owner |-> NoOne, until |-> 0, attempt |-> 0, receipt |-> NoReceipt] \in Row
  BY <1>3 DEF Row
<1> HIDE DEF NoReceipt
<1>5. tasks \in [Task -> Row] /\ locks \in [Task -> Worker \cup {NoOne}]
  BY <1>4 DEF Init
<1>6. worker \in [Worker -> Run \cup {Resting}] /\ late \in [Worker -> Nat]
  BY DEF Init
<1>7. files \in [Worker -> [Task -> Receipt \cup {NoReceipt}]]
  BY <1>3 DEF Init
<1>8. queue \in Seq(Task) /\ events \in [Task -> Seq([actor : Collector, state : Outcome])]
      /\ leases \in [Task -> Seq(Collector)]
  BY <1>3 DEF Init
<1> QED
  BY <1>1, <1>2, <1>5, <1>6, <1>7, <1>8 DEF TypeOK

(* Each part of the state that a step of a worker may change.               *)
LEMMA RunTyped ==
  ASSUME TypeOK, NEW w \in Worker, RunOnce(w) \/ Crash(w)
  PROVE  worker' \in [Worker -> Run \cup {Resting}]
<1>1. ASSUME NEW run \in Run \cup {Resting}, Become(w, run)
      PROVE  worker' \in [Worker -> Run \cup {Resting}]
  BY <1>1 DEF TypeOK, Become
<1>2. CASE Poll(w)
  <2>1. clock \in Nat /\ registry[Me(w)].caps \in SUBSET Type
    <3>1. clock \in Nat
      BY AcquisitionAssumption DEF TypeOK
    <3>2. registry[Me(w)] \in [enabled : BOOLEAN, caps : Capabilities]
      BY RunFields DEF TypeOK
    <3> QED
      BY <3>1, <3>2, AcquisitionAssumption
  <2>2. [at |-> "polled", now |-> clock, caps |-> registry[Me(w)].caps] \in Run \cup {Resting}
    BY <2>1 DEF Run
  <2> QED
    BY <1>1, <1>2, <2>2 DEF Poll
<1>3. CASE Select(w)
  <2>1. worker[w].now \in Nat
    BY <1>3, RunFields DEF Select
  <2>2. ASSUME NEW t \in Task
        PROVE  [at |-> "selected", now |-> worker[w].now, task |-> t, attempt |-> tasks[t].attempt]
                 \in Run \cup {Resting}
    BY <2>1 DEF Run, TypeOK, Row
  <2>3. Resting \in Run \cup {Resting}
    OBVIOUS
  <2> QED
    BY <1>1, <1>3, <2>2, <2>3, Selecting, ZenonT(60)
<1>4. CASE Lease(w)
  <2>1. worker[w].attempt \in Nat /\ worker[w].task \in Task
    BY <1>4, RunFields DEF Lease
  <2>2. [at |-> "running", task |-> worker[w].task, attempt |-> worker[w].attempt + 1] \in Run \cup {Resting}
    BY <2>1 DEF Run
  <2> QED
    BY <1>1, <1>4, <2>2, SMTT(60) DEF Lease
<1>5. ASSUME NEW state \in Results, Execute(w, state) PROVE worker' \in [Worker -> Run \cup {Resting}]
  <2> DEFINE r == [by |-> Me(w), attempt |-> worker[w].attempt, state |-> state]
  <2>1. worker[w].task \in Task /\ r \in Receipt
    BY <1>5, RunFields, AcquisitionAssumption DEF Execute, Leased, At, Receipt
  <2> HIDE DEF r
  <2>2. [at |-> "signed", task |-> worker[w].task, receipt |-> r] \in Run \cup {Resting}
    BY <2>1 DEF Run
  <2>3. Become(w, [at |-> "signed", task |-> worker[w].task, receipt |-> r])
    BY <1>5 DEF Execute, r
  <2> QED
    BY <1>1, <2>2, <2>3
<1>6. ASSUME NEW step \in {"checked", "completed"}, At(w, "signed") \/ At(w, "checked"),
             worker' = [worker EXCEPT ![w].at = step]
      PROVE  worker' \in [Worker -> Run \cup {Resting}]
  <2>1. worker[w] \in [at : {"signed", "checked", "completed"}, task : Task, receipt : Receipt]
    BY <1>6, SMTT(60) DEF TypeOK, Run, Resting, At
  <2>2. [worker[w] EXCEPT !.at = step] \in [at : {"signed", "checked", "completed"}, task : Task, receipt : Receipt]
    BY <2>1
  <2>3. [worker[w] EXCEPT !.at = step] \in Run
    BY <2>2 DEF Run
  <2>4. worker' = [worker EXCEPT ![w] = [worker[w] EXCEPT !.at = step]]
    BY <1>6
  <2> QED
    BY <2>3, <2>4 DEF TypeOK
<1>7. Resting \in Run \cup {Resting}
  OBVIOUS
<1>8. CASE Check(w)
  BY <1>1, <1>6, <1>7, <1>8 DEF Check
<1>9. CASE Complete(w)
  BY <1>6, <1>9 DEF Complete
<1>10. CASE Audit(w) \/ Crash(w)
  BY <1>1, <1>7, <1>10 DEF Audit, Crash
<1> QED
  BY <1>2, <1>3, <1>4, <1>5, <1>8, <1>9, <1>10 DEF RunOnce

LEMMA LocksTyped ==
  ASSUME TypeOK, NEW w \in Worker, RunOnce(w) \/ Crash(w)
  PROVE  locks' \in [Task -> Worker \cup {NoOne}]
<1>1. ASSUME locks' = Released(w) PROVE locks' \in [Task -> Worker \cup {NoOne}]
  BY <1>1 DEF TypeOK, Released
<1>2. ASSUME UNCHANGED locks PROVE locks' \in [Task -> Worker \cup {NoOne}]
  BY <1>2 DEF TypeOK
<1>3. CASE Check(w)
  <2>1. UNCHANGED locks \/ locks' = [locks EXCEPT ![worker[w].task] = w]
    BY <1>3 DEF Check
  <2> QED
    BY <1>2, <2>1 DEF TypeOK
<1>4. CASE Select(w)
  BY <1>2, <1>4, Selecting
<1>5. CASE Poll(w) \/ Audit(w) \/ \E state \in Results : Execute(w, state)
  BY <1>2, <1>5 DEF Poll, Audit, Execute
<1>6. CASE Lease(w) \/ Complete(w) \/ Crash(w)
  BY <1>1, <1>6 DEF Lease, Complete, Crash
<1> QED
  BY <1>3, <1>4, <1>5, <1>6 DEF RunOnce

LEMMA BooksTyped ==
  ASSUME TypeOK, NEW w \in Worker, RunOnce(w) \/ Crash(w)
  PROVE  /\ tasks' \in [Task -> Row] /\ leases' \in [Task -> Seq(Collector)]
         /\ files' \in [Worker -> [Task -> Receipt \cup {NoReceipt}]]
         /\ events' \in [Task -> Seq([actor : Collector, state : Outcome])]
         /\ late' \in [Worker -> Nat]
<1>1. /\ tasks \in [Task -> Row] /\ leases \in [Task -> Seq(Collector)]
      /\ files \in [Worker -> [Task -> Receipt \cup {NoReceipt}]]
      /\ events \in [Task -> Seq([actor : Collector, state : Outcome])]
      /\ late \in [Worker -> Nat]
  BY DEF TypeOK
<1>2. CASE Lease(w)
  <2>1. worker[w].task \in Task /\ worker[w].now \in Nat /\ Me(w) \in Collector
    BY <1>2, RunFields DEF Lease
  <2>2. tasks' \in [Task -> Row]
    <3>1. [state |-> "LEASED", owner |-> Me(w), until |-> worker[w].now + LeaseTime,
           attempt |-> tasks[worker[w].task].attempt + 1, receipt |-> tasks[worker[w].task].receipt] \in Row
      BY <1>1, <2>1, AcquisitionAssumption, SMTT(60) DEF Row
    <3> QED
      BY <1>1, <1>2, <2>1, <3>1, LeaseRow, ZenonT(60)
  <2>3. leases' \in [Task -> Seq(Collector)]
    <3>1. Append(leases[worker[w].task], Me(w)) \in Seq(Collector)
      BY <1>1, <2>1, Added, SMTT(60)
    <3> QED
      BY <1>1, <1>2, <2>1, <3>1 DEF Lease
  <2>4. late' \in [Worker -> Nat]
    BY <1>1, <1>2 DEF Lease
  <2> QED
    BY <1>1, <1>2, <2>2, <2>3, <2>4 DEF Lease
<1>3. ASSUME NEW state \in Results, Execute(w, state)
      PROVE  files' \in [Worker -> [Task -> Receipt \cup {NoReceipt}]] /\ UNCHANGED <<tasks, leases, events, late>>
  <2> DEFINE r == [by |-> Me(w), attempt |-> worker[w].attempt, state |-> state]
  <2>1. worker[w].task \in Task /\ r \in Receipt
    BY <1>3, RunFields, AcquisitionAssumption DEF Execute, Leased, At, Receipt
  <2>2. files' = [files EXCEPT ![w][worker[w].task] = r] /\ UNCHANGED <<tasks, leases, events, late>>
    BY <1>3, SMTT(60) DEF Execute
  <2> HIDE DEF r
  <2> QED
    BY <1>1, <2>1, <2>2
<1>4. CASE Complete(w)
  <2>1. worker[w].task \in Task /\ worker[w].receipt \in Receipt
    BY <1>4, RunFields DEF Complete, Leased, Signed, At
  <2>2. [state |-> worker[w].receipt.state, owner |-> NoOne, until |-> 0,
         attempt |-> tasks[worker[w].task].attempt, receipt |-> worker[w].receipt] \in Row
    <3>1. worker[w].receipt.state \in Outcome /\ tasks[worker[w].task].attempt \in Nat
      BY <1>1, <2>1, ReceiptFields DEF Row
    <3> QED
      BY <2>1, <3>1 DEF Row
  <2>3. tasks' \in [Task -> Row]
    BY <1>1, <1>4, <2>1, <2>2, OutcomeRow, ZenonT(60)
  <2> QED
    BY <1>1, <1>4, <2>3, ZenonT(60) DEF Complete
<1>5. CASE Audit(w)
  <2> DEFINE entry == [actor |-> Me(w), state |-> worker[w].receipt.state]
  <2>1. worker[w].task \in Task /\ worker[w].receipt \in Receipt /\ Me(w) \in Collector
    BY <1>5, RunFields DEF Audit, Leased, Signed, At
  <2>2. entry \in [actor : Collector, state : Outcome]
    BY <2>1, ReceiptFields
  <2>3. events' = [events EXCEPT ![worker[w].task] = Append(events[worker[w].task], entry)]
    BY <1>5, <2>1 DEF Audit
  <2> HIDE DEF entry
  <2>4. Append(events[worker[w].task], entry) \in Seq([actor : Collector, state : Outcome])
    BY <1>1, <2>1, <2>2, AppendProperties
  <2>5. events' \in [Task -> Seq([actor : Collector, state : Outcome])]
    BY <1>1, <2>3, <2>4
  <2> QED
    BY <1>1, <1>5, <2>5 DEF Audit
<1>6. CASE Poll(w) \/ Select(w) \/ Check(w) \/ Crash(w)
  BY <1>1, <1>6 DEF Poll, Select, Check, Crash
<1> QED
  BY <1>1, <1>2, <1>3, <1>4, <1>5, <1>6 DEF RunOnce

LEMMA NextTyped ==
  ASSUME TypeOK, [Next]_vars
  PROVE  TypeOK'
<1>1. ASSUME NEW t \in Task, Enqueue(t) PROVE TypeOK'
  <2>1. queue' \in Seq(Task)
    BY <1>1, AppendProperties DEF TypeOK, Enqueue
  <2> QED
    BY <1>1, <2>1 DEF TypeOK, Enqueue
<1>2. ASSUME NEW w \in Worker, RunOnce(w) \/ Crash(w) PROVE TypeOK'
  <2>1. UNCHANGED <<backend, clock, registry, queue, changes>>
    BY <1>2, ZenonT(60) DEF RunOnce, Poll, Select, Lease, Execute, Check, Complete, Audit, Crash
  <2>2. UNCHANGED crashes \/ (crashes < MaxCrashes /\ crashes' = crashes + 1)
    BY <1>2 DEF RunOnce, Poll, Select, Lease, Execute, Check, Complete, Audit, Crash
  <2>3. crashes' \in 0..MaxCrashes
    BY <2>2, AcquisitionAssumption DEF TypeOK
  <2> QED
    BY <1>2, <2>1, <2>3, RunTyped, LocksTyped, BooksTyped, ZenonT(60) DEF TypeOK
<1>3. CASE Tick
  <2>1. clock' \in 0..MaxClock
    BY <1>3, AcquisitionAssumption DEF TypeOK, Tick
  <2> QED
    BY <1>3, <2>1 DEF TypeOK, Tick
<1>4. ASSUME NEW c \in Collector, NEW caps \in Capabilities, Register(c, caps) PROVE TypeOK'
  <2>1. registry' \in [Collector -> [enabled : BOOLEAN, caps : Capabilities]] /\ late' \in [Worker -> Nat]
    BY <1>4 DEF TypeOK, Register
  <2>2. changes' \in 0..MaxChanges
    BY <1>4, AcquisitionAssumption DEF TypeOK, Register, Change
  <2> QED
    BY <1>4, <2>1, <2>2 DEF TypeOK, Register
<1>5. ASSUME NEW c \in Collector, Disable(c) PROVE TypeOK'
  <2>1. registry' \in [Collector -> [enabled : BOOLEAN, caps : Capabilities]]
    BY <1>5 DEF TypeOK, Disable
  <2>2. changes' \in 0..MaxChanges
    BY <1>5, AcquisitionAssumption DEF TypeOK, Disable, Change
  <2> QED
    BY <1>5, <2>1, <2>2 DEF TypeOK, Disable
<1>6. CASE UNCHANGED vars
  BY <1>6 DEF TypeOK, vars
<1> QED
  BY <1>1, <1>2, <1>3, <1>4, <1>5, <1>6 DEF Next

LEMMA Inductive == Spec => []IInv
<1>1. Init => IInv
  BY InitTyped, InitSafe DEF IInv
<1>2. IInv /\ [Next]_vars => IInv'
  BY NextTyped, NextSafe DEF IInv
<1> QED
  BY <1>1, <1>2, PTL DEF Spec

-----------------------------------------------------------------------------
(* Theorems.                                                                *)

(* Every state of distributed acquisition is well typed, for any requests,  *)
(* workers and collectors: rows, receipts and runs have the forms that      *)
(* distributed_acquisition_v15.py and collector_worker_v15.py give them.    *)
THEOREM TypeCorrect == Spec => []TypeOK
<1>1. IInv => TypeOK
  BY DEF IInv
<1> QED
  BY <1>1, Inductive, PTL

(* On PostgreSQL no two workers execute a task under the same lease: the    *)
(* lease that is written is one beyond all that workers hold (AttemptOK),   *)
(* as the row's lock keeps the attempt that was read (LockOK).              *)
THEOREM OneWorkerPerLease == Spec => []OneRunPerLease
<1>1. IInv => OneRunPerLease
  BY DEF IInv, Safe, Serial, OneRunPerLease
<1> QED
  BY <1>1, Inductive, PTL

(* Row, receipt, receipt file, history of leases and audit trail tell one   *)
(* story of each completion, whichever late workers take part: on either    *)
(* backend the signer leased the task (RunsOK, SignerOK); on PostgreSQL it  *)
(* did so last and keeps the receipt (FinalOK), and the trail has one       *)
(* entry, which agrees with the row (TrailOK, AuditAgrees).                 *)
THEOREM CompletionsTellOneStory == Spec => []CompletionsAgree
<1>1. IInv => AuditAgrees
  BY DEF IInv, Safe, Serial, AuditAgrees
<1>2. IInv => ReceiptFromLessee
  <2> SUFFICES ASSUME IInv, NEW t \in Task, Done(t)
               PROVE  /\ \E i \in DOMAIN leases[t] :
                           leases[t][i] = tasks[t].receipt.by /\ (Postgres => i = Len(leases[t]))
                      /\ \E w \in Worker :
                           Me(w) = tasks[t].receipt.by /\ (Postgres => files[w][t] = tasks[t].receipt)
    BY DEF ReceiptFromLessee
  <2>1. CASE ~Postgres
    BY <2>1 DEF IInv, Safe, SignerOK
  <2>2. CASE Postgres
    <3>1. /\ leases[t] # <<>> /\ leases[t][Len(leases[t])] = tasks[t].receipt.by
          /\ \E w \in Worker : Me(w) = tasks[t].receipt.by /\ files[w][t] = tasks[t].receipt
      BY <2>2 DEF IInv, Safe, Serial, FinalOK, LeasedTo, LastOf
    <3>2. Len(leases[t]) \in DOMAIN leases[t]
      BY <3>1, LenProperties, EmptySeq DEF IInv, TypeOK
    <3> QED
      BY <3>1, <3>2
  <2> QED
    BY <2>1, <2>2
<1> QED
  BY <1>1, <1>2, Inductive, PTL DEF CompletionsAgree

(* A worker whose collector is disabled takes at most the one task for      *)
(* which it had already read its enrolment (LateOK).                        *)
THEOREM AtMostOneLateLease == Spec => []OneLateLease
<1>1. IInv => OneLateLease
  BY DEF IInv, Safe, LateOK, OneLateLease
<1> QED
  BY <1>1, Inductive, PTL

(* On PostgreSQL no step changes the row of a task that is done: whoever is *)
(* about to write a row holds its lock, over a row that is not done         *)
(* (LockOK), or over one it owns, and a row that is done has no owner       *)
(* (OwnerOK).                                                               *)
THEOREM OutcomesAreFinal == Spec => OutcomeIsFinal
<1>1. IInv /\ [Next]_vars => [\A t \in Task : Postgres /\ Done(t) => tasks'[t] = tasks[t]]_vars
  <2> SUFFICES ASSUME IInv, Next, Postgres, NEW t \in Task, Done(t) PROVE tasks'[t] = tasks[t]
    OBVIOUS
  <2>1. ASSUME NEW w \in Worker, Lease(w) PROVE tasks'[t] = tasks[t]
    <3>1. At(w, "selected") /\ worker[w].task \in Task
      BY <2>1, RunFields DEF IInv, Lease
    <3>2. worker[w].task # t
      BY <3>1 DEF IInv, Safe, Serial, LockOK
    <3> QED
      BY <2>1, <3>1, <3>2, LeaseRow DEF IInv, TypeOK
  <2>2. ASSUME NEW w \in Worker, Complete(w) PROVE tasks'[t] = tasks[t]
    <3>1. At(w, "checked") /\ worker[w].task \in Task /\ Me(w) # NoOne
      BY <2>2, RunFields DEF IInv, Complete, Leased, At
    <3>2. worker[w].task # t
      BY <3>1 DEF IInv, Safe, Serial, LockOK, OwnerOK
    <3> QED
      BY <2>2, <3>1, <3>2, OutcomeRow DEF IInv, TypeOK
  <2>3. CASE UNCHANGED tasks
    BY <2>3
  <2> QED
    BY ZenonT(60), <2>1, <2>2, <2>3
    DEF Next, Enqueue, RunOnce, Poll, Select, Execute, Check, Audit, Crash, Tick, Disable, Register
<1> QED
  BY <1>1, Inductive, PTL DEF Spec, OutcomeIsFinal
=============================================================================

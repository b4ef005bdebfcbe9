-------------------------- MODULE PolicySyncProofs --------------------------
(***************************************************************************)
(* Theorems about the policy synchronization scheduler, for every schedule, *)
(* every interval, backoff and jitter, and every bound.                     *)
(***************************************************************************)
EXTENDS PolicySync, SequenceTheorems, FiniteSetTheorems, TLAPS

(* A job has been quiet, or has still to wait, for as long as its failures  *)
(* in a row ask for.                                                        *)
WaitOK ==
  \A j \in Job : quiet[j] = MaxBackoff \/ quiet[j] + timeLeft[j] >= Delay(failures[j], 0)

(* The inductive invariant.                                                 *)
IInv == TypeOK /\ WaitOK

-----------------------------------------------------------------------------
(* Delays.                                                                  *)

LEMMA PowerOfTwo ==
  ASSUME NEW k \in Nat
  PROVE  2^k \in Nat /\ 2^k >= 1
<1> DEFINE S == 1..k
<1>1. IsFiniteSet(S) /\ Cardinality(S) = k
  BY FS_Interval
<1>2. IsFiniteSet(SUBSET S) /\ Cardinality(SUBSET S) = 2^k
  BY <1>1, FS_SUBSET
<1>3. Cardinality(SUBSET S) \in Nat /\ Cardinality(SUBSET S) # 0
  <2>1. SUBSET S # {}
    OBVIOUS
  <2> QED
    BY <1>2, <2>1, FS_EmptySet, FS_CardinalityType
<1>4. \A c \in Nat : c # 0 => c >= 1
  OBVIOUS
<1> QED
  BY <1>2, <1>3, <1>4, Zenon

LEMMA Doubling ==
  ASSUME NEW k \in Nat
  PROVE  Interval * 2^k \in Nat /\ Interval * 2^k >= Interval
<1> DEFINE p == 2^k
<1>1. p \in Nat /\ p >= 1
  BY PowerOfTwo
<1> HIDE DEF p
<1>2. Interval * p \in Nat /\ Interval * p >= Interval
  BY <1>1, SyncAssumption
<1> QED
  BY <1>2 DEF p

(* The number of doublings after count failures in a row.                   *)
Doublings(count) == IF count = 0 THEN 0 ELSE count - 1

(* A delay is within the longest backoff; but for that it is the doubled    *)
(* interval and what the jitter adds, at least the interval itself.         *)
LEMMA DelayBounds ==
  ASSUME NEW count \in Nat, NEW padding \in Nat
  PROVE  /\ Delay(count, padding) \in 0..MaxBackoff
         /\ Delay(count, padding) >= Delay(count, 0)
         /\ \/ Delay(count, 0) = MaxBackoff
            \/ /\ Delay(count, 0) >= Interval
               /\ count > 0 => Delay(count, 0) >= Interval * 2^(count - 1)
<1> DEFINE d == Interval * 2^Doublings(count)
<1>1. Doublings(count) \in Nat /\ (count > 0 => Doublings(count) = count - 1)
  BY DEF Doublings
<1>2. d \in Nat /\ d >= Interval
  BY <1>1, Doubling
<1>3. count > 0 => d = Interval * 2^(count - 1)
  BY <1>1
<1>4. \A x \in Nat : Delay(count, x) = IF d + x < MaxBackoff THEN d + x ELSE MaxBackoff
  BY DEF Delay, Doublings
<1> HIDE DEF d
<1>5. Delay(count, 0) = IF d < MaxBackoff THEN d ELSE MaxBackoff
  BY <1>2, <1>4
<1>6. Delay(count, padding) = IF d + padding < MaxBackoff THEN d + padding ELSE MaxBackoff
  BY <1>4
<1>7. Delay(count, padding) \in 0..MaxBackoff /\ Delay(count, padding) >= Delay(count, 0)
  BY <1>2, <1>5, <1>6, SyncAssumption
<1>8. Delay(count, 0) = MaxBackoff \/ Delay(count, 0) = d
  BY <1>5
<1> QED
  BY <1>2, <1>3, <1>7, <1>8

LEMMA Positions ==
  /\ Len(Jobs) \in Nat /\ DOMAIN Jobs = 1..Len(Jobs)
  /\ \A i \in DOMAIN Jobs : Jobs[i] \in Job
BY SyncAssumption, LenProperties DEF Job

(* The round goes on with the next position or ends.                        *)
LEMMA FollowingTyped ==
  ASSUME NEW i \in DOMAIN Jobs
  PROVE  /\ Following(i) = NoRound \/ Following(i) \in [step : {"next", "fetching"}, job : DOMAIN Jobs]
         /\ Following(i).step # "fetching"
BY Positions DEF Following, NoRound

RoundOK ==
  \/ round = NoRound
  \/ round \in [step : {"next", "fetching"}, job : DOMAIN Jobs]
  \/ round \in [step : {"accepting"}, job : DOMAIN Jobs, bundle : 1..published]

CountsOK ==
  /\ timeLeft \in [Job -> 0..MaxBackoff]
  /\ failures \in [Job -> 0..FailureCap]
  /\ quiet \in [Job -> 0..MaxBackoff]

LEMMA InARound ==
  ASSUME TypeOK, round.step \in {"next", "fetching", "accepting"}
  PROVE  /\ round.job \in DOMAIN Jobs
         /\ round.step # "accepting" => round \in [step : {"next", "fetching"}, job : DOMAIN Jobs]
         /\ round.step = "accepting" => round.bundle \in 1..published
BY DEF TypeOK, NoRound

-----------------------------------------------------------------------------
(* Each action preserves the invariant.                                     *)

LEMMA Initially == ASSUME Init PROVE IInv
<1>1. TypeOK
  BY SyncAssumption DEF Init, TypeOK, NoRound
<1>2. WaitOK
  BY DEF Init, WaitOK
<1> QED
  BY <1>1, <1>2 DEF IInv

(* However an attempt ends, its job now waits as long as it has to, and     *)
(* nothing else waits less.                                                 *)
LEMMA Ending ==
  ASSUME IInv, round.step \in {"next", "fetching", "accepting"},
         NEW success \in BOOLEAN, NEW padding \in 0..Jitter, EndAttempt(success, padding)
  PROVE  CountsOK' /\ WaitOK' /\ RoundOK' /\ round'.step # "fetching"
<1> USE DEF IInv
<1>1. round.job \in DOMAIN Jobs
  BY InARound
<1>2. PICK j \in Job : j = Jobs[round.job]
  BY <1>1, Positions
<1> DEFINE count == IF success THEN 0 ELSE IF failures[j] = FailureCap THEN FailureCap ELSE failures[j] + 1
<1>3. count \in 0..FailureCap
  <2>1. failures[j] \in 0..FailureCap /\ FailureCap \in Nat
    BY SyncAssumption DEF TypeOK
  <2> QED
    BY <2>1
<1>4. /\ failures' = [failures EXCEPT ![j] = count]
      /\ timeLeft' = [timeLeft EXCEPT ![j] = Delay(count, padding)]
      /\ quiet' = [quiet EXCEPT ![j] = 0]
      /\ round' = Following(round.job)
  BY <1>2 DEF EndAttempt
<1> HIDE DEF count
<1>5. padding \in Nat /\ count \in Nat
  BY <1>3, SyncAssumption
<1>6. Delay(count, padding) \in 0..MaxBackoff /\ Delay(count, padding) >= Delay(count, 0)
  BY <1>5, DelayBounds
<1>7. Delay(count, 0) \in 0..MaxBackoff
  BY <1>5, DelayBounds
<1>8. CountsOK'
  <2>1. timeLeft' \in [Job -> 0..MaxBackoff]
    BY <1>4, <1>6 DEF TypeOK
  <2>2. failures' \in [Job -> 0..FailureCap]
    BY <1>3, <1>4 DEF TypeOK
  <2>3. 0 \in 0..MaxBackoff
    BY SyncAssumption
  <2>4. quiet' \in [Job -> 0..MaxBackoff]
    BY <1>4, <2>3 DEF TypeOK
  <2> QED
    BY <2>1, <2>2, <2>4 DEF CountsOK
<1>9. RoundOK' /\ round'.step # "fetching"
  BY <1>1, <1>4, FollowingTyped DEF RoundOK, NoRound
<1>10. WaitOK'
  <2> SUFFICES ASSUME NEW k \in Job
               PROVE  quiet'[k] = MaxBackoff \/ quiet'[k] + timeLeft'[k] >= Delay(failures'[k], 0)
    BY DEF WaitOK
  <2>1. CASE k = j
    <3>1. quiet'[k] = 0 /\ timeLeft'[k] = Delay(count, padding) /\ failures'[k] = count
      BY <1>4, <2>1 DEF TypeOK
    <3> QED
      BY <1>6, <1>7, <3>1
  <2>2. CASE k # j
    <3>1. quiet'[k] = quiet[k] /\ timeLeft'[k] = timeLeft[k] /\ failures'[k] = failures[k]
      BY <1>4, <2>2 DEF TypeOK
    <3> QED
      BY <3>1 DEF WaitOK
  <2> QED
    BY <2>1, <2>2
<1> QED
  BY <1>8, <1>9, <1>10

(* Steps that leave counts, deadlines and stores alone.                     *)
LEMMA RoundStepKeeps ==
  ASSUME IInv, UNCHANGED <<published, lapsed, store, timeLeft, failures, quiet>>,
         faults' \in 0..MaxFaults, RoundOK'
  PROVE  IInv'
<1>1. TypeOK'
  BY DEF IInv, TypeOK, RoundOK
<1>2. WaitOK'
  BY DEF IInv, WaitOK
<1> QED
  BY <1>1, <1>2 DEF IInv

LEMMA StartRoundKeeps == ASSUME IInv, StartRound PROVE IInv'
<1>1. 1 \in DOMAIN Jobs
  BY Positions DEF StartRound, Job
<1>2. RoundOK'
  BY <1>1 DEF StartRound, RoundOK
<1> QED
  BY <1>2, RoundStepKeeps DEF StartRound, IInv, TypeOK

LEMMA SkipKeeps == ASSUME IInv, Skip PROVE IInv' /\ round'.step # "fetching"
<1>1. round.job \in DOMAIN Jobs
  BY InARound DEF Skip, IInv
<1>2. RoundOK' /\ round'.step # "fetching"
  BY <1>1, FollowingTyped DEF Skip, RoundOK
<1> QED
  BY <1>2, RoundStepKeeps DEF Skip, IInv, TypeOK

LEMMA PreflightKeeps == ASSUME IInv, NEW padding \in 0..Jitter, Preflight(padding) PROVE IInv'
<1>1. CASE Jobs[round.job] \in Misconfigured
  <2>1. EndAttempt(FALSE, padding) /\ round.step = "next"
    BY <1>1 DEF Preflight
  <2>2. CountsOK' /\ WaitOK' /\ RoundOK'
    BY <2>1, Ending
  <2> QED
    BY <2>2 DEF Preflight, IInv, TypeOK, CountsOK, RoundOK
<1>2. CASE Jobs[round.job] \notin Misconfigured
  <2>1. round \in [step : {"next", "fetching"}, job : DOMAIN Jobs]
    BY InARound DEF Preflight, IInv
  <2>2. RoundOK'
    BY <1>2, <2>1 DEF Preflight, RoundOK
  <2> QED
    BY <1>2, <2>2, RoundStepKeeps DEF Preflight, IInv, TypeOK
<1> QED
  BY <1>1, <1>2

LEMMA FetchKeeps == ASSUME IInv, NEW n \in 1..published, Fetch(n) PROVE IInv'
<1>1. round.job \in DOMAIN Jobs
  BY InARound DEF Fetch, IInv
<1>2. RoundOK'
  BY <1>1 DEF Fetch, RoundOK
<1>3. faults' \in 0..MaxFaults
  BY SyncAssumption DEF Fetch, IInv, TypeOK
<1> QED
  BY <1>2, <1>3, RoundStepKeeps DEF Fetch

LEMMA FetchFailsKeeps == ASSUME IInv, NEW padding \in 0..Jitter, FetchFails(padding) PROVE IInv'
<1>1. CountsOK' /\ WaitOK' /\ RoundOK'
  BY Ending DEF FetchFails
<1>2. faults' \in 0..MaxFaults
  BY SyncAssumption DEF FetchFails, IInv, TypeOK
<1> QED
  BY <1>1, <1>2 DEF FetchFails, IInv, TypeOK, CountsOK, RoundOK

(* An accepted policy is current and not older than the one it replaces.    *)
LEMMA Accepting ==
  ASSUME IInv, NEW padding \in 0..Jitter, Accept(padding)
  PROVE  /\ \A j \in Job : store'[j] >= store[j] /\ (store'[j] # store[j] => store'[j] \notin lapsed)
         /\ store' \in [Job -> 1..published]
<1>1. round.job \in DOMAIN Jobs /\ round.bundle \in 1..published
  BY InARound DEF Accept, IInv
<1>2. PICK j \in Job : j = Jobs[round.job]
  BY <1>1, Positions
<1>3. store' = IF Acceptable(j, round.bundle) THEN [store EXCEPT ![j] = round.bundle] ELSE store
  BY <1>2 DEF Accept
<1>4. published \in Nat /\ store \in [Job -> 1..published]
  BY SyncAssumption DEF IInv, TypeOK
<1>5. \A k \in Job : store[k] >= store[k]
  BY <1>4
<1>6. CASE ~Acceptable(j, round.bundle)
  BY <1>3, <1>4, <1>5, <1>6
<1>7. CASE Acceptable(j, round.bundle)
  BY <1>1, <1>3, <1>4, <1>5, <1>7 DEF Acceptable
<1> QED
  BY <1>6, <1>7

LEMMA AcceptKeeps == ASSUME IInv, NEW padding \in 0..Jitter, Accept(padding) PROVE IInv'
<1>1. PICK ok \in BOOLEAN : EndAttempt(ok, padding)
  BY DEF Accept, Acceptable
<1>2. CountsOK' /\ WaitOK' /\ RoundOK'
  BY <1>1, Ending DEF Accept
<1> QED
  BY <1>2, Accepting DEF Accept, IInv, TypeOK, CountsOK, RoundOK

LEMMA RestartKeeps == ASSUME IInv, Restart PROVE IInv'
<1>1. TypeOK'
  <2>1. 0 \in 0..MaxBackoff /\ MaxBackoff \in 0..MaxBackoff /\ 0 \in 0..FailureCap
    BY SyncAssumption
  <2>2. faults' \in 0..MaxFaults
    BY SyncAssumption DEF Restart, IInv, TypeOK
  <2>3. CountsOK'
    BY <2>1 DEF Restart, CountsOK
  <2> QED
    BY <2>2, <2>3 DEF Restart, IInv, TypeOK, CountsOK
<1>2. WaitOK'
  BY DEF Restart, WaitOK
<1> QED
  BY <1>1, <1>2 DEF IInv

LEMMA UpdateByHandKeeps ==
  ASSUME IInv, NEW j \in Job, NEW n \in 1..published, UpdateByHand(j, n)
  PROVE  IInv'
<1>1. TypeOK'
  BY DEF UpdateByHand, IInv, TypeOK
<1>2. WaitOK'
  BY DEF UpdateByHand, IInv, WaitOK
<1> QED
  BY <1>1, <1>2 DEF IInv

LEMMA PublishKeeps == ASSUME IInv, Publish PROVE IInv'
<1>1. published' \in 1..MaxRevision /\ 1..published \subseteq 1..published'
  BY SyncAssumption DEF Publish, IInv, TypeOK
<1>2. store' \in [Job -> 1..published'] /\ lapsed' \subseteq 1..published'
  BY <1>1 DEF Publish, IInv, TypeOK
<1>3. RoundOK'
  BY <1>1 DEF Publish, IInv, TypeOK, RoundOK
<1>4. TypeOK'
  BY <1>1, <1>2, <1>3 DEF Publish, IInv, TypeOK, RoundOK
<1>5. WaitOK'
  BY DEF Publish, IInv, WaitOK
<1> QED
  BY <1>4, <1>5 DEF IInv

LEMMA LapseKeeps == ASSUME IInv, NEW n \in 1..published, Lapse(n) PROVE IInv'
<1>1. TypeOK'
  BY DEF Lapse, IInv, TypeOK
<1>2. WaitOK'
  BY DEF Lapse, IInv, WaitOK
<1> QED
  BY <1>1, <1>2 DEF IInv

(* Time passes: what a job waits less it has been quiet longer.             *)
LEMMA TickKeeps == ASSUME IInv, Tick PROVE IInv'
<1> USE DEF IInv
<1>1. TypeOK'
  <2>1. \A x \in 0..MaxBackoff : /\ (IF x = 0 THEN 0 ELSE x - 1) \in 0..MaxBackoff
                                 /\ (IF x = MaxBackoff THEN MaxBackoff ELSE x + 1) \in 0..MaxBackoff
    BY SyncAssumption
  <2>2. timeLeft' \in [Job -> 0..MaxBackoff]
    BY <2>1 DEF Tick, TypeOK
  <2>3. quiet' \in [Job -> 0..MaxBackoff]
    BY <2>1 DEF Tick, TypeOK
  <2> QED
    BY <2>2, <2>3 DEF Tick, TypeOK
<1>2. WaitOK'
  <2> SUFFICES ASSUME NEW j \in Job
               PROVE  quiet'[j] = MaxBackoff \/ quiet'[j] + timeLeft'[j] >= Delay(failures'[j], 0)
    BY DEF WaitOK
  <2>1. quiet[j] \in 0..MaxBackoff /\ timeLeft[j] \in 0..MaxBackoff /\ failures[j] \in Nat
    BY SyncAssumption DEF TypeOK
  <2>2. quiet'[j] = IF quiet[j] = MaxBackoff THEN MaxBackoff ELSE quiet[j] + 1
    BY DEF Tick, TypeOK
  <2>3. timeLeft'[j] = IF timeLeft[j] = 0 THEN 0 ELSE timeLeft[j] - 1
    BY DEF Tick, TypeOK
  <2>4. failures'[j] = failures[j] /\ Delay(failures[j], 0) \in 0..MaxBackoff
    BY <2>1, DelayBounds DEF Tick
  <2>5. quiet[j] = MaxBackoff \/ quiet[j] + timeLeft[j] >= Delay(failures[j], 0)
    BY DEF WaitOK
  <2> QED
    BY <2>1, <2>2, <2>3, <2>4, <2>5, SyncAssumption, SMTT(60)
<1> QED
  BY <1>1, <1>2

LEMMA Inductive == ASSUME IInv, [Next]_vars PROVE IInv'
<1>1. CASE UNCHANGED vars
  BY <1>1 DEF vars, IInv, TypeOK, WaitOK
<1>2. ASSUME NEW padding \in 0..Jitter, Step(padding) PROVE IInv'
  BY <1>2, StartRoundKeeps, SkipKeeps, PreflightKeeps, FetchKeeps, FetchFailsKeeps, AcceptKeeps DEF Step
<1>3. CASE Restart \/ Publish \/ Tick
  BY <1>3, RestartKeeps, PublishKeeps, TickKeeps
<1>4. ASSUME NEW n \in 1..published, Lapse(n) \/ \E j \in Job : UpdateByHand(j, n) PROVE IInv'
  BY <1>4, LapseKeeps, UpdateByHandKeeps
<1> QED
  BY <1>1, <1>2, <1>3, <1>4 DEF Next

LEMMA Invariance == Spec => []IInv
<1>1. Init => IInv
  BY Initially
<1>2. IInv /\ [Next]_vars => IInv'
  BY Inductive
<1> QED
  BY <1>1, <1>2, PTL DEF Spec

(* Every reachable state of the scheduler is well typed.                    *)
THEOREM TypeCorrect == Spec => []TypeOK
<1>1. IInv => TypeOK
  BY DEF IInv
<1> QED
  BY <1>1, Invariance, PTL

(* No download, late, cached or overtaken by another updater, takes a store *)
(* back or puts an expired policy into it.                                  *)
THEOREM NeverRolledBack == Spec => NoRollback
<1>1. ASSUME IInv, [Next]_vars
      PROVE  [\A j \in Job :
                /\ store'[j] >= store[j]
                /\ store'[j] # store[j] => store'[j] \notin lapsed]_store
  <2> SUFFICES ASSUME store' # store
               PROVE  \A j \in Job : store'[j] >= store[j] /\ (store'[j] # store[j] => store'[j] \notin lapsed)
    OBVIOUS
  <2>1. CASE \E padding \in 0..Jitter : Accept(padding)
    BY <1>1, <2>1, Accepting
  <2>2. ASSUME NEW j \in Job, NEW n \in 1..published, UpdateByHand(j, n)
        PROVE  \A k \in Job : store'[k] >= store[k] /\ (store'[k] # store[k] => store'[k] \notin lapsed)
    <3>1. store' = [store EXCEPT ![j] = n] /\ n \in store[j] + 1 .. published /\ n \notin lapsed
      BY <2>2 DEF UpdateByHand
    <3>2. \A k \in Job : store[k] \in Nat /\ store[k] >= store[k]
      <4>1. published \in Nat /\ store \in [Job -> 1..published]
        BY <1>1, SyncAssumption DEF IInv, TypeOK
      <4>2. \A k \in Job : store[k] \in 1..published
        BY <4>1, Zenon
      <4>3. \A x \in 1..published : x \in Nat /\ x >= x
        BY <4>1
      <4> QED
        BY <4>2, <4>3, Zenon
    <3>3. n >= store[j]
      BY <3>1, <3>2
    <3>4. store \in [Job -> 1..published]
      BY <1>1 DEF IInv, TypeOK
    <3> QED
      BY <3>1, <3>2, <3>3, <3>4
  <2> QED
    BY <1>1, <2>1, <2>2 DEF Next, Step, StartRound, Skip, Preflight, Fetch, FetchFails, Restart,
                            Publish, Tick, Lapse, vars
<1> QED
  BY <1>1, Invariance, PTL DEF Spec, NoRollback

(* No job uses the network before the interval its failures ask for is      *)
(* over, whatever happens to the jobs around it.                            *)
THEOREM NeverAStorm == Spec => NoRetryStorm
<1> DEFINE Waited(i) ==
      LET j == Jobs[i]
      IN  round.step = "next" /\ round'.step = "fetching" /\ round'.job = i =>
            \/ quiet[j] = MaxBackoff
            \/ quiet[j] >= Interval /\ (failures[j] > 0 => quiet[j] >= Interval * 2^(failures[j] - 1))
<1>1. ASSUME IInv, [Next]_vars PROVE [\A i \in DOMAIN Jobs : Waited(i)]_vars
  <2> SUFFICES ASSUME Next, NEW i \in DOMAIN Jobs,
                      round.step = "next", round'.step = "fetching", round'.job = i
               PROVE  \/ quiet[Jobs[i]] = MaxBackoff
                      \/ /\ quiet[Jobs[i]] >= Interval
                         /\ failures[Jobs[i]] > 0 => quiet[Jobs[i]] >= Interval * 2^(failures[Jobs[i]] - 1)
    BY <1>1
  <2>1. PICK padding \in 0..Jitter : Preflight(padding)
    <3>1. ASSUME NEW padding \in 0..Jitter, Step(padding) PROVE Preflight(padding)
      BY <1>1, <3>1, SkipKeeps DEF Step, StartRound, Fetch, FetchFails, Accept
    <3> QED
      BY <3>1 DEF Next, Restart, Publish, Tick, Lapse, UpdateByHand, NoRound
  <2>2. Jobs[round.job] \notin Misconfigured
    BY <1>1, <2>1, Ending DEF Preflight
  <2>3. round.job = i /\ timeLeft[Jobs[i]] = 0
    <3>1. round \in [step : {"next", "fetching"}, job : DOMAIN Jobs]
      BY <1>1, InARound DEF IInv
    <3> QED
      BY <2>1, <2>2, <3>1 DEF Preflight, Due
  <2>4. PICK j \in Job : j = Jobs[i]
    BY Positions
  <2>5. quiet[j] \in 0..MaxBackoff /\ failures[j] \in Nat
    BY <1>1, SyncAssumption DEF IInv, TypeOK
  <2>6. quiet[j] = MaxBackoff \/ quiet[j] >= Delay(failures[j], 0)
    BY <1>1, <2>3, <2>4, <2>5 DEF IInv, WaitOK
  <2>7. /\ Delay(failures[j], 0) \in 0..MaxBackoff
        /\ \/ Delay(failures[j], 0) = MaxBackoff
           \/ /\ Delay(failures[j], 0) >= Interval
              /\ failures[j] > 0 => Delay(failures[j], 0) >= Interval * 2^(failures[j] - 1)
    BY <2>5, DelayBounds
  <2>8. failures[j] > 0 => Interval * 2^(failures[j] - 1) \in Nat
    BY <2>5, Doubling
  <2>9. CASE quiet[j] = MaxBackoff
    BY <2>4, <2>9
  <2>10. CASE quiet[j] # MaxBackoff
    <3>1. Delay(failures[j], 0) # MaxBackoff
      BY <2>5, <2>6, <2>7, <2>10, SyncAssumption
    <3>2. quiet[j] >= Interval
      BY <2>5, <2>6, <2>7, <2>10, <3>1, SyncAssumption, SMTT(60)
    <3>3. ASSUME failures[j] > 0 PROVE quiet[j] >= Interval * 2^(failures[j] - 1)
      <4> DEFINE d == Interval * 2^(failures[j] - 1)
      <4>1. d \in Nat /\ Delay(failures[j], 0) >= d
        BY <2>7, <2>8, <3>1, <3>3
      <4> HIDE DEF d
      <4>2. quiet[j] >= d
        BY <2>5, <2>6, <2>7, <2>10, <4>1, SyncAssumption, SMTT(60)
      <4> QED
        BY <4>2 DEF d
    <3> QED
      BY <2>4, <3>2, <3>3
  <2> QED
    BY <2>9, <2>10
<1> QED
  BY <1>1, Invariance, PTL DEF Spec, NoRetryStorm
=============================================================================

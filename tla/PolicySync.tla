----------------------------- MODULE PolicySync -----------------------------
(***************************************************************************)
(* The policy synchronization scheduler (v17_policy_sync.py) and delivery   *)
(* over HTTPS (v17_policy_delivery.py).  A publisher offers ever newer      *)
(* signed policies; each job fetches one into a governed store of its own,  *)
(* which other authorized updaters write as well.                           *)
(*                                                                          *)
(* A policy, with the chain of rotations it needs, is its revision; that a  *)
(* store compares whole chains is the subject of PolicyGovernance.  Time is *)
(* counted in units of the interval, and a deadline by the time left to it, *)
(* so that it needs no bound.                                               *)
(***************************************************************************)
EXTENDS Naturals, Sequences

CONSTANTS
  Jobs,           \* the jobs of the schedule, in order
  Disabled,       \* jobs with "enabled": false
  Misconfigured,  \* jobs whose anchor, credentials or store fail every preflight
  MinRevision,    \* minimum_policy_revision of each job
  Interval, MaxBackoff, Jitter,  \* interval, max_backoff and jitter of the jobs
  FailureCap,     \* 20
  MaxRevision,    \* bound on what is published
  MaxFaults       \* bound on failed and stale deliveries, and restarts

Job == {Jobs[i] : i \in DOMAIN Jobs}

ASSUME SyncAssumption ==
  /\ Jobs \in Seq(Job) /\ \A i, j \in DOMAIN Jobs : Jobs[i] = Jobs[j] => i = j
  /\ Disabled \subseteq Job /\ Misconfigured \subseteq Job
  /\ MinRevision \in [Job -> Nat]
  /\ Interval \in Nat \ {0} /\ MaxBackoff \in Nat /\ Interval <= MaxBackoff
  /\ Jitter \in 0..Interval
  /\ FailureCap \in Nat /\ MaxRevision \in Nat \ {0} /\ MaxFaults \in Nat

VARIABLES
  published,  \* the newest policy on offer
  lapsed,     \* policies that have expired
  store,      \* the policy in the store of each job
  timeLeft,   \* until each job is due
  failures,   \* consecutive failures of each job
  round,      \* the round under way, and the attempt in it
  quiet,      \* history: time since the last attempt of each job ended
  faults

vars == <<published, lapsed, store, timeLeft, failures, round, quiet, faults>>

NoRound == [step |-> "waiting", job |-> 0]

TypeOK ==
  /\ published \in 1..MaxRevision
  /\ lapsed \subseteq 1..published
  /\ store \in [Job -> 1..published]
  /\ timeLeft \in [Job -> 0..MaxBackoff]
  /\ failures \in [Job -> 0..FailureCap]
  /\ \/ round = NoRound
     \/ round \in [step : {"next", "fetching"}, job : DOMAIN Jobs]
     \/ round \in [step : {"accepting"}, job : DOMAIN Jobs, bundle : 1..published]
  /\ quiet \in [Job -> 0..MaxBackoff]
  /\ faults \in 0..MaxFaults

(* The stores are initialized; every job is due at once.                    *)
Init ==
  /\ published = 1
  /\ lapsed = {}
  /\ store = [j \in Job |-> 1]
  /\ timeLeft = [j \in Job |-> 0]
  /\ failures = [j \in Job |-> 0]
  /\ round = NoRound
  /\ quiet = [j \in Job |-> MaxBackoff]
  /\ faults = 0

-----------------------------------------------------------------------------
(* One round of run_due; the lock admits one at a time.                     *)

Due(j) == j \notin Disabled /\ timeLeft[j] = 0

(* watch sleeps until next_delay is over.                                   *)
StartRound ==
  /\ round = NoRound
  /\ \E j \in Job : Due(j)
  /\ round' = [step |-> "next", job |-> 1]
  /\ UNCHANGED <<published, lapsed, store, timeLeft, failures, quiet, faults>>

Following(i) == IF i = Len(Jobs) THEN NoRound ELSE [step |-> "next", job |-> i + 1]

Skip ==
  /\ round.step = "next"
  /\ ~Due(Jobs[round.job])
  /\ round' = Following(round.job)
  /\ UNCHANGED <<published, lapsed, store, timeLeft, failures, quiet, faults>>

(* Mutant: the delay is not limited.                                        *)
DelayUncapped(count, padding) == Interval * 2^(IF count = 0 THEN 0 ELSE count - 1) + padding

(* Mutant: a failed attempt is repeated without delay.                      *)
DelayNoneOnFailure(count, padding) == IF count > 0 THEN 0 ELSE Interval + padding

(* From the end of an attempt to the next one.                              *)
Delay(count, padding) ==
  LET delay == Interval * 2^(IF count = 0 THEN 0 ELSE count - 1) + padding
  IN  IF delay < MaxBackoff THEN delay ELSE MaxBackoff

(* Mutant: an attempt that failed ends the round.                           *)
EndAttemptAbandons(success, padding) ==
  LET j == Jobs[round.job]
      count == IF success THEN 0 ELSE IF failures[j] = FailureCap THEN FailureCap ELSE failures[j] + 1
  IN  /\ failures' = [failures EXCEPT ![j] = count]
      /\ timeLeft' = [timeLeft EXCEPT ![j] = Delay(count, padding)]
      /\ quiet' = [quiet EXCEPT ![j] = 0]
      /\ round' = IF success THEN Following(round.job) ELSE NoRound

(* The attempt of the round's present job is over, one way or the other.    *)
EndAttempt(success, padding) ==
  LET j == Jobs[round.job]
      count == IF success THEN 0 ELSE IF failures[j] = FailureCap THEN FailureCap ELSE failures[j] + 1
  IN  /\ failures' = [failures EXCEPT ![j] = count]
      /\ timeLeft' = [timeLeft EXCEPT ![j] = Delay(count, padding)]
      /\ quiet' = [quiet EXCEPT ![j] = 0]
      /\ round' = Following(round.job)

(* The configured files are read again and the store is authenticated       *)
(* before the network is used.                                              *)
Preflight(padding) ==
  /\ round.step = "next"
  /\ Due(Jobs[round.job])
  /\ IF Jobs[round.job] \in Misconfigured
     THEN EndAttempt(FALSE, padding)
     ELSE /\ round' = [round EXCEPT !.step = "fetching"]
          /\ UNCHANGED <<timeLeft, failures, quiet>>
  /\ UNCHANGED <<published, lapsed, store, faults>>

(* The newest policy arrives, or, as a fault, an older one from a cache.    *)
Fetch(n) ==
  /\ round.step = "fetching"
  /\ n \in 1..published
  /\ n < published => faults < MaxFaults
  /\ faults' = IF n < published THEN faults + 1 ELSE faults
  /\ round' = [step |-> "accepting", job |-> round.job, bundle |-> n]
  /\ UNCHANGED <<published, lapsed, store, timeLeft, failures, quiet>>

(* No connection, a timeout, a truncated or refused response.               *)
FetchFails(padding) ==
  /\ round.step = "fetching"
  /\ faults < MaxFaults /\ faults' = faults + 1
  /\ EndAttempt(FALSE, padding)
  /\ UNCHANGED <<published, lapsed, store>>

(* Mutant: whatever is authentic and current replaces the stored policy.    *)
AcceptableAuthentic(j, n) == n \notin lapsed /\ n >= MinRevision[j]

(* accept_governed_chain, for what a publisher can have signed: under the   *)
(* write lock, a policy that is current, not older than the stored one and  *)
(* not below the job's floor.                                               *)
Acceptable(j, n) ==
  /\ n \notin lapsed
  /\ n >= store[j]
  /\ n >= MinRevision[j]

Accept(padding) ==
  /\ round.step = "accepting"
  /\ LET j == Jobs[round.job]
         ok == Acceptable(j, round.bundle)
     IN  /\ store' = IF ok THEN [store EXCEPT ![j] = round.bundle] ELSE store
         /\ EndAttempt(ok, padding)
  /\ UNCHANGED <<published, lapsed, faults>>

-----------------------------------------------------------------------------
(* The environment.                                                         *)

(* The scheduler is stopped or killed and started again; deadlines and      *)
(* counters are not kept.                                                   *)
Restart ==
  /\ faults < MaxFaults /\ faults' = faults + 1
  /\ timeLeft' = [j \in Job |-> 0]
  /\ failures' = [j \in Job |-> 0]
  /\ round' = NoRound
  /\ quiet' = [j \in Job |-> MaxBackoff]
  /\ UNCHANGED <<published, lapsed, store>>

(* Another authorized updater writes the store.                             *)
UpdateByHand(j, n) ==
  /\ n \in store[j] + 1 .. published
  /\ n \notin lapsed
  /\ store' = [store EXCEPT ![j] = n]
  /\ UNCHANGED <<published, lapsed, timeLeft, failures, round, quiet, faults>>

Publish ==
  /\ published < MaxRevision
  /\ published' = published + 1
  /\ UNCHANGED <<lapsed, store, timeLeft, failures, round, quiet, faults>>

Lapse(n) ==
  /\ n \in 1..published \ lapsed
  /\ lapsed' = lapsed \cup {n}
  /\ UNCHANGED <<published, store, timeLeft, failures, round, quiet, faults>>

Tick ==
  /\ timeLeft' = [j \in Job |-> IF timeLeft[j] = 0 THEN 0 ELSE timeLeft[j] - 1]
  /\ quiet' = [j \in Job |-> IF quiet[j] = MaxBackoff THEN MaxBackoff ELSE quiet[j] + 1]
  /\ UNCHANGED <<published, lapsed, store, failures, round, faults>>

Step(padding) ==
  \/ StartRound \/ Skip \/ Preflight(padding)
  \/ \E n \in 1..published : Fetch(n)
  \/ FetchFails(padding) \/ Accept(padding)

Next ==
  \/ \E padding \in 0..Jitter : Step(padding)
  \/ Restart \/ Publish \/ Tick
  \/ \E n \in 1..published : Lapse(n) \/ \E j \in Job : UpdateByHand(j, n)

Spec == Init /\ [][Next]_vars

(* The watch loop runs, and every attempt ends: connecting and the response *)
(* have deadlines.                                                          *)
FairSpec == Spec /\ WF_vars(Tick) /\ WF_vars(\E padding \in 0..Jitter : Step(padding))

-----------------------------------------------------------------------------
(* Properties.                                                              *)

(* Between the preflight, the download and the acceptance another updater   *)
(* may have gone ahead, or the endpoint may answer from a cache: the store  *)
(* of a job never goes back, and never takes a policy that has expired.     *)
NoRollback ==
  [][\A j \in Job :
       /\ store'[j] >= store[j]
       /\ store'[j] # store[j] => store'[j] \notin lapsed]_store

(* The network of a job is used no sooner than one interval after its last  *)
(* attempt, and after failures in a row not before that interval has been   *)
(* doubled as often, up to the longest backoff: no retry storm, however     *)
(* rounds, slow jobs and the failures of other jobs fall.                   *)
NoRetryStorm ==
  [][\A i \in DOMAIN Jobs :
       LET j == Jobs[i]
       IN  round.step = "next" /\ round'.step = "fetching" /\ round'.job = i =>
             \/ quiet[j] = MaxBackoff
             \/ quiet[j] >= Interval /\ (failures[j] > 0 => quiet[j] >= Interval * 2^(failures[j] - 1))]_vars

(* An enabled job is never further than the longest backoff from its next   *)
(* attempt, and gets it, whatever becomes of the jobs before it: its store  *)
(* holds the newest policy in the end, if that is not expired or below the  *)
(* floor of the job.                                                        *)
CatchesUp ==
  \A j \in Job \ (Disabled \cup Misconfigured) :
    <>[](store[j] = published \/ published \in lapsed \/ published < MinRevision[j])
=============================================================================

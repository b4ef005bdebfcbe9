-------------------------- MODULE AcquisitionTasks --------------------------
(***************************************************************************)
(* Distributed acquisition: signed requests become rows of the table        *)
(* acquisition_tasks (distributed_acquisition_v15.py), which workers lease, *)
(* execute and complete (collector_worker_v15.py) through the metadata      *)
(* store (enterprise_metadata_store.py).                                    *)
(*                                                                          *)
(* A database call that reads and then writes is two steps.  PostgreSQL     *)
(* holds row locks from the read to the commit; SQLite, whose read runs     *)
(* outside the transaction of the write, holds none.  A worker is one run   *)
(* of the worker command after another, under the identity of a collector.  *)
(***************************************************************************)
EXTENDS Naturals, Sequences, FiniteSets

CONSTANTS
  Task,          \* signed requests, named by their task_id
  Type,          \* collector types that are implemented
  TypeOf,        \* the one each of them asks for
  Expires,       \* when each of them expires
  Worker,
  Collector,
  CollectorOf,   \* the collector_id each worker runs under
  Capabilities,  \* sets of collector types that collectors are enrolled with
  EnrolledWith,  \* those of each collector at first
  Requests,      \* for each backend of the store, the requests sent to it
  LeaseTime,     \* lease_seconds
  Results,       \* outcomes that executions have
  NoOne,         \* NULL, where a worker or a collector is expected
  MaxClock, MaxCrashes, MaxChanges  \* bounds

Outcome == {"COMPLETE", "PARTIAL", "FAILED"}

ASSUME AcquisitionAssumption ==
  /\ TypeOf \in [Task -> Type]
  /\ Expires \in [Task -> Nat]
  /\ CollectorOf \in [Worker -> Collector]
  /\ Capabilities \subseteq SUBSET Type
  /\ EnrolledWith \in [Collector -> Capabilities]
  /\ DOMAIN Requests \subseteq {"postgres", "sqlite"}
  /\ \A b \in DOMAIN Requests : Requests[b] \subseteq Task
  /\ Results \subseteq Outcome
  /\ LeaseTime \in Nat /\ MaxClock \in Nat /\ MaxCrashes \in Nat /\ MaxChanges \in Nat
  /\ NoOne \notin Worker \cup Collector

VARIABLES
  backend,   \* of the metadata store, chosen when it is opened
  clock,
  registry,  \* table collector_nodes
  queue,     \* enqueued tasks, by created_utc
  tasks,     \* table acquisition_tasks
  locks,     \* the transaction that holds each row
  worker,    \* what each worker process is doing
  files,     \* the receipt directory of each worker
  events,    \* table audit_events, for each task
  leases,    \* history: the collectors each task was leased to
  late,      \* history: leases each worker took since its collector was disabled
  crashes, changes

vars == <<backend, clock, registry, queue, tasks, locks, worker, files, events, leases,
          late, crashes, changes>>

Postgres == backend = "postgres"

NoReceipt == [by |-> NoOne, attempt |-> 0, state |-> "none"]
Receipt == [by : Collector, attempt : Nat, state : Outcome]
Row == [state : {"QUEUED", "LEASED"} \cup Outcome, owner : Collector \cup {NoOne},
        until : Nat, attempt : Nat, receipt : Receipt \cup {NoReceipt}]
Resting == [at |-> "idle"]

(* The steps of run_once, named for what has been done.                     *)
Run ==
  [at : {"polled"}, now : Nat, caps : SUBSET Type]
    \cup [at : {"selected"}, now : Nat, task : Task, attempt : Nat]
    \cup [at : {"running"}, task : Task, attempt : Nat]
    \cup [at : {"signed", "checked", "completed"}, task : Task, receipt : Receipt]

TypeOK ==
  /\ backend \in DOMAIN Requests
  /\ clock \in 0..MaxClock
  /\ registry \in [Collector -> [enabled : BOOLEAN, caps : Capabilities]]
  /\ queue \in Seq(Task)
  /\ tasks \in [Task -> Row]
  /\ locks \in [Task -> Worker \cup {NoOne}]
  /\ worker \in [Worker -> Run \cup {Resting}]
  /\ files \in [Worker -> [Task -> Receipt \cup {NoReceipt}]]
  /\ events \in [Task -> Seq([actor : Collector, state : Outcome])]
  /\ leases \in [Task -> Seq(Collector)]
  /\ late \in [Worker -> Nat]
  /\ crashes \in 0..MaxCrashes /\ changes \in 0..MaxChanges

Enqueued(t) == \E i \in DOMAIN queue : queue[i] = t
Done(t) == tasks[t].state \in Outcome

Init ==
  /\ backend \in DOMAIN Requests
  /\ clock = 0
  /\ registry = [c \in Collector |-> [enabled |-> TRUE, caps |-> EnrolledWith[c]]]
  /\ queue = <<>>
  /\ tasks = [t \in Task |-> [state |-> "QUEUED", owner |-> NoOne, until |-> 0, attempt |-> 0,
                              receipt |-> NoReceipt]]
  /\ locks = [t \in Task |-> NoOne]
  /\ worker = [w \in Worker |-> Resting]
  /\ files = [w \in Worker |-> [t \in Task |-> NoReceipt]]
  /\ events = [t \in Task |-> <<>>]
  /\ leases = [t \in Task |-> <<>>]
  /\ late = [w \in Worker |-> 0]
  /\ crashes = 0 /\ changes = 0

-----------------------------------------------------------------------------
(* Requests.                                                                *)

(* enqueue: verify_request looks at the expiry, put_task inserts the row;   *)
(* task_id is its primary key, so a request sent again changes nothing.     *)
Enqueue(t) ==
  /\ t \in Requests[backend]
  /\ clock < Expires[t]
  /\ ~Enqueued(t)
  /\ queue' = Append(queue, t)
  /\ UNCHANGED <<backend, clock, registry, tasks, locks, worker, files, events, leases,
                 late, crashes, changes>>

-----------------------------------------------------------------------------
(* A run of the worker.                                                     *)

Me(w) == CollectorOf[w]
At(w, step) == worker[w].at = step
Become(w, run) == worker' = [worker EXCEPT ![w] = run]

(* Row locks end with the transaction, also when its process dies.          *)
Released(w) == [t \in Task |-> IF locks[t] = w THEN NoOne ELSE locks[t]]

(* Mutant: the capabilities are looked at, whether it is disabled is not.   *)
PollDisabled(w) ==
  /\ At(w, "idle")
  /\ registry[Me(w)].caps # {}
  /\ Become(w, [at |-> "polled", now |-> clock, caps |-> registry[Me(w)].caps])
  /\ UNCHANGED <<backend, clock, registry, queue, tasks, locks, files, events, leases, late,
                 crashes, changes>>

(* claim_task up to its transaction: the enrolment and the clock are read.  *)
Poll(w) ==
  /\ At(w, "idle")
  /\ registry[Me(w)].enabled
  /\ registry[Me(w)].caps # {}
  /\ Become(w, [at |-> "polled", now |-> clock, caps |-> registry[Me(w)].caps])
  /\ UNCHANGED <<backend, clock, registry, queue, tasks, locks, files, events, leases,
                 late, crashes, changes>>

(* Mutant: an expired lease is never offered again.                         *)
ClaimableOnlyQueued(t, now) == Enqueued(t) /\ tasks[t].state = "QUEUED" /\ locks[t] = NoOne

(* Mutant: rows are locked, but the locks of others are not looked at.      *)
ClaimableLocked(t, now) ==
  /\ Enqueued(t)
  /\ \/ tasks[t].state = "QUEUED"
     \/ tasks[t].state = "LEASED" /\ tasks[t].until < now

(* Mutant: the state of a task whose lease has run out is not looked at.    *)
ClaimableAnyState(t, now) ==
  /\ Enqueued(t) /\ locks[t] = NoOne
  /\ tasks[t].state = "QUEUED" \/ tasks[t].until < now

(* The rows the query of claim_task returns: queued, or leased to someone   *)
(* whose lease has run out; SKIP LOCKED passes over locked ones.            *)
Claimable(t, now) ==
  /\ Enqueued(t) /\ locks[t] = NoOne
  /\ \/ tasks[t].state = "QUEUED"
     \/ tasks[t].state = "LEASED" /\ tasks[t].until < now

(* The query; the oldest row of a type the collector is enrolled for is     *)
(* picked, and PostgreSQL locks all rows the query returned.  If there is   *)
(* no such row the transaction ends and the run with it, in one step.       *)
Select(w) ==
  /\ At(w, "polled")
  /\ LET found == {i \in DOMAIN queue : Claimable(queue[i], worker[w].now)}
         fits == {i \in found : TypeOf[queue[i]] \in worker[w].caps}
         oldest == CHOOSE i \in fits : \A j \in fits : i <= j
     IN  \/ /\ fits = {}
            /\ Become(w, Resting)
            /\ UNCHANGED locks
         \/ /\ fits # {}
            /\ Become(w, [at |-> "selected", now |-> worker[w].now, task |-> queue[oldest],
                          attempt |-> tasks[queue[oldest]].attempt])
            /\ locks' = [t \in Task |->
                 IF Postgres /\ \E i \in found : queue[i] = t THEN w ELSE locks[t]]
  /\ UNCHANGED <<backend, clock, registry, queue, tasks, files, events, leases, late,
                 crashes, changes>>

(* The update of claim_task, which has no condition on the state, and its   *)
(* commit.  The worker is told the attempt it has read, plus one.           *)
Lease(w) ==
  /\ At(w, "selected")
  /\ LET t == worker[w].task
     IN  /\ tasks' = [tasks EXCEPT ![t].state = "LEASED", ![t].owner = Me(w),
                                   ![t].until = worker[w].now + LeaseTime,
                                   ![t].attempt = @ + 1]
         /\ leases' = [leases EXCEPT ![t] = Append(@, Me(w))]
         /\ late' = [late EXCEPT ![w] = IF registry[Me(w)].enabled THEN @ ELSE @ + 1]
         /\ Become(w, [at |-> "running", task |-> t, attempt |-> worker[w].attempt + 1])
  /\ locks' = Released(w)
  /\ UNCHANGED <<backend, clock, registry, queue, files, events, crashes, changes>>

(* execute, which turns its exceptions into FAILED, and signed_receipt,     *)
(* which writes the receipt file over any earlier one.                      *)
Execute(w, state) ==
  /\ At(w, "running")
  /\ LET receipt == [by |-> Me(w), attempt |-> worker[w].attempt, state |-> state]
     IN  /\ files' = [files EXCEPT ![w][worker[w].task] = receipt]
         /\ Become(w, [at |-> "signed", task |-> worker[w].task, receipt |-> receipt])
  /\ UNCHANGED <<backend, clock, registry, queue, tasks, locks, events, leases, late,
                 crashes, changes>>

(* Mutant: complete_task does not look at the owner.                        *)
CheckNoOwner(w) ==
  /\ At(w, "signed")
  /\ locks[worker[w].task] = NoOne
  /\ worker' = [worker EXCEPT ![w].at = "checked"]
  /\ locks' = IF Postgres THEN [locks EXCEPT ![worker[w].task] = w] ELSE locks
  /\ UNCHANGED <<backend, clock, registry, queue, tasks, files, events, leases, late,
                 crashes, changes>>

(* complete_task reads the owner of the lease (PostgreSQL waits for the row *)
(* lock first).  Whoever does not own it gets an exception and ends.        *)
Check(w) ==
  /\ At(w, "signed")
  /\ locks[worker[w].task] = NoOne
  /\ IF tasks[worker[w].task].owner = Me(w)
     THEN /\ worker' = [worker EXCEPT ![w].at = "checked"]
          /\ locks' = IF Postgres THEN [locks EXCEPT ![worker[w].task] = w] ELSE locks
     ELSE Become(w, Resting) /\ UNCHANGED locks
  /\ UNCHANGED <<backend, clock, registry, queue, tasks, files, events, leases, late,
                 crashes, changes>>

(* Mutant: the state is not one of the three outcomes.                      *)
CompleteUnknownState(w) ==
  /\ At(w, "checked")
  /\ tasks' = [tasks EXCEPT ![worker[w].task].state = "DONE",
                            ![worker[w].task].receipt = worker[w].receipt,
                            ![worker[w].task].owner = NoOne, ![worker[w].task].until = 0]
  /\ worker' = [worker EXCEPT ![w].at = "completed"]
  /\ locks' = Released(w)
  /\ UNCHANGED <<backend, clock, registry, queue, files, events, leases, late, crashes, changes>>

(* The update of complete_task, without a condition too, and its commit.    *)
Complete(w) ==
  /\ At(w, "checked")
  /\ LET r == worker[w].receipt
     IN  tasks' = [tasks EXCEPT ![worker[w].task].state = r.state, ![worker[w].task].receipt = r,
                                ![worker[w].task].owner = NoOne, ![worker[w].task].until = 0]
  /\ worker' = [worker EXCEPT ![w].at = "completed"]
  /\ locks' = Released(w)
  /\ UNCHANGED <<backend, clock, registry, queue, files, events, leases, late, crashes, changes>>

(* The audit record is a transaction of its own; it ends the run.           *)
Audit(w) ==
  /\ At(w, "completed")
  /\ events' = [events EXCEPT ![worker[w].task] =
                  Append(@, [actor |-> Me(w), state |-> worker[w].receipt.state])]
  /\ Become(w, Resting)
  /\ UNCHANGED <<backend, clock, registry, queue, tasks, locks, files, leases, late,
                 crashes, changes>>

(* The process dies; an open transaction is rolled back.                    *)
Crash(w) ==
  /\ crashes < MaxCrashes /\ crashes' = crashes + 1
  /\ ~At(w, "idle")
  /\ Become(w, Resting)
  /\ locks' = Released(w)
  /\ UNCHANGED <<backend, clock, registry, queue, tasks, files, events, leases, late, changes>>

-----------------------------------------------------------------------------
Tick ==
  /\ clock < MaxClock
  /\ clock' = clock + 1
  /\ UNCHANGED <<backend, registry, queue, tasks, locks, worker, files, events, leases,
                 late, crashes, changes>>

Change == changes < MaxChanges /\ changes' = changes + 1

(* register_collector replaces the row, enabled.                            *)
Register(c, caps) ==
  /\ Change
  /\ registry' = [registry EXCEPT ![c] = [enabled |-> TRUE, caps |-> caps]]
  /\ late' = [w \in Worker |-> IF Me(w) = c THEN 0 ELSE late[w]]
  /\ UNCHANGED <<backend, clock, queue, tasks, locks, worker, files, events, leases, crashes>>

(* The operator disables a collector, as before rotating its identity.      *)
Disable(c) ==
  /\ Change
  /\ registry' = [registry EXCEPT ![c].enabled = FALSE]
  /\ UNCHANGED <<backend, clock, queue, tasks, locks, worker, files, events, leases, late, crashes>>

RunOnce(w) ==
  \/ Poll(w) \/ Select(w) \/ Lease(w)
  \/ \E state \in Results : Execute(w, state)
  \/ Check(w) \/ Complete(w) \/ Audit(w)

Next ==
  \/ \E t \in Task : Enqueue(t)
  \/ \E w \in Worker : RunOnce(w) \/ Crash(w)
  \/ Tick
  \/ \E c \in Collector : Disable(c) \/ \E caps \in Capabilities : Register(c, caps)

Spec == Init /\ [][Next]_vars

(* Time passes, and workers are started again and again.                    *)
Fairness == WF_vars(Tick) /\ \A w \in Worker : WF_vars(RunOnce(w))
FairSpec == Spec /\ Fairness

-----------------------------------------------------------------------------
(* Properties.                                                              *)

(* On PostgreSQL an outcome is final: no late worker reopens a completed    *)
(* task, leases it again or replaces its receipt, and neither does a        *)
(* request that is sent again.                                              *)
OutcomeIsFinal == [][\A t \in Task : Postgres /\ Done(t) => tasks'[t] = tasks[t]]_vars

Holding(w, t) == worker[w].at \in {"running", "signed", "checked"} /\ worker[w].task = t
AttemptOf(w) == IF At(w, "running") THEN worker[w].attempt ELSE worker[w].receipt.attempt

(* On PostgreSQL no two workers execute a task under the same lease.        *)
OneRunPerLease ==
  \A w, v \in Worker : \A t \in Task :
    Postgres /\ w # v /\ Holding(w, t) /\ Holding(v, t) => AttemptOf(w) # AttemptOf(v)

(* Whatever interleaving of workers that overran their lease, the receipt   *)
(* recorded for a task was signed by a collector the task was leased to (on *)
(* PostgreSQL by the last one), and a worker of that collector has it on    *)
(* file: its answer to "Did a collector complete a task it did not lease?". *)
ReceiptFromLessee ==
  \A t \in Task :
    Done(t) =>
      LET by == tasks[t].receipt.by
      IN  /\ \E i \in DOMAIN leases[t] : leases[t][i] = by /\ (Postgres => i = Len(leases[t]))
          /\ \E w \in Worker : Me(w) = by /\ (Postgres => files[w][t] = tasks[t].receipt)

(* A collector that is disabled while one of its workers is between         *)
(* reading its enrolment and leasing still gets that one task, and no       *)
(* other until it is enrolled again, however many wait.                     *)
OneLateLease == \A w \in Worker : late[w] <= 1

(* On PostgreSQL the audit trail has at most one completion of a task, and  *)
(* it names the collector and the outcome that the task's row does.         *)
AuditAgrees ==
  Postgres =>
    \A t \in Task :
      /\ Len(events[t]) <= 1
      /\ events[t] # <<>> =>
           /\ tasks[t].state = events[t][1].state
           /\ tasks[t].receipt.by = events[t][1].actor

(* What rows, receipts, files and audit say of a completion is one story,   *)
(* whichever of several late workers it is that completes a task.           *)
CompletionsAgree == ReceiptFromLessee /\ AuditAgrees

Served(t) == \E w \in Worker : registry[Me(w)].enabled /\ TypeOf[t] \in registry[Me(w)].caps
OutlastsModel(t) == tasks[t].state = "LEASED" /\ tasks[t].until >= MaxClock

(* On either backend an enqueued task that some enabled collector can do is *)
(* done in the end, although workers crash with it, overrun their lease, or *)
(* take it from each other; a lease that ends beyond the modelled time is   *)
(* the exception.                                                           *)
EventuallyDone ==
  \A t \in Task : <>[]Served(t) => (Enqueued(t) ~> (Done(t) \/ OutlastsModel(t)))
=============================================================================

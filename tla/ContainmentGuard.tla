-------------------------- MODULE ContainmentGuard --------------------------
(***************************************************************************)
(* The guard that the threads of an inference or tool worker consult       *)
(* (containment_guard.py) while the control file is replaced under it      *)
(* (containment_control.py).  The threads share the cached payload and the *)
(* signature (inode, size, time) of the file it was read from.             *)
(*                                                                         *)
(* A content of the file is known by its position in controls, 0 stands    *)
(* for no file: it is the file's signature, and it is the payload that is  *)
(* cached after reading it.                                                *)
(***************************************************************************)
EXTENDS Naturals, Sequences

CONSTANTS
  Thread,       \* of the worker
  NoThread,
  Control,      \* contents: a mode, a signature that verifies or not, and
                \* whether the tool that is asked for is listed as read-only
  FailClosed,   \* fail_closed
  MaxControls   \* bound on replacements of the file

ASSUME GuardAssumption == NoThread \notin Thread

Mode == {"observe", "freeze-tools", "read-only", "quarantine", "failover", "released"}
Question == {"inference", "mutating tool", "read-only tool", "route"}

VARIABLES
  controls,   \* every content the control file has had
  payload,    \* _payload
  signature,  \* _signature
  lock,       \* holder of _lock
  thread      \* what each thread is doing, and for which request

guardVars == <<controls, payload, signature, lock, thread>>

Free == [at |-> "idle"]
Call ==
  [at : {"asked"}, request : Question, since : Nat]
    \cup [at : {"missing", "cleared", "waiting", "locked", "decide"}, request : Question,
          since : Nat, sig : Nat]
    \cup [at : {"verified", "stored"}, request : Question, since : Nat, sig : Nat, read : Nat]
    \cup [at : {"detail"}, request : Question, since : Nat, sig : Nat, mode : Nat]
    \cup [at : {"answered"}, request : Question, since : Nat, allowed : BOOLEAN, by : Nat]

GuardTypeOK ==
  /\ controls \in Seq(Control)
  /\ payload \in Nat /\ signature \in Nat
  /\ lock \in Thread \cup {NoThread}
  /\ thread \in [Thread -> Call \cup {Free}]

(* A worker may start before or after the first containment.               *)
GuardInit ==
  /\ controls \in {<<>>} \cup {<<c>> : c \in Control}
  /\ payload = 0
  /\ signature = 0
  /\ lock = NoThread
  /\ thread = [t \in Thread |-> Free]

Doing(t, step) == thread[t].at = step
Go(t, call) == thread' = [thread EXCEPT ![t] = call]
Step(t, at) == [at |-> at, request |-> thread[t].request, since |-> thread[t].since,
                sig |-> thread[t].sig]

(* What the cached payload says.  A control that does not verify is cached  *)
(* as a quarantine, if the guard fails closed.                             *)
ModeOf(n) ==
  CASE n = 0 -> "released"
    [] n > 0 /\ controls[n].signed -> controls[n].mode
    [] OTHER -> "quarantine"
Listed(n) == n > 0 /\ controls[n].signed /\ controls[n].listed

-----------------------------------------------------------------------------
(* The control file is replaced, atomically, by an executor, an operator    *)
(* or the recovery gate.                                                   *)
Replace(c) ==
  /\ Len(controls) < MaxControls
  /\ controls' = Append(controls, c)
  /\ UNCHANGED <<payload, signature, lock, thread>>

(* A thread asks; since is the file's content at that time.                *)
Ask(t, request) ==
  /\ Doing(t, "idle")
  /\ Go(t, [at |-> "asked", request |-> request, since |-> Len(controls)])
  /\ UNCHANGED <<controls, payload, signature, lock>>

(* _refresh: stat.  Without a file the branch that follows takes no lock.  *)
Stat(t) ==
  /\ Doing(t, "asked")
  /\ Go(t, [at |-> IF controls = <<>> THEN "missing" ELSE "waiting",
            request |-> thread[t].request, since |-> thread[t].since, sig |-> Len(controls)])
  /\ UNCHANGED <<controls, payload, signature, lock>>

ClearPayload(t) ==
  /\ Doing(t, "missing")
  /\ payload' = 0
  /\ Go(t, Step(t, "cleared"))
  /\ UNCHANGED <<controls, signature, lock>>

ClearSignature(t) ==
  /\ Doing(t, "cleared")
  /\ signature' = 0
  /\ Go(t, Step(t, "decide"))
  /\ UNCHANGED <<controls, payload, lock>>

(* The comparison before the lock.                                         *)
Known(t) ==
  /\ Doing(t, "waiting")
  /\ thread[t].sig = signature
  /\ Go(t, Step(t, "decide"))
  /\ UNCHANGED <<controls, payload, signature, lock>>

(* The lock, and the comparison again.                                     *)
TakeLock(t) ==
  /\ Doing(t, "waiting")
  /\ thread[t].sig # signature
  /\ lock = NoThread
  /\ lock' = t
  /\ Go(t, Step(t, "locked"))
  /\ UNCHANGED <<controls, payload, signature>>

KnownByNow(t) ==
  /\ Doing(t, "locked")
  /\ thread[t].sig = signature
  /\ lock' = NoThread
  /\ Go(t, Step(t, "decide"))
  /\ UNCHANGED <<controls, payload, signature>>

(* Mutant: the signature is stored before the payload is.                   *)
ReadMarksFirst(t) ==
  /\ Doing(t, "locked")
  /\ thread[t].sig # signature
  /\ Go(t, [at |-> "verified", request |-> thread[t].request, since |-> thread[t].since,
            sig |-> thread[t].sig, read |-> Len(controls)])
  /\ signature' = thread[t].sig
  /\ UNCHANGED <<controls, payload, lock>>

(* The file is read, which may have been replaced since it was looked at.  *)
(* If it does not verify and the guard does not fail closed, the request   *)
(* ends in an exception.                                                   *)
Read(t) ==
  /\ Doing(t, "locked")
  /\ thread[t].sig # signature
  /\ IF controls[Len(controls)].signed \/ FailClosed
     THEN /\ Go(t, [at |-> "verified", request |-> thread[t].request, since |-> thread[t].since,
                    sig |-> thread[t].sig, read |-> Len(controls)])
          /\ UNCHANGED lock
     ELSE Go(t, Free) /\ lock' = NoThread
  /\ UNCHANGED <<controls, payload, signature>>

StorePayload(t) ==
  /\ Doing(t, "verified")
  /\ payload' = thread[t].read
  /\ thread' = [thread EXCEPT ![t].at = "stored"]
  /\ UNCHANGED <<controls, signature, lock>>

StoreSignature(t) ==
  /\ Doing(t, "stored")
  /\ signature' = thread[t].sig
  /\ lock' = NoThread
  /\ Go(t, Step(t, "decide"))
  /\ UNCHANGED <<controls, payload>>

Answer(t, allowed, by) ==
  Go(t, [at |-> "answered", request |-> thread[t].request, since |-> thread[t].since,
         allowed |-> allowed, by |-> by])

(* allow_inference, authorize_tool and routing_target look at the mode;     *)
(* what else they need they read from the cache again.                     *)
Decide(t) ==
  /\ Doing(t, "decide")
  /\ LET mode == ModeOf(payload)
         request == thread[t].request
     IN  CASE request = "inference" -> Answer(t, mode \notin {"quarantine", "failover"}, payload)
           [] request = "mutating tool" ->
                Answer(t, mode \notin {"quarantine", "failover", "freeze-tools", "read-only"}, payload)
           [] request = "read-only tool" /\ mode # "read-only" ->
                Answer(t, mode \notin {"quarantine", "failover", "freeze-tools"}, payload)
           [] request = "route" /\ mode # "failover" -> Answer(t, TRUE, payload)
           [] OTHER -> Go(t, [at |-> "detail", request |-> request, since |-> thread[t].since,
                              sig |-> thread[t].sig, mode |-> payload])
  /\ UNCHANGED <<controls, payload, signature, lock>>

(* The list of read-only tools, or the approved backend, which a control    *)
(* that is not a failover may lack.                                         *)
Detail(t) ==
  /\ Doing(t, "detail")
  /\ \E found \in IF thread[t].request = "route" /\ ModeOf(payload) = "failover"
                  THEN {TRUE} ELSE {Listed(payload), FALSE} :
       Answer(t, found, thread[t].mode)
  /\ UNCHANGED <<controls, payload, signature, lock>>

Return(t) ==
  /\ Doing(t, "answered")
  /\ Go(t, Free)
  /\ UNCHANGED <<controls, payload, signature, lock>>

Refresh(t) ==
  \/ Stat(t) \/ ClearPayload(t) \/ ClearSignature(t)
  \/ Known(t) \/ TakeLock(t) \/ KnownByNow(t)
  \/ Read(t) \/ StorePayload(t) \/ StoreSignature(t)

GuardNext ==
  \/ \E c \in Control : Replace(c)
  \/ \E t \in Thread :
       \/ \E request \in Question : Ask(t, request)
       \/ Refresh(t)
       \/ Decide(t) \/ Detail(t) \/ Return(t)

GuardSpec == GuardInit /\ [][GuardNext]_guardVars

-----------------------------------------------------------------------------
(* Properties.                                                             *)

(* A request is decided by a control that is at least as new as the one in  *)
(* force when the thread asked: the guard verifies the control each time    *)
(* the cached file state changes.                                           *)
DecidedByCurrentControl ==
  \A t \in Thread : Doing(t, "answered") => thread[t].by >= thread[t].since
=============================================================================

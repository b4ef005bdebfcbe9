---------------------------- MODULE Containment -----------------------------
(***************************************************************************)
(* Containment of one node: fleet alerts become containment transactions    *)
(* (auto_responder.py, automation mode "auto"), each of which preserves     *)
(* evidence before and after it writes the control file of the node         *)
(* (execute_containment.py, preservation_engine.py), and an operator lifts  *)
(* containment through the recovery gate (recovery_gate.py).                *)
(*                                                                          *)
(* An operator may execute plans too, at the same time as the responder.    *)
(* The control file is replaced atomically, by anyone, whatever it holds; a *)
(* control is known by its position in the history of the file, which is    *)
(* what a digest of the file tells apart.  The recovery gate takes no lock: *)
(* any of its executions may be under way at once, of one request too.      *)
(* Modes, reasons and the audit log are left out, and signatures are valid. *)
(***************************************************************************)
EXTENDS FiniteSets, Naturals, Sequences

CONSTANTS
  Alert,        \* numbers of the alerts of a severity the responder acts on
  Observed,     \* alerts the policy maps to "observe"
  Configured,   \* alerts of nodes the responder's configuration lists
  ByHand,       \* incidents an operator plans
  Unroutable,   \* incidents planned as failover without an approved backend
  Anyway,       \* incidents planned with "contain_anyway"
  Window,       \* alerts the collector returns, newest first
  Releaser,     \* shells in which operators execute releases, one at a time each
  MaxFaults,    \* bound on failing preservations
  MaxCrashes,   \* bound on deaths of a process
  MaxHand,      \* bound on the executions an operator starts
  MaxRequests   \* bound on release requests

Incident == Alert \cup ByHand
Executor == {"responder", "operator"}

ASSUME ContainmentAssumption ==
  /\ Alert \subseteq Nat /\ IsFiniteSet(Alert)
  /\ Alert \cap ByHand = {}
  /\ Observed \subseteq Alert /\ Configured \subseteq Alert
  /\ Unroutable \subseteq Incident /\ Anyway \subseteq Incident
  /\ Window \in Nat \ {0}
  /\ {MaxFaults, MaxCrashes, MaxHand, MaxRequests} \subseteq Nat

VARIABLES
  raised,      \* alerts the collector has
  handled,     \* handled_alert_ids in the responder's state file
  responder,   \* its batch
  plans,       \* incidents with a signed plan in their case directory
  exec,        \* the execution each of the two has under way
  pre, post,   \* preservation directories of each case
  result,      \* EXECUTION_RESULT.json of each case
  controls,    \* every content the control file has had, oldest first
  requests,    \* the control each release request names
  approved,    \* requests with a signed approval
  release,     \* the execution of a release that each shell has under way
  budget       \* faults, crashes and executions used up

caseVars == <<pre, post, result>>
gateVars == <<requests, approved, release>>
vars == <<raised, handled, responder, plans, exec, caseVars, controls, gateVars, budget>>

Resting == [at |-> "idle"]
Batch == [at : {"batch", "waiting"}, handled : SUBSET Alert, todo : SUBSET Alert]
Execution == [at : {"loaded", "preserving", "failed", "preserved", "contained"}, incident : Incident]

(* checked is history: how many controls there had been when the request    *)
(* was compared with the newest of them.                                    *)
Release == [at : {"checked"}, request : 1..MaxRequests, checked : Nat]

Containing(i) == [mode |-> "contained", incident |-> i]
Releasing(q, checked) == [mode |-> "released", request |-> q, checked |-> checked]
Control == [mode : {"contained"}, incident : Incident]
             \cup [mode : {"released"}, request : 1..MaxRequests, checked : Nat]

TypeOK ==
  /\ raised \subseteq Alert /\ handled \subseteq raised
  /\ responder \in Batch \cup {Resting}
  /\ plans \subseteq Incident
  /\ exec \in [Executor -> Execution \cup {Resting}]
  /\ pre \in [Incident -> {"none", "started", "sealed"}]
  /\ post \in [Incident -> BOOLEAN]
  /\ result \in [Incident -> {"none", "ABORTED", "CONTAINED", "INCOMPLETE"}]
  /\ controls \in Seq(Control)
  /\ requests \in Seq(1..Len(controls)) /\ Len(requests) <= MaxRequests
  /\ approved \subseteq DOMAIN requests
  /\ release \in [Releaser -> Release \cup {Resting}]
  /\ \A r \in Releaser : release[r] # Resting => release[r].request \in approved
  /\ budget \in [faults : 0..MaxFaults, crashes : 0..MaxCrashes, hand : 0..MaxHand]

Init ==
  /\ raised = {} /\ handled = {}
  /\ responder = Resting
  /\ plans = {}
  /\ exec = [x \in Executor |-> Resting]
  /\ pre = [i \in Incident |-> "none"]
  /\ post = [i \in Incident |-> FALSE]
  /\ result = [i \in Incident |-> "none"]
  /\ controls = <<>>
  /\ requests = <<>> /\ approved = {}
  /\ release = [r \in Releaser |-> Resting]
  /\ budget = [faults |-> 0, crashes |-> 0, hand |-> 0]

-----------------------------------------------------------------------------
(* The responder: run_once takes a batch of alerts, oldest first, and saves *)
(* which of them it handled when the batch is done.                         *)

First(S) == CHOOSE a \in S : \A b \in S : a <= b

(* Alert numbers grow.                                                      *)
Raise(a) ==
  /\ a \in Alert \ raised /\ \A b \in Alert \ raised : a <= b
  /\ raised' = raised \cup {a}
  /\ UNCHANGED <<handled, responder, plans, exec, caseVars, controls, gateVars, budget>>

(* Mutant: the collector returns the newest alert.                          *)
NewestOne(S) == {a \in S : \A b \in S : b <= a}

Newest(S) == {a \in S : Cardinality({b \in S : b > a}) < Window}

(* A poll that finds no new alert changes nothing and is left out.          *)
Poll ==
  /\ responder = Resting
  /\ LET todo == Newest(raised) \ handled
     IN  /\ todo # {}
         /\ responder' = [at |-> "batch", handled |-> handled, todo |-> todo]
  /\ UNCHANGED <<raised, handled, plans, exec, caseVars, controls, gateVars, budget>>

Took(a) == [at |-> "batch", handled |-> responder.handled \cup {a}, todo |-> responder.todo \ {a}]

(* process_alert.  The plan is written, over an older one, before the       *)
(* configuration of the node is looked up: if there is none, the exception  *)
(* ends the batch and what it handled is forgotten.                         *)
ProcessAlert(a) ==
  /\ responder.at = "batch"
  /\ responder.todo # {} /\ a = First(responder.todo)
  /\ IF a \in Observed
     THEN responder' = Took(a) /\ UNCHANGED <<plans, exec>>
     ELSE /\ plans' = plans \cup {a}
          /\ IF a \in Configured
             THEN /\ exec' = [exec EXCEPT !["responder"] = [at |-> "loaded", incident |-> a]]
                  /\ responder' = [responder EXCEPT !.at = "waiting"]
             ELSE responder' = Resting /\ UNCHANGED exec
  /\ UNCHANGED <<raised, handled, caseVars, controls, gateVars, budget>>

(* The executor ended, however it did.                                      *)
Executed ==
  /\ responder.at = "waiting"
  /\ exec["responder"] = Resting
  /\ responder' = Took(First(responder.todo))
  /\ UNCHANGED <<raised, handled, plans, exec, caseVars, controls, gateVars, budget>>

SaveState ==
  /\ responder.at = "batch" /\ responder.todo = {}
  /\ handled' = responder.handled
  /\ responder' = Resting
  /\ UNCHANGED <<raised, plans, exec, caseVars, controls, gateVars, budget>>

RunOnce == Poll \/ (\E a \in Alert : ProcessAlert(a)) \/ Executed \/ SaveState

-----------------------------------------------------------------------------
(* An operator's plans and executions.                                      *)

CreatePlan(i) ==
  /\ i \in ByHand \ plans
  /\ plans' = plans \cup {i}
  /\ UNCHANGED <<raised, handled, responder, exec, caseVars, controls, gateVars, budget>>

ExecuteByHand(i) ==
  /\ exec["operator"] = Resting
  /\ i \in plans
  /\ budget.hand < MaxHand /\ budget' = [budget EXCEPT !.hand = @ + 1]
  /\ exec' = [exec EXCEPT !["operator"] = [at |-> "loaded", incident |-> i]]
  /\ UNCHANGED <<raised, handled, responder, plans, caseVars, controls, gateVars>>

-----------------------------------------------------------------------------
(* execute.                                                                 *)

At(x, at) == exec[x].at = at
Become(x, at) == exec' = [exec EXCEPT ![x].at = at]
End(x) == exec' = [exec EXCEPT ![x] = Resting]
OthersUnchanged == UNCHANGED <<raised, handled, responder, plans, gateVars>>

(* Mutant: a preservation directory may exist, as those it copies to.       *)
MakeDirectoryExistOk(x) ==
  /\ At(x, "loaded")
  /\ pre' = [pre EXCEPT ![exec[x].incident] = IF @ = "none" THEN "started" ELSE @]
  /\ Become(x, "preserving")
  /\ UNCHANGED <<post, result, controls, budget>> /\ OthersUnchanged

(* preserve refuses a case whose directory exists; mkdir settles a tie.     *)
MakeDirectory(x) ==
  /\ At(x, "loaded")
  /\ IF pre[exec[x].incident] = "none"
     THEN /\ pre' = [pre EXCEPT ![exec[x].incident] = "started"]
          /\ Become(x, "preserving")
     ELSE Become(x, "failed") /\ UNCHANGED pre
  /\ UNCHANGED <<post, result, controls, budget>> /\ OthersUnchanged

Seal(x) ==
  /\ At(x, "preserving")
  /\ pre' = [pre EXCEPT ![exec[x].incident] = "sealed"]
  /\ Become(x, "preserved")
  /\ UNCHANGED <<post, result, controls, budget>> /\ OthersUnchanged

(* A copy, the runtime collector or the seal fails.                         *)
FailPreserve(x) ==
  /\ At(x, "preserving")
  /\ budget.faults < MaxFaults /\ budget' = [budget EXCEPT !.faults = @ + 1]
  /\ Become(x, "failed")
  /\ UNCHANGED <<caseVars, controls>> /\ OthersUnchanged

(* Mutant: the failure is recorded and the execution goes on.               *)
PreservationFailedGoesOn(x) ==
  /\ At(x, "failed")
  /\ Become(x, "preserved")
  /\ UNCHANGED <<caseVars, controls, budget>> /\ OthersUnchanged

PreservationFailed(x) ==
  /\ At(x, "failed")
  /\ IF exec[x].incident \in Anyway
     THEN Become(x, "preserved") /\ UNCHANGED result
     ELSE End(x) /\ result' = [result EXCEPT ![exec[x].incident] = "ABORTED"]
  /\ UNCHANGED <<pre, post, controls, budget>> /\ OthersUnchanged

(* create_control raises when a failover names no backend.                  *)
CreateControl(x) ==
  /\ At(x, "preserved")
  /\ IF exec[x].incident \in Unroutable
     THEN End(x) /\ UNCHANGED controls
     ELSE /\ controls' = Append(controls, Containing(exec[x].incident))
          /\ Become(x, "contained")
  /\ UNCHANGED <<caseVars, budget>> /\ OthersUnchanged

(* Preservation afterwards, complete or not, and the result.                *)
Finish(x, complete) ==
  /\ At(x, "contained")
  /\ LET i == exec[x].incident
     IN  /\ complete => ~post[i]
         /\ post' = [post EXCEPT ![i] = TRUE]
         /\ result' = [result EXCEPT ![i] = IF complete THEN "CONTAINED" ELSE "INCOMPLETE"]
  /\ End(x)
  /\ UNCHANGED <<pre, controls, budget>> /\ OthersUnchanged

Execute(x) ==
  \/ MakeDirectory(x) \/ Seal(x) \/ FailPreserve(x) \/ PreservationFailed(x)
  \/ CreateControl(x) \/ \E complete \in BOOLEAN : Finish(x, complete)

-----------------------------------------------------------------------------
(* The recovery gate.                                                       *)

GateOthersUnchanged == UNCHANGED <<raised, handled, responder, plans, exec, caseVars, budget>>

(* Mutant: a missing control file is hashed as if it were there.            *)
CreateReleaseRequestMissing ==
  /\ Len(requests) < MaxRequests
  /\ requests' = Append(requests, Len(controls))
  /\ UNCHANGED <<controls, approved, release>> /\ GateOthersUnchanged

CreateReleaseRequest ==
  /\ controls # <<>> /\ Len(requests) < MaxRequests
  /\ requests' = Append(requests, Len(controls))
  /\ UNCHANGED <<controls, approved, release>> /\ GateOthersUnchanged

ApproveRelease(q) ==
  /\ q \in DOMAIN requests \ approved
  /\ approved' = approved \cup {q}
  /\ UNCHANGED <<controls, requests, release>> /\ GateOthersUnchanged

Checked(q) == [at |-> "checked", request |-> q, checked |-> Len(controls)]

(* Mutant: the request is not compared with the control in force.           *)
CheckReleaseUnbound(r, q) ==
  /\ release[r] = Resting
  /\ q \in approved
  /\ release' = [release EXCEPT ![r] = Checked(q)]
  /\ UNCHANGED <<controls, requests, approved>> /\ GateOthersUnchanged

(* What execute_release read before it compared the digests is used no      *)
(* more, and an execution that is refused here has done nothing.            *)
CheckRelease(r, q) ==
  /\ release[r] = Resting
  /\ q \in approved /\ requests[q] = Len(controls)
  /\ release' = [release EXCEPT ![r] = Checked(q)]
  /\ UNCHANGED <<controls, requests, approved>> /\ GateOthersUnchanged

(* The control is replaced some time after it was checked.                  *)
WriteRelease(r) ==
  /\ release[r].at = "checked"
  /\ controls' = Append(controls, Releasing(release[r].request, release[r].checked))
  /\ release' = [release EXCEPT ![r] = Resting]
  /\ UNCHANGED <<requests, approved>> /\ GateOthersUnchanged

(* Checks of the state failed or consequences are open, and neither is      *)
(* overridden, or the process died.                                         *)
EndRelease(r) ==
  /\ release[r] # Resting
  /\ release' = [release EXCEPT ![r] = Resting]
  /\ UNCHANGED <<controls, requests, approved>> /\ GateOthersUnchanged

ExecuteRelease(r) ==
  \/ \E q \in 1..MaxRequests : CheckRelease(r, q)
  \/ WriteRelease(r) \/ EndRelease(r)

RecoveryGate ==
  \/ CreateReleaseRequest
  \/ \E q \in 1..MaxRequests : ApproveRelease(q)
  \/ \E r \in Releaser : ExecuteRelease(r)

-----------------------------------------------------------------------------
(* A process dies; the responder's service kills its executor with it.      *)

CrashResponder ==
  /\ responder # Resting
  /\ budget.crashes < MaxCrashes /\ budget' = [budget EXCEPT !.crashes = @ + 1]
  /\ responder' = Resting
  /\ End("responder")
  /\ UNCHANGED <<raised, handled, plans, caseVars, controls, gateVars>>

CrashExecutor(x) ==
  /\ exec[x] # Resting
  /\ budget.crashes < MaxCrashes /\ budget' = [budget EXCEPT !.crashes = @ + 1]
  /\ End(x)
  /\ UNCHANGED <<caseVars, controls>> /\ OthersUnchanged

Next ==
  \/ \E a \in Alert : Raise(a)
  \/ RunOnce
  \/ \E i \in Incident : CreatePlan(i) \/ ExecuteByHand(i)
  \/ \E x \in Executor : Execute(x) \/ CrashExecutor(x)
  \/ RecoveryGate
  \/ CrashResponder

(* The responder polls forever and its unit restarts it; what it starts     *)
(* comes to an end.                                                         *)
Fairness == WF_vars(RunOnce) /\ WF_vars(Execute("responder"))

Spec == Init /\ [][Next]_vars /\ Fairness

-----------------------------------------------------------------------------
(* Properties.                                                              *)

(* "Preserve the suspect execution state before changing it"                *)
(* (V0.6_RUNBOOK.md): unless its plan says contain_anyway, an incident has  *)
(* never changed the control file without sealed evidence from before,      *)
(* although executions crash, repeat and run into each other's directories. *)
EvidenceFirst ==
  \A i \in Incident \ Anyway : \A n \in DOMAIN controls :
    controls[n] = Containing(i) => pre[i] = "sealed"

(* The responder executes the alerts of an unsaved batch again after a      *)
(* crash, and an operator may execute the same plan: still a plan takes     *)
(* effect at most once, so a release is not undone by a repetition.         *)
ContainedOnce ==
  \A i \in Incident \ Anyway : \A n, m \in DOMAIN controls :
    controls[n] = Containing(i) /\ controls[m] = Containing(i) => n = m

(* A release request that has released is spent: presented to the gate      *)
(* again, also with a containment in between, it does not release.  Several *)
(* executions may pass the check at once and release one after the other,   *)
(* so one that was checked before a release may still follow it.            *)
SpentOnceReleased ==
  \A n, m \in DOMAIN controls :
    /\ n < m /\ controls[n].mode = "released" /\ controls[m].mode = "released"
    /\ controls[n].request = controls[m].request
    => controls[m].checked < n

(* "Release is blocked when ... the containment control changed after       *)
(* release approval was requested" (V0.6_RUNBOOK.md): a release replaces    *)
(* the control its request names.  It does not when a containment, or the   *)
(* release of another execution, is written between its check and itself.   *)
ReleaseReplacesRequested ==
  \A n \in DOMAIN controls : controls[n].mode = "released" =>
    requests[controls[n].request] = n - 1

(* The responder gets to every alert and records it, in spite of crashes:   *)
(* no alert is for ever repeated or left behind an unfinished batch.        *)
EveryAlertHandled == \A a \in Alert : a \in raised ~> a \in handled
=============================================================================

----------------------------- MODULE LegalHold ------------------------------
(***************************************************************************)
(* Legal holds: signed hold and release records (legal_hold_v15.py) are     *)
(* applied to the metadata store and to the object store by a command       *)
(* (legal_hold_apply_v15.py), while evidence is ingested into both          *)
(* (enterprise_evidence_ingest_v15.py).                                     *)
(*                                                                          *)
(* Every piece of evidence is encrypted with a key of its own, so no two    *)
(* share an object; evidence and object have one name here.  The metadata   *)
(* store and every object are updated one after the other, by several runs  *)
(* of the command at a time, each of which may end between any two steps.   *)
(***************************************************************************)
EXTENDS FiniteSets, Naturals

CONSTANTS
  Case,
  Hold,      \* hold records, by their hold_id
  CaseOf,    \* the case each of them names
  Evidence,
  Home,      \* the case each piece of evidence belongs to
  Run,       \* runs of the command that can be under way
  MaxRuns    \* bound on the runs that are started

ASSUME LegalHoldAssumption ==
  /\ CaseOf \in [Hold -> Case]
  /\ Home \in [Evidence -> Case]
  /\ MaxRuns \in Nat

VARIABLES
  holdFiles,     \* signed hold records
  releaseFiles,  \* holds that a signed release record names
  status,        \* table legal_holds
  evidence,      \* progress of each ingest; "listed" once it has a row in evidence_meta
  held,          \* the legal-hold flag of each object
  run,           \* what each run of the command is doing
  reports,       \* valid enforcement reports of ACTIVE holds
  runs

holdVars == <<holdFiles, releaseFiles, status, evidence, held, run, reports, runs>>

NoRun == [at |-> "ended"]
RunState ==
  [at : {"listed", "absent", "marking"}, hold : Hold, state : {"ACTIVE", "RELEASED"},
   items : SUBSET Evidence, todo : SUBSET Evidence, stale : BOOLEAN]

HoldTypeOK ==
  /\ holdFiles \subseteq Hold /\ releaseFiles \subseteq holdFiles
  /\ status \in [Hold -> {"none", "ACTIVE", "RELEASED"}]
  /\ evidence \in [Evidence -> {"none", "stored", "listed"}]
  /\ held \in [Evidence -> BOOLEAN]
  /\ run \in [Run -> RunState \cup {NoRun}]
  /\ reports \subseteq [hold : Hold, items : SUBSET Evidence]
  /\ runs \in 0..MaxRuns

HoldInit ==
  /\ holdFiles = {} /\ releaseFiles = {}
  /\ status = [h \in Hold |-> "none"]
  /\ evidence = [e \in Evidence |-> "none"]
  /\ held = [e \in Evidence |-> FALSE]
  /\ run = [r \in Run |-> NoRun]
  /\ reports = {}
  /\ runs = 0

-----------------------------------------------------------------------------
(* Signed records.                                                          *)

Create(h) ==
  /\ h \notin holdFiles
  /\ holdFiles' = holdFiles \cup {h}
  /\ UNCHANGED <<releaseFiles, status, evidence, held, run, reports, runs>>

Release(h) ==
  /\ h \in holdFiles \ releaseFiles
  /\ releaseFiles' = releaseFiles \cup {h}
  /\ UNCHANGED <<holdFiles, status, evidence, held, run, reports, runs>>

-----------------------------------------------------------------------------
(* Ingest: the object first, with the flag the caller asked for, then its   *)
(* row.  An ingest that dies in between leaves an object without a row.     *)

Put(e, flag) ==
  /\ evidence[e] = "none"
  /\ evidence' = [evidence EXCEPT ![e] = "stored"]
  /\ held' = [held EXCEPT ![e] = flag]
  /\ UNCHANGED <<holdFiles, releaseFiles, status, run, reports, runs>>

PutEvidence(e) ==
  /\ evidence[e] = "stored"
  /\ evidence' = [evidence EXCEPT ![e] = "listed"]
  /\ UNCHANGED <<holdFiles, releaseFiles, status, held, run, reports, runs>>

-----------------------------------------------------------------------------
(* A run of apply.                                                          *)

(* Mutant: the query has no condition on the case.                          *)
ListEvidenceOfTenant(c) == {e \in Evidence : evidence[e] = "listed"}

ListEvidence(c) == {e \in Evidence : evidence[e] = "listed" /\ Home[e] = c}

(* The records are validated and the evidence of the case is listed.  With  *)
(* a release record the state is RELEASED.  "stale" remembers, for the      *)
(* properties, that the hold had been released when the run began.          *)
Start(r, h, state) ==
  /\ run[r] = NoRun
  /\ runs < MaxRuns /\ runs' = runs + 1
  /\ h \in IF state = "ACTIVE" THEN holdFiles ELSE releaseFiles
  /\ LET items == ListEvidence(CaseOf[h])
     IN  run' = [run EXCEPT ![r] =
           [at |-> IF state = "ACTIVE" THEN "listed" ELSE "marking", hold |-> h, state |-> state,
            items |-> items, todo |-> items, stale |-> status[h] = "RELEASED"]]
  /\ UNCHANGED <<holdFiles, releaseFiles, status, evidence, held, reports>>

(* active_holds.                                                            *)
LookUp(r) ==
  /\ run[r].at = "listed"
  /\ run' = [run EXCEPT ![r].at = IF status[run[r].hold] = "ACTIVE" THEN "marking" ELSE "absent"]
  /\ UNCHANGED <<holdFiles, releaseFiles, status, evidence, held, reports, runs>>

(* Mutant: the row is replaced when there is one.                           *)
PutLegalHoldReplace(r) ==
  /\ run[r].at = "absent"
  /\ status' = [status EXCEPT ![run[r].hold] = "ACTIVE"]
  /\ run' = [run EXCEPT ![r].at = "marking"]
  /\ UNCHANGED <<holdFiles, releaseFiles, evidence, held, reports, runs>>

(* Mutant: the objects are marked first, and the row is left for later.     *)
PutLegalHoldLater(r) ==
  /\ run[r].at = "absent"
  /\ status[run[r].hold] = "none"
  /\ run' = [run EXCEPT ![r].at = "marking"]
  /\ UNCHANGED <<holdFiles, releaseFiles, status, evidence, held, reports, runs>>

(* put_legal_hold: hold_id is a primary key, so a row that was released or  *)
(* has just been inserted by another run makes the insertion fail, which    *)
(* ends the run with a finding.                                             *)
PutLegalHold(r) ==
  /\ run[r].at = "absent"
  /\ IF status[run[r].hold] = "none"
     THEN /\ status' = [status EXCEPT ![run[r].hold] = "ACTIVE"]
          /\ run' = [run EXCEPT ![r].at = "marking"]
     ELSE /\ run' = [run EXCEPT ![r] = NoRun]
          /\ UNCHANGED status
  /\ UNCHANGED <<holdFiles, releaseFiles, evidence, held, reports, runs>>

(* set_legal_hold of the object store, for one object after the other.      *)
SetLegalHold(r, e) ==
  /\ run[r].at = "marking"
  /\ e \in run[r].todo
  /\ held' = [held EXCEPT ![e] = run[r].state = "ACTIVE"]
  /\ run' = [run EXCEPT ![r].todo = @ \ {e}]
  /\ UNCHANGED <<holdFiles, releaseFiles, status, evidence, reports, runs>>

ReportHold(r) ==
  reports' = IF run[r].state = "RELEASED" THEN reports
             ELSE reports \cup {[hold |-> run[r].hold, items |-> run[r].items]}

(* Mutant: the state is written in lower case.                              *)
FinishLowerCase(r) ==
  /\ run[r].at = "marking" /\ run[r].todo = {}
  /\ status' = IF run[r].state = "RELEASED" THEN [status EXCEPT ![run[r].hold] = "released"]
               ELSE status
  /\ ReportHold(r)
  /\ run' = [run EXCEPT ![r] = NoRun]
  /\ UNCHANGED <<holdFiles, releaseFiles, evidence, held, runs>>

(* All objects are marked; a release updates the row if it is ACTIVE, and   *)
(* does not mind when it is not.  The report says valid.                    *)
Finish(r) ==
  /\ run[r].at = "marking" /\ run[r].todo = {}
  /\ status' = IF run[r].state = "RELEASED" /\ status[run[r].hold] = "ACTIVE"
               THEN [status EXCEPT ![run[r].hold] = "RELEASED"] ELSE status
  /\ ReportHold(r)
  /\ run' = [run EXCEPT ![r] = NoRun]
  /\ UNCHANGED <<holdFiles, releaseFiles, evidence, held, runs>>

(* The run is killed, or a store refuses a call: what is done stays done,   *)
(* and there is no valid report.                                            *)
Abort(r) ==
  /\ run[r] # NoRun
  /\ run' = [run EXCEPT ![r] = NoRun]
  /\ UNCHANGED <<holdFiles, releaseFiles, status, evidence, held, reports, runs>>

Apply(r) ==
  \/ \E h \in Hold, state \in {"ACTIVE", "RELEASED"} : Start(r, h, state)
  \/ LookUp(r) \/ PutLegalHold(r)
  \/ \E e \in Evidence : SetLegalHold(r, e)
  \/ Finish(r) \/ Abort(r)

HoldNext ==
  \/ \E h \in Hold : Create(h) \/ Release(h)
  \/ \E e \in Evidence : PutEvidence(e) \/ \E flag \in BOOLEAN : Put(e, flag)
  \/ \E r \in Run : Apply(r)

HoldSpec == HoldInit /\ [][HoldNext]_holdVars

-----------------------------------------------------------------------------
(* Properties.                                                              *)

(* "Legal holds remain enforced or have a valid signed release"             *)
(* (docs/analyst/CLOSURE_CRITERIA.md): once a run has reported that a hold  *)
(* is enforced, the objects it reported stay held, whatever runs for this   *)
(* or another hold start, crash or overtake each other, until there is a    *)
(* signed release of that hold.                                             *)
HoldsEnforced ==
  \A p \in reports :
    p.hold \notin releaseFiles => \A e \in p.items : held[e]

(* The command holds no object of a case that has no hold on record: a      *)
(* crash leaves a hold without its objects, never objects without a hold.   *)
HeldOnRecord ==
  [][\A e \in Evidence : ~held[e] /\ held'[e] /\ evidence[e] # "none" =>
       \E h \in Hold : CaseOf[h] = Home[e] /\ status[h] # "none"]_holdVars

(* A hold that was released stays released, and applying its record again,  *)
(* by mistake or because a retry came late, touches no object: the case is  *)
(* not put back under a hold that no longer exists.                         *)
StaleHoldIsInert ==
  \A r \in Run : run[r] # NoRun /\ run[r].stale =>
    /\ status[run[r].hold] = "RELEASED"
    /\ run[r].state = "ACTIVE" => run[r].at # "marking"

(* What the records and reports of holds promise to those who do not see    *)
(* the command at work.                                                     *)
HoldsSound == HoldsEnforced /\ StaleHoldIsInert
=============================================================================

---------------------------- MODULE AssuranceProofs ----------------------------
(***************************************************************************)
(* Theorems about parts that are checked together in MCAssurance, each for  *)
(* itself: legal holds, for every set of cases, holds, evidence and runs of *)
(* the command; the guard of a worker's threads; the closure of a case; the *)
(* releases of a tag; and then what all of them keep side by side.          *)
(***************************************************************************)
EXTENDS MCAssurance, PolicyGovernanceProofs, SequenceTheorems, FiniteSetTheorems,
        WellFoundedInduction, TLAPS

------------------------------------------------------------------------------
(* Legal holds.                                                             *)

(* What HoldsEnforced needs and docs/analyst never says: one case, one hold. *)
OneHoldPerCase == \A g, h \in Hold : CaseOf[g] = CaseOf[h] => g = h

EvidenceOf(h) == {e \in Evidence : evidence[e] = "listed" /\ Home[e] = CaseOf[h]}

(* A run works on listed evidence of the case of a hold that has a record,  *)
(* and with a release of it when it releases; it marks objects for a hold   *)
(* only when there is a row, and never for one that was released before.    *)
RunsOK ==
  \A r \in Run : run[r] # NoRun =>
    /\ run[r].hold \in holdFiles
    /\ run[r].items \subseteq EvidenceOf(run[r].hold) /\ run[r].todo \subseteq run[r].items
    /\ run[r].state = "RELEASED" => run[r].hold \in releaseFiles /\ run[r].at = "marking"
    /\ run[r].state = "ACTIVE" /\ run[r].at = "marking" => status[run[r].hold] # "none"
    /\ run[r].state = "ACTIVE" /\ run[r].at # "marking" => run[r].todo = run[r].items

(* While its hold is not released, what a run has marked stays held.        *)
MarkedOK ==
  \A r \in Run :
    run[r] # NoRun /\ run[r].state = "ACTIVE" /\ run[r].hold \notin releaseFiles =>
      \A e \in run[r].items \ run[r].todo : held[e]

ReportsOK == \A p \in reports : p.items \subseteq EvidenceOf(p.hold)

(* The inductive invariants: of what the runs do, and of what they have     *)
(* achieved if no two holds are on one case.                                *)
HoldInv == HoldTypeOK /\ RunsOK /\ ReportsOK /\ StaleHoldIsInert
Enforced == MarkedOK /\ HoldsEnforced

-----------------------------------------------------------------------------
(* Helpers.                                                                 *)

LEMMA ARun ==
  ASSUME NEW row \in RunState
  PROVE  /\ row # NoRun /\ row.at \in {"listed", "absent", "marking"} /\ row.hold \in Hold
         /\ row.state \in {"ACTIVE", "RELEASED"} /\ row.items \subseteq Evidence
         /\ row.todo \subseteq Evidence /\ row.stale \in BOOLEAN
BY DEF RunState, NoRun

LEMMA OneRunChanges ==
  ASSUME HoldTypeOK, NEW r \in Run, NEW row \in RunState \cup {NoRun}, run' = [run EXCEPT ![r] = row]
  PROVE  /\ run' \in [Run -> RunState \cup {NoRun}]
         /\ run'[r] = row /\ \A q \in Run : q # r => run'[q] = run[q]
BY DEF HoldTypeOK

(* What one run becomes decides about all of them, if evidence stays listed *)
(* and records and rows stay.                                               *)
LEMMA RunChangeKeeps ==
  ASSUME HoldInv, HoldTypeOK', NEW r \in Run,
         \A q \in Run : q # r => run'[q] = run[q],
         run'[r] # NoRun =>
           /\ run'[r].hold \in holdFiles'
           /\ run'[r].items \subseteq EvidenceOf(run'[r].hold) /\ run'[r].todo \subseteq run'[r].items
           /\ run'[r].state = "RELEASED" => run'[r].hold \in releaseFiles' /\ run'[r].at = "marking"
           /\ run'[r].state = "ACTIVE" /\ run'[r].at = "marking" => status'[run'[r].hold] # "none"
           /\ run'[r].state = "ACTIVE" /\ run'[r].at # "marking" => run'[r].todo = run'[r].items
           /\ run'[r].stale =>
                /\ status'[run'[r].hold] = "RELEASED"
                /\ run'[r].state = "ACTIVE" => run'[r].at # "marking",
         UNCHANGED <<holdFiles, releaseFiles, evidence>>,
         \A h \in Hold : /\ status[h] # "none" => status'[h] # "none"
                         /\ status[h] = "RELEASED" => status'[h] = "RELEASED",
         \A p \in reports' : p \in reports \/ p.items \subseteq EvidenceOf(p.hold)
  PROVE  HoldInv'
<1>1. \A h : EvidenceOf(h)' = EvidenceOf(h)
  BY DEF EvidenceOf
<1>2. ReportsOK'
  BY <1>1 DEF HoldInv, ReportsOK
<1>3. RunsOK'
  <2> SUFFICES ASSUME NEW q \in Run, run'[q] # NoRun
               PROVE  /\ run'[q].hold \in holdFiles'
                      /\ run'[q].items \subseteq EvidenceOf(run'[q].hold) /\ run'[q].todo \subseteq run'[q].items
                      /\ run'[q].state = "RELEASED" => run'[q].hold \in releaseFiles' /\ run'[q].at = "marking"
                      /\ run'[q].state = "ACTIVE" /\ run'[q].at = "marking" => status'[run'[q].hold] # "none"
                      /\ run'[q].state = "ACTIVE" /\ run'[q].at # "marking" => run'[q].todo = run'[q].items
    BY <1>1 DEF RunsOK
  <2>1. CASE q = r
    BY <2>1
  <2>2. CASE q # r
    <3>1. run[q] \in RunState
      BY <2>2 DEF HoldInv, HoldTypeOK
    <3> QED
      BY <1>1, <2>2, <3>1, ARun DEF HoldInv, RunsOK
  <2> QED
    BY <2>1, <2>2
<1>4. StaleHoldIsInert'
  <2> SUFFICES ASSUME NEW q \in Run, run'[q] # NoRun, run'[q].stale
               PROVE  /\ status'[run'[q].hold] = "RELEASED"
                      /\ run'[q].state = "ACTIVE" => run'[q].at # "marking"
    BY DEF StaleHoldIsInert
  <2>1. CASE q = r
    BY <2>1
  <2>2. CASE q # r
    <3>1. run[q] \in RunState
      BY <2>2 DEF HoldInv, HoldTypeOK
    <3> QED
      BY <2>2, <3>1, ARun DEF HoldInv, StaleHoldIsInert
  <2> QED
    BY <2>1, <2>2
<1> QED
  BY <1>2, <1>3, <1>4 DEF HoldInv

-----------------------------------------------------------------------------
(* Each action preserves the first invariant.                               *)

LEMMA HoldBegins == ASSUME HoldInit PROVE HoldInv /\ Enforced
<1>1. HoldTypeOK
  BY LegalHoldAssumption DEF HoldInit, HoldTypeOK
<1> QED
  BY <1>1 DEF HoldInit, HoldInv, RunsOK, ReportsOK, StaleHoldIsInert, Enforced, MarkedOK, HoldsEnforced

LEMMA RecordsKeep == ASSUME HoldInv, NEW h \in Hold, Create(h) \/ Release(h) PROVE HoldInv'
<1>1. UNCHANGED <<status, evidence, held, run, reports, runs>> /\ holdFiles \subseteq holdFiles'
      /\ releaseFiles \subseteq releaseFiles' /\ releaseFiles' \subseteq holdFiles' /\ holdFiles' \subseteq Hold
  BY DEF Create, Release, HoldInv, HoldTypeOK
<1> QED
  BY <1>1 DEF HoldInv, HoldTypeOK, RunsOK, ReportsOK, EvidenceOf, StaleHoldIsInert

LEMMA IngestKeeps ==
  ASSUME HoldInv, NEW e \in Evidence, PutEvidence(e) \/ \E flag \in BOOLEAN : Put(e, flag)
  PROVE  HoldInv' /\ \A h \in Hold : EvidenceOf(h) \subseteq EvidenceOf(h)'
<1>1. /\ UNCHANGED <<holdFiles, releaseFiles, status, run, reports, runs>>
      /\ evidence' \in [Evidence -> {"none", "stored", "listed"}] /\ held' \in [Evidence -> BOOLEAN]
      /\ \A x \in Evidence : evidence[x] = "listed" => evidence'[x] = "listed"
  BY DEF PutEvidence, Put, HoldInv, HoldTypeOK
<1>2. HoldTypeOK'
  BY <1>1 DEF HoldInv, HoldTypeOK
<1>3. \A h : EvidenceOf(h) \subseteq EvidenceOf(h)'
  BY <1>1 DEF EvidenceOf
<1>4. ReportsOK'
  BY <1>1, <1>3 DEF HoldInv, ReportsOK
<1>5. RunsOK'
  BY <1>1, <1>3 DEF HoldInv, RunsOK
<1>6. StaleHoldIsInert'
  BY <1>1 DEF HoldInv, StaleHoldIsInert
<1> QED
  BY <1>2, <1>3, <1>4, <1>5, <1>6 DEF HoldInv

LEMMA StartKeeps ==
  ASSUME HoldInv, NEW r \in Run, NEW h \in Hold, NEW state \in {"ACTIVE", "RELEASED"}, Start(r, h, state)
  PROVE  /\ HoldInv' /\ run'[r] \in RunState /\ run'[r].todo = run'[r].items
         /\ \A q \in Run : q # r => run'[q] = run[q]
<1> DEFINE items == ListEvidence(CaseOf[h])
           row == [at |-> IF state = "ACTIVE" THEN "listed" ELSE "marking", hold |-> h, state |-> state,
                   items |-> items, todo |-> items, stale |-> status[h] = "RELEASED"]
<1>1. run' = [run EXCEPT ![r] = row]
  BY DEF Start
<1>2. items = EvidenceOf(h) /\ items \subseteq Evidence
  BY DEF ListEvidence, EvidenceOf
<1> HIDE DEF items
<1>3. row \in RunState
  BY <1>2 DEF RunState
<1>4. /\ row.hold = h /\ row.state = state /\ row.items = items /\ row.todo = items
      /\ row.at = IF state = "ACTIVE" THEN "listed" ELSE "marking"
      /\ row.stale = (status[h] = "RELEASED")
  OBVIOUS
<1> HIDE DEF row
<1>5. /\ run' \in [Run -> RunState \cup {NoRun}] /\ run'[r] = row
      /\ \A q \in Run : q # r => run'[q] = run[q]
  BY <1>1, <1>3, OneRunChanges DEF HoldInv
<1>6. runs' \in 0..MaxRuns
  BY LegalHoldAssumption DEF Start, HoldInv, HoldTypeOK
<1>7. HoldTypeOK'
  BY <1>5, <1>6 DEF Start, HoldInv, HoldTypeOK
<1>8. h \in holdFiles /\ (state = "RELEASED" => h \in releaseFiles)
  BY DEF Start, HoldInv, HoldTypeOK
<1>9. UNCHANGED <<holdFiles, releaseFiles, status, evidence, reports>>
  BY DEF Start
<1>10. HoldInv'
  BY <1>2, <1>4, <1>5, <1>7, <1>8, <1>9, RunChangeKeeps, ZenonT(60)
<1> QED
  BY <1>3, <1>4, <1>5, <1>10

(* The steps that only change where a run is.                               *)
LEMMA MovingKeeps ==
  ASSUME HoldInv, NEW r \in Run, LookUp(r) \/ PutLegalHold(r)
  PROVE  /\ HoldInv' /\ \A q \in Run : q # r => run'[q] = run[q]
         /\ UNCHANGED <<holdFiles, releaseFiles, evidence, held, reports>>
         /\ run'[r] # NoRun =>
              /\ run[r] \in RunState /\ run'[r].hold = run[r].hold /\ run'[r].state = run[r].state
              /\ run'[r].items = run[r].items /\ run'[r].todo = run[r].todo
<1>1. run[r] \in RunState /\ run[r].at \in {"listed", "absent"}
  BY DEF LookUp, PutLegalHold, HoldInv, HoldTypeOK, NoRun
<1>2. run[r] # NoRun /\ run[r].hold \in Hold
  BY <1>1, ARun
<1>4. \A a \in {"listed", "absent", "marking"} :
        /\ [run[r] EXCEPT !.at = a] \in RunState /\ [run[r] EXCEPT !.at = a].at = a
        /\ [run[r] EXCEPT !.at = a].hold = run[r].hold /\ [run[r] EXCEPT !.at = a].state = run[r].state
        /\ [run[r] EXCEPT !.at = a].items = run[r].items /\ [run[r] EXCEPT !.at = a].todo = run[r].todo
        /\ [run[r] EXCEPT !.at = a].stale = run[r].stale
  BY <1>1 DEF RunState
<1>5. /\ run[r].hold \in holdFiles /\ run[r].items \subseteq EvidenceOf(run[r].hold)
      /\ run[r].state = "ACTIVE" /\ run[r].todo = run[r].items
      /\ run[r].stale => status[run[r].hold] = "RELEASED"
  BY <1>1, <1>2, ARun DEF HoldInv, RunsOK, StaleHoldIsInert
<1>6. CASE LookUp(r)
  <2> DEFINE a == IF status[run[r].hold] = "ACTIVE" THEN "marking" ELSE "absent"
             row == [run[r] EXCEPT !.at = a]
  <2>1. run' = [run EXCEPT ![r] = row]
    BY <1>6 DEF LookUp, HoldInv, HoldTypeOK
  <2>2. a \in {"listed", "absent", "marking"} /\ (a = "marking" => status[run[r].hold] = "ACTIVE")
    OBVIOUS
  <2> HIDE DEF a
  <2>3. /\ row \in RunState /\ row.at = a /\ row.hold = run[r].hold /\ row.state = run[r].state
        /\ row.items = run[r].items /\ row.todo = run[r].todo /\ row.stale = run[r].stale
    BY <1>4, <2>2
  <2> HIDE DEF row
  <2>4. /\ run' \in [Run -> RunState \cup {NoRun}] /\ run'[r] = row
        /\ \A q \in Run : q # r => run'[q] = run[q]
    BY <2>1, <2>3, OneRunChanges DEF HoldInv
  <2>5. UNCHANGED <<holdFiles, releaseFiles, status, evidence, held, reports, runs>>
    BY <1>6 DEF LookUp
  <2>6. HoldTypeOK'
    BY <2>4, <2>5 DEF HoldInv, HoldTypeOK
  <2>7. row.at = "marking" => status[run[r].hold] # "none" /\ status[run[r].hold] # "RELEASED"
    BY <2>2, <2>3
  <2>8. HoldInv'
    BY <1>5, <2>3, <2>4, <2>5, <2>6, <2>7, RunChangeKeeps
  <2> QED
    BY <1>1, <2>3, <2>4, <2>5, <2>8
<1>7. CASE PutLegalHold(r) /\ status[run[r].hold] = "none"
  <2> DEFINE row == [run[r] EXCEPT !.at = "marking"]
  <2>1. run' = [run EXCEPT ![r] = row] /\ status' = [status EXCEPT ![run[r].hold] = "ACTIVE"]
    BY <1>7 DEF PutLegalHold, HoldInv, HoldTypeOK
  <2>2. /\ row \in RunState /\ row.at = "marking" /\ row.hold = run[r].hold /\ row.state = run[r].state
        /\ row.items = run[r].items /\ row.todo = run[r].todo /\ row.stale = run[r].stale
    BY <1>4
  <2> HIDE DEF row
  <2>3. /\ run' \in [Run -> RunState \cup {NoRun}] /\ run'[r] = row
        /\ \A q \in Run : q # r => run'[q] = run[q]
    BY <2>1, <2>2, OneRunChanges DEF HoldInv
  <2>4. UNCHANGED <<holdFiles, releaseFiles, evidence, held, reports, runs>>
    BY <1>7 DEF PutLegalHold
  <2>5. HoldTypeOK'
    BY <1>2, <2>1, <2>3, <2>4 DEF HoldInv, HoldTypeOK
  <2>6. /\ status'[run[r].hold] = "ACTIVE"
        /\ \A h \in Hold : h # run[r].hold => status'[h] = status[h]
    BY <1>2, <2>1 DEF HoldInv, HoldTypeOK
  <2>7. \A h \in Hold : /\ status[h] # "none" => status'[h] # "none"
                        /\ status[h] = "RELEASED" => status'[h] = "RELEASED"
    BY <1>7, <2>6
  <2>8. ~row.stale
    BY <1>1, <1>5, <1>7, <2>2
  <2>9. HoldInv'
    BY <1>5, <2>2, <2>3, <2>4, <2>5, <2>6, <2>7, <2>8, RunChangeKeeps
  <2> QED
    BY <1>1, <2>2, <2>3, <2>4, <2>9
<1>8. CASE PutLegalHold(r) /\ status[run[r].hold] # "none"
  <2>1. run' = [run EXCEPT ![r] = NoRun]
        /\ UNCHANGED <<holdFiles, releaseFiles, status, evidence, held, reports, runs>>
    BY <1>8 DEF PutLegalHold
  <2>2. /\ run' \in [Run -> RunState \cup {NoRun}] /\ run'[r] = NoRun
        /\ \A q \in Run : q # r => run'[q] = run[q]
    BY <2>1, OneRunChanges DEF HoldInv
  <2>3. HoldTypeOK'
    BY <2>1, <2>2 DEF HoldInv, HoldTypeOK
  <2>4. HoldInv'
    BY <2>1, <2>2, <2>3, RunChangeKeeps
  <2> QED
    BY <2>1, <2>2, <2>4
<1> QED
  BY <1>6, <1>7, <1>8

LEMMA SetLegalHoldKeeps ==
  ASSUME HoldInv, NEW r \in Run, NEW e \in Evidence, SetLegalHold(r, e)
  PROVE  /\ HoldInv' /\ \A q \in Run : q # r => run'[q] = run[q]
         /\ UNCHANGED <<holdFiles, releaseFiles, status, evidence, reports>>
         /\ run[r] \in RunState /\ e \in run[r].todo /\ run[r].at = "marking"
         /\ held'[e] = (run[r].state = "ACTIVE") /\ \A x \in Evidence : x # e => held'[x] = held[x]
         /\ run'[r].hold = run[r].hold /\ run'[r].state = run[r].state
         /\ run'[r].items = run[r].items /\ run'[r].todo = run[r].todo \ {e}
<1>1. run[r] \in RunState /\ run[r].at = "marking" /\ e \in run[r].todo
  BY DEF SetLegalHold, HoldInv, HoldTypeOK, NoRun
<1> DEFINE row == [run[r] EXCEPT !.todo = run[r].todo \ {e}]
<1>2. run' = [run EXCEPT ![r] = row] /\ held' = [held EXCEPT ![e] = run[r].state = "ACTIVE"]
  BY DEF SetLegalHold, HoldInv, HoldTypeOK
<1>3. /\ row \in RunState /\ row.at = "marking" /\ row.hold = run[r].hold /\ row.state = run[r].state
      /\ row.items = run[r].items /\ row.todo = run[r].todo \ {e} /\ row.stale = run[r].stale
  BY <1>1 DEF RunState
<1> HIDE DEF row
<1>4. /\ run' \in [Run -> RunState \cup {NoRun}] /\ run'[r] = row
      /\ \A q \in Run : q # r => run'[q] = run[q]
  BY <1>2, <1>3, OneRunChanges DEF HoldInv
<1>5. UNCHANGED <<holdFiles, releaseFiles, status, evidence, reports, runs>>
  BY DEF SetLegalHold
<1>6. /\ held' \in [Evidence -> BOOLEAN]
      /\ held'[e] = (run[r].state = "ACTIVE") /\ \A x \in Evidence : x # e => held'[x] = held[x]
  BY <1>2 DEF HoldInv, HoldTypeOK
<1>7. HoldTypeOK'
  BY <1>4, <1>5, <1>6 DEF HoldInv, HoldTypeOK
<1>8. /\ run[r].hold \in holdFiles /\ run[r].items \subseteq EvidenceOf(run[r].hold)
      /\ run[r].todo \subseteq run[r].items
      /\ run[r].state = "RELEASED" => run[r].hold \in releaseFiles
      /\ run[r].state = "ACTIVE" => status[run[r].hold] # "none"
      /\ run[r].stale => status[run[r].hold] = "RELEASED" /\ run[r].state # "ACTIVE"
  BY <1>1, ARun DEF HoldInv, RunsOK, StaleHoldIsInert
<1>9. HoldInv'
  BY <1>3, <1>4, <1>5, <1>7, <1>8, RunChangeKeeps
<1> QED
  BY <1>1, <1>3, <1>4, <1>5, <1>6, <1>9

LEMMA EndingKeeps ==
  ASSUME HoldInv, NEW r \in Run, Finish(r) \/ Abort(r)
  PROVE  /\ HoldInv' /\ run'[r] = NoRun /\ \A q \in Run : q # r => run'[q] = run[q]
         /\ UNCHANGED <<holdFiles, releaseFiles, evidence, held>>
         /\ \A p \in reports' :
              \/ p \in reports
              \/ /\ run[r] \in RunState /\ run[r].todo = {} /\ run[r].state = "ACTIVE"
                 /\ p.hold = run[r].hold /\ p.items = run[r].items
<1>1. run' = [run EXCEPT ![r] = NoRun] /\ UNCHANGED <<holdFiles, releaseFiles, evidence, held, runs>>
  BY DEF Finish, Abort
<1>2. /\ run' \in [Run -> RunState \cup {NoRun}] /\ run'[r] = NoRun
      /\ \A q \in Run : q # r => run'[q] = run[q]
  BY <1>1, OneRunChanges DEF HoldInv
<1>3. run[r] \in RunState
  BY DEF Finish, Abort, HoldInv, HoldTypeOK, NoRun
<1>4. run[r].hold \in Hold /\ run[r].items \subseteq Evidence /\ run[r].items \subseteq EvidenceOf(run[r].hold)
  BY <1>3, ARun DEF HoldInv, RunsOK
<1>5. \/ reports' = reports
      \/ /\ run[r].todo = {} /\ run[r].state = "ACTIVE"
         /\ reports' = reports \cup {[hold |-> run[r].hold, items |-> run[r].items]}
  BY <1>3, ARun DEF Finish, Abort, ReportHold
<1>6. reports' \subseteq [hold : Hold, items : SUBSET Evidence]
  BY <1>4, <1>5 DEF HoldInv, HoldTypeOK
<1>7. status' = status \/ (status[run[r].hold] = "ACTIVE" /\ status' = [status EXCEPT ![run[r].hold] = "RELEASED"])
  BY DEF Finish, Abort
<1>8. /\ status' \in [Hold -> {"none", "ACTIVE", "RELEASED"}]
      /\ \A h \in Hold : /\ status[h] # "none" => status'[h] # "none"
                         /\ status[h] = "RELEASED" => status'[h] = "RELEASED"
  BY <1>7 DEF HoldInv, HoldTypeOK
<1>9. HoldTypeOK'
  BY <1>1, <1>2, <1>6, <1>8 DEF HoldInv, HoldTypeOK
<1>10. \A p \in reports' : p \in reports \/ p.items \subseteq EvidenceOf(p.hold)
  BY <1>4, <1>5
<1>11. HoldInv'
  BY <1>1, <1>2, <1>8, <1>9, <1>10, RunChangeKeeps
<1> QED
  BY <1>1, <1>2, <1>3, <1>5, <1>11

LEMMA HoldNextHolds == ASSUME HoldInv, [HoldNext]_holdVars PROVE HoldInv'
<1>1. CASE UNCHANGED holdVars
  BY <1>1 DEF holdVars, HoldInv, HoldTypeOK, RunsOK, ReportsOK, EvidenceOf, StaleHoldIsInert
<1>2. CASE \E h \in Hold : Create(h) \/ Release(h)
  BY <1>2, RecordsKeep
<1>3. CASE \E e \in Evidence : PutEvidence(e) \/ \E flag \in BOOLEAN : Put(e, flag)
  BY <1>3, IngestKeeps
<1>4. ASSUME NEW r \in Run, Apply(r) PROVE HoldInv'
  BY <1>4, StartKeeps, MovingKeeps, SetLegalHoldKeeps, EndingKeeps DEF Apply
<1> QED
  BY <1>1, <1>2, <1>3, <1>4 DEF HoldNext

-----------------------------------------------------------------------------
(* If no two holds are on one case, what is reported stays held.            *)

(* Only a run for a hold with a release record takes an object's flag away, *)
(* and the object belongs to the case of that hold alone.                   *)
LEMMA FlagsStay ==
  ASSUME OneHoldPerCase, HoldInv, [HoldNext]_holdVars,
         NEW h \in Hold, h \notin releaseFiles, NEW x \in EvidenceOf(h), held[x]
  PROVE  held'[x]
<1>0. x \in Evidence /\ evidence[x] = "listed" /\ Home[x] = CaseOf[h]
  BY DEF EvidenceOf
<1>1. ASSUME NEW e \in Evidence, NEW flag \in BOOLEAN, Put(e, flag) PROVE held'[x]
  BY <1>0, <1>1 DEF Put, HoldInv, HoldTypeOK
<1>2. ASSUME NEW r \in Run, NEW e \in Evidence, SetLegalHold(r, e) PROVE held'[x]
  <2>1. /\ run[r] \in RunState /\ e \in run[r].todo
        /\ held'[e] = (run[r].state = "ACTIVE") /\ \A y \in Evidence : y # e => held'[y] = held[y]
    BY <1>2, SetLegalHoldKeeps
  <2>2. CASE x = e /\ run[r].state # "ACTIVE"
    <3>1. run[r] # NoRun /\ run[r].hold \in Hold /\ run[r].state = "RELEASED"
      BY <2>1, <2>2, ARun
    <3>2. run[r].hold \in releaseFiles /\ e \in EvidenceOf(run[r].hold)
      BY <2>1, <3>1 DEF HoldInv, RunsOK
    <3>3. CaseOf[run[r].hold] = CaseOf[h]
      BY <1>0, <2>2, <3>2 DEF EvidenceOf
    <3> QED
      BY <3>1, <3>2, <3>3 DEF OneHoldPerCase
  <2> QED
    BY <1>0, <2>1, <2>2
<1>3. ASSUME held' = held PROVE held'[x]
  BY <1>3
<1> QED
  BY <1>1, <1>2, <1>3 DEF HoldNext, Create, Release, PutEvidence, Apply, Start, LookUp, PutLegalHold,
     Finish, Abort, holdVars

LEMMA MarkedStays ==
  ASSUME OneHoldPerCase, HoldInv, Enforced, [HoldNext]_holdVars, NEW r \in Run,
         run[r] \in RunState, run'[r] # NoRun, run'[r].hold = run[r].hold, run'[r].state = run[r].state,
         run'[r].items = run[r].items, run'[r].todo = run[r].todo,
         releaseFiles \subseteq releaseFiles',
         run'[r].state = "ACTIVE", run'[r].hold \notin releaseFiles'
  PROVE  \A e \in run'[r].items \ run'[r].todo : held'[e]
<1>1. run[r] # NoRun /\ run[r].hold \in Hold /\ run[r].hold \notin releaseFiles
  BY ARun
<1>2. run[r].items \subseteq EvidenceOf(run[r].hold)
  BY <1>1 DEF HoldInv, RunsOK
<1>3. \A e \in run[r].items \ run[r].todo : held[e]
  BY <1>1 DEF Enforced, MarkedOK
<1> QED
  BY <1>1, <1>2, <1>3, FlagsStay

LEMMA MarkedHold ==
  ASSUME OneHoldPerCase, HoldInv, Enforced, [HoldNext]_holdVars
  PROVE  MarkedOK'
<1>0. releaseFiles \subseteq releaseFiles'
  BY DEF HoldNext, Create, Release, PutEvidence, Put, Apply, Start, LookUp, PutLegalHold,
         SetLegalHold, Finish, Abort, holdVars
<1> SUFFICES ASSUME NEW q \in Run, run'[q] # NoRun, run'[q].state = "ACTIVE", run'[q].hold \notin releaseFiles'
             PROVE  \A e \in run'[q].items \ run'[q].todo : held'[e]
  BY DEF MarkedOK
<1>1. ASSUME run'[q] = run[q] PROVE \A e \in run'[q].items \ run'[q].todo : held'[e]
  <2>1. run[q] \in RunState
    BY <1>1 DEF HoldInv, HoldTypeOK
  <2> QED
    BY <1>0, <1>1, <2>1, MarkedStays
<1>2. ASSUME NEW r \in Run, Apply(r) PROVE \A e \in run'[q].items \ run'[q].todo : held'[e]
  <2>1. CASE \E h \in Hold, state \in {"ACTIVE", "RELEASED"} : Start(r, h, state)
    <3>1. q = r => run'[q].todo = run'[q].items
      BY <2>1, StartKeeps
    <3>2. q # r => run'[q] = run[q]
      BY <2>1, StartKeeps
    <3> QED
      BY <1>1, <3>1, <3>2
  <2>2. CASE LookUp(r) \/ PutLegalHold(r)
    <3>1. CASE q = r
      BY <1>0, <2>2, <3>1, MovingKeeps, MarkedStays
    <3>2. CASE q # r
      BY <1>1, <2>2, <3>2, MovingKeeps
    <3> QED
      BY <3>1, <3>2
  <2>3. ASSUME NEW e \in Evidence, SetLegalHold(r, e)
        PROVE  \A x \in run'[q].items \ run'[q].todo : held'[x]
    <3>1. CASE q = r
      <4>1. /\ run[r] \in RunState /\ e \in run[r].todo
            /\ held'[e] = (run[r].state = "ACTIVE")
            /\ run'[r].hold = run[r].hold /\ run'[r].state = run[r].state
            /\ run'[r].items = run[r].items /\ run'[r].todo = run[r].todo \ {e}
        BY <2>3, SetLegalHoldKeeps
      <4>2. run[r] # NoRun /\ run[r].hold \in Hold /\ run[r].hold \notin releaseFiles /\ run[r].state = "ACTIVE"
        BY <1>0, <3>1, <4>1, ARun
      <4>3. run[r].items \subseteq EvidenceOf(run[r].hold)
        BY <4>2 DEF HoldInv, RunsOK
      <4>4. \A x \in run[r].items \ run[r].todo : held'[x]
        BY <4>2, <4>3, FlagsStay DEF Enforced, MarkedOK
      <4> QED
        BY <3>1, <4>1, <4>2, <4>4
    <3>2. CASE q # r
      BY <1>1, <2>3, <3>2, SetLegalHoldKeeps
    <3> QED
      BY <3>1, <3>2
  <2>4. CASE Finish(r) \/ Abort(r)
    BY <1>1, <2>4, EndingKeeps
  <2> QED
    BY <1>2, <2>1, <2>2, <2>3, <2>4 DEF Apply
<1>3. ASSUME run' = run PROVE \A e \in run'[q].items \ run'[q].todo : held'[e]
  BY <1>1, <1>3
<1> QED
  BY <1>2, <1>3 DEF HoldNext, Create, Release, PutEvidence, Put, holdVars

LEMMA EnforcedHolds ==
  ASSUME OneHoldPerCase, HoldInv, Enforced, [HoldNext]_holdVars
  PROVE  HoldsEnforced'
<1>0. releaseFiles \subseteq releaseFiles'
  BY DEF HoldNext, Create, Release, PutEvidence, Put, Apply, Start, LookUp, PutLegalHold,
         SetLegalHold, Finish, Abort, holdVars
<1> SUFFICES ASSUME NEW p \in reports', p.hold \notin releaseFiles', NEW e \in p.items
             PROVE  held'[e]
  BY DEF HoldsEnforced
<1>1. CASE p \in reports
  <2>1. p.hold \in Hold /\ p.items \subseteq EvidenceOf(p.hold) /\ held[e] /\ p.hold \notin releaseFiles
    BY <1>0, <1>1 DEF HoldInv, HoldTypeOK, ReportsOK, Enforced, HoldsEnforced
  <2> QED
    BY <2>1, FlagsStay
<1>2. CASE p \notin reports
  <2>1. PICK r \in Run : Finish(r)
    BY <1>2 DEF HoldNext, Create, Release, PutEvidence, Put, Apply, Start, LookUp, PutLegalHold,
         SetLegalHold, Abort, holdVars
  <2>2. /\ run[r] \in RunState /\ run[r].todo = {} /\ run[r].state = "ACTIVE"
        /\ p.hold = run[r].hold /\ p.items = run[r].items /\ held' = held
    BY <1>2, <2>1, EndingKeeps
  <2>3. run[r] # NoRun /\ run[r].hold \notin releaseFiles
    BY <1>0, <2>2, ARun
  <2> QED
    BY <2>2, <2>3 DEF Enforced, MarkedOK
<1> QED
  BY <1>1, <1>2

LEMMA HoldInvariance == HoldSpec => []HoldInv
<1>1. HoldInit => HoldInv
  BY HoldBegins
<1>2. HoldInv /\ [HoldNext]_holdVars => HoldInv'
  BY HoldNextHolds
<1> QED
  BY <1>1, <1>2, PTL DEF HoldSpec

(* Every reachable state of stores, records and runs is well typed.         *)
THEOREM HoldTypeCorrect == HoldSpec => []HoldTypeOK
<1>1. HoldInv => HoldTypeOK
  BY DEF HoldInv
<1> QED
  BY <1>1, HoldInvariance, PTL

(* No run holds an object of a case without a hold on record.               *)
THEOREM OnlyHeldOnRecord == HoldSpec => HeldOnRecord
<1>1. ASSUME HoldInv, [HoldNext]_holdVars
      PROVE  [\A e \in Evidence : ~held[e] /\ held'[e] /\ evidence[e] # "none" =>
                \E h \in Hold : CaseOf[h] = Home[e] /\ status[h] # "none"]_holdVars
  <2> SUFFICES ASSUME HoldNext, NEW e \in Evidence, ~held[e], held'[e], evidence[e] # "none"
               PROVE  \E h \in Hold : CaseOf[h] = Home[e] /\ status[h] # "none"
    BY <1>1
  <2>1. PICK r \in Run, x \in Evidence : SetLegalHold(r, x)
    <3>1. ASSUME NEW x \in Evidence, NEW flag \in BOOLEAN, Put(x, flag) PROVE FALSE
      <4>1. x # e => held'[e] = held[e]
        BY <3>1 DEF Put, HoldInv, HoldTypeOK
      <4> QED
        BY <3>1, <4>1 DEF Put
    <3> QED
      BY <3>1 DEF HoldNext, Create, Release, PutEvidence, Apply, Start, LookUp, PutLegalHold, Finish, Abort
  <2>2. /\ run[r] \in RunState /\ x \in run[r].todo /\ run[r].at = "marking"
        /\ held'[x] = (run[r].state = "ACTIVE") /\ \A y \in Evidence : y # x => held'[y] = held[y]
    BY <1>1, <2>1, SetLegalHoldKeeps
  <2>3. x = e /\ run[r].state = "ACTIVE" /\ run[r] # NoRun /\ run[r].hold \in Hold
    BY <2>2, ARun
  <2>4. e \in EvidenceOf(run[r].hold) /\ status[run[r].hold] # "none"
    BY <1>1, <2>2, <2>3 DEF HoldInv, RunsOK
  <2> QED
    BY <2>3, <2>4 DEF EvidenceOf
<1> QED
  BY <1>1, HoldInvariance, PTL DEF HoldSpec, HeldOnRecord

(* Where no two holds are on one case, what was reported as held is held    *)
(* until the hold has a signed release, and a released hold comes to        *)
(* nothing, whatever runs crash, overlap or come late.                      *)
THEOREM HoldsAlwaysSound ==
  ASSUME OneHoldPerCase
  PROVE  HoldSpec => []HoldsSound
<1>1. HoldInit => Enforced
  BY HoldBegins
<1>2. HoldInv /\ Enforced /\ [HoldNext]_holdVars => Enforced'
  BY MarkedHold, EnforcedHolds DEF Enforced
<1>3. HoldInv /\ Enforced => HoldsSound
  BY DEF HoldInv, Enforced, HoldsSound
<1> QED
  BY <1>1, <1>2, <1>3, HoldInvariance, PTL DEF HoldSpec

------------------------------------------------------------------------------
(* The guard.                                                               *)

(* The branch for a missing file takes no lock.  It is of no consequence    *)
(* where nobody else can be in it, or where the file has been there from    *)
(* the beginning.                                                           *)
Alone == \A t, u \in Thread : t = u

(* Whoever holds the lock is between the second comparison and the store of *)
(* the signature.                                                           *)
GuardLocks ==
  \A t \in Thread : thread[t].at \in {"locked", "verified", "stored"} => lock = t

(* The cached payload is never older than the signature, and only the       *)
(* holder of the lock is about to replace it, by one that is not older.     *)
GuardCache ==
  /\ payload \in Nat /\ signature \in Nat
  /\ signature <= payload /\ payload <= Len(controls)

(* A call, as far as it is, against the cache and the file.                 *)
Fresh(c) ==
  /\ c.at # "idle" => c.since \in Nat /\ c.since <= Len(controls)
  /\ c.at \in {"missing", "cleared"} =>
       Alone /\ c.since = 0 /\ c.sig = 0 /\ payload = 0 /\ signature = 0
  /\ c.at \in {"waiting", "locked", "verified", "stored", "decide", "detail"} =>
       c.sig \in Nat /\ c.since <= c.sig /\ c.sig <= Len(controls)
  /\ c.at \in {"waiting", "locked", "verified", "stored"} => controls # <<>>
  /\ c.at \in {"verified", "stored"} =>
       c.read \in Nat /\ c.sig <= c.read /\ c.read <= Len(controls) /\ payload <= c.read
  /\ c.at = "stored" => payload = c.read
  /\ c.at \in {"decide", "detail"} => c.sig <= payload
  /\ c.at = "detail" => c.mode \in Nat /\ c.sig <= c.mode
  /\ c.at = "answered" => c.by \in Nat /\ c.since <= c.by

GuardInv ==
  /\ GuardTypeOK /\ GuardLocks /\ GuardCache
  /\ controls # <<>> \/ Alone
  /\ \A t \in Thread : Fresh(thread[t])

LEMMA GuardBegins == GuardInit /\ (controls # <<>> \/ Alone) => GuardInv
<1> SUFFICES ASSUME GuardInit, controls # <<>> \/ Alone PROVE GuardInv
  OBVIOUS
<1>1. controls \in Seq(Control) /\ Len(controls) \in Nat
  <2>1. CASE controls = <<>>
    BY <2>1
  <2>2. CASE controls # <<>>
    <3>1. PICK c \in Control : controls = <<c>>
      BY <2>2 DEF GuardInit
    <3> QED
      BY <3>1
  <2> QED
    BY <2>1, <2>2
<1>2. \A t \in Thread : thread[t] = Free
  BY DEF GuardInit
<1>3. GuardTypeOK
  BY <1>1 DEF GuardInit, GuardTypeOK
<1>4. GuardLocks
  BY <1>2 DEF GuardLocks, Free
<1>5. GuardCache
  BY <1>1 DEF GuardInit, GuardCache
<1>6. \A t \in Thread : Fresh(thread[t])
  BY <1>2 DEF Fresh, Free
<1> QED
  BY <1>3, <1>4, <1>5, <1>6 DEF GuardInv

(* A thread goes on and changes nothing that others see but the lock.       *)
LEMMA GuardGoesOn ==
  ASSUME GuardInv, NEW t \in Thread, NEW c \in Call \cup {Free}, Go(t, c), Fresh(c),
         UNCHANGED <<controls, payload, signature>>,
         \/ UNCHANGED lock
         \/ lock = NoThread /\ lock' = t
         \/ lock = t /\ lock' = NoThread,
         c.at \in {"locked", "verified", "stored"} => lock' = t
  PROVE  GuardInv'
<1> USE DEF GuardInv
<1>1. /\ thread \in [Thread -> Call \cup {Free}]
      /\ \A u \in Thread : thread'[u] = IF u = t THEN c ELSE thread[u]
      /\ thread' \in [Thread -> Call \cup {Free}]
  BY DEF Go, GuardTypeOK
<1>2. GuardTypeOK'
  BY <1>1 DEF GuardTypeOK
<1>3. GuardLocks'
  BY <1>1, GuardAssumption DEF GuardLocks
<1>4. GuardCache' /\ (controls # <<>> \/ Alone)'
  BY DEF GuardCache, Alone
<1>5. ASSUME NEW u \in Thread PROVE Fresh(thread[u])'
  <2>1. CASE u = t
    BY <1>1, <2>1 DEF Fresh, Alone
  <2>2. CASE u # t
    BY <1>1, <2>2 DEF Fresh, Alone
  <2> QED
    BY <2>1, <2>2
<1> QED
  BY <1>2, <1>3, <1>4, <1>5

LEMMA GuardReplaced ==
  ASSUME GuardInv, NEW c \in Control, Replace(c)
  PROVE  GuardInv'
<1> USE DEF GuardInv
<1>1. /\ controls \in Seq(Control) /\ Len(controls) \in Nat
      /\ Len(controls') = Len(controls) + 1 /\ controls' \in Seq(Control)
      /\ controls' # <<>>
  BY DEF Replace, GuardTypeOK
<1>2. GuardTypeOK' /\ GuardLocks' /\ GuardCache'
  BY <1>1 DEF Replace, GuardTypeOK, GuardLocks, GuardCache
<1>3. ASSUME NEW t \in Thread PROVE Fresh(thread[t])'
  BY <1>1 DEF Replace, Fresh, Alone
<1> QED
  BY <1>1, <1>2, <1>3

(* Each step of _refresh.                                                   *)
LEMMA GuardRefreshed ==
  ASSUME GuardInv, NEW t \in Thread, Refresh(t)
  PROVE  GuardInv'
<1> USE DEF GuardInv
<1>1. /\ thread \in [Thread -> Call \cup {Free}] /\ Fresh(thread[t])
      /\ controls \in Seq(Control) /\ Len(controls) \in Nat
      /\ payload \in Nat /\ signature \in Nat
  BY DEF GuardTypeOK
<1>2. ASSUME thread[t] # Free
      PROVE  thread[t].request \in Question /\ thread[t].since \in Nat
  BY <1>1, <1>2 DEF Call
<1> DEFINE at == thread[t].at
<1>3. CASE Stat(t)
  <2>1. thread[t] # Free
    BY <1>3 DEF Stat, Doing, Free
  <2> DEFINE c == [at |-> IF controls = <<>> THEN "missing" ELSE "waiting",
                   request |-> thread[t].request, since |-> thread[t].since,
                   sig |-> Len(controls)]
  <2>2. c \in Call
    BY <1>1, <1>2, <2>1 DEF Call
  <2>3. Fresh(c)
    <3>1. Len(controls) = 0 <=> controls = <<>>
      BY <1>1
    <3> QED
      BY <1>1, <1>2, <1>3, <2>1, <3>1 DEF Fresh, Stat, Doing, GuardCache
  <2> QED
    BY <1>3, <2>2, <2>3, GuardGoesOn DEF Stat
<1>4. CASE ClearPayload(t)
  <2>1. thread[t] # Free /\ Alone
    BY <1>1, <1>4 DEF ClearPayload, Doing, Free, Fresh
  <2>2. UNCHANGED payload
    BY <1>1, <1>4 DEF ClearPayload, Doing, Fresh
  <2>3. Step(t, "cleared") \in Call /\ Fresh(Step(t, "cleared"))
    BY <1>1, <1>2, <1>4, <2>1 DEF Call, Step, Fresh, ClearPayload, Doing
  <2> QED
    BY <1>4, <2>2, <2>3, GuardGoesOn DEF ClearPayload, Step
<1>5. CASE ClearSignature(t)
  <2>1. thread[t] # Free
    BY <1>5 DEF ClearSignature, Doing, Free
  <2>2. UNCHANGED signature
    BY <1>1, <1>5 DEF ClearSignature, Doing, Fresh
  <2>3. Step(t, "decide") \in Call /\ Fresh(Step(t, "decide"))
    BY <1>1, <1>2, <1>5, <2>1 DEF Call, Step, Fresh, ClearSignature, Doing
  <2> QED
    BY <1>5, <2>2, <2>3, GuardGoesOn DEF ClearSignature, Step
<1>6. CASE Known(t)
  <2>1. thread[t] # Free
    BY <1>6 DEF Known, Doing, Free
  <2>2. Step(t, "decide") \in Call /\ Fresh(Step(t, "decide"))
    BY <1>1, <1>2, <1>6, <2>1 DEF Call, Step, Fresh, Known, Doing, GuardCache
  <2> QED
    BY <1>6, <2>2, GuardGoesOn DEF Known, Step
<1>7. CASE TakeLock(t)
  <2>1. thread[t] # Free
    BY <1>7 DEF TakeLock, Doing, Free
  <2>2. Step(t, "locked") \in Call /\ Fresh(Step(t, "locked"))
    BY <1>1, <1>2, <1>7, <2>1 DEF Call, Step, Fresh, TakeLock, Doing
  <2> QED
    BY <1>7, <2>2, GuardGoesOn DEF TakeLock, Step
<1>8. CASE KnownByNow(t)
  <2>1. thread[t] # Free /\ lock = t
    BY <1>8 DEF KnownByNow, Doing, Free, GuardLocks
  <2>2. Step(t, "decide") \in Call /\ Fresh(Step(t, "decide"))
    BY <1>1, <1>2, <1>8, <2>1 DEF Call, Step, Fresh, KnownByNow, Doing, GuardCache
  <2> QED
    BY <1>8, <2>1, <2>2, GuardGoesOn DEF KnownByNow, Step
<1>9. CASE Read(t)
  <2>1. thread[t] # Free /\ lock = t
    BY <1>9 DEF Read, Doing, Free, GuardLocks
  <2> DEFINE c == [at |-> "verified", request |-> thread[t].request, since |-> thread[t].since,
                   sig |-> thread[t].sig, read |-> Len(controls)]
  <2>2. c \in Call /\ Fresh(c)
    BY <1>1, <1>2, <1>9, <2>1 DEF Call, Fresh, Read, Doing, GuardCache
  <2>3. CASE Go(t, c) /\ UNCHANGED lock
    BY <1>9, <2>1, <2>2, <2>3, GuardGoesOn DEF Read
  <2>4. CASE Go(t, Free) /\ lock' = NoThread
    <3>1. Fresh(Free)
      BY DEF Fresh, Free
    <3> QED
      BY <1>9, <2>1, <2>4, <3>1, GuardGoesOn DEF Read, Free
  <2> QED
    BY <1>9, <2>3, <2>4 DEF Read
<1>10. CASE StorePayload(t)
  <2>1. at = "verified" /\ lock = t /\ thread[t] # Free
    BY <1>10 DEF StorePayload, Doing, Free, GuardLocks
  <2>2. /\ payload' = thread[t].read /\ payload' \in Nat /\ payload <= payload'
        /\ payload' <= Len(controls) /\ UNCHANGED <<controls, signature, lock>>
    BY <1>1, <1>10, <2>1 DEF StorePayload, Fresh
  <2> DEFINE c == [thread[t] EXCEPT !.at = "stored"]
  <2>3. \A u \in Thread : thread'[u] = IF u = t THEN c ELSE thread[u]
    BY <1>1, <1>10 DEF StorePayload
  <2>4. thread[t] \in [at : {"verified", "stored"}, request : Question, since : Nat, sig : Nat, read : Nat]
    BY <1>1, <2>1 DEF Call, Free
  <2>5. /\ c \in [at : {"verified", "stored"}, request : Question, since : Nat, sig : Nat, read : Nat]
        /\ c.at = "stored" /\ c.since = thread[t].since /\ c.sig = thread[t].sig
        /\ c.read = thread[t].read
    BY <2>4
  <2>6. c \in Call
    BY <2>5 DEF Call
  <2> HIDE DEF c
  <2>7. GuardTypeOK'
    BY <1>1, <1>10, <2>2, <2>6 DEF GuardTypeOK, StorePayload, c
  <2>8. GuardLocks' /\ GuardCache' /\ (controls # <<>> \/ Alone)'
    BY <1>1, <2>1, <2>2, <2>3, <2>5 DEF GuardLocks, GuardCache, Alone
  <2>9. ASSUME NEW u \in Thread PROVE Fresh(thread[u])'
    <3>1. CASE u = t
      BY <1>1, <2>1, <2>2, <2>3, <2>5, <3>1, SMTT(60) DEF Fresh, Alone
    <3>2. CASE u # t
      BY <1>1, <2>1, <2>2, <2>3, <3>2, SMTT(60) DEF Fresh, Alone, GuardLocks
    <3> QED
      BY <3>1, <3>2
  <2> QED
    BY <2>7, <2>8, <2>9
<1>11. CASE StoreSignature(t)
  <2>1. at = "stored" /\ lock = t /\ thread[t] # Free
    BY <1>11 DEF StoreSignature, Doing, Free, GuardLocks
  <2>2. /\ signature' = thread[t].sig /\ signature' \in Nat /\ signature' <= payload
        /\ lock' = NoThread /\ UNCHANGED <<controls, payload>>
    BY <1>1, <1>11, <2>1 DEF StoreSignature, Fresh
  <2> DEFINE c == Step(t, "decide")
  <2>3. c \in Call /\ c.at = "decide" /\ c.since = thread[t].since /\ c.sig = thread[t].sig
    BY <1>1, <1>2, <2>1 DEF Call, Step, Fresh
  <2> HIDE DEF c
  <2>4. thread' = [thread EXCEPT ![t] = c]
    BY <1>11 DEF StoreSignature, Go, c
  <2>5. \A u \in Thread : thread'[u] = IF u = t THEN c ELSE thread[u]
    BY <1>1, <2>4
  <2>6. GuardTypeOK'
    BY <1>1, <2>2, <2>3, <2>4 DEF GuardTypeOK
  <2>7. GuardLocks' /\ GuardCache' /\ (controls # <<>> \/ Alone)'
    BY <1>1, <2>1, <2>2, <2>3, <2>5 DEF GuardLocks, GuardCache, Alone
  <2>8. ASSUME NEW u \in Thread PROVE Fresh(thread[u])'
    <3>1. CASE u = t
      BY <1>1, <2>1, <2>2, <2>3, <2>5, <3>1, SMTT(60) DEF Fresh
    <3>2. CASE u # t
      BY <1>1, <2>1, <2>2, <2>5, <3>2 DEF Fresh, Alone, GuardLocks
    <3> QED
      BY <3>1, <3>2
  <2> QED
    BY <2>6, <2>7, <2>8
<1> QED
  BY <1>3, <1>4, <1>5, <1>6, <1>7, <1>8, <1>9, <1>10, <1>11 DEF Refresh

LEMMA GuardNextHolds == GuardInv /\ [GuardNext]_guardVars => GuardInv'
<1> SUFFICES ASSUME GuardInv, [GuardNext]_guardVars PROVE GuardInv'
  OBVIOUS
<1>1. CASE UNCHANGED guardVars
  BY <1>1 DEF guardVars, GuardInv, GuardTypeOK, GuardLocks, GuardCache, Fresh, Alone
<1>2. ASSUME NEW c \in Control, Replace(c) PROVE GuardInv'
  BY <1>2, GuardReplaced
<1>3. ASSUME NEW t \in Thread, Refresh(t) PROVE GuardInv'
  BY <1>3, GuardRefreshed
<1>4. ASSUME NEW t \in Thread,
             (\E question \in Question : Ask(t, question)) \/ Decide(t) \/ Detail(t) \/ Return(t)
      PROVE  GuardInv'
  <2>1. /\ thread[t] \in Call \cup {Free} /\ Fresh(thread[t]) /\ GuardCache
        /\ Len(controls) \in Nat /\ payload \in Nat
    BY DEF GuardInv, GuardTypeOK
  <2>2. ASSUME thread[t] # Free
        PROVE  thread[t].request \in Question /\ thread[t].since \in Nat
    BY <2>1, <2>2 DEF Call
  <2>3. ASSUME NEW allowed \in BOOLEAN, NEW by \in Nat, thread[t] # Free, thread[t].since <= by,
               Answer(t, allowed, by), UNCHANGED <<controls, payload, signature, lock>>
        PROVE  GuardInv'
    <3> DEFINE c == [at |-> "answered", request |-> thread[t].request, since |-> thread[t].since,
                     allowed |-> allowed, by |-> by]
    <3>1. c \in Call /\ Fresh(c)
      BY <2>1, <2>2, <2>3 DEF Call, Fresh
    <3>2. c.at = "answered" /\ Go(t, c)
      BY <2>3 DEF Answer
    <3> HIDE DEF c
    <3> QED
      BY <2>3, <3>1, <3>2, GuardGoesOn
  <2>4. ASSUME NEW question \in Question, Ask(t, question) PROVE GuardInv'
    <3> DEFINE c == [at |-> "asked", request |-> question, since |-> Len(controls)]
    <3>1. c \in Call /\ Fresh(c)
      BY <2>1 DEF Call, Fresh
    <3> QED
      BY <2>4, <3>1, GuardGoesOn DEF Ask
  <2>5. CASE Decide(t)
    <3> thread[t].at = "decide"
      BY <2>5 DEF Decide, Doing
    <3>1. thread[t] # Free /\ thread[t].since <= payload
      BY <2>1, <2>2 DEF Free, Fresh
    <3> DEFINE c == [at |-> "detail", request |-> thread[t].request, since |-> thread[t].since,
                     sig |-> thread[t].sig, mode |-> payload]
    <3>2. c \in Call /\ Fresh(c)
      BY <2>1, <2>2, <2>5, <3>1 DEF Call, Fresh, Decide, Doing
    <3>3. CASE Go(t, c)
      BY <2>5, <3>2, <3>3, GuardGoesOn DEF Decide
    <3>4. CASE \E allowed \in BOOLEAN : Answer(t, allowed, payload)
      BY <2>1, <2>3, <2>5, <3>1, <3>4 DEF Decide
    <3>5. Go(t, c) \/ \E allowed \in BOOLEAN : Answer(t, allowed, payload)
      BY <2>2, <2>5, <3>1 DEF Decide, Question
    <3> QED
      BY <3>3, <3>4, <3>5
  <2>6. CASE Detail(t)
    <3>1. thread[t] # Free /\ thread[t].mode \in Nat /\ thread[t].since <= thread[t].mode
      BY <2>1, <2>2, <2>6 DEF Detail, Doing, Free, Fresh
    <3>2. Listed(payload) \in BOOLEAN
      BY DEF Listed
    <3>3. PICK found \in BOOLEAN : Answer(t, found, thread[t].mode)
      BY <2>6, <3>2 DEF Detail
    <3> QED
      BY <2>3, <2>6, <3>1, <3>3 DEF Detail
  <2>7. CASE Return(t)
    <3>1. Fresh(Free) /\ Free.at = "idle"
      BY DEF Fresh, Free
    <3> QED
      BY <2>7, <3>1, GuardGoesOn DEF Return
  <2> QED
    BY <1>4, <2>4, <2>5, <2>6, <2>7
<1> QED
  BY <1>1, <1>2, <1>3, <1>4 DEF GuardNext

(* Whoever asks whether a tool may run is answered from a control that is   *)
(* at least as new as the one in force when it asked, for any number of     *)
(* threads and replacements, if the file was there when the worker started  *)
(* or the worker has one thread only: without either, the branch of         *)
(* _refresh for a missing file, which takes no lock, may empty the cache    *)
(* that another thread has just filled.                                     *)
THEOREM DecisionsNeverStale ==
  GuardSpec /\ (controls # <<>> \/ Alone) => []DecidedByCurrentControl
<1>1. GuardInv => DecidedByCurrentControl
  BY DEF GuardInv, Fresh, DecidedByCurrentControl, Doing, GuardTypeOK
<1> QED
  BY GuardBegins, GuardNextHolds, <1>1, PTL DEF GuardSpec

------------------------------------------------------------------------------
(* The closure of a case.                                                   *)

ClosureEvent == [kind : {"consequence", "closed", "contentClosed"}, act : Act]
ClosureReview == [of : Conclusion, by : Reviewer, approves : BOOLEAN]

(* An acquisition adds one entry to those there were.                       *)
ManifestOK ==
  /\ files \in [File -> Content \cup {"none"}]
  /\ manifest \subseteq Entry /\ IsFiniteSet(manifest)

(* What a reconciler has read is what the trace began with.                 *)
ReconcilerOK ==
  reconciler.at = "read" =>
    /\ reconciler.events \in Seq(ClosureEvent)
    /\ Len(reconciler.events) <= Len(trace)
    /\ \A i \in 1..Len(reconciler.events) : reconciler.events[i] = trace[i]

(* A report without open consequences is right of as much as it is of.      *)
OpenOK ==
  open.at = "reported" =>
    /\ open.of \in Nat /\ open.of <= Len(trace)
    /\ open.acts = {} => \A i \in 1..open.of : trace[i].kind = "consequence" => Closed(i)

TraceOK == trace \in Seq(ClosureEvent) /\ ReconcilerOK /\ OpenOK

GateOK ==
  /\ reviews \in Seq(ClosureReview)
  /\ review.at = "gate" /\ review.ready => \A c \in Conclusion : Approved(c)

ClosureInv == ManifestOK /\ TraceOK /\ GateOK /\ ReadyIsSupported

LEMMA SmallestNumber ==
  ASSUME NEW S \in SUBSET Nat, S # {}
  PROVE  \E i \in S : \A j \in S : i <= j
<1> DEFINE R == OpToRel(<, Nat)
<1>1. IsWellFoundedOn(R, Nat)
  BY NatLessThanWellFounded
<1>2. PICK i \in S : \A j \in S : ~(<<j, i>> \in R)
  BY <1>1, WFMin, Zenon
<1>3. \A j \in S : ~(j < i)
  BY <1>2 DEF OpToRel
<1> QED
  BY <1>3

(* A finite set has a subset of each smaller size: there is no least size   *)
(* that is missing.                                                         *)
LEMMA SubsetOfSize ==
  ASSUME NEW S, IsFiniteSet(S), NEW k \in Nat, k <= Cardinality(S)
  PROVE  \E T \in SUBSET S : Cardinality(T) = k
<1> DEFINE sizes == {Cardinality(T) : T \in SUBSET S}
           missing == {n \in Nat : n <= Cardinality(S) /\ n \notin sizes}
<1>1. SUFFICES ASSUME k \notin sizes PROVE FALSE
  OBVIOUS
<1>2. Cardinality(S) \in Nat
  BY FS_CardinalityType
<1>3. missing \in SUBSET Nat /\ k \in missing
  BY <1>1
<1>4. PICK n \in missing : \A m \in missing : n <= m
  <2> HIDE DEF missing
  <2> QED
    BY <1>3, SmallestNumber
<1>5. n # 0
  BY FS_EmptySet
<1>6. n \in Nat /\ n - 1 \in Nat /\ n <= Cardinality(S) /\ n \notin sizes
  BY <1>5
<1>7. n - 1 \notin missing
  BY <1>4, <1>6
<1>8. n - 1 \in sizes
  BY <1>2, <1>6, <1>7
<1>9. PICK T \in SUBSET S : Cardinality(T) = n - 1
  BY <1>8
<1>10. T # S /\ IsFiniteSet(T)
  BY <1>2, <1>6, <1>9, FS_Subset
<1>11. PICK x \in S : x \notin T
  BY <1>10
<1>12. Cardinality(T \cup {x}) = n
  <2>1. Cardinality(T \cup {x}) = Cardinality(T) + 1
    BY <1>10, <1>11, FS_AddElement
  <2> QED
    BY <1>6, <1>9, <2>1
<1>13. T \cup {x} \in SUBSET S
  BY <1>9, <1>11
<1> QED
  BY <1>6, <1>12, <1>13

(* Enough approvals are those of enough others than the author.             *)
LEMMA ApprovalsCount ==
  ASSUME reviews \in Seq(ClosureReview), NEW c \in Conclusion, Approvals(c) >= Required[c]
  PROVE  \E S \in SUBSET (Reviewer \ {AuthorOf[c]}) :
           /\ Cardinality(S) = Required[c]
           /\ \A r \in S : \E i \in DOMAIN reviews :
                reviews[i] = [of |-> c, by |-> r, approves |-> TRUE]
<1> DEFINE places == {i \in 1..Len(reviews) : reviews[i].of = c /\ reviews[i].approves
                                                /\ reviews[i].by # AuthorOf[c]}
           by == [i \in places |-> reviews[i].by]
           approvers == {v.by : v \in {v \in ToSet(reviews) :
                           v.of = c /\ v.approves /\ v.by # AuthorOf[c]}}
<1>1. Len(reviews) \in Nat /\ DOMAIN reviews = 1..Len(reviews)
  OBVIOUS
<1>2. \A i \in 1..Len(reviews) : reviews[i] \in ClosureReview
  BY <1>1
<1>3. IsFiniteSet(places)
  <2>1. IsFiniteSet(1..Len(reviews))
    BY <1>1, FS_Interval
  <2> QED
    BY <2>1, FS_Subset
<1>4. approvers = {by[i] : i \in places}
  BY <1>1 DEF ToSet
<1>5. IsFiniteSet(approvers)
  <2>1. by \in Surjection(places, approvers)
    BY <1>4 DEF Surjection
  <2> QED
    BY <1>3, <2>1, FS_Surjection
<1>6. Cardinality(approvers) >= Required[c]
  BY DEF Approvals
<1>7. PICK S \in SUBSET approvers : Cardinality(S) = Required[c]
  <2>1. Required[c] \in Nat /\ Cardinality(approvers) \in Nat
    BY <1>5, ClosureAssumption, FS_CardinalityType
  <2> HIDE DEF approvers
  <2> QED
    BY <1>5, <1>6, <2>1, SubsetOfSize
<1>8. ASSUME NEW r \in S
      PROVE  /\ r \in Reviewer \ {AuthorOf[c]}
             /\ \E i \in DOMAIN reviews : reviews[i] = [of |-> c, by |-> r, approves |-> TRUE]
  <2>1. PICK i \in places : r = reviews[i].by
    BY <1>4, <1>8
  <2>2. reviews[i] \in ClosureReview
    BY <1>2
  <2> QED
    BY <1>1, <2>1, <2>2 DEF ClosureReview
<1> QED
  BY <1>7, <1>8

(* A report that nothing is open says of each consequence among the events  *)
(* that some event among them closes it.                                    *)
LEMMA NothingOpen ==
  ASSUME NEW events \in Seq(ClosureEvent), OpenIn(events) = {},
         NEW i \in 1..Len(events), events[i].kind = "consequence"
  PROVE  \E j \in 1..Len(events) :
           \/ events[j].kind = "closed" /\ events[j].act = events[i].act
           \/ events[j].kind = "contentClosed" /\ EffectOf[events[j].act] = EffectOf[events[i].act]
<1> DEFINE of(kind) == {e.act : e \in {e \in ToSet(events) : e.kind = kind}}
<1>1. DOMAIN events = 1..Len(events)
  OBVIOUS
<1>2. events[i] \in ToSet(events) /\ events[i].act \in of("consequence")
  BY <1>1 DEF ToSet
<1>3. \/ events[i].act \in of("closed")
      \/ \E b \in of("contentClosed") : EffectOf[events[i].act] = EffectOf[b]
  BY <1>2 DEF OpenIn
<1>4. \A b \in of("closed") : \E j \in 1..Len(events) : events[j].kind = "closed" /\ events[j].act = b
  BY <1>1 DEF ToSet
<1>5. \A b \in of("contentClosed") :
        \E j \in 1..Len(events) : events[j].kind = "contentClosed" /\ events[j].act = b
  BY <1>1 DEF ToSet
<1> QED
  <2> HIDE DEF of
  <2>1. CASE events[i].act \in of("closed")
    BY <1>4, <2>1
  <2>2. CASE \E b \in of("contentClosed") : EffectOf[events[i].act] = EffectOf[b]
    <3>1. PICK b \in of("contentClosed") : EffectOf[events[i].act] = EffectOf[b]
      BY <2>2
    <3>2. PICK j \in 1..Len(events) : events[j].kind = "contentClosed" /\ events[j].act = b
      BY <1>5, <3>1
    <3> QED
      BY <3>1, <3>2
  <2> QED
    BY <1>3, <2>1, <2>2

(* What the manifest says of a file: something only if one entry is about   *)
(* it, and of a mandatory artifact nothing good otherwise.                  *)
MatchOfOne(f, e) ==
  IF e.flag # "none" THEN e.flag
  ELSE IF files[f] = "cut" \/ e.hash # files[f] \/ ~e.fits THEN "unvalidated"
  ELSE IF trust = "valid" THEN e.rank ELSE "validated"

LEMMA MatchByEntries ==
  ASSUME NEW f, NEW a, NEW entries \in SUBSET Entry, IsFiniteSet(entries)
  PROVE  LET found == EntriesOf(f, entries)
         IN  \/ \E e \in found : found = {e} /\ QualityOfMatch(f, a, entries) = MatchOfOne(f, e)
             \/ /\ Cardinality(found) # 1
                /\ QualityOfMatch(f, a, entries) =
                     IF files[f] = "cut" \/ found # {} \/ a \in Mandatory
                     THEN "unvalidated" ELSE "validated"
<1> DEFINE found == EntriesOf(f, entries)
<1>1. found \in SUBSET entries /\ IsFiniteSet(found)
  <2>1. found \in SUBSET entries
    BY DEF EntriesOf
  <2> QED
    BY <2>1, FS_Subset
<1>2. CASE Cardinality(found) = 1
  <2>1. PICK e : found = {e}
    BY <1>1, <1>2, FS_Singleton
  <2>2. (CHOOSE x \in found : TRUE) = e
    BY <2>1
  <2>3. Unaltered(f, a, entries) <=> e.hash = files[f]
    BY <1>2, <2>1 DEF Unaltered
  <2> DEFINE one == CHOOSE x \in found : TRUE
  <2>4. QualityOfMatch(f, a, entries) =
          IF one.flag # "none" THEN one.flag
          ELSE IF files[f] = "cut" \/ ~Unaltered(f, a, entries) \/ ~one.fits THEN "unvalidated"
          ELSE IF trust = "valid" THEN one.rank ELSE "validated"
    BY <1>2 DEF QualityOfMatch
  <2>5. one = e
    BY <2>2
  <2>6. QualityOfMatch(f, a, entries) = MatchOfOne(f, e)
    <3> HIDE DEF one
    <3> QED
      BY <2>3, <2>4, <2>5 DEF MatchOfOne
  <2> QED
    BY <2>1, <2>6
<1>3. CASE Cardinality(found) # 1
  <2>1. Unaltered(f, a, entries) <=> found = {} /\ a \notin Mandatory
    BY <1>3 DEF Unaltered
  <2> QED
    BY <1>3, <2>1 DEF QualityOfMatch
<1> QED
  BY <1>2, <1>3

Unflagged == {"unvalidated"} \cup Rank

LEMMA MatchTyped ==
  ASSUME NEW f, NEW a, NEW entries \in SUBSET Entry, IsFiniteSet(entries)
  PROVE  QualityOfMatch(f, a, entries) \in Unflagged \cup Flags
<1> DEFINE found == EntriesOf(f, entries)
<1>1. found \subseteq Entry
  BY DEF EntriesOf
<1>2. ASSUME NEW e \in found PROVE MatchOfOne(f, e) \in Unflagged \cup Flags
  <2>1. e \in Entry
    BY <1>1
  <2>2. e.flag \in Flags \cup {"none"} /\ e.rank \in Rank
    BY <2>1 DEF Entry
  <2> QED
    BY <2>2 DEF MatchOfOne, Unflagged, Rank
<1> QED
  BY <1>2, MatchByEntries DEF Unflagged, Rank

LEMMA ScoresOfUnflagged ==
  /\ Unflagged \cap Flags = {} /\ "missing" \notin Flags
  /\ Score("missing") = 0 /\ Score("unvalidated") = 1 /\ Score("validated") = 2
  /\ Score("corroborated") = 3 /\ Score("authoritative") = 4
  /\ \A q \in Unflagged : Score(q) \in 1..4
  /\ \A q : Score(q) \in Int
BY DEF Score, Unflagged, Rank, Flags

(* Of any qualities without a flag one is the best.                         *)
LEMMA BestOfUnflagged ==
  ASSUME NEW Q \in SUBSET Unflagged, Q # {}
  PROVE  \E q \in Q : \A p \in Q : Score(q) >= Score(p)
<1>1. CASE "authoritative" \in Q
  BY <1>1, ScoresOfUnflagged
<1>2. CASE "authoritative" \notin Q /\ "corroborated" \in Q
  BY <1>2, ScoresOfUnflagged DEF Unflagged, Rank
<1>3. CASE Q \subseteq {"validated", "unvalidated"} /\ "validated" \in Q
  BY <1>3, ScoresOfUnflagged
<1>4. CASE Q = {"unvalidated"}
  BY <1>4, ScoresOfUnflagged
<1> QED
  BY <1>1, <1>2, <1>3, <1>4 DEF Unflagged, Rank

(* The quality of an artifact is that of one of its files, and no worse     *)
(* than that of any which is without a flag.                                *)
LEMMA QualityIsBest ==
  ASSUME NEW a \in Artifact, NEW entries \in SUBSET Entry, IsFiniteSet(entries), Present(a) # {}
  PROVE  /\ \E f \in Present(a) : QualityOf(a, entries) = QualityOfMatch(f, a, entries)
         /\ \A f \in Present(a) : QualityOfMatch(f, a, entries) \notin Flags =>
              /\ QualityOf(a, entries) \notin Flags
              /\ Score(QualityOf(a, entries)) >= Score(QualityOfMatch(f, a, entries))
<1> DEFINE found == {QualityOfMatch(f, a, entries) : f \in Present(a)} \ Flags
<1>1. found \in SUBSET Unflagged
  BY MatchTyped
<1>2. CASE found # {}
  <2>1. QualityOf(a, entries) = CHOOSE q \in found : \A p \in found : Score(q) >= Score(p)
    BY <1>2 DEF QualityOf
  <2>2. \E q \in found : \A p \in found : Score(q) >= Score(p)
    <3> HIDE DEF found
    <3> QED
      BY <1>1, <1>2, BestOfUnflagged
  <2>3. /\ QualityOf(a, entries) \in found
        /\ \A p \in found : Score(QualityOf(a, entries)) >= Score(p)
    <3> HIDE DEF found
    <3> QED
      BY <2>1, <2>2
  <2> QED
    BY <2>3
<1>3. CASE found = {}
  <2>1. QualityOf(a, entries) = QualityOfMatch(Min(Present(a)), a, entries)
    BY <1>3 DEF QualityOf
  <2>2. Present(a) \in SUBSET Nat
    BY ClosureAssumption DEF Present
  <2>3. PICK f \in Present(a) : \A g \in Present(a) : f <= g
    BY <2>2, SmallestNumber
  <2>4. Min(Present(a)) \in Present(a)
    BY <2>3 DEF Min
  <2> QED
    BY <1>3, <2>1, <2>4
<1> QED
  BY <1>2, <1>3

(* A mandatory artifact of enough quality has a file that is bound to the   *)
(* one acquisition that is about it.                                        *)
LEMMA SufficientIsBound ==
  ASSUME ManifestOK, NEW a \in Mandatory, Satisfies(QualityOf(a, manifest), "validated")
  PROVE  Bound(a)
<1>1. a \in Artifact /\ manifest \in SUBSET Entry /\ IsFiniteSet(manifest)
  BY ClosureAssumption DEF ManifestOK
<1>2. QualityOf(a, manifest) \notin Flags /\ Score(QualityOf(a, manifest)) >= 2
  BY ScoresOfUnflagged DEF Satisfies
<1>3. Present(a) # {}
  BY <1>2, ScoresOfUnflagged DEF QualityOf
<1>4. PICK f \in Present(a) : QualityOf(a, manifest) = QualityOfMatch(f, a, manifest)
  BY <1>1, <1>3, QualityIsBest
<1> DEFINE found == EntriesOf(f, manifest)
<1>5. QualityOfMatch(f, a, manifest) # "unvalidated"
  BY <1>2, <1>4, ScoresOfUnflagged
<1>6. PICK e \in found : found = {e} /\ QualityOfMatch(f, a, manifest) = MatchOfOne(f, e)
  BY <1>1, <1>5, MatchByEntries
<1>7. /\ e \in Entry
      /\ e.flag = "none" /\ files[f] # "cut" /\ e.hash = files[f] /\ e.fits
  <2>1. e \in Entry
    BY <1>1 DEF EntriesOf
  <2>2. e.flag \in Flags \cup {"none"} /\ e.fits \in BOOLEAN
    BY <2>1 DEF Entry
  <2> QED
    BY <1>2, <1>4, <1>5, <1>6, <2>1, <2>2 DEF MatchOfOne
<1>8. /\ e \in manifest /\ NameOf[e.file] = NameOf[f]
      /\ \A d \in manifest : d.file = f => d = e
  BY <1>6 DEF EntriesOf
<1>9. f \in Matches[a]
  BY <1>4 DEF Present
<1> QED
  BY <1>7, <1>8, <1>9 DEF Bound

(* Without its flag, an entry leaves no file worse off.                     *)
LEMMA UndisputedMatch ==
  ASSUME ManifestOK, NEW e \in manifest, NEW f, NEW a,
         NEW undisputed, undisputed = (manifest \ {e}) \cup {[e EXCEPT !.flag = "none"]},
         QualityOfMatch(f, a, manifest) \notin Flags
  PROVE  /\ QualityOfMatch(f, a, undisputed) \notin Flags
         /\ Score(QualityOfMatch(f, a, undisputed)) >= Score(QualityOfMatch(f, a, manifest))
<1> DEFINE e0 == [e EXCEPT !.flag = "none"]
           found == EntriesOf(f, manifest)
           after == EntriesOf(f, undisputed)
<1>1. /\ e \in Entry /\ e0 \in Entry /\ e0.file = e.file /\ e0.flag = "none"
      /\ e.flag = "none" => e0 = e
  BY DEF ManifestOK, Entry
<1>2. /\ manifest \in SUBSET Entry /\ IsFiniteSet(manifest)
      /\ undisputed \in SUBSET Entry /\ IsFiniteSet(undisputed)
  <2>1. IsFiniteSet(manifest \ {e})
    BY FS_RemoveElement DEF ManifestOK
  <2>2. IsFiniteSet(undisputed)
    BY <2>1, FS_AddElement
  <2> QED
    BY <1>1, <2>2 DEF ManifestOK
<1>3. IF e \in found THEN after = (found \ {e}) \cup {e0} ELSE after = found
  <2> HIDE DEF e0
  <2> DEFINE exact == {d \in manifest : d.file = f}
             exactAfter == {d \in undisputed : d.file = f}
  <2>1. exactAfter = IF e.file = f THEN (exact \ {e}) \cup {e0} ELSE exact
    BY <1>1 DEF e0
  <2>2. exact # {} <=> exactAfter # {}
    BY <2>1
  <2>3. CASE exact # {}
    BY <2>1, <2>2, <2>3 DEF EntriesOf
  <2>4. CASE exact = {}
    BY <1>1, <2>2, <2>4, ZenonT(60) DEF EntriesOf, e0
  <2> QED
    BY <2>3, <2>4
<1>4. CASE \E d \in found : found = {d} /\ QualityOfMatch(f, a, manifest) = MatchOfOne(f, d)
  <2>1. PICK d \in found : found = {d} /\ QualityOfMatch(f, a, manifest) = MatchOfOne(f, d)
    BY <1>4
  <2>2. d \in Entry /\ d.flag = "none"
    <3>1. d \in Entry
      BY <1>2 DEF EntriesOf
    <3> QED
      BY <2>1, <3>1 DEF Entry, MatchOfOne
  <2>3. after = {d}
    BY <1>1, <1>3, <2>1, <2>2
  <2>4. Cardinality(after) = 1
    BY <2>3, FS_Singleton
  <2>5. QualityOfMatch(f, a, undisputed) = MatchOfOne(f, d)
    BY <1>2, <2>3, <2>4, MatchByEntries
  <2> QED
    BY <2>1, <2>5, ScoresOfUnflagged
<1>5. CASE /\ Cardinality(found) # 1
           /\ QualityOfMatch(f, a, manifest) =
                IF files[f] = "cut" \/ found # {} \/ a \in Mandatory THEN "unvalidated" ELSE "validated"
  <2>1. CASE e \notin found
    <3>1. after = found
      BY <1>3, <2>1
    <3>2. \A d : found # {d}
      BY <1>5, FS_Singleton
    <3>3. QualityOfMatch(f, a, undisputed) = QualityOfMatch(f, a, manifest)
      BY <1>2, <1>5, <3>1, <3>2, MatchByEntries
    <3> QED
      BY <3>3, ScoresOfUnflagged
  <2>2. CASE e \in found
    <3>1. QualityOfMatch(f, a, manifest) = "unvalidated"
      BY <1>5, <2>2
    <3>2. e0 \in after
      BY <1>3, <2>2
    <3>3. ASSUME NEW d \in after, after = {d}, QualityOfMatch(f, a, undisputed) = MatchOfOne(f, d)
          PROVE  QualityOfMatch(f, a, undisputed) \in Unflagged
      <4>1. d = e0
        BY <3>2, <3>3
      <4> QED
        BY <1>1, <3>3, <4>1 DEF MatchOfOne, Unflagged, Rank, Entry
    <3>4. QualityOfMatch(f, a, undisputed) \in Unflagged
      BY <1>2, <3>3, MatchByEntries DEF Unflagged, Rank
    <3> QED
      BY <3>1, <3>4, ScoresOfUnflagged
  <2> QED
    BY <2>1, <2>2
<1> QED
  BY <1>2, <1>4, <1>5, MatchByEntries

LEMMA UndisputedQuality ==
  ASSUME ManifestOK, NEW e \in manifest, NEW a \in Artifact, NEW needed,
         NEW undisputed, undisputed = (manifest \ {e}) \cup {[e EXCEPT !.flag = "none"]},
         Satisfies(QualityOf(a, manifest), needed)
  PROVE  Satisfies(QualityOf(a, undisputed), needed)
<1>1. /\ manifest \in SUBSET Entry /\ IsFiniteSet(manifest)
      /\ undisputed \in SUBSET Entry /\ IsFiniteSet(undisputed)
  <2>1. [e EXCEPT !.flag = "none"] \in Entry
    BY DEF ManifestOK, Entry
  <2>2. IsFiniteSet(undisputed)
    BY FS_RemoveElement, FS_AddElement DEF ManifestOK
  <2> QED
    BY <2>1, <2>2 DEF ManifestOK
<1>2. CASE Present(a) = {}
  BY <1>2 DEF QualityOf, Satisfies
<1>3. CASE Present(a) # {}
  <2>1. PICK f \in Present(a) : QualityOf(a, manifest) = QualityOfMatch(f, a, manifest)
    BY <1>1, <1>3, QualityIsBest
  <2>2. /\ QualityOfMatch(f, a, undisputed) \notin Flags
        /\ Score(QualityOfMatch(f, a, undisputed)) >= Score(QualityOf(a, manifest))
    BY <2>1, UndisputedMatch DEF Satisfies
  <2>3. /\ QualityOf(a, undisputed) \notin Flags
        /\ Score(QualityOf(a, undisputed)) >= Score(QualityOfMatch(f, a, undisputed))
    BY <1>1, <1>3, <2>2, QualityIsBest
  <2> QED
    BY <2>2, <2>3, ScoresOfUnflagged DEF Satisfies
<1> QED
  BY <1>2, <1>3

LEMMA DisputesHold == ManifestOK => DisputesNeverHelp
<1> SUFFICES ASSUME ManifestOK, NEW e \in manifest,
                    NEW undisputed, undisputed = (manifest \ {e}) \cup {[e EXCEPT !.flag = "none"]}
             PROVE  /\ \A g \in Gates : Concludes(g, manifest) => Concludes(g, undisputed)
                    /\ Insufficient(undisputed) \subseteq Insufficient(manifest)
  BY DEF DisputesNeverHelp
<1>1. \A a \in Artifact : \A needed :
        Satisfies(QualityOf(a, manifest), needed) => Satisfies(QualityOf(a, undisputed), needed)
  BY UndisputedQuality
<1>2. \A g \in Gates : \A need \in g.requires : need \subseteq Artifact
  BY ClosureAssumption
<1>3. \A g \in Gates : Concludes(g, manifest) => Concludes(g, undisputed)
  BY <1>1, <1>2 DEF Concludes
<1>4. Insufficient(undisputed) \subseteq Insufficient(manifest)
  BY <1>1, ClosureAssumption DEF Insufficient
<1> QED
  BY <1>3, <1>4

LEMMA ClosureBegins == ClosureInit => ClosureInv
<1> SUFFICES ASSUME ClosureInit PROVE ClosureInv
  OBVIOUS
<1>1. ManifestOK
  <2>1. CASE manifest = {}
    <3>1. \A f \in File : files[f] = "none"
      BY <2>1 DEF ClosureInit
    <3> QED
      BY <2>1, <3>1, FS_EmptySet DEF ClosureInit, ManifestOK
  <2>2. CASE manifest # {}
    <3>1. PICK e \in Acquisitions : manifest = {e}
      BY <2>2 DEF ClosureInit
    <3>2. e \in Entry /\ (CHOOSE x \in manifest : TRUE) = e
      BY <3>1, ClosureAssumption
    <3>3. e.hash \in Content
      BY <3>2 DEF Entry
    <3>4. files = [f \in File |-> IF \E x \in manifest : x.file = f THEN e.hash ELSE "none"]
      BY <3>2 DEF ClosureInit
    <3> QED
      BY <3>1, <3>2, <3>3, <3>4, FS_Singleton DEF ManifestOK
  <2> QED
    BY <2>1, <2>2
<1>2. TraceOK
  BY DEF ClosureInit, TraceOK, ReconcilerOK, OpenOK, Resting, Unknown
<1>3. GateOK
  BY DEF ClosureInit, GateOK, Unknown
<1>4. ReadyIsSupported
  BY DEF ClosureInit, ReadyIsSupported, Unknown
<1> QED
  BY <1>1, <1>2, <1>3, <1>4 DEF ClosureInv

LEMMA ManifestHolds ==
  ASSUME ManifestOK, [ClosureNext]_closureVars
  PROVE  ManifestOK'
<1> USE DEF ManifestOK
<1>1. ASSUME NEW e \in Acquisitions, Acquire(e) PROVE ManifestOK'
  <2>1. e \in Entry
    BY ClosureAssumption
  <2>2. e.hash \in Content
    BY <2>1 DEF Entry
  <2>3. IsFiniteSet(manifest \cup {e})
    BY FS_AddElement
  <2> QED
    BY <1>1, <2>1, <2>2, <2>3 DEF Acquire
<1>2. ASSUME NEW f \in File, NEW c \in Content, Damage(f, c) PROVE ManifestOK'
  BY <1>2 DEF Damage
<1>3. ASSUME NEW e \in manifest, NEW flag \in Flags, Flag(e, flag) PROVE ManifestOK'
  <2>1. [e EXCEPT !.flag = flag] \in Entry
    BY DEF Entry
  <2>2. IsFiniteSet((manifest \ {e}) \cup {[e EXCEPT !.flag = flag]})
    BY FS_RemoveElement, FS_AddElement
  <2> QED
    BY <1>3, <2>1, <2>2 DEF Flag
<1>4. CASE UNCHANGED <<files, manifest>>
  BY <1>4
<1>5. UNCHANGED <<files, manifest>> \/ EvidenceStep
  BY DEF ClosureNext, closureVars, TaskStep, ActivityStep, Assessment, AssessForTasks, InsertTasks,
         UpdateTask, Trace, ReadTrace, WriteOpen, Review, PeerReview, Others, AssessClosure,
         evidenceVars
<1>6. UNCHANGED <<files, manifest>>
        \/ (\E e \in Acquisitions : Acquire(e))
        \/ (\E f \in File, c \in Content : Damage(f, c))
        \/ \E e \in manifest, flag \in Flags : Flag(e, flag)
  BY <1>5 DEF EvidenceStep, VerifyManifest
<1> QED
  BY <1>1, <1>2, <1>3, <1>4, <1>6

LEMMA TraceGrows ==
  ASSUME TraceOK, NEW kind \in {"consequence", "closed", "contentClosed"}, NEW act \in Act,
         Trace(kind, act)
  PROVE  TraceOK'
<1>1. trace \in Seq(ClosureEvent) /\ [kind |-> kind, act |-> act] \in ClosureEvent
  BY DEF TraceOK, ClosureEvent
<1>2. trace' = Append(trace, [kind |-> kind, act |-> act]) /\ UNCHANGED <<reconciler, open>>
  BY DEF Trace
<1>3. PICK len \in Nat : len = Len(trace)
  BY <1>1
<1>4. /\ Len(trace') = len + 1 /\ trace' \in Seq(ClosureEvent)
      /\ \A i \in 1..len : trace'[i] = trace[i]
  BY <1>1, <1>2, <1>3
<1>5. ReconcilerOK'
  <2>1. SUFFICES ASSUME reconciler.at = "read"
                 PROVE  /\ reconciler.events \in Seq(ClosureEvent)
                        /\ Len(reconciler.events) <= Len(trace')
                        /\ \A i \in 1..Len(reconciler.events) : reconciler.events[i] = trace'[i]
    BY <1>2 DEF ReconcilerOK
  <2>2. /\ reconciler.events \in Seq(ClosureEvent)
        /\ Len(reconciler.events) <= len
        /\ \A i \in 1..Len(reconciler.events) : reconciler.events[i] = trace[i]
    BY <1>3, <2>1 DEF TraceOK, ReconcilerOK
  <2>3. Len(reconciler.events) \in Nat
    BY <2>2
  <2> QED
    BY <1>4, <2>2, <2>3
<1>6. OpenOK'
  <2>1. SUFFICES ASSUME open.at = "reported"
                 PROVE  /\ open.of \in Nat /\ open.of <= Len(trace')
                        /\ open.acts = {} =>
                             \A i \in 1..open.of : trace'[i].kind = "consequence" => Closed(i)'
    BY <1>2 DEF OpenOK
  <2>2. /\ open.of \in Nat /\ open.of <= len
        /\ open.acts = {} => \A i \in 1..open.of : trace[i].kind = "consequence" => Closed(i)
    BY <1>3, <2>1 DEF TraceOK, OpenOK
  <2>3. ASSUME NEW i \in 1..open.of, Closed(i) PROVE Closed(i)'
    BY <1>2, <1>4, <2>2, <2>3 DEF Closed
  <2> QED
    BY <1>4, <2>2, <2>3
<1> QED
  BY <1>4, <1>5, <1>6 DEF TraceOK

LEMMA TraceReported ==
  ASSUME TraceOK, WriteOpen
  PROVE  TraceOK'
<1>1. PICK events : events = reconciler.events
  OBVIOUS
<1>2. /\ UNCHANGED trace /\ reconciler' = Resting
      /\ open' = [at |-> "reported", of |-> Len(events), acts |-> OpenIn(events)]
  BY <1>1 DEF WriteOpen
<1>3. /\ events \in Seq(ClosureEvent) /\ Len(events) <= Len(trace)
      /\ \A i \in 1..Len(events) : events[i] = trace[i]
  BY <1>1 DEF TraceOK, ReconcilerOK, WriteOpen
<1>4. open'.of = Len(events) /\ open'.acts = OpenIn(events) /\ Len(events) \in Nat
  BY <1>2, <1>3
<1>5. ASSUME OpenIn(events) = {}, NEW i \in 1..Len(events), trace[i].kind = "consequence"
      PROVE  Closed(i)'
  <2>1. PICK j \in 1..Len(events) :
          \/ events[j].kind = "closed" /\ events[j].act = events[i].act
          \/ events[j].kind = "contentClosed" /\ EffectOf[events[j].act] = EffectOf[events[i].act]
    BY <1>3, <1>5, NothingOpen
  <2>2. events[i] = trace'[i] /\ events[j] = trace'[j]
    BY <1>2, <1>3
  <2> QED
    BY <1>4, <2>1, <2>2 DEF Closed
<1>6. OpenOK'
  BY <1>2, <1>3, <1>4, <1>5 DEF OpenOK
<1>7. ReconcilerOK'
  BY <1>2 DEF ReconcilerOK, Resting
<1> QED
  BY <1>2, <1>6, <1>7 DEF TraceOK

LEMMA TraceHolds ==
  ASSUME TraceOK, [ClosureNext]_closureVars
  PROVE  TraceOK'
<1>1. CASE \E kind \in {"consequence", "closed", "contentClosed"}, act \in Act : Trace(kind, act)
  BY <1>1, TraceGrows
<1>2. CASE ReadTrace
  <2>1. UNCHANGED <<trace, open>> /\ reconciler' = [at |-> "read", events |-> trace]
    BY <1>2 DEF ReadTrace
  <2>2. Len(trace) \in Nat
    BY DEF TraceOK
  <2>3. ReconcilerOK'
    BY <2>1, <2>2 DEF TraceOK, ReconcilerOK
  <2>4. OpenOK'
    BY <2>1, SMTT(60) DEF TraceOK, OpenOK, Closed
  <2> QED
    BY <2>1, <2>3, <2>4 DEF TraceOK
<1>3. CASE WriteOpen
  BY <1>3, TraceReported
<1>4. CASE UNCHANGED <<trace, reconciler, open>>
  BY <1>4 DEF TraceOK, ReconcilerOK, OpenOK, Closed
<1>5. UNCHANGED <<trace, reconciler, open>>
        \/ (\E kind \in {"consequence", "closed", "contentClosed"}, act \in Act : Trace(kind, act))
        \/ ReadTrace \/ WriteOpen
  BY DEF ClosureNext, closureVars, EvidenceStep, Acquire, Damage, Flag, VerifyManifest, TaskStep,
         ActivityStep, Assessment, AssessForTasks, InsertTasks, UpdateTask, Review, PeerReview,
         Others, AssessClosure, traceVars
<1> QED
  BY <1>1, <1>2, <1>3, <1>4, <1>5

LEMMA GateHolds ==
  ASSUME GateOK, [ClosureNext]_closureVars
  PROVE  GateOK'
<1> USE DEF GateOK
<1>1. ASSUME NEW c \in Conclusion, NEW r \in Reviewer, NEW approves \in BOOLEAN,
             Review(c, r, approves)
      PROVE  GateOK'
  <2>1. [of |-> c, by |-> r, approves |-> approves] \in ClosureReview
    BY DEF ClosureReview
  <2> QED
    BY <1>1, <2>1 DEF Review, Approved
<1>2. CASE PeerReview
  <2>1. /\ UNCHANGED reviews /\ review'.of = reviews
        /\ review'.ready <=> \A c \in Conclusion : Approvals(c) >= Required[c]
    BY <1>2 DEF PeerReview
  <2>2. ASSUME NEW c \in Conclusion, Approvals(c) >= Required[c] PROVE Approved(c)'
    BY <2>1, <2>2, ApprovalsCount, SMTT(60) DEF Approved
  <2> QED
    BY <2>1, <2>2
<1>3. CASE UNCHANGED <<reviews, review>>
  BY <1>3 DEF Approved
<1>4. UNCHANGED <<reviews, review>>
        \/ (\E c \in Conclusion, r \in Reviewer, approves \in BOOLEAN : Review(c, r, approves))
        \/ PeerReview
  BY DEF ClosureNext, closureVars, EvidenceStep, Acquire, Damage, Flag, VerifyManifest, TaskStep,
         ActivityStep, Assessment, AssessForTasks, InsertTasks, UpdateTask, Trace, ReadTrace,
         WriteOpen, Others, AssessClosure, reviewVars
<1> QED
  BY <1>1, <1>2, <1>3, <1>4

(* A verdict is of the workspace as it is: whatever changes it, or writes a *)
(* file the verdict was read from, leaves no verdict.                       *)
LEMMA VerdictHolds ==
  ASSUME ClosureInv, [ClosureNext]_closureVars
  PROVE  ReadyIsSupported'
<1>1. CASE verdict' = Unknown
  BY <1>1 DEF ReadyIsSupported, Unknown
<1>2. CASE UNCHANGED closureVars
  BY <1>2 DEF closureVars, ClosureInv, ReadyIsSupported, Bound, Closed, Approved
<1>3. ASSUME NEW repository \in {"not asked", "valid", "invalid"}, AssessClosure(repository)
      PROVE  ReadyIsSupported'
  <2>1. /\ verdict'.ready <=> Ready(repository)
        /\ verdict'.repository = repository
        /\ UNCHANGED <<files, manifest, trust, trace, open, reviews, review, report, mode>>
    BY <1>3 DEF AssessClosure, evidenceVars, traceVars, reviewVars, otherVars
  <2>2. ASSUME Ready(repository)
        PROVE  /\ \A a \in Mandatory : Bound(a)
               /\ open.at = "reported" => \A i \in 1..open.of : trace[i].kind = "consequence" => Closed(i)
               /\ review.at = "gate" => \A c \in Conclusion : Approved(c)
               /\ mode # "quarantine" /\ repository # "invalid"
    <3>1. \A a \in Mandatory : Satisfies(QualityOf(a, manifest), "validated")
      BY <2>2 DEF Ready, Insufficient
    <3>2. \A a \in Mandatory : Bound(a)
      BY <3>1, SufficientIsBound DEF ClosureInv
    <3> QED
      BY <2>2, <3>2 DEF Ready, ClosureInv, TraceOK, OpenOK, GateOK
  <2>3. ASSUME NEW a \in Mandatory, Bound(a) PROVE Bound(a)'
    BY <2>1, <2>3, ZenonT(60) DEF Bound
  <2>4. ASSUME NEW i \in 1..open.of, Closed(i) PROVE Closed(i)'
    BY <2>1, <2>4 DEF Closed
  <2>5. ASSUME NEW c \in Conclusion, Approved(c) PROVE Approved(c)'
    BY <2>1, <2>5 DEF Approved
  <2> QED
    BY <2>1, <2>2, <2>3, <2>4, <2>5 DEF ReadyIsSupported
<1>4. verdict' = Unknown \/ UNCHANGED closureVars \/ Assessment
  BY DEF ClosureNext, EvidenceStep, Acquire, Damage, Flag, VerifyManifest, TaskStep, ActivityStep,
         AssessForTasks, InsertTasks, UpdateTask, Trace, ReadTrace, WriteOpen, Review, PeerReview,
         Others, Happens, Command
<1> QED
  BY <1>1, <1>2, <1>3, <1>4 DEF Assessment

LEMMA ClosureNextHolds == ClosureInv /\ [ClosureNext]_closureVars => ClosureInv'
BY ManifestHolds, TraceHolds, GateHolds, VerdictHolds DEF ClosureInv

(* A case is ready only with a file for each mandatory artifact that one    *)
(* undisputed acquisition is bound to, with every consequence closed that   *)
(* was reported of, and with conclusions that enough others than their      *)
(* authors approved; and no dispute ever supports a conclusion.  It holds   *)
(* for any evidence packs, however the workspace changes meanwhile.         *)
THEOREM ClosureAlwaysSound == ClosureSpec => []ClosureSound
<1>1. ClosureInv => ClosureSound
  BY DisputesHold DEF ClosureInv, ClosureSound
<1> QED
  BY ClosureBegins, ClosureNextHolds, <1>1, PTL DEF ClosureSpec

------------------------------------------------------------------------------
(* Releases.                                                                *)

(* The packages that a run may have built, and those that may go on to be   *)
(* published: what they say of their files is true, and they were checked.  *)
PackageOf(r) == [by : {r}, source : Commits, commit : Commits,
                 files : [Profile -> {"none", "part", "whole"}]]
Passed(package) == package.commit.works /\ PackageHolds(package)

(* An asset that is not a provenance is one of a directory its uploader built. *)
Genuine(name, asset) ==
  \E package \in PackageOf(asset.by), knows \in SUBSET Profile :
    /\ Passed(package) /\ name \in DOMAIN Packed(package, knows)
    /\ asset.is = Packed(package, knows)[name]

Uploads(assets) ==
  /\ assets = [n \in DOMAIN assets |-> assets[n]]
  /\ DOMAIN assets \subseteq Assets
  /\ \A n \in DOMAIN assets :
       /\ assets[n] = [by |-> assets[n].by, is |-> assets[n].is] /\ assets[n].by \in Workflow
       /\ n # Sidecar => Genuine(n, assets[n])

(* What a run publishes is a directory that it built and verified.          *)
Verified(r, directory) ==
  /\ Verifies(directory)
  /\ \E package \in PackageOf(r), knows \in SUBSET Profile :
       Passed(package) /\ directory = Packed(package, knows)

(* A run, by how far it is: what it was told and made, and what it knows of *)
(* the release while it is the only one to have changed it.                 *)
AtRest(s) == DOMAIN s = {"at"} /\ s.at \in {"idle", "failed"}

Checking(s) ==
  /\ DOMAIN s = {"at", "knows", "source"} /\ s.at \in {"check", "stage"}
  /\ s.source \in Commits /\ \E c \in Commits : s.knows = c.knows

Packaging(r, s) ==
  /\ DOMAIN s = {"at", "knows", "package"} /\ s.at \in {"extract", "built"}
  /\ \E c \in Commits : s.knows = c.knows
  /\ s.package \in PackageOf(r) /\ s.package.files = s.package.commit.files
  /\ Complete(s.package.files, s.knows)
  /\ s.at = "built" => s.package.commit.works

Publisher(r, s) == r \in Workflow /\ s.alone \in BOOLEAN /\ Verified(r, s.of)

Listing(s, assets) ==
  /\ DOMAIN s = {"at", "of", "alone"} /\ s.at = "list"
  /\ s.alone => Sidecar \in DOMAIN assets

Replacing(s, assets) ==
  /\ DOMAIN s = {"at", "of", "alone", "old", "left"}
  /\ s.at = "upload"
  /\ DOMAIN s.old \subseteq s.left /\ s.left \subseteq DOMAIN s.of
  /\ s.alone =>
       /\ Sidecar \in DOMAIN assets
       /\ \A n \in s.left \ DOMAIN s.old : n \notin DOMAIN assets
       /\ \A n \in DOMAIN s.of \ s.left : n \in DOMAIN assets /\ assets[n].is = s.of[n]

Verifying(s) ==
  /\ DOMAIN s = {"at", "of", "alone", "assets"}
  /\ s.at \in {"fetch", "published", "refused"} /\ Uploads(s.assets)
  /\ s.alone => /\ Sidecar \in DOMAIN s.assets
                /\ \A n \in DOMAIN s.of : n \in DOMAIN s.assets /\ s.assets[n].is = s.of[n]
  /\ s.at = "refused" /\ s.alone => ~(DOMAIN s.assets \subseteq DOMAIN s.of \cup {Sidecar})

Releasing(r, s, assets) == Publisher(r, s) /\ (Listing(s, assets) \/ Replacing(s, assets) \/ Verifying(s))

RunOK(r, s, assets) == AtRest(s) \/ Checking(s) \/ Packaging(r, s) \/ Releasing(r, s, assets)

RepositoryOK ==
  head \in [Builder -> Commits] /\ tree \in [Builder -> Commits] /\ moves \in 0..MaxMoves

ReleaseInv ==
  /\ RepositoryOK /\ Uploads(release)
  /\ progress = [r \in Builder |-> progress[r]] /\ \A r \in Builder : RunOK(r, progress[r], release)

(* What a directory holds.                                                  *)
ReportOf(package) == [source |-> package.source, zip |-> package]

Holding(package, knows, is) ==
  /\ DOMAIN is = Core \cup {Sums} \cup (IF package.commit.runbook THEN {Runbook} ELSE {})
  /\ is["zip"] = package /\ is["validation"] = ReportOf(package)
  /\ is["assurance"] = [report |-> ReportOf(package), checks |-> Checks(knows)]
  /\ package.commit.runbook => is[Runbook] = [by |-> package.by]
  /\ is[Sums] = Summed(package, knows)
  /\ \A n \in DOMAIN Summed(package, knows) :
       n \in DOMAIN is /\ n # Sums /\ is[n] = Summed(package, knows)[n]
  /\ DOMAIN is = DOMAIN Summed(package, knows) \cup {Sums}
  /\ Sidecar \notin DOMAIN is /\ DOMAIN is \subseteq Assets

LEMMA PackedHolds ==
  ASSUME NEW package, NEW knows PROVE Holding(package, knows, Packed(package, knows))
  BY DEF Holding, ReportOf, Packed, Place, Summed, Core, Sums, Runbook, Sidecar, Assets

(* The contents say whose they are.                                         *)
LEMMA SumsTell ==
  ASSUME NEW p, NEW q, NEW k, NEW l, NEW n \in DOMAIN Packed(q, l) \ {Sums},
         n \in DOMAIN Summed(p, k), Packed(q, l)[n] = Summed(p, k)[n]
  PROVE  q.by = p.by
  <1> DEFINE P == Packed(p, k)  Q == Packed(q, l)
  <1>0. Holding(p, k, P) /\ Holding(q, l, Q)
    BY PackedHolds
  <1>1. n \in DOMAIN P /\ P[n] = Q[n] /\ n # Sums /\ n \in DOMAIN Q
    BY <1>0 DEF Holding
  <1> HIDE DEF P, Q
  <1>2. n \in Core \cup {Runbook}
    BY <1>0, <1>1 DEF Holding
  <1>3. CASE n = "zip"
    BY <1>0, <1>1, <1>3 DEF Holding
  <1>4. CASE n = "validation"
    <2>1. ReportOf(p) = ReportOf(q)
      BY <1>0, <1>1, <1>4 DEF Holding
    <2> QED BY <2>1 DEF ReportOf
  <1>5. CASE n = "assurance"
    <2>1. [report |-> ReportOf(p), checks |-> Checks(k)] = [report |-> ReportOf(q), checks |-> Checks(l)]
      BY <1>0, <1>1, <1>5 DEF Holding
    <2>2. ReportOf(p) = ReportOf(q)
      BY <2>1
    <2> QED BY <2>2 DEF ReportOf
  <1>6. CASE n = Runbook
    <2>1. p.commit.runbook /\ q.commit.runbook
      BY <1>0, <1>1, <1>6 DEF Holding, Core, Sums, Runbook
    <2>2. [by |-> p.by] = [by |-> q.by]
      BY <1>0, <1>1, <1>6, <2>1 DEF Holding
    <2> QED BY <2>2
  <1> QED BY <1>2, <1>3, <1>4, <1>5, <1>6 DEF Core

(* Assets that verify are of one build.                                     *)
LEMMA UploadsOfOneBuild ==
  ASSUME NEW assets, Uploads(assets)
  PROVE  OneBuild(assets)
  <1> DEFINE is == [n \in DOMAIN assets |-> assets[n].is]
  <1> SUFFICES ASSUME Verifies(is)
               PROVE  /\ \A m, n \in DOMAIN assets \ {Sidecar} : assets[m].by = assets[n].by
                      /\ assets["zip"].is.by = assets["zip"].by
                      /\ assets["zip"].is.commit.works /\ Supported(assets["zip"].is.commit.files)
    BY DEF OneBuild
  <1>1. Core \cup {Sums} \subseteq DOMAIN assets
    BY DEF Verifies
  <1>2. PICK p \in PackageOf(assets[Sums].by), k \in SUBSET Profile :
          Passed(p) /\ assets[Sums].is = Packed(p, k)[Sums]
    BY <1>1 DEF Uploads, Genuine, Sums, Sidecar
  <1>3. is[Sums] = Summed(p, k)
    BY <1>1, <1>2, PackedHolds DEF Holding
  <1>4. /\ DOMAIN assets \ (DOMAIN Summed(p, k) \cup {Sums}) \subseteq {Sidecar}
        /\ \A n \in DOMAIN Summed(p, k) : n \in DOMAIN assets /\ assets[n].is = Summed(p, k)[n]
    BY <1>3 DEF Verifies, SumsHold
  <1>5. p.by = assets[Sums].by
    BY DEF PackageOf
  <1>6. ASSUME NEW n \in DOMAIN assets \ {Sidecar}
        PROVE  assets[n].by = p.by
    <2>1. CASE n = Sums
      BY <2>1, <1>5
    <2>2. CASE n # Sums
      <3>1. n \in DOMAIN Summed(p, k) /\ assets[n].is = Summed(p, k)[n]
        BY <2>2, <1>4
      <3>2. PICK q \in PackageOf(assets[n].by), l \in SUBSET Profile :
              n \in DOMAIN Packed(q, l) /\ assets[n].is = Packed(q, l)[n]
        BY DEF Uploads, Genuine
      <3>3. q.by = p.by
        BY <2>2, <3>1, <3>2, SumsTell
      <3> QED BY <3>3 DEF PackageOf
    <2> QED BY <2>1, <2>2
  <1>7. PICK q \in PackageOf(assets["zip"].by), l \in SUBSET Profile :
          Passed(q) /\ assets["zip"].is = Packed(q, l)["zip"]
    BY <1>1 DEF Uploads, Genuine, Core, Sidecar
  <1>8. assets["zip"].is = q
    BY <1>7, PackedHolds DEF Holding
  <1>9. q.by = assets["zip"].by
    BY DEF PackageOf
  <1> QED BY <1>6, <1>7, <1>8, <1>9 DEF Passed, PackageHolds

(* A directory with its provenance verifies as it did without.              *)
LEMMA ProvenanceApart ==
  ASSUME NEW directory, NEW other, Verifies(directory), Sidecar \notin DOMAIN directory,
         DOMAIN other = DOMAIN directory \cup {Sidecar},
         \A n \in DOMAIN directory : other[n] = directory[n]
  PROVE  Verifies(other)
  <1>1. Core \cup {Sums} \subseteq DOMAIN other /\ DOMAIN directory \subseteq DOMAIN other
    BY DEF Verifies
  <1>2. other[Sums] = directory[Sums] /\ other["zip"] = directory["zip"]
        /\ other["validation"] = directory["validation"] /\ other["assurance"] = directory["assurance"]
    BY DEF Verifies, Core
  <1>3. SumsHold(other)
    BY <1>1, <1>2 DEF Verifies, SumsHold
  <1>4. PackageHolds(other["zip"])
    BY <1>2 DEF Verifies
  <1>5. ReportsHold(other)
    BY <1>2 DEF Verifies, ReportsHold
  <1> QED BY <1>1, <1>3, <1>4, <1>5 DEF Verifies

(* A build whose script knew what it shipped verifies.                      *)
LEMMA BuildVerifies ==
  ASSUME NEW r \in Builder, Packaging(r, progress[r]), At(r, "built"),
         Shipped(progress[r].package.files) = progress[r].knows
  PROVE  Verifies(Directory(r))
  <1> DEFINE p == progress[r].package  k == progress[r].knows  is == Packed(p, k)
  <1>1. /\ p \in PackageOf(r) /\ p.files = p.commit.files /\ Complete(p.files, k)
        /\ \E c \in Commits : k = c.knows
    BY DEF Packaging
  <1>2. Directory(r) = is /\ Shipped(p.files) = k
    BY DEF Directory
  <1>3. Holding(p, k, is)
    BY PackedHolds
  <1> HIDE DEF p, k, is
  <1>4. Supported(p.files)
    BY <1>1, <1>2, ReleaseAssumption DEF Supported, Complete
  <1>5. PackageHolds(is["zip"])
    BY <1>1, <1>3, <1>4 DEF PackageHolds, Holding
  <1>6. SumsHold(is)
    BY <1>3 DEF SumsHold, Holding
  <1>7. Holds(Checks(k), Assurance(p.files))
    BY <1>2 DEF Holds, Assurance
  <1>8. ReportsHold(is)
    BY <1>3, <1>7 DEF ReportsHold, Holding, ReportOf
  <1> QED BY <1>2, <1>3, <1>5, <1>6, <1>8 DEF Verifies, Holding

(* How far a run is tells which of its forms it has.                        *)
LEMMA RunForms ==
  ASSUME NEW r, NEW s, NEW assets, RunOK(r, s, assets)
  PROVE  \/ /\ s.at \in {"idle", "failed"} /\ AtRest(s)
         \/ /\ s.at \in {"check", "stage"} /\ Checking(s)
         \/ /\ s.at \in {"extract", "built"} /\ Packaging(r, s)
         \/ /\ s.at = "list" /\ Publisher(r, s) /\ Listing(s, assets)
         \/ /\ s.at = "upload" /\ Publisher(r, s) /\ Replacing(s, assets)
         \/ /\ s.at \in {"fetch", "published", "refused"} /\ Publisher(r, s) /\ Verifying(s)
  <1>1. CASE AtRest(s)
    BY <1>1 DEF AtRest
  <1>2. CASE Checking(s)
    BY <1>2 DEF Checking
  <1>3. CASE Packaging(r, s)
    BY <1>3 DEF Packaging
  <1>4. CASE Listing(s, assets) /\ Publisher(r, s)
    BY <1>4 DEF Listing
  <1>5. CASE Replacing(s, assets) /\ Publisher(r, s)
    BY <1>5 DEF Replacing
  <1>6. CASE Verifying(s) /\ Publisher(r, s)
    BY <1>6 DEF Verifying
  <1> QED BY <1>1, <1>2, <1>3, <1>4, <1>5, <1>6 DEF RunOK, Releasing

LEMMA ReleaseTold == ReleaseInv => ReleasesSound /\ ReleaseTypeOK
  <1> SUFFICES ASSUME ReleaseInv PROVE ReleasesSound /\ ReleaseTypeOK
    OBVIOUS
  <1>0. \A r \in Builder : RunOK(r, progress[r], release)
    BY DEF ReleaseInv
  <1>1. PublishedIsOneBuild
    <2>1. OneBuild(release)
      BY UploadsOfOneBuild DEF ReleaseInv
    <2>2. ASSUME NEW r \in Builder, progress[r].at \in {"fetch", "published"}
          PROVE  OneBuild(progress[r].assets)
      <3>1. Verifying(progress[r])
        BY <1>0, <2>2, RunForms
      <3> QED BY <3>1, UploadsOfOneBuild DEF Verifying
    <2> QED BY <2>1, <2>2 DEF PublishedIsOneBuild
  <1>2. AloneIsPublished
    <2> SUFFICES ASSUME NEW r \in Builder, At(r, "refused"), progress[r].alone
                 PROVE  ~(DOMAIN progress[r].assets \subseteq DOMAIN progress[r].of \cup {Sidecar})
      BY DEF AloneIsPublished
    <2>1. Verifying(progress[r])
      BY <1>0, RunForms DEF At
    <2> QED BY <2>1 DEF Verifying, At
  <1>3. BuildsVerify
    <2> SUFFICES ASSUME NEW r \in Builder, At(r, "built"),
                        Shipped(progress[r].package.files) = progress[r].knows
                 PROVE  Verifies(Directory(r))
      BY DEF BuildsVerify
    <2>1. Packaging(r, progress[r])
      BY <1>0, RunForms DEF At
    <2> QED BY <2>1, BuildVerifies
  <1>4. ReleaseTypeOK
    <2>1. ASSUME NEW r \in Builder
          PROVE  progress[r].at \in {"idle", "check", "stage", "extract", "built", "failed",
                                     "published", "refused"} \cup Publishing
      BY <1>0, RunForms DEF Publishing
    <2> QED BY <2>1 DEF ReleaseTypeOK, ReleaseInv, RepositoryOK, Uploads
  <1> QED BY <1>1, <1>2, <1>3, <1>4 DEF ReleasesSound

(* What a run does of its own leaves the others as they are.                *)
LEMMA OneRunGoes ==
  ASSUME ReleaseInv, NEW r \in Builder, NEW s, Goes(r, s), RunOK(r, s, release),
         UNCHANGED <<head, tree, moves, release>>
  PROVE  ReleaseInv'
  <1>1. progress' = [q \in Builder |-> progress'[q]] /\ \A q \in Builder : progress'[q] = IF q = r THEN s ELSE progress[q]
    BY DEF ReleaseInv, Goes
  <1>2. \A q \in Builder : RunOK(q, progress'[q], release')
    BY <1>1 DEF ReleaseInv
  <1> QED BY <1>1, <1>2 DEF ReleaseInv, RepositoryOK

(* Who changes the release is the only one that is still alone.             *)
LEMMA OthersDisturbed ==
  ASSUME ReleaseInv, NEW r \in Builder, NEW s, Disturbed(r, s), RunOK(r, s, release'), Uploads(release'),
         UNCHANGED <<head, tree, moves>>
  PROVE  ReleaseInv'
  <1>1. ASSUME NEW q \in Builder, q # r
        PROVE  RunOK(q, progress'[q], release')
    <2> PICK t : t = progress[q]
      OBVIOUS
    <2>1. RunOK(q, t, release)
      BY DEF ReleaseInv
    <2>2. progress'[q] = IF t.at \in Publishing THEN [t EXCEPT !.alone = FALSE] ELSE t
      BY <1>1 DEF Disturbed
    <2> PICK u : u = progress'[q]
      OBVIOUS
    <2>3. CASE t.at = "list"
      <3>1. Publisher(q, t) /\ Listing(t, release)
        BY <2>1, <2>3, RunForms
      <3>2. DOMAIN u = DOMAIN t /\ u.at = t.at /\ u.of = t.of /\ u.alone = FALSE
        BY <2>2, <2>3, <3>1 DEF Listing, Publishing
      <3>3. Publisher(q, u) /\ Listing(u, release')
        BY <3>1, <3>2 DEF Publisher, Listing
      <3> QED BY <3>3 DEF RunOK, Releasing
    <2>4. CASE t.at = "upload"
      <3>1. Publisher(q, t) /\ Replacing(t, release)
        BY <2>1, <2>4, RunForms
      <3>2. /\ DOMAIN u = DOMAIN t /\ u.at = t.at /\ u.of = t.of /\ u.alone = FALSE
            /\ u.old = t.old /\ u.left = t.left
        BY <2>2, <2>4, <3>1 DEF Replacing, Publishing
      <3>3. Publisher(q, u) /\ Replacing(u, release')
        BY <3>1, <3>2 DEF Publisher, Replacing
      <3> QED BY <3>3 DEF RunOK, Releasing
    <2>5. CASE t.at = "fetch"
      <3>1. Publisher(q, t) /\ Verifying(t)
        BY <2>1, <2>5, RunForms
      <3>2. DOMAIN u = DOMAIN t /\ u.at = t.at /\ u.of = t.of /\ u.alone = FALSE /\ u.assets = t.assets
        BY <2>2, <2>5, <3>1 DEF Verifying, Publishing
      <3>3. Publisher(q, u) /\ Verifying(u)
        BY <3>1, <3>2 DEF Publisher, Verifying
      <3> QED BY <3>3 DEF RunOK, Releasing
    <2>6. CASE t.at \notin Publishing
      <3>1. RunOK(q, t, release')
        BY <2>1, <2>6, RunForms DEF RunOK, Releasing, Publishing
      <3> QED BY <2>2, <2>6, <3>1
    <2> QED BY <2>3, <2>4, <2>5, <2>6 DEF Publishing
  <1>2. progress'[r] = s /\ progress' = [q \in Builder |-> progress'[q]]
    BY DEF Disturbed
  <1>3. \A q \in Builder : RunOK(q, progress'[q], release')
    BY <1>1, <1>2
  <1> QED BY <1>2, <1>3 DEF ReleaseInv, RepositoryOK

(* What was verified has assets of its builder, and no provenance yet.      *)
LEMMA VerifiedHas ==
  ASSUME NEW r, NEW of, Verified(r, of)
  PROVE  /\ Sidecar \notin DOMAIN of /\ DOMAIN of \subseteq Assets
         /\ \A n \in DOMAIN of : Genuine(n, [by |-> r, is |-> of[n]])
  <1>1. PICK package \in PackageOf(r), knows \in SUBSET Profile :
          Passed(package) /\ of = Packed(package, knows)
    BY DEF Verified
  <1>2. Holding(package, knows, of)
    BY <1>1, PackedHolds
  <1> QED BY <1>1, <1>2 DEF Holding, Genuine

LEMMA UploadsPlace ==
  ASSUME NEW assets, Uploads(assets), NEW name \in Assets, NEW asset,
         asset = [by |-> asset.by, is |-> asset.is], asset.by \in Workflow,
         name # Sidecar => Genuine(name, asset)
  PROVE  Uploads(Place(assets, name, asset))
  BY DEF Uploads, Place

LEMMA UploadsWithout ==
  ASSUME NEW assets, Uploads(assets), NEW name
  PROVE  Uploads(Without(assets, name))
  BY DEF Uploads, Without

(* A run that fails is done.                                                *)
LEMMA FailingKeeps ==
  ASSUME ReleaseInv, NEW r \in Builder, Fails(r), UNCHANGED <<head, tree, moves, release>>
  PROVE  ReleaseInv'
  <1>1. RunOK(r, [at |-> "failed"], release)
    BY DEF RunOK, AtRest
  <1> QED BY <1>1, OneRunGoes DEF Fails

LEMMA BuildingKeeps ==
  ASSUME ReleaseInv, NEW r \in Builder,
         BeginBuild(r) \/ (\E skip \in BOOLEAN : CheckSource(r, skip)) \/ StageTree(r) \/ CheckExtracted(r)
  PROVE  ReleaseInv'
  <1>0. PICK s : s = progress[r]
    OBVIOUS
  <1>1. RunOK(r, s, release) /\ head[r] \in Commits /\ tree[r] \in Commits
    BY <1>0 DEF ReleaseInv, RepositoryOK
  <1>2. CASE BeginBuild(r)
    <2> DEFINE t == [at |-> "check", knows |-> tree[r].knows, source |-> head[r]]
    <2>1. RunOK(r, t, release)
      BY <1>1 DEF RunOK, Checking
    <2> QED BY <1>2, <2>1, OneRunGoes DEF BeginBuild
  <1>3. CASE \E skip \in BOOLEAN : CheckSource(r, skip)
    <2>1. Checking(s) /\ UNCHANGED <<head, tree, moves, release>>
      BY <1>0, <1>1, <1>3, RunForms DEF CheckSource, At
    <2>2. CASE Goes(r, [s EXCEPT !.at = "stage"])
      <3>1. PICK t : t = [s EXCEPT !.at = "stage"]
        OBVIOUS
      <3>2. RunOK(r, t, release)
        BY <2>1, <3>1 DEF RunOK, Checking
      <3> QED BY <2>1, <2>2, <3>1, <3>2, OneRunGoes
    <2> QED BY <1>0, <1>3, <2>1, <2>2, FailingKeeps DEF CheckSource
  <1>4. CASE StageTree(r)
    <2>1. Checking(s) /\ UNCHANGED <<head, tree, moves, release>>
      BY <1>0, <1>1, <1>4, RunForms DEF StageTree, At
    <2>2. PICK commit, package :
            /\ commit = head[r]
            /\ package = [by |-> r, source |-> s.source, commit |-> commit, files |-> commit.files]
      OBVIOUS
    <2> DEFINE t == [at |-> "extract", knows |-> s.knows, package |-> package]
    <2>3. CASE Goes(r, t) /\ Complete(commit.files, s.knows)
      <3>1. commit.files \in [Profile -> {"none", "part", "whole"}]
        BY <1>1, <2>2, ReleaseAssumption
      <3>2. package \in PackageOf(r) /\ package.files = commit.files /\ package.commit = commit
        BY <1>1, <2>1, <2>2, <3>1 DEF Checking, PackageOf
      <3>3. RunOK(r, t, release)
        BY <2>1, <2>3, <3>2 DEF RunOK, Packaging, Checking
      <3> QED BY <2>1, <2>3, <3>3, OneRunGoes
    <2> QED BY <1>0, <1>4, <2>1, <2>2, <2>3, FailingKeeps DEF StageTree
  <1>5. CASE CheckExtracted(r)
    <2>1. Packaging(r, s) /\ s.at = "extract" /\ UNCHANGED <<head, tree, moves, release>>
      BY <1>0, <1>1, <1>5, RunForms DEF CheckExtracted, At
    <2>2. CASE Goes(r, [s EXCEPT !.at = "built"]) /\ s.package.commit.works
      <3>1. PICK t : t = [s EXCEPT !.at = "built"]
        OBVIOUS
      <3>2. t.at = "built" /\ t.knows = s.knows /\ t.package = s.package /\ DOMAIN t = DOMAIN s
        BY <2>1, <3>1 DEF Packaging
      <3>3. RunOK(r, t, release)
        BY <2>1, <2>2, <3>2 DEF RunOK, Packaging
      <3> QED BY <2>1, <2>2, <3>1, <3>3, OneRunGoes
    <2> QED BY <1>0, <1>5, <2>1, <2>2, FailingKeeps DEF CheckExtracted
  <1> QED BY <1>2, <1>3, <1>4, <1>5

LEMMA ProvenanceKeeps ==
  ASSUME ReleaseInv, NEW r \in Builder, AddProvenance(r)
  PROVE  ReleaseInv'
  <1>0. PICK s, of : s = progress[r] /\ of = Directory(r)
    OBVIOUS
  <1>1. Packaging(r, s) /\ s.at = "built"
    BY <1>0, RunForms DEF ReleaseInv, AddProvenance, At
  <1>2. CASE Verifies(of)
    <2>1. of = Packed(s.package, s.knows)
      BY <1>0 DEF Directory
    <2>2. of["zip"] = s.package
      BY <2>1, PackedHolds DEF Holding
    <2>3. Passed(s.package) /\ s.package \in PackageOf(r) /\ s.knows \in SUBSET Profile
      BY <1>1, <1>2, <2>2, ReleaseAssumption DEF Passed, Packaging, Verifies
    <2>4. Verified(r, of)
      BY <1>2, <2>1, <2>3 DEF Verified
    <2> DEFINE asset == [by |-> r, is |-> r]  t == [at |-> "list", of |-> of, alone |-> TRUE]
    <2>5. r \in Workflow /\ Disturbed(r, t) /\ release' = Place(release, Sidecar, asset)
          /\ UNCHANGED <<head, tree, moves>>
      BY <1>0, <1>2 DEF AddProvenance
    <2>6. Uploads(release') /\ Sidecar \in DOMAIN release'
      <3>1. Uploads(Place(release, Sidecar, asset))
        BY <2>5, UploadsPlace DEF ReleaseInv, Assets
      <3> QED BY <2>5, <3>1 DEF Place
    <2>7. RunOK(r, t, release')
      BY <2>4, <2>5, <2>6 DEF RunOK, Releasing, Publisher, Listing
    <2> QED BY <2>5, <2>6, <2>7, OthersDisturbed
  <1>3. CASE ~Verifies(of)
    BY <1>0, <1>3, FailingKeeps DEF AddProvenance
  <1> QED BY <1>2, <1>3

LEMMA ListingKeeps ==
  ASSUME ReleaseInv, NEW r \in Builder, ListExisting(r) \/ ListRelease(r)
  PROVE  ReleaseInv'
  <1>0. PICK s : s = progress[r]
    OBVIOUS
  <1>1. RunOK(r, s, release) /\ Uploads(release) /\ UNCHANGED <<head, tree, moves, release>>
    BY <1>0 DEF ReleaseInv, ListExisting, ListRelease
  <1>2. CASE ListExisting(r)
    <2>1. Publisher(r, s) /\ Listing(s, release)
      BY <1>0, <1>1, <1>2, RunForms DEF ListExisting, At
    <2>2. PICK old : old = [n \in DOMAIN release \cap DOMAIN s.of |-> release[n].by]
      OBVIOUS
    <2> DEFINE t == [at |-> "upload", of |-> s.of, alone |-> s.alone, old |-> old, left |-> DOMAIN s.of]
    <2>3. Goes(r, t)
      BY <1>0, <1>2, <2>2 DEF ListExisting
    <2>4. Publisher(r, t) /\ Replacing(t, release)
      BY <2>1, <2>2 DEF Publisher, Listing, Replacing
    <2>5. RunOK(r, t, release)
      BY <2>4 DEF RunOK, Releasing
    <2> QED BY <1>1, <2>3, <2>5, OneRunGoes
  <1>3. CASE ListRelease(r)
    <2>1. Publisher(r, s) /\ Replacing(s, release) /\ s.left = {}
      BY <1>0, <1>1, <1>3, RunForms DEF ListRelease, At
    <2> DEFINE t == [at |-> "fetch", of |-> s.of, alone |-> s.alone, assets |-> release]
    <2>2. Goes(r, t)
      BY <1>0, <1>3 DEF ListRelease
    <2>3. Publisher(r, t) /\ Verifying(t)
      BY <1>1, <2>1 DEF Publisher, Verifying, Replacing
    <2>4. RunOK(r, t, release)
      BY <2>3 DEF RunOK, Releasing
    <2> QED BY <1>1, <2>2, <2>4, OneRunGoes
  <1> QED BY <1>2, <1>3

LEMMA DeleteKeeps ==
  ASSUME ReleaseInv, NEW r \in Builder, NEW name \in Assets, DeleteAsset(r, name)
  PROVE  ReleaseInv'
  <1>0. PICK s, old : s = progress[r] /\ old = Without(s.old, name)
    OBVIOUS
  <1>1. Publisher(r, s) /\ Replacing(s, release) /\ name \in DOMAIN s.old /\ Uploads(release)
    BY <1>0, RunForms DEF ReleaseInv, DeleteAsset, At
  <1>2. CASE name \in DOMAIN release /\ release[name].by = s.old[name]
    <2>1. PICK t : t = [s EXCEPT !.old = old]
      OBVIOUS
    <2>2. Disturbed(r, t) /\ release' = Without(release, name) /\ UNCHANGED <<head, tree, moves>>
      BY <1>0, <1>2, <2>1 DEF DeleteAsset
    <2>3. /\ DOMAIN t = DOMAIN s /\ t.at = s.at /\ t.of = s.of /\ t.alone = s.alone /\ t.left = s.left
          /\ t.old = old
      BY <1>1, <2>1 DEF Replacing
    <2>4. DOMAIN old = DOMAIN s.old \ {name} /\ name \in DOMAIN s.of /\ name # Sidecar
      BY <1>0, <1>1, VerifiedHas DEF Without, Replacing, Publisher
    <2>5. DOMAIN release' = DOMAIN release \ {name} /\ \A n \in DOMAIN release' : release'[n] = release[n]
      BY <2>2 DEF Without
    <2>6. Replacing(t, release')
      BY <1>1, <2>3, <2>4, <2>5 DEF Replacing
    <2>7. RunOK(r, t, release')
      BY <1>1, <2>3, <2>6 DEF RunOK, Releasing, Publisher
    <2>8. Uploads(release')
      BY <1>1, <2>2, UploadsWithout
    <2> QED BY <2>2, <2>7, <2>8, OthersDisturbed
  <1>3. CASE ~(name \in DOMAIN release /\ release[name].by = s.old[name])
    BY <1>0, <1>3, FailingKeeps DEF DeleteAsset
  <1> QED BY <1>2, <1>3

LEMMA UploadKeeps ==
  ASSUME ReleaseInv, NEW r \in Builder, NEW name \in Assets, UploadAsset(r, name)
  PROVE  ReleaseInv'
  <1>0. PICK s : s = progress[r]
    OBVIOUS
  <1>1. /\ Publisher(r, s) /\ Replacing(s, release) /\ name \in s.left \ DOMAIN s.old
        /\ Uploads(release)
    BY <1>0, RunForms DEF ReleaseInv, UploadAsset, At
  <1>2. CASE name \notin DOMAIN release
    <2>1. PICK t, asset : t = [s EXCEPT !.left = @ \ {name}] /\ asset = [by |-> r, is |-> s.of[name]]
      OBVIOUS
    <2>2. Disturbed(r, t) /\ release' = Place(release, name, asset) /\ UNCHANGED <<head, tree, moves>>
      BY <1>0, <1>2, <2>1 DEF UploadAsset
    <2>3. /\ DOMAIN t = DOMAIN s /\ t.at = s.at /\ t.of = s.of /\ t.alone = s.alone
          /\ t.left = s.left \ {name} /\ t.old = s.old
      BY <1>1, <2>1 DEF Replacing
    <2>4. name \in DOMAIN s.of /\ name # Sidecar /\ Genuine(name, asset)
      BY <1>1, <2>1, VerifiedHas DEF Replacing, Publisher
    <2>5. /\ DOMAIN release' = DOMAIN release \cup {name} /\ release'[name].is = s.of[name]
          /\ \A n \in DOMAIN release : n # name => release'[n] = release[n]
      BY <2>1, <2>2 DEF Place
    <2>6. Replacing(t, release')
      BY <1>1, <1>2, <2>3, <2>4, <2>5 DEF Replacing
    <2>7. RunOK(r, t, release')
      BY <1>1, <2>3, <2>6 DEF RunOK, Releasing, Publisher
    <2>8. asset = [by |-> asset.by, is |-> asset.is] /\ asset.by \in Workflow
      BY <1>1, <2>1 DEF Publisher
    <2>9. Uploads(release')
      BY <1>1, <2>2, <2>4, <2>8, UploadsPlace
    <2> QED BY <2>2, <2>7, <2>9, OthersDisturbed
  <1>3. CASE name \in DOMAIN release
    BY <1>3, FailingKeeps DEF UploadAsset
  <1> QED BY <1>2, <1>3

LEMMA ConcludeKeeps ==
  ASSUME ReleaseInv, NEW r \in Builder, Conclude(r)
  PROVE  ReleaseInv'
  <1>0. PICK s, got : s = progress[r] /\ got = Fetched(r)
    OBVIOUS
  <1>1. Publisher(r, s) /\ Verifying(s)
    BY <1>0, RunForms DEF ReleaseInv, Conclude, At
  <1>2. PICK t : t = [s EXCEPT !.at = IF Sidecar \in DOMAIN s.assets /\ Verifies(got)
                                   THEN "published" ELSE "refused"]
    OBVIOUS
  <1>3. Goes(r, t) /\ UNCHANGED <<head, tree, moves, release>>
    BY <1>0, <1>2 DEF Conclude
  <1>4. /\ DOMAIN t = DOMAIN s /\ t.of = s.of /\ t.alone = s.alone /\ t.assets = s.assets
        /\ t.at = IF Sidecar \in DOMAIN s.assets /\ Verifies(got) THEN "published" ELSE "refused"
    BY <1>1, <1>2 DEF Verifying
  <1>5. ASSUME t.at = "refused", t.alone, DOMAIN s.assets \subseteq DOMAIN s.of \cup {Sidecar}
        PROVE  FALSE
    <2>1. /\ Sidecar \in DOMAIN s.assets
          /\ \A n \in DOMAIN s.of : n \in DOMAIN s.assets /\ s.assets[n].is = s.of[n]
      BY <1>1, <1>4, <1>5 DEF Verifying
    <2>2. DOMAIN got = DOMAIN s.of \cup {Sidecar} /\ \A n \in DOMAIN s.of : got[n] = s.of[n]
      BY <1>0, <1>5, <2>1 DEF Fetched
    <2>3. Verifies(s.of) /\ Sidecar \notin DOMAIN s.of
      BY <1>1, VerifiedHas DEF Publisher, Verified
    <2>4. Verifies(got)
      BY <2>2, <2>3, ProvenanceApart
    <2> QED BY <1>4, <1>5, <2>1, <2>4
  <1>6. Verifying(t)
    BY <1>1, <1>4, <1>5 DEF Verifying
  <1>7. RunOK(r, t, release)
    BY <1>1, <1>4, <1>6 DEF RunOK, Releasing, Publisher
  <1> QED BY <1>3, <1>7, OneRunGoes

LEMMA RepositoryChanges ==
  ASSUME ReleaseInv, NEW r \in Builder, ChangeRepository(r)
  PROVE  ReleaseInv'
  <1>1. PICK c \in Commits :
          tree' = [tree EXCEPT ![r] = c] /\ (head' = head \/ head' = [head EXCEPT ![r] = c])
    BY DEF ChangeRepository
  <1>2. head' \in [Builder -> Commits] /\ tree' \in [Builder -> Commits]
    BY <1>1 DEF ReleaseInv, RepositoryOK
  <1>3. moves' \in 0..MaxMoves
    BY ReleaseAssumption DEF ReleaseInv, RepositoryOK, ChangeRepository
  <1>4. UNCHANGED <<progress, release>>
    BY DEF ChangeRepository
  <1> QED BY <1>2, <1>3, <1>4 DEF ReleaseInv, RepositoryOK

LEMMA ReleaseBegins == ReleaseInit => ReleaseInv
  <1> SUFFICES ASSUME ReleaseInit PROVE ReleaseInv
    OBVIOUS
  <1>1. RepositoryOK
    BY ReleaseAssumption DEF ReleaseInit, RepositoryOK
  <1>2. Uploads(release)
    BY DEF ReleaseInit, Nothing, Uploads
  <1>3. ASSUME NEW r \in Builder PROVE RunOK(r, progress[r], release)
    BY DEF ReleaseInit, Idle, RunOK, AtRest
  <1> QED BY <1>1, <1>2, <1>3 DEF ReleaseInv, ReleaseInit

LEMMA ReleaseNextHolds == ReleaseInv /\ [ReleaseNext]_releaseVars => ReleaseInv'
  <1> SUFFICES ASSUME ReleaseInv, [ReleaseNext]_releaseVars PROVE ReleaseInv'
    OBVIOUS
  <1>1. CASE UNCHANGED releaseVars
    BY <1>1 DEF releaseVars, ReleaseInv, RepositoryOK
  <1>2. ASSUME NEW r \in Builder, MissAsset(r) \/ StopRun(r)
        PROVE  ReleaseInv'
    BY <1>2, FailingKeeps DEF MissAsset, StopRun
  <1> QED BY <1>1, <1>2, BuildingKeeps, ProvenanceKeeps, ListingKeeps, DeleteKeeps, UploadKeeps,
             ConcludeKeeps, RepositoryChanges DEF ReleaseNext

(* Releases keep their promises, for any number of workflow runs, builders, *)
(* profiles and commits: what verifies is one build that passed its checks, *)
(* a run that was alone is published, and builds verify (verify_release_dir, *)
(* verify_sha256sums, gh release upload --clobber).                         *)
THEOREM ReleasesAlwaysSound == ReleaseSpec => [](ReleasesSound /\ ReleaseTypeOK)
  <1>1. ReleaseSpec => []ReleaseInv
    BY ReleaseBegins, ReleaseNextHolds, PTL DEF ReleaseSpec
  <1> QED BY <1>1, ReleaseTold, PTL

------------------------------------------------------------------------------
(* The parts together.                                                      *)

(* What an analyst is about to insert are tasks.                            *)
Asked == {"REQUESTED", "VALIDATION_REQUIRED", "COLLECTED"}
TasksOK ==
  /\ DOMAIN tasks \subseteq Artifact /\ \A a \in DOMAIN tasks : tasks[a] \in Asked
  /\ analyst = [w \in Analyst |-> analyst[w]]
  /\ \A w \in Analyst : analyst[w].at = "assessed" =>
       /\ DOMAIN analyst[w].wants \subseteq Artifact
       /\ \A a \in DOMAIN analyst[w].wants : analyst[w].wants[a] \in Asked
  /\ trust \in {"none", "valid", "invalid"} /\ changes \in 0..MaxChanges

LEMMA TasksBegin == ClosureInit => TasksOK
BY ClosureAssumption DEF ClosureInit, TasksOK, Resting

LEMMA TasksHold == TasksOK /\ [ClosureNext]_closureVars => TasksOK'
<1> SUFFICES ASSUME TasksOK, [ClosureNext]_closureVars PROVE TasksOK'
  OBVIOUS
<1> USE DEF TasksOK
<1>1. ASSUME NEW w \in Analyst, AssessForTasks(w) PROVE TasksOK'
  <2>1. PICK wanted \in SUBSET Artifact :
          analyst' = [analyst EXCEPT ![w] =
            [at |-> "assessed", wants |-> [a \in wanted |->
               IF Present(a) = {} THEN "REQUESTED" ELSE "VALIDATION_REQUIRED"]]]
    BY <1>1 DEF AssessForTasks
  <2> DEFINE wants == [a \in wanted |-> IF Present(a) = {} THEN "REQUESTED" ELSE "VALIDATION_REQUIRED"]
  <2>2. \A v \in Analyst : analyst'[v] = IF v = w THEN [at |-> "assessed", wants |-> wants] ELSE analyst[v]
    BY <2>1
  <2>3. DOMAIN wants \subseteq Artifact /\ \A a \in DOMAIN wants : wants[a] \in Asked
    BY DEF Asked
  <2>4. analyst' = [v \in Analyst |-> analyst'[v]]
    BY <2>1
  <2> HIDE DEF wants
  <2>5. UNCHANGED <<tasks, trust, changes>>
    BY <1>1 DEF AssessForTasks, Command, evidenceVars
  <2> QED
    BY <2>2, <2>3, <2>4, <2>5
<1>2. ASSUME NEW w \in Analyst, InsertTasks(w) PROVE TasksOK'
  <2> DEFINE wants == analyst[w].wants
  <2>1. tasks' = [a \in DOMAIN tasks \cup DOMAIN wants |-> IF a \in DOMAIN tasks THEN tasks[a] ELSE wants[a]]
    BY <1>2 DEF InsertTasks
  <2>2. DOMAIN wants \subseteq Artifact /\ \A a \in DOMAIN wants : wants[a] \in Asked
    BY <1>2 DEF InsertTasks
  <2>3. analyst' = [analyst EXCEPT ![w] = Resting] /\ UNCHANGED <<trust, changes>>
    BY <1>2 DEF InsertTasks, Command, evidenceVars
  <2>4. DOMAIN tasks' \subseteq Artifact /\ \A a \in DOMAIN tasks' : tasks'[a] \in Asked
    BY <2>1, <2>2
  <2>5. analyst' = [v \in Analyst |-> analyst'[v]]
        /\ \A v \in Analyst : analyst'[v] = IF v = w THEN Resting ELSE analyst[v]
    BY <2>3
  <2> QED
    BY <2>3, <2>4, <2>5 DEF Resting
<1>3. ASSUME NEW a \in Artifact, NEW s \in Asked, UpdateTask(a, s) PROVE TasksOK'
  BY <1>3 DEF UpdateTask, Command, evidenceVars
<1>4. CASE EvidenceStep \/ ActivityStep \/ Assessment \/ UNCHANGED closureVars
  <2>1. UNCHANGED <<tasks, analyst>>
    BY <1>4 DEF EvidenceStep, ActivityStep, Assessment, Acquire, Damage, Flag, VerifyManifest, Trace,
                ReadTrace, WriteOpen, Review, PeerReview, Others, AssessClosure, taskVars, closureVars
  <2>2. UNCHANGED trust \/ trust' \in {"valid", "invalid"}
    BY <1>4 DEF EvidenceStep, ActivityStep, Assessment, Acquire, Damage, Flag, VerifyManifest, Trace,
                ReadTrace, WriteOpen, Review, PeerReview, Others, AssessClosure, evidenceVars, closureVars
  <2>3. UNCHANGED changes \/ Happens
    BY <1>4 DEF EvidenceStep, ActivityStep, Assessment, Acquire, Damage, Flag, VerifyManifest, Trace,
                ReadTrace, WriteOpen, Review, PeerReview, Others, AssessClosure, Command, closureVars
  <2>4. changes' \in 0..MaxChanges
    BY <2>3, ClosureAssumption DEF Happens
  <2> QED
    BY <2>1, <2>2, <2>4
<1> QED
  BY <1>1, <1>2, <1>3, <1>4 DEF ClosureNext, TaskStep, Asked

LEMMA ClosureTyped == ClosureInv /\ TasksOK => ClosureTypeOK
BY DEF ClosureInv, ManifestOK, TraceOK, TasksOK, Asked, ClosureTypeOK, ClosureEvent

(* The types of the guard need neither the file nor a single thread.        *)
LEMMA GuardTyped == GuardTypeOK /\ [GuardNext]_guardVars => GuardTypeOK'
<1> SUFFICES ASSUME GuardTypeOK, [GuardNext]_guardVars PROVE GuardTypeOK'
  OBVIOUS
<1> USE DEF GuardTypeOK
<1>1. ASSUME NEW t \in Thread, NEW c \in Call \cup {Free}, Go(t, c)
      PROVE  thread' \in [Thread -> Call \cup {Free}]
  BY <1>1 DEF Go
<1>2. ASSUME NEW c \in Control, Replace(c) PROVE GuardTypeOK'
  BY <1>2, AppendProperties DEF Replace
<1>3. ASSUME NEW t \in Thread,
             (\E question \in Question : Ask(t, question)) \/ Refresh(t) \/ Decide(t) \/ Detail(t) \/ Return(t)
      PROVE  GuardTypeOK'
  <2>0. Len(controls) \in Nat
    BY LenProperties
  <2>1. /\ controls' = controls
        /\ payload' \in {payload, 0} \/ StorePayload(t)
        /\ signature' \in {signature, 0} \/ StoreSignature(t)
        /\ lock' \in {lock, t, NoThread}
    BY <1>3 DEF Ask, Refresh, Stat, ClearPayload, ClearSignature, Known, TakeLock, KnownByNow, Read,
                StorePayload, StoreSignature, Decide, Detail, Return
  <2>2. PICK s \in Call \cup {Free} : s = thread[t]
    OBVIOUS
  <2>3. s.at \notin {"idle", "asked", "answered"} => s.request \in Question /\ s.since \in Nat /\ s.sig \in Nat
    BY <2>2 DEF Call, Free
  <2>4. s.at \in {"verified", "stored"} => s.read \in Nat
    BY <2>2 DEF Call, Free
  <2>5. s.at \in {"asked", "detail"} => s.request \in Question /\ s.since \in Nat
    BY <2>2 DEF Call, Free
  <2>6. payload' \in Nat
    BY <2>1, <2>2, <2>4 DEF StorePayload, Doing
  <2>7. signature' \in Nat
    BY <2>1, <2>2, <2>3 DEF StoreSignature, Doing
  <2>8. ASSUME NEW at \in {"cleared", "locked", "decide"}, Go(t, Step(t, at)),
               s.at \notin {"idle", "asked", "answered"}
        PROVE  thread' \in [Thread -> Call \cup {Free}]
    <3>1. Step(t, at) \in Call
      BY <2>2, <2>3, <2>8 DEF Step, Call
    <3> QED
      BY <1>1, <2>8, <3>1
  <2>9. ASSUME NEW allowed \in BOOLEAN, NEW by \in Nat, Answer(t, allowed, by), s.at \in {"decide", "detail"}
        PROVE  thread' \in [Thread -> Call \cup {Free}]
    <3> DEFINE c == [at |-> "answered", request |-> s.request, since |-> s.since, allowed |-> allowed, by |-> by]
    <3>1. c \in Call
      BY <2>3, <2>9 DEF Call
    <3>2. Go(t, c)
      BY <2>2, <2>9 DEF Answer
    <3> HIDE DEF c
    <3> QED
      BY <1>1, <3>1, <3>2
  <2>10. Free \in Call \cup {Free}
    OBVIOUS
  <2>11. thread' \in [Thread -> Call \cup {Free}]
    <3>1. ASSUME NEW question \in Question, Ask(t, question) PROVE thread' \in [Thread -> Call \cup {Free}]
      <4>1. [at |-> "asked", request |-> question, since |-> Len(controls)] \in Call
        BY <2>0 DEF Call
      <4> QED
        BY <1>1, <3>1, <4>1 DEF Ask
    <3>2. CASE Stat(t)
      <4> DEFINE c == [at |-> IF controls = <<>> THEN "missing" ELSE "waiting",
                       request |-> s.request, since |-> s.since, sig |-> Len(controls)]
      <4>1. c \in Call
        BY <2>0, <2>2, <2>5, <3>2 DEF Call, Stat, Doing
      <4>2. Go(t, c)
        BY <2>2, <3>2 DEF Stat
      <4> HIDE DEF c
      <4> QED
        BY <1>1, <4>1, <4>2
    <3>3. CASE ClearPayload(t) \/ ClearSignature(t) \/ Known(t) \/ TakeLock(t) \/ KnownByNow(t) \/ StoreSignature(t)
      BY <2>2, <2>8, <3>3 DEF ClearPayload, ClearSignature, Known, TakeLock, KnownByNow, StoreSignature, Doing
    <3>4. CASE Read(t)
      <4> DEFINE c == [at |-> "verified", request |-> s.request, since |-> s.since, sig |-> s.sig,
                       read |-> Len(controls)]
      <4>1. c \in Call
        BY <2>0, <2>2, <2>3, <3>4 DEF Call, Read, Doing
      <4>2. Go(t, c) \/ Go(t, Free)
        BY <2>2, <3>4 DEF Read
      <4> HIDE DEF c
      <4> QED
        BY <1>1, <2>10, <4>1, <4>2
    <3>5. CASE StorePayload(t)
      <4>1. PICK c : c = [s EXCEPT !.at = "stored"]
        OBVIOUS
      <4>2. s \in [at : {"verified", "stored"}, request : Question, since : Nat, sig : Nat, read : Nat]
        BY <2>2, <3>5 DEF StorePayload, Doing, Call, Free
      <4>3. c \in Call
        BY <4>1, <4>2 DEF Call
      <4>4. thread' = [thread EXCEPT ![t] = c]
        BY <2>2, <3>5, <4>1 DEF StorePayload
      <4> QED
        BY <4>3, <4>4
    <3>6. CASE Decide(t)
      <4>1. CASE \E allowed \in BOOLEAN : Answer(t, allowed, payload)
        BY <2>2, <2>9, <3>6, <4>1 DEF Decide, Doing
      <4> DEFINE c == [at |-> "detail", request |-> s.request, since |-> s.since, sig |-> s.sig, mode |-> payload]
      <4>2. CASE Go(t, c)
        <5>1. c \in Call
          BY <2>2, <2>3, <3>6 DEF Call, Decide, Doing
        <5> HIDE DEF c
        <5> QED
          BY <1>1, <4>2, <5>1
      <4>3. Go(t, c) \/ \E allowed \in BOOLEAN : Answer(t, allowed, payload)
        BY <2>2, <2>3, <3>6 DEF Decide, Doing, Question
      <4> QED
        BY <4>1, <4>2, <4>3
    <3>7. CASE Detail(t)
      <4>1. Listed(payload) \in BOOLEAN /\ s.mode \in Nat /\ s.at = "detail"
        BY <2>2, <3>7 DEF Detail, Doing, Listed, Call, Free
      <4>2. PICK found \in BOOLEAN : Answer(t, found, s.mode)
        BY <2>2, <3>7, <4>1 DEF Detail
      <4> QED
        BY <2>9, <4>1, <4>2
    <3>8. CASE Return(t)
      BY <1>1, <2>10, <3>8 DEF Return
    <3> QED
      BY <1>3, <3>1, <3>2, <3>3, <3>4, <3>5, <3>6, <3>7, <3>8 DEF Refresh
  <2> QED
    BY <2>1, <2>6, <2>7, <2>11
<1> QED
  BY <1>2, <1>3 DEF GuardNext, guardVars

(* Whichever part is at work, each of the five goes on by steps of its own. *)
LEMMA EachGoesOn ==
  ASSUME [AssuranceNext]_<<part, assuranceVars>>
  PROVE  /\ [HoldNext]_holdVars /\ [ClosureNext]_closureVars /\ [ReleaseNext]_releaseVars
         /\ [RestoreNext]_restoreVars /\ [GuardNext]_guardVars
BY DEF AssuranceNext, assuranceVars, ClosureNext

LEMMA EachBegins ==
  AssuranceInit => HoldInit /\ ClosureInit /\ ReleaseInit /\ RestoreInit /\ GuardInit
BY DEF AssuranceInit, ClosureRests, ReleaseRests, GuardRests

(* Side by side as they are checked, the parts keep their types and, without *)
(* further assumptions, these of their promises: no case is ready to close  *)
(* unsupported, what is published is one build, no object is held without a *)
(* record, and no policy or root is lost for good with a database file.     *)
THEOREM PartsKeepPromises ==
  AssuranceSpec =>
    /\ []AssuranceTypeOK /\ []ClosureSound /\ []ReleasesSound /\ []RestoreRecovers
    /\ HeldOnRecord
<1>1. AssuranceSpec => HoldSpec /\ ClosureSpec /\ ReleaseSpec /\ RestoreSpec /\ GuardSpec
  BY EachBegins, EachGoesOn, PTL
     DEF AssuranceSpec, HoldSpec, ClosureSpec, ReleaseSpec, RestoreSpec, GuardSpec
<1>2. ClosureSpec => []ClosureTypeOK
  BY ClosureBegins, ClosureNextHolds, TasksBegin, TasksHold, ClosureTyped, PTL DEF ClosureSpec
<1>3. RestoreSpec => []TypeOK
  <2>1. RestoreInv => TypeOK
    BY DEF RestoreInv, IInv
  <2> QED
    BY <2>1, RestoreBegins, RestoreHolds, PTL DEF RestoreSpec
<1>4. GuardSpec => []GuardTypeOK
  <2>1. GuardInit => GuardTypeOK
    <3> SUFFICES ASSUME GuardInit PROVE GuardTypeOK
      OBVIOUS
    <3>1. controls \in Seq(Control)
      <4>1. CASE controls = <<>>
        BY <4>1
      <4>2. CASE controls # <<>>
        <5>1. PICK c \in Control : controls = <<c>>
          BY <4>2 DEF GuardInit
        <5> QED
          BY <5>1
      <4> QED
        BY <4>1, <4>2
    <3> QED
      BY <3>1 DEF GuardInit, GuardTypeOK
  <2> QED
    BY <2>1, GuardTyped, PTL DEF GuardSpec
<1>5. HoldTypeOK /\ ClosureTypeOK /\ ReleaseTypeOK /\ TypeOK /\ GuardTypeOK => AssuranceTypeOK
  BY DEF AssuranceTypeOK, Of
<1> QED
  BY <1>1, <1>2, <1>3, <1>4, <1>5, HoldTypeCorrect, OnlyHeldOnRecord, ClosureAlwaysSound,
     ReleasesAlwaysSound, RestoreAlwaysRecovers, PTL
==============================================================================

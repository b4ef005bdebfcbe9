------------------------- MODULE ContainmentProofs --------------------------
(***************************************************************************)
(* Theorems about containment, for every set of alerts and incidents, every *)
(* way their plans are made, and every bound.                               *)
(***************************************************************************)
EXTENDS Containment, SequenceTheorems, WellFoundedInduction, TLAPS

Written(c) == \E n \in DOMAIN controls : controls[n] = c

(* An execution that may still come to write a control which its plan does  *)
(* not allow without evidence.                                              *)
Owns(x, i) == exec[x].at \in {"preserving", "preserved"} /\ exec[x].incident = i

(* Of the executions of a plan, at most one owns the preservation directory *)
(* at a time, and it has not written the control yet.                       *)
OwnerOK ==
  \A i \in Incident \ Anyway : \A x \in Executor :
    Owns(x, i) =>
      /\ pre[i] = IF exec[x].at = "preserving" THEN "started" ELSE "sealed"
      /\ ~Written(Containing(i))
      /\ \A y \in Executor : Owns(y, i) => y = x

(* A case without a directory has no control.                               *)
UntouchedOK ==
  \A i \in Incident \ Anyway : pre[i] = "none" => ~Written(Containing(i))

(* A release is of a request, was checked when the control that the request *)
(* names was the newest, and comes after that control.                      *)
SpentOK ==
  \A n \in DOMAIN controls : controls[n].mode = "released" =>
    /\ controls[n].request \in DOMAIN requests
    /\ controls[n].checked = requests[controls[n].request]
    /\ controls[n].checked < n

(* So were the releases that are not written yet, however many there are.   *)
GateOK ==
  \A r \in Releaser : release[r] # Resting =>
    /\ release[r].request \in DOMAIN requests
    /\ release[r].checked = requests[release[r].request]

Safe ==
  /\ EvidenceFirst /\ ContainedOnce /\ OwnerOK /\ UntouchedOK
  /\ SpentOnceReleased /\ SpentOK /\ GateOK

(* What a batch handles and has to do are alerts the collector has.         *)
BatchOK ==
  responder # Resting =>
    /\ responder.handled \cup responder.todo \subseteq raised
    /\ responder.at = "waiting" => responder.todo # {}

IInv == TypeOK /\ BatchOK /\ Safe

-----------------------------------------------------------------------------
(* Controls, and the history of the file.                                   *)

LEMMA ControlsDiffer ==
  /\ \A i, j : Containing(i) = Containing(j) => i = j
  /\ \A i, q, c : Containing(i) # Releasing(q, c)
  /\ \A i : Containing(i).mode = "contained"
  /\ \A q, c : /\ Releasing(q, c).mode = "released"
               /\ Releasing(q, c).request = q /\ Releasing(q, c).checked = c
<1>1. \A i, j : Containing(i) = Containing(j) => i = j
  <2> SUFFICES ASSUME NEW i, NEW j, Containing(i) = Containing(j) PROVE i = j
    OBVIOUS
  <2>1. Containing(i).incident = i /\ Containing(j).incident = j
    BY DEF Containing
  <2> QED
    BY <2>1
<1>2. \A i : Containing(i).mode = "contained"
  BY DEF Containing
<1>3. \A q, c : /\ Releasing(q, c).mode = "released"
               /\ Releasing(q, c).request = q /\ Releasing(q, c).checked = c
  BY DEF Releasing
<1>4. \A i, q, c : Containing(i) # Releasing(q, c)
  <2> SUFFICES ASSUME NEW i, NEW q, NEW c PROVE Containing(i) # Releasing(q, c)
    OBVIOUS
  <2> QED
    BY <1>2, <1>3
<1> QED
  BY <1>1, <1>2, <1>3, <1>4

LEMMA Appended ==
  ASSUME NEW S, NEW s \in Seq(S), NEW e \in S
  PROVE  /\ Append(s, e) \in Seq(S)
         /\ Len(s) \in Nat
         /\ DOMAIN s = 1..Len(s) /\ DOMAIN Append(s, e) = 1..Len(s) + 1
         /\ \A n \in 1..Len(s) : Append(s, e)[n] = s[n]
         /\ Append(s, e)[Len(s) + 1] = e
  BY AppendProperties, LenProperties

LEMMA ContainingTyped ==
  ASSUME NEW i \in Incident
  PROVE  Containing(i) \in Control
<1>1. Containing(i) \in [mode : {"contained"}, incident : Incident]
  BY DEF Containing
<1> QED
  BY <1>1 DEF Control

(* What the steps do to the execution under way.                            *)
LEMMA Becoming ==
  ASSUME TypeOK, NEW x \in Executor, exec[x] # Resting,
         NEW at \in {"loaded", "preserving", "failed", "preserved", "contained"}, Become(x, at)
  PROVE  /\ exec' \in [Executor -> Execution \cup {Resting}]
         /\ exec'[x] = [at |-> at, incident |-> exec[x].incident]
         /\ exec'[x].at = at /\ exec'[x].incident = exec[x].incident
         /\ exec[x].incident \in Incident
         /\ \A y \in Executor : y # x => exec'[y] = exec[y]
<1>1. exec[x] \in Execution
  BY DEF TypeOK
<1>2. exec[x].incident \in Incident
  BY <1>1 DEF Execution
<1>3. [exec[x] EXCEPT !.at = at] = [at |-> at, incident |-> exec[x].incident]
  BY <1>1 DEF Execution
<1>4. exec' = [exec EXCEPT ![x] = [at |-> at, incident |-> exec[x].incident]]
  BY <1>3 DEF Become
<1>5. [at |-> at, incident |-> exec[x].incident] \in Execution
  BY <1>2 DEF Execution
<1>6. exec'[x] = [at |-> at, incident |-> exec[x].incident]
  BY <1>4 DEF TypeOK
<1>7. exec'[x].at = at /\ exec'[x].incident = exec[x].incident
  BY <1>6
<1> HIDE DEF Execution, Resting
<1> QED
  BY <1>2, <1>4, <1>5, <1>6, <1>7 DEF TypeOK


(* What each group of variables is.                                         *)
AlertsOK ==
  /\ raised \subseteq Alert /\ handled \subseteq raised
  /\ responder \in Batch \cup {Resting}
  /\ BatchOK
CasesOK ==
  /\ pre \in [Incident -> {"none", "started", "sealed"}]
  /\ post \in [Incident -> BOOLEAN]
  /\ result \in [Incident -> {"none", "ABORTED", "CONTAINED", "INCOMPLETE"}]
ExecOK == exec \in [Executor -> Execution \cup {Resting}]
ExecutionsOK == plans \subseteq Incident /\ CasesOK /\ ExecOK
FileOK ==
  /\ controls \in Seq(Control)
  /\ requests \in Seq(1..Len(controls)) /\ Len(requests) <= MaxRequests
  /\ approved \subseteq DOMAIN requests
  /\ release \in [Releaser -> Release \cup {Resting}]
  /\ \A r \in Releaser : release[r] # Resting => release[r].request \in approved
BudgetOK == budget \in [faults : 0..MaxFaults, crashes : 0..MaxCrashes, hand : 0..MaxHand]

LEMMA Grouped ==
  TypeOK /\ BatchOK <=> AlertsOK /\ ExecutionsOK /\ FileOK /\ BudgetOK
BY DEF TypeOK, AlertsOK, ExecutionsOK, CasesOK, ExecOK, FileOK, BudgetOK

-----------------------------------------------------------------------------
(* Safe, step by step.                                                      *)

LEMMA InitSafe == Init => Safe
<1> SUFFICES ASSUME Init PROVE Safe
  OBVIOUS
<1>1. /\ DOMAIN controls = {} /\ DOMAIN requests = {}
      /\ \A r \in Releaser : release[r] = Resting
  BY DEF Init
<1>2. \A x \in Executor : exec[x].at = "idle"
  BY DEF Init, Resting
<1> QED
  BY <1>1, <1>2 DEF Safe, EvidenceFirst, ContainedOnce, OwnerOK, UntouchedOK, SpentOnceReleased,
     SpentOK, GateOK, Owns, Written

(* A step that leaves files, requests and the gate be, and lets no execution *)
(* come to own a directory.                                                 *)
LEMMA NoNewOwner ==
  ASSUME Safe, UNCHANGED <<pre, controls, requests, release>>,
         \A x \in Executor : exec'[x] = exec[x] \/ exec'[x].at \notin {"preserving", "preserved"}
  PROVE  Safe'
<1>1. \A i, c : \A x \in Executor : (Owns(x, i)' => Owns(x, i) /\ exec'[x] = exec[x])
                                    /\ (Written(c)' <=> Written(c))
  BY DEF Owns, Written
<1>2. OwnerOK'
  BY <1>1 DEF Safe, OwnerOK
<1>3. UntouchedOK' /\ GateOK'
  BY DEF Safe, UntouchedOK, GateOK, Written
<1>4. EvidenceFirst' /\ ContainedOnce' /\ SpentOnceReleased' /\ SpentOK'
  BY DEF Safe, EvidenceFirst, ContainedOnce, SpentOnceReleased, SpentOK
<1> QED
  BY <1>2, <1>3, <1>4 DEF Safe

LEMMA MakeDirectorySafe ==
  ASSUME IInv, NEW x \in Executor, MakeDirectory(x)
  PROVE  Safe'
<1>1. exec[x] # Resting /\ UNCHANGED <<controls, requests, release>>
  BY DEF MakeDirectory, At, Resting, OthersUnchanged, gateVars
<1> DEFINE i == exec[x].incident
<1>2. CASE pre[i] # "none"
  <2>1. Become(x, "failed") /\ UNCHANGED pre
    BY <1>2 DEF MakeDirectory
  <2>2. \A y \in Executor : exec'[y] = exec[y] \/ exec'[y].at = "failed"
    BY <1>1, <2>1, Becoming DEF IInv
  <2> QED
    BY <1>1, <2>1, <2>2, NoNewOwner DEF IInv
<1>3. CASE pre[i] = "none"
  <2>1. Become(x, "preserving") /\ pre' = [pre EXCEPT ![i] = "started"]
    BY <1>3 DEF MakeDirectory
  <2>2. /\ exec'[x] = [at |-> "preserving", incident |-> i] /\ i \in Incident
        /\ \A y \in Executor : y # x => exec'[y] = exec[y]
    BY <1>1, <2>1, Becoming DEF IInv
  <2>3. /\ pre'[i] = "started"
        /\ \A j \in Incident : j # i => pre'[j] = pre[j]
    BY <2>1, <2>2 DEF IInv, TypeOK
  <2>4. \A c : Written(c)' <=> Written(c)
    BY <1>1 DEF Written
  <2>5. \A j : \A y \in Executor : Owns(y, j)' <=> IF y = x THEN j = i ELSE Owns(y, j)
    BY <2>2 DEF Owns
  <2>6. ASSUME i \notin Anyway
        PROVE  ~Written(Containing(i)) /\ \A y \in Executor : ~Owns(y, i)
    <3>1. i \in Incident \ Anyway
      BY <2>2, <2>6
    <3>2. ~Written(Containing(i))
      BY <1>3, <3>1 DEF IInv, Safe, UntouchedOK
    <3>3. \A y \in Executor : ~Owns(y, i)
      BY <1>3, <3>1 DEF IInv, Safe, OwnerOK
    <3> QED
      BY <3>2, <3>3
  <2>7. OwnerOK'
    <3> SUFFICES ASSUME NEW j \in Incident \ Anyway, NEW y \in Executor, Owns(y, j)'
                 PROVE  /\ pre'[j] = IF exec'[y].at = "preserving" THEN "started" ELSE "sealed"
                        /\ ~Written(Containing(j))'
                        /\ \A z \in Executor : Owns(z, j)' => z = y
      BY DEF OwnerOK
    <3>1. CASE j = i
      BY <2>2, <2>3, <2>4, <2>5, <2>6, <3>1
    <3>2. CASE j # i
      <4>1. y # x /\ Owns(y, j) /\ exec'[y] = exec[y]
        BY <2>2, <2>5, <3>2
      <4> QED
        BY <2>3, <2>4, <2>5, <3>2, <4>1 DEF IInv, Safe, OwnerOK
    <3> QED
      BY <3>1, <3>2
  <2>8. EvidenceFirst'
    <3> SUFFICES ASSUME NEW j \in Incident \ Anyway, NEW n \in DOMAIN controls,
                        controls[n] = Containing(j)
                 PROVE  pre'[j] = "sealed"
      BY <1>1 DEF EvidenceFirst
    <3>1. Written(Containing(j))
      BY DEF Written
    <3>2. j # i
      BY <2>6, <3>1
    <3> QED
      BY <2>3, <3>2 DEF IInv, Safe, EvidenceFirst
  <2>9. UntouchedOK'
    BY <2>2, <2>3, <2>4 DEF IInv, Safe, UntouchedOK
  <2>10. ContainedOnce' /\ SpentOnceReleased' /\ SpentOK' /\ GateOK'
    BY <1>1 DEF IInv, Safe, ContainedOnce, SpentOnceReleased, SpentOK, GateOK, Written
  <2> QED
    BY <2>7, <2>8, <2>9, <2>10 DEF Safe
<1> QED
  BY <1>2, <1>3

LEMMA SealSafe ==
  ASSUME IInv, NEW x \in Executor, Seal(x)
  PROVE  Safe'
<1> DEFINE i == exec[x].incident
<1>1. /\ exec[x] # Resting /\ exec[x].at = "preserving"
      /\ Become(x, "preserved") /\ pre' = [pre EXCEPT ![i] = "sealed"]
      /\ UNCHANGED <<controls, requests, release>>
  BY DEF Seal, At, Resting, OthersUnchanged, gateVars
<1>2. /\ exec'[x].at = "preserved" /\ exec'[x].incident = i /\ i \in Incident
      /\ \A y \in Executor : y # x => exec'[y] = exec[y]
  BY <1>1, Becoming DEF IInv
<1>3. /\ pre'[i] = "sealed"
      /\ \A j \in Incident : j # i => pre'[j] = pre[j]
  BY <1>1, <1>2 DEF IInv, TypeOK
<1>4. \A c : Written(c)' <=> Written(c)
  BY <1>1 DEF Written
<1>5. \A j : \A y \in Executor : Owns(y, j)' <=> Owns(y, j)
  BY <1>1, <1>2 DEF Owns
<1>6. OwnerOK'
  <2> SUFFICES ASSUME NEW j \in Incident \ Anyway, NEW y \in Executor, Owns(y, j)'
               PROVE  /\ pre'[j] = IF exec'[y].at = "preserving" THEN "started" ELSE "sealed"
                      /\ ~Written(Containing(j))'
                      /\ \A z \in Executor : Owns(z, j)' => z = y
    BY DEF OwnerOK
  <2>1. ~Written(Containing(j)) /\ \A z \in Executor : Owns(z, j) => z = y
    BY <1>5 DEF IInv, Safe, OwnerOK
  <2>2. CASE y = x
    <3>1. j = i
      BY <1>2, <2>2 DEF Owns
    <3> QED
      BY <1>2, <1>3, <1>4, <1>5, <2>1, <2>2, <3>1
  <2>3. CASE y # x
    <3>1. exec'[y] = exec[y] /\ Owns(y, j)
      BY <1>2, <1>5, <2>3
    <3>2. j # i
      BY <1>1, <2>1, <2>3 DEF Owns
    <3>3. pre[j] = IF exec[y].at = "preserving" THEN "started" ELSE "sealed"
      BY <3>1 DEF IInv, Safe, OwnerOK
    <3> QED
      BY <1>3, <1>4, <1>5, <2>1, <3>1, <3>2, <3>3
  <2> QED
    BY <2>2, <2>3
<1>7. EvidenceFirst' /\ UntouchedOK'
  BY <1>1, <1>2, <1>3, <1>4 DEF IInv, Safe, EvidenceFirst, UntouchedOK
<1>8. ContainedOnce' /\ SpentOnceReleased' /\ SpentOK' /\ GateOK'
  BY <1>1 DEF IInv, Safe, ContainedOnce, SpentOnceReleased, SpentOK, GateOK, Written
<1> QED
  BY <1>6, <1>7, <1>8 DEF Safe

(* An execution that owns nothing goes on only if its plan says             *)
(* contain_anyway.                                                          *)
LEMMA PreservationFailedSafe ==
  ASSUME IInv, NEW x \in Executor, PreservationFailed(x)
  PROVE  Safe'
<1> DEFINE i == exec[x].incident
<1>1. exec[x] # Resting /\ exec[x].at = "failed" /\ UNCHANGED <<pre, controls, requests, release>>
  BY DEF PreservationFailed, At, Resting, OthersUnchanged, gateVars
<1>2. CASE i \in Anyway
  <2>1. Become(x, "preserved")
    BY <1>2 DEF PreservationFailed
  <2>2. exec'[x].incident = i /\ \A y \in Executor : y # x => exec'[y] = exec[y]
    BY <1>1, <2>1, Becoming DEF IInv
  <2>3. \A j \in Incident \ Anyway : \A y \in Executor :
          Owns(y, j)' => Owns(y, j) /\ exec'[y] = exec[y]
    BY <1>2, <2>2 DEF Owns
  <2>4. \A c : Written(c)' <=> Written(c)
    BY <1>1 DEF Written
  <2>5. OwnerOK'
    BY <1>1, <2>3, <2>4 DEF IInv, Safe, OwnerOK
  <2>6. UntouchedOK' /\ GateOK' /\ EvidenceFirst' /\ ContainedOnce' /\ SpentOnceReleased' /\ SpentOK'
    BY <1>1 DEF IInv, Safe, UntouchedOK, GateOK, Written, EvidenceFirst, ContainedOnce,
       SpentOnceReleased, SpentOK
  <2> QED
    BY <2>5, <2>6 DEF Safe
<1>3. CASE i \notin Anyway
  <2>1. exec' = [exec EXCEPT ![x] = Resting]
    BY <1>3 DEF PreservationFailed, End
  <2>2. \A y \in Executor : exec'[y] = exec[y] \/ exec'[y] = Resting
    BY <2>1 DEF IInv, TypeOK
  <2> QED
    BY <1>1, <2>2, NoNewOwner DEF IInv, Resting
<1> QED
  BY <1>2, <1>3

LEMMA CreateControlSafe ==
  ASSUME IInv, NEW x \in Executor, CreateControl(x)
  PROVE  Safe'
<1> DEFINE i == exec[x].incident
<1>1. exec[x] # Resting /\ exec[x].at = "preserved" /\ UNCHANGED <<pre, requests, release>>
  BY DEF CreateControl, At, Resting, OthersUnchanged, gateVars, caseVars
<1>2. CASE i \in Unroutable
  <2>1. exec' = [exec EXCEPT ![x] = Resting] /\ UNCHANGED controls
    BY <1>2 DEF CreateControl, End
  <2>2. \A y \in Executor : exec'[y] = exec[y] \/ exec'[y] = Resting
    BY <2>1 DEF IInv, TypeOK
  <2> QED
    BY <1>1, <2>1, <2>2, NoNewOwner DEF IInv, Resting
<1>3. CASE i \notin Unroutable
  <2>1. controls' = Append(controls, Containing(i)) /\ Become(x, "contained")
    BY <1>3 DEF CreateControl
  <2>2. /\ exec'[x].at = "contained" /\ i \in Incident
        /\ \A y \in Executor : y # x => exec'[y] = exec[y]
    BY <1>1, <2>1, Becoming DEF IInv
  <2>3. controls \in Seq(Control) /\ Containing(i) \in Control
    BY <2>2, ContainingTyped DEF IInv, TypeOK
  <2>4. /\ Len(controls) \in Nat
        /\ DOMAIN controls = 1..Len(controls) /\ DOMAIN controls' = 1..Len(controls) + 1
        /\ \A n \in 1..Len(controls) : controls'[n] = controls[n]
        /\ controls'[Len(controls) + 1] = Containing(i)
    BY <2>1, <2>3, Appended
  <2>5. \A c : Written(c)' <=> Written(c) \/ c = Containing(i)
    BY <2>4 DEF Written
  <2>6. \A j : \A y \in Executor : Owns(y, j)' => Owns(y, j) /\ y # x
    BY <2>2 DEF Owns
  <2>7. ASSUME NEW j \in Incident \ Anyway, j = i
        PROVE  pre[j] = "sealed" /\ ~Written(Containing(j)) /\ \A y \in Executor : Owns(y, j) => y = x
    <3>1. Owns(x, j)
      BY <1>1, <2>7 DEF Owns
    <3> QED
      BY <1>1, <3>1 DEF IInv, Safe, OwnerOK
  <2>8. OwnerOK'
    <3> SUFFICES ASSUME NEW j \in Incident \ Anyway, NEW y \in Executor, Owns(y, j)'
                 PROVE  /\ pre'[j] = IF exec'[y].at = "preserving" THEN "started" ELSE "sealed"
                        /\ ~Written(Containing(j))'
                        /\ \A z \in Executor : Owns(z, j)' => z = y
      BY DEF OwnerOK
    <3>1. Owns(y, j) /\ y # x /\ exec'[y] = exec[y]
      BY <2>2, <2>6
    <3>2. j # i
      BY <2>7, <3>1
    <3>3. Containing(j) # Containing(i)
      BY <3>2, ControlsDiffer
    <3> QED
      BY <1>1, <2>5, <2>6, <3>1, <3>3 DEF IInv, Safe, OwnerOK
  <2>9. UntouchedOK'
    <3> SUFFICES ASSUME NEW j \in Incident \ Anyway, pre[j] = "none"
                 PROVE  ~Written(Containing(j))'
      BY <1>1 DEF UntouchedOK
    <3>1. j # i
      BY <2>7
    <3> QED
      BY <2>5, <3>1, ControlsDiffer DEF IInv, Safe, UntouchedOK
  <2>10. EvidenceFirst' /\ ContainedOnce'
    <3> SUFFICES ASSUME NEW j \in Incident \ Anyway
                 PROVE  \A n \in DOMAIN controls' : controls'[n] = Containing(j) =>
                          /\ pre[j] = "sealed"
                          /\ \A m \in DOMAIN controls' : controls'[m] = Containing(j) => n = m
      BY <1>1 DEF EvidenceFirst, ContainedOnce
    <3>1. CASE j = i
      <4>1. \A n \in 1..Len(controls) : controls[n] # Containing(j)
        BY <2>4, <2>7, <3>1 DEF Written
      <4> QED
        BY <2>4, <2>7, <3>1, <4>1
    <3>2. CASE j # i
      <4>1. controls'[Len(controls) + 1] # Containing(j)
        BY <2>4, <3>2, ControlsDiffer
      <4> QED
        BY <2>4, <4>1 DEF IInv, Safe, EvidenceFirst, ContainedOnce
    <3> QED
      BY <3>1, <3>2
  <2>11. controls'[Len(controls) + 1].mode # "released"
    BY <2>4, ControlsDiffer
  <2>12. SpentOK'
    BY <1>1, <2>4, <2>11 DEF IInv, Safe, SpentOK
  <2>13. GateOK'
    BY <1>1 DEF IInv, Safe, GateOK
  <2>14. SpentOnceReleased'
    BY <2>4, <2>12 DEF SpentOnceReleased, SpentOK
  <2> QED
    BY <2>8, <2>9, <2>10, <2>12, <2>13, <2>14 DEF Safe
<1> QED
  BY <1>2, <1>3

LEMMA CreateReleaseRequestSafe ==
  ASSUME IInv, CreateReleaseRequest
  PROVE  Safe'
<1>1. /\ requests' = Append(requests, Len(controls)) /\ controls # <<>>
      /\ UNCHANGED <<exec, pre, controls, release>>
  BY DEF CreateReleaseRequest, GateOthersUnchanged, caseVars
<1>2. controls \in Seq(Control) /\ requests \in Seq(1..Len(controls)) /\ Len(controls) \in Nat
  BY LenProperties DEF IInv, TypeOK
<1>3. Len(controls) \in 1..Len(controls)
  BY <1>1, <1>2, EmptySeq, LenProperties
<1>4. /\ Len(requests) \in Nat /\ DOMAIN requests = 1..Len(requests)
      /\ DOMAIN requests' = 1..Len(requests) + 1
      /\ \A q \in 1..Len(requests) : requests'[q] = requests[q]
  BY <1>1, <1>2, <1>3, Appended
<1>5. SpentOK' /\ GateOK'
  BY <1>1, <1>4 DEF IInv, Safe, SpentOK, GateOK
<1>6. OwnerOK' /\ UntouchedOK' /\ EvidenceFirst' /\ ContainedOnce' /\ SpentOnceReleased'
  BY <1>1 DEF IInv, Safe, OwnerOK, Owns, UntouchedOK, Written, EvidenceFirst, ContainedOnce,
     SpentOnceReleased
<1> QED
  BY <1>5, <1>6 DEF Safe

(* The gate compares the request with the newest control.                   *)
LEMMA CheckReleaseSafe ==
  ASSUME IInv, NEW r \in Releaser, NEW q \in 1..MaxRequests, CheckRelease(r, q)
  PROVE  Safe'
<1>1. /\ q \in approved /\ requests[q] = Len(controls)
      /\ release' = [release EXCEPT ![r] = Checked(q)]
      /\ UNCHANGED <<exec, pre, controls, requests>>
  BY DEF CheckRelease, GateOthersUnchanged, caseVars
<1>2. q \in DOMAIN requests /\ release \in [Releaser -> Release \cup {Resting}]
  BY <1>1 DEF IInv, TypeOK
<1>3. Checked(q).request = q /\ Checked(q).checked = Len(controls)
  BY DEF Checked
<1>4. release'[r] = Checked(q) /\ \A y \in Releaser : y # r => release'[y] = release[y]
  BY <1>1, <1>2
<1>5. GateOK'
  BY <1>1, <1>2, <1>3, <1>4 DEF IInv, Safe, GateOK
<1>6. OwnerOK' /\ UntouchedOK'
  BY <1>1 DEF IInv, Safe, OwnerOK, Owns, UntouchedOK, Written
<1>7. EvidenceFirst' /\ ContainedOnce' /\ SpentOnceReleased' /\ SpentOK'
  BY <1>1 DEF IInv, Safe, EvidenceFirst, ContainedOnce, SpentOnceReleased, SpentOK
<1> QED
  BY <1>5, <1>6, <1>7 DEF Safe

LEMMA EndReleaseSafe ==
  ASSUME IInv, NEW r \in Releaser, EndRelease(r)
  PROVE  Safe'
<1>1. /\ release' = [release EXCEPT ![r] = Resting]
      /\ UNCHANGED <<exec, pre, controls, requests>>
  BY DEF EndRelease, GateOthersUnchanged, caseVars
<1>2. \A y \in Releaser : release'[y] = release[y] \/ release'[y] = Resting
  BY <1>1 DEF IInv, TypeOK
<1>3. GateOK'
  BY <1>1, <1>2 DEF IInv, Safe, GateOK
<1>4. OwnerOK' /\ UntouchedOK'
  BY <1>1 DEF IInv, Safe, OwnerOK, Owns, UntouchedOK, Written
<1>5. EvidenceFirst' /\ ContainedOnce' /\ SpentOnceReleased' /\ SpentOK'
  BY <1>1 DEF IInv, Safe, EvidenceFirst, ContainedOnce, SpentOnceReleased, SpentOK
<1> QED
  BY <1>3, <1>4, <1>5 DEF Safe

LEMMA ReleaseTyped ==
  ASSUME FileOK, NEW r \in Releaser, release[r] # Resting
  PROVE  /\ release[r].request \in 1..MaxRequests /\ release[r].checked \in Nat
         /\ Releasing(release[r].request, release[r].checked) \in Control
<1>1. release[r] \in Release
  BY DEF FileOK
<1>2. release[r].request \in 1..MaxRequests /\ release[r].checked \in Nat
  BY <1>1 DEF Release
<1> QED
  BY <1>2 DEF Releasing, Control

LEMMA WriteReleaseSafe ==
  ASSUME IInv, NEW r \in Releaser, WriteRelease(r)
  PROVE  Safe'
<1> DEFINE c == Releasing(release[r].request, release[r].checked)
<1>1. /\ release[r] # Resting /\ controls' = Append(controls, c)
      /\ release' = [release EXCEPT ![r] = Resting]
      /\ UNCHANGED <<exec, pre, requests>>
  BY DEF WriteRelease, GateOthersUnchanged, caseVars, Resting
<1>2. /\ controls \in Seq(Control) /\ requests \in Seq(1..Len(controls)) /\ FileOK
  BY DEF IInv, TypeOK, FileOK
<1>3. /\ c \in Control /\ c.mode = "released"
      /\ c.request = release[r].request /\ c.checked = release[r].checked
  BY <1>1, <1>2, ReleaseTyped, ControlsDiffer
<1>4. /\ c.request \in DOMAIN requests
      /\ c.checked = requests[c.request]
  BY <1>1, <1>3 DEF IInv, Safe, GateOK
<1>5. c.checked \in 1..Len(controls)
  BY <1>2, <1>4, ElementOfSeq, LenProperties
<1>6. /\ Len(controls) \in Nat
      /\ DOMAIN controls = 1..Len(controls) /\ DOMAIN controls' = 1..Len(controls) + 1
      /\ \A n \in 1..Len(controls) : controls'[n] = controls[n]
      /\ controls'[Len(controls) + 1] = c
  BY <1>1, <1>2, <1>3, Appended
<1>7. \A i : c # Containing(i)
  BY ControlsDiffer
<1>8. \A i : Written(Containing(i))' <=> Written(Containing(i))
  BY <1>6, <1>7 DEF Written
<1> HIDE DEF c
<1>9. OwnerOK'
  BY <1>1, <1>8 DEF IInv, Safe, OwnerOK, Owns
<1>10. UntouchedOK'
  BY <1>1, <1>8 DEF IInv, Safe, UntouchedOK
<1>11. EvidenceFirst' /\ ContainedOnce'
  BY <1>1, <1>6, <1>7 DEF IInv, Safe, EvidenceFirst, ContainedOnce
<1>12. SpentOK'
  <2> SUFFICES ASSUME NEW n \in DOMAIN controls', controls'[n].mode = "released"
               PROVE  /\ controls'[n].request \in DOMAIN requests
                      /\ controls'[n].checked = requests[controls'[n].request]
                      /\ controls'[n].checked < n
    BY <1>1 DEF SpentOK
  <2>1. CASE n \in 1..Len(controls)
    BY <1>6, <2>1 DEF IInv, Safe, SpentOK
  <2>2. CASE n = Len(controls) + 1
    BY <1>4, <1>5, <1>6, <2>2
  <2> QED
    BY <1>6, <2>1, <2>2
<1>13. \A y \in Releaser : release'[y] = release[y] \/ release'[y] = Resting
  BY <1>1 DEF IInv, TypeOK
<1>14. GateOK'
  BY <1>1, <1>13 DEF IInv, Safe, GateOK
<1>15. SpentOnceReleased'
  BY <1>6, <1>12 DEF SpentOnceReleased, SpentOK
<1> QED
  BY <1>9, <1>10, <1>11, <1>12, <1>14, <1>15 DEF Safe

LEMMA NextSafe == IInv /\ [Next]_vars => Safe'
<1> SUFFICES ASSUME IInv, [Next]_vars PROVE Safe'
  OBVIOUS
<1> USE DEF caseVars, gateVars
<1>1. exec \in [Executor -> Execution \cup {Resting}] /\ Resting.at = "idle"
  BY DEF IInv, TypeOK, Resting
<1>2. ASSUME UNCHANGED <<exec, pre, controls, requests, release>> PROVE Safe'
  BY <1>2, NoNewOwner DEF IInv
<1>3. ASSUME NEW x, x \in Executor, NEW v, v.at \notin {"preserving", "preserved"},
             exec' = [exec EXCEPT ![x] = v], UNCHANGED <<pre, controls, requests, release>>
      PROVE  Safe'
  <2>1. \A y \in Executor : exec'[y] = exec[y] \/ exec'[y] = v
    BY <1>1, <1>3
  <2> QED
    BY <1>3, <2>1, NoNewOwner DEF IInv
<1>4. ASSUME NEW a, Raise(a) PROVE Safe'
  BY <1>2, <1>4 DEF Raise
<1>5. CASE Poll \/ Executed \/ SaveState
  BY <1>2, <1>5 DEF Poll, Executed, SaveState
<1>6. ASSUME NEW a, ProcessAlert(a) PROVE Safe'
  <2>1. CASE exec' = exec
    BY <1>2, <1>6, <2>1 DEF ProcessAlert
  <2>2. CASE exec' = [exec EXCEPT !["responder"] = [at |-> "loaded", incident |-> a]]
    <3>1. [at |-> "loaded", incident |-> a].at = "loaded" /\ "responder" \in Executor
      BY DEF Executor
    <3> QED
      BY <1>3, <1>6, <2>2, <3>1 DEF ProcessAlert
  <2> QED
    BY <1>6, <2>1, <2>2 DEF ProcessAlert
<1>7. ASSUME NEW i, CreatePlan(i) PROVE Safe'
  BY <1>2, <1>7 DEF CreatePlan
<1>8. ASSUME NEW i, ExecuteByHand(i) PROVE Safe'
  <2>1. [at |-> "loaded", incident |-> i].at = "loaded" /\ "operator" \in Executor
    BY DEF Executor
  <2> QED
    BY <1>3, <1>8, <2>1 DEF ExecuteByHand
<1>9. ASSUME NEW x \in Executor, FailPreserve(x) PROVE Safe'
  <2>1. exec[x] # Resting /\ Become(x, "failed") /\ UNCHANGED <<pre, controls, requests, release>>
    BY <1>9 DEF FailPreserve, At, Resting, OthersUnchanged
  <2>2. \A y \in Executor : exec'[y] = exec[y] \/ exec'[y].at = "failed"
    BY <2>1, Becoming DEF IInv
  <2> QED
    BY <2>1, <2>2, NoNewOwner DEF IInv
<1>10. ASSUME NEW x \in Executor, NEW complete, Finish(x, complete) PROVE Safe'
  BY <1>1, <1>3, <1>10 DEF Finish, End, OthersUnchanged
<1>11. ASSUME NEW x \in Executor, CrashExecutor(x) PROVE Safe'
  BY <1>1, <1>3, <1>11 DEF CrashExecutor, End, OthersUnchanged
<1>12. CASE CrashResponder
  <2>1. "responder" \in Executor
    BY DEF Executor
  <2> QED
    BY <1>1, <1>3, <1>12, <2>1 DEF CrashResponder, End
<1>13. ASSUME NEW q, ApproveRelease(q) PROVE Safe'
  BY <1>2, <1>13 DEF ApproveRelease, GateOthersUnchanged
<1>14. CASE UNCHANGED vars
  BY <1>2, <1>14 DEF vars
<1> QED
  BY <1>4, <1>5, <1>6, <1>7, <1>8, <1>9, <1>10, <1>11, <1>12, <1>13, <1>14,
     MakeDirectorySafe, SealSafe, PreservationFailedSafe, CreateControlSafe,
     CreateReleaseRequestSafe, CheckReleaseSafe, WriteReleaseSafe, EndReleaseSafe
     DEF Next, RunOnce, Execute, RecoveryGate, ExecuteRelease

-----------------------------------------------------------------------------
(* Types.                                                                   *)

(* A non-empty set of numbers has a first element.                          *)
LEMMA FirstExists ==
  ASSUME NEW S \in SUBSET Nat, S # {}
  PROVE  First(S) \in S
<1> DEFINE R == OpToRel(<, Nat)
<1>1. IsWellFoundedOn(R, Nat)
  BY NatLessThanWellFounded
<1>2. PICK a \in S : \A b \in S : ~ (<<b, a>> \in R)
  BY <1>1, WFMin, Zenon
<1>3. \A b \in S : ~ (b < a)
  BY <1>2 DEF OpToRel
<1>4. \A b \in S : a <= b
  BY <1>3
<1> QED
  BY <1>4 DEF First

LEMMA InitTyped == Init => TypeOK /\ BatchOK
<1> SUFFICES ASSUME Init PROVE AlertsOK /\ ExecutionsOK /\ FileOK /\ BudgetOK
  BY Grouped
<1>1. AlertsOK
  BY DEF Init, AlertsOK, BatchOK
<1>2. ExecutionsOK
  BY DEF Init, ExecutionsOK, CasesOK, ExecOK
<1>3. FileOK
  BY ContainmentAssumption, EmptySeq DEF Init, FileOK
<1>4. BudgetOK
  BY ContainmentAssumption DEF Init, BudgetOK
<1> QED
  BY <1>1, <1>2, <1>3, <1>4

(* The responder.                                                           *)
LEMMA AlertsTyped ==
  ASSUME TypeOK, BatchOK, [Next]_vars
  PROVE  AlertsOK'
<1> USE DEF caseVars, gateVars
<1>1. AlertsOK /\ Alert \subseteq Nat
  BY ContainmentAssumption, Grouped
<1>2. ASSUME UNCHANGED <<raised, handled, responder>> PROVE AlertsOK'
  BY <1>1, <1>2 DEF AlertsOK, BatchOK
<1>3. ASSUME UNCHANGED <<raised, handled>>, responder' = Resting PROVE AlertsOK'
  BY <1>1, <1>3 DEF AlertsOK, BatchOK
<1>4. ASSUME responder # Resting
      PROVE  /\ responder.at \in {"batch", "waiting"}
             /\ responder.handled \subseteq Alert /\ responder.todo \subseteq Alert
             /\ responder.handled \subseteq raised /\ responder.todo \subseteq raised
             /\ responder = [at |-> responder.at, handled |-> responder.handled, todo |-> responder.todo]
  BY <1>1, <1>4 DEF AlertsOK, BatchOK, Batch
<1>5. ASSUME NEW a \in responder.todo, responder # Resting, UNCHANGED <<raised, handled>>, responder' = Took(a)
      PROVE  AlertsOK'
  <2>1. /\ responder'.handled = responder.handled \cup {a}
        /\ responder'.todo = responder.todo \ {a} /\ responder'.at = "batch"
        /\ responder' \in Batch
    BY <1>4, <1>5 DEF Took, Batch
  <2> QED
    BY <1>1, <1>4, <1>5, <2>1 DEF AlertsOK, BatchOK
<1>6. ASSUME NEW a, Raise(a) PROVE AlertsOK'
  BY <1>1, <1>6 DEF Raise, AlertsOK, BatchOK
<1>7. CASE Poll
  <2>1. PICK todo \in SUBSET raised :
          responder' = [at |-> "batch", handled |-> handled, todo |-> todo]
    BY <1>7 DEF Poll, Newest
  <2>2. responder' \in Batch
    BY <1>1, <2>1 DEF AlertsOK, Batch
  <2>3. responder'.handled = handled /\ responder'.todo = todo /\ responder'.at = "batch"
    BY <2>1
  <2> QED
    BY <1>1, <1>7, <2>2, <2>3 DEF Poll, AlertsOK, BatchOK
<1>8. ASSUME NEW a \in Alert, ProcessAlert(a) PROVE AlertsOK'
  <2>1. responder # Resting /\ responder.todo # {} /\ UNCHANGED <<raised, handled>>
    BY <1>8 DEF ProcessAlert, Resting
  <2>2. a \in responder.todo
    <3>1. responder.todo \in SUBSET Nat
      BY <1>1, <1>4, <2>1
    <3> QED
      BY <1>8, <2>1, <3>1, FirstExists DEF ProcessAlert
  <2>3. CASE responder' = [responder EXCEPT !.at = "waiting"]
    <3>1. responder' = [at |-> "waiting", handled |-> responder.handled, todo |-> responder.todo]
      BY <1>4, <2>1, <2>3
    <3>2. /\ responder'.handled = responder.handled
          /\ responder'.todo = responder.todo /\ responder' \in Batch
      BY <1>4, <2>1, <3>1 DEF Batch
    <3> QED
      BY <1>1, <1>4, <2>1, <3>2 DEF AlertsOK, BatchOK
  <2> QED
    BY <1>3, <1>5, <1>8, <2>1, <2>2, <2>3 DEF ProcessAlert
<1>9. CASE Executed
  <2>1. responder # Resting /\ responder.at = "waiting" /\ UNCHANGED <<raised, handled>>
    BY <1>9 DEF Executed, Resting
  <2>2. responder.todo \in SUBSET Nat /\ responder.todo # {}
    BY <1>1, <1>4, <2>1 DEF BatchOK
  <2>3. First(responder.todo) \in responder.todo
    BY <2>2, FirstExists
  <2> QED
    BY <1>5, <1>9, <2>1, <2>3 DEF Executed
<1>10. CASE SaveState
  <2>1. responder # Resting /\ handled' = responder.handled /\ responder' = Resting /\ raised' = raised
    BY <1>10 DEF SaveState, Resting
  <2> QED
    BY <1>1, <1>4, <2>1 DEF AlertsOK, BatchOK
<1>11. ASSUME NEW i, CreatePlan(i) \/ ExecuteByHand(i) PROVE AlertsOK'
  BY <1>2, <1>11 DEF CreatePlan, ExecuteByHand
<1>12. ASSUME NEW x, Execute(x) \/ CrashExecutor(x) PROVE AlertsOK'
  BY <1>2, <1>12 DEF Execute, CrashExecutor, MakeDirectory, Seal, FailPreserve, PreservationFailed,
     CreateControl, Finish, OthersUnchanged
<1>13. CASE RecoveryGate
  BY <1>2, <1>13 DEF RecoveryGate, ExecuteRelease, CreateReleaseRequest, ApproveRelease,
     CheckRelease, WriteRelease, EndRelease, GateOthersUnchanged
<1>14. CASE CrashResponder
  BY <1>3, <1>14 DEF CrashResponder
<1>15. CASE UNCHANGED vars
  BY <1>2, <1>15 DEF vars
<1> QED
  BY <1>6, <1>7, <1>8, <1>9, <1>10, <1>11, <1>12, <1>13, <1>14, <1>15 DEF Next, RunOnce

(* The executions, their cases and the plans.                               *)
LEMMA ExecutionsTyped ==
  ASSUME TypeOK, BatchOK, [Next]_vars
  PROVE  ExecutionsOK'
<1> USE DEF caseVars, gateVars
<1>1. ExecutionsOK /\ TypeOK
  BY Grouped
<1>2. ASSUME UNCHANGED <<plans, exec, pre, post, result>> PROVE ExecutionsOK'
  BY <1>1, <1>2 DEF ExecutionsOK, CasesOK, ExecOK
<1>3. ASSUME NEW x \in Executor, End(x) PROVE ExecOK'
  BY <1>1, <1>3 DEF ExecutionsOK, ExecOK, End
<1>4. ASSUME NEW x \in Executor, exec[x] # Resting
      PROVE  /\ exec[x].incident \in Incident
             /\ \A at \in {"loaded", "preserving", "failed", "preserved", "contained"} :
                  Become(x, at) => ExecOK'
  <2>1. exec[x].incident \in Incident
    BY <1>1, <1>4 DEF ExecutionsOK, ExecOK, Execution
  <2>2. \A at \in {"loaded", "preserving", "failed", "preserved", "contained"} :
          Become(x, at) => ExecOK'
    BY <1>1, <1>4, Becoming DEF ExecutionsOK, ExecOK
  <2> QED
    BY <2>1, <2>2
<1>5. ASSUME NEW x \in Executor, NEW i \in Incident,
             exec' = [exec EXCEPT ![x] = [at |-> "loaded", incident |-> i]]
      PROVE  ExecOK'
  <2>1. [at |-> "loaded", incident |-> i] \in Execution
    BY DEF Execution
  <2> QED
    BY <1>1, <1>5, <2>1 DEF ExecutionsOK, ExecOK
<1>6. ASSUME NEW a, Raise(a) PROVE ExecutionsOK'
  BY <1>2, <1>6 DEF Raise
<1>7. CASE Poll \/ Executed \/ SaveState
  BY <1>2, <1>7 DEF Poll, Executed, SaveState
<1>8. ASSUME NEW a \in Alert, ProcessAlert(a) PROVE ExecutionsOK'
  <2>1. a \in Incident /\ "responder" \in Executor
    BY DEF Incident, Executor
  <2>2. plans' \subseteq Incident /\ CasesOK'
    BY <1>1, <1>8, <2>1 DEF ProcessAlert, ExecutionsOK, CasesOK
  <2>3. ExecOK'
    BY <1>1, <1>5, <1>8, <2>1 DEF ProcessAlert, ExecutionsOK, ExecOK
  <2> QED
    BY <2>2, <2>3 DEF ExecutionsOK
<1>9. ASSUME NEW i \in Incident, CreatePlan(i) PROVE ExecutionsOK'
  BY <1>1, <1>9 DEF CreatePlan, ExecutionsOK, CasesOK, ExecOK
<1>10. ASSUME NEW i \in Incident, ExecuteByHand(i) PROVE ExecutionsOK'
  <2>1. ExecOK'
    BY <1>5, <1>10 DEF ExecuteByHand, Executor
  <2> QED
    BY <1>1, <1>10, <2>1 DEF ExecuteByHand, ExecutionsOK, CasesOK
<1>11. ASSUME NEW x \in Executor, MakeDirectory(x) PROVE ExecutionsOK'
  <2>1. exec[x] # Resting /\ UNCHANGED <<plans, post, result>>
    BY <1>11 DEF MakeDirectory, At, Resting, OthersUnchanged
  <2>2. ExecOK'
    BY <1>4, <1>11, <2>1 DEF MakeDirectory
  <2> QED
    BY <1>1, <1>11, <2>1, <2>2 DEF MakeDirectory, ExecutionsOK, CasesOK
<1>12. ASSUME NEW x \in Executor, Seal(x) PROVE ExecutionsOK'
  <2>1. exec[x] # Resting /\ UNCHANGED <<plans, post, result>>
    BY <1>12 DEF Seal, At, Resting, OthersUnchanged
  <2>2. ExecOK'
    BY <1>4, <1>12, <2>1 DEF Seal
  <2> QED
    BY <1>1, <1>12, <2>1, <2>2 DEF Seal, ExecutionsOK, CasesOK
<1>13. ASSUME NEW x \in Executor, FailPreserve(x) PROVE ExecutionsOK'
  <2>1. exec[x] # Resting /\ UNCHANGED <<plans, pre, post, result>>
    BY <1>13 DEF FailPreserve, At, Resting, OthersUnchanged
  <2>2. ExecOK'
    BY <1>4, <1>13, <2>1 DEF FailPreserve
  <2> QED
    BY <1>1, <2>1, <2>2 DEF ExecutionsOK, CasesOK
<1>14. ASSUME NEW x \in Executor, PreservationFailed(x) PROVE ExecutionsOK'
  <2>1. exec[x] # Resting /\ UNCHANGED <<plans, pre, post>>
    BY <1>14 DEF PreservationFailed, At, Resting, OthersUnchanged
  <2>2. ExecOK'
    BY <1>3, <1>4, <1>14, <2>1 DEF PreservationFailed
  <2> QED
    BY <1>1, <1>14, <2>1, <2>2 DEF PreservationFailed, ExecutionsOK, CasesOK
<1>15. ASSUME NEW x \in Executor, CreateControl(x) PROVE ExecutionsOK'
  <2>1. exec[x] # Resting /\ UNCHANGED <<plans, pre, post, result>>
    BY <1>15 DEF CreateControl, At, Resting, OthersUnchanged
  <2>2. ExecOK'
    BY <1>3, <1>4, <1>15, <2>1 DEF CreateControl
  <2> QED
    BY <1>1, <2>1, <2>2 DEF ExecutionsOK, CasesOK
<1>16. ASSUME NEW x \in Executor, NEW complete \in BOOLEAN, Finish(x, complete) PROVE ExecutionsOK'
  <2>1. exec[x] # Resting /\ UNCHANGED <<plans, pre>>
    BY <1>16 DEF Finish, At, Resting, OthersUnchanged
  <2>2. ExecOK'
    BY <1>3, <1>16 DEF Finish
  <2> QED
    BY <1>1, <1>16, <2>1, <2>2 DEF Finish, ExecutionsOK, CasesOK
<1>17. ASSUME NEW x \in Executor, CrashExecutor(x) PROVE ExecutionsOK'
  <2>1. ExecOK'
    BY <1>3, <1>17 DEF CrashExecutor
  <2> QED
    BY <1>1, <1>17, <2>1 DEF CrashExecutor, OthersUnchanged, ExecutionsOK, CasesOK
<1>18. CASE CrashResponder
  <2>1. ExecOK'
    BY <1>3, <1>18 DEF CrashResponder, Executor
  <2> QED
    BY <1>1, <1>18, <2>1 DEF CrashResponder, ExecutionsOK, CasesOK
<1>19. CASE RecoveryGate
  BY <1>2, <1>19 DEF RecoveryGate, ExecuteRelease, CreateReleaseRequest, ApproveRelease,
     CheckRelease, WriteRelease, EndRelease, GateOthersUnchanged
<1>20. CASE UNCHANGED vars
  BY <1>2, <1>20 DEF vars
<1> QED
  BY <1>6, <1>7, <1>8, <1>9, <1>10, <1>11, <1>12, <1>13, <1>14, <1>15, <1>16, <1>17, <1>18, <1>19, <1>20
     DEF Next, RunOnce, Execute

(* The control file, and the requests that name its contents.               *)
LEMMA FileTyped ==
  ASSUME TypeOK, BatchOK, [Next]_vars
  PROVE  FileOK'
<1> USE DEF caseVars, gateVars
<1>1. FileOK /\ TypeOK /\ Len(controls) \in Nat
  <2>1. FileOK
    BY Grouped
  <2> QED
    BY <2>1, LenProperties DEF FileOK
<1>2. ASSUME UNCHANGED <<controls, requests, approved, release>> PROVE FileOK'
  BY <1>1, <1>2 DEF FileOK
<1>3. ASSUME NEW c \in Control, controls' = Append(controls, c)
      PROVE  controls' \in Seq(Control) /\ requests \in Seq(1..Len(controls'))
  <2>1. controls' \in Seq(Control) /\ Len(controls') = Len(controls) + 1
    BY <1>1, <1>3, AppendProperties DEF FileOK
  <2>2. 1..Len(controls) \subseteq 1..Len(controls')
    BY <1>1, <2>1
  <2>3. requests \in Seq(1..Len(controls))
    BY <1>1 DEF FileOK
  <2>4. \A n \in 1..Len(requests) : requests[n] \in 1..Len(controls')
    BY <2>2, <2>3, ElementOfSeq
  <2> QED
    BY <2>1, <2>3, <2>4, IsASeq, LenProperties
<1>4. ASSUME NEW x \in Executor, CreateControl(x) PROVE FileOK'
  <2>1. exec[x] # Resting /\ UNCHANGED <<requests, approved, release>>
    BY <1>4 DEF CreateControl, At, Resting, OthersUnchanged
  <2>2. Containing(exec[x].incident) \in Control
    BY <1>1, <2>1, ContainingTyped DEF TypeOK, Execution
  <2> QED
    BY <1>1, <1>2, <1>3, <1>4, <2>1, <2>2 DEF CreateControl, FileOK
<1>5. ASSUME NEW r \in Releaser, WriteRelease(r) PROVE FileOK'
  <2>1. /\ release[r] # Resting /\ release' = [release EXCEPT ![r] = Resting]
        /\ controls' = Append(controls, Releasing(release[r].request, release[r].checked))
        /\ UNCHANGED <<requests, approved>>
    BY <1>5 DEF WriteRelease, Resting
  <2>2. Releasing(release[r].request, release[r].checked) \in Control
    BY <1>1, <2>1, ReleaseTyped
  <2>3. controls' \in Seq(Control) /\ requests \in Seq(1..Len(controls'))
    BY <1>3, <2>1, <2>2
  <2> QED
    BY <1>1, <2>1, <2>3 DEF FileOK
<1>6. CASE CreateReleaseRequest
  <2>1. /\ controls # <<>> /\ Len(requests) < MaxRequests
        /\ requests' = Append(requests, Len(controls))
        /\ UNCHANGED <<controls, approved, release>>
    BY <1>6 DEF CreateReleaseRequest
  <2>2. Len(controls) \in 1..Len(controls)
    BY <1>1, <2>1, EmptySeq, LenProperties DEF FileOK
  <2>3. /\ requests' \in Seq(1..Len(controls)) /\ Len(requests') = Len(requests) + 1
        /\ Len(requests) \in Nat /\ DOMAIN requests \subseteq DOMAIN requests'
    BY <1>1, <2>1, <2>2, AppendProperties, LenProperties DEF FileOK
  <2> QED
    BY <1>1, <2>1, <2>3, ContainmentAssumption, SMTT(60) DEF FileOK
<1>7. ASSUME NEW q, ApproveRelease(q) PROVE FileOK'
  BY <1>1, <1>7 DEF ApproveRelease, FileOK
<1>8. ASSUME NEW r \in Releaser, NEW q \in 1..MaxRequests, CheckRelease(r, q) PROVE FileOK'
  <2>1. /\ q \in approved /\ release' = [release EXCEPT ![r] = Checked(q)]
        /\ UNCHANGED <<controls, requests, approved>>
    BY <1>8 DEF CheckRelease
  <2>2. Checked(q) \in Release /\ Checked(q).request = q
    BY <1>1 DEF Checked, Release
  <2> HIDE DEF Release, Checked
  <2> QED
    BY <1>1, <2>1, <2>2 DEF FileOK
<1>15. ASSUME NEW r \in Releaser, EndRelease(r) PROVE FileOK'
  BY <1>1, <1>15 DEF EndRelease, FileOK
<1>9. ASSUME NEW x, MakeDirectory(x) \/ Seal(x) \/ FailPreserve(x) \/ PreservationFailed(x) \/ CrashExecutor(x)
      PROVE  FileOK'
  BY <1>2, <1>9 DEF MakeDirectory, Seal, FailPreserve, PreservationFailed, CrashExecutor, OthersUnchanged
<1>10. ASSUME NEW x, NEW complete, Finish(x, complete) PROVE FileOK'
  BY <1>2, <1>10 DEF Finish, OthersUnchanged
<1>11. ASSUME NEW a, Raise(a) \/ ProcessAlert(a) PROVE FileOK'
  BY <1>2, <1>11 DEF Raise, ProcessAlert
<1>12. CASE Poll \/ Executed \/ SaveState \/ CrashResponder
  BY <1>2, <1>12 DEF Poll, Executed, SaveState, CrashResponder
<1>13. ASSUME NEW i, CreatePlan(i) \/ ExecuteByHand(i) PROVE FileOK'
  BY <1>2, <1>13 DEF CreatePlan, ExecuteByHand
<1>14. CASE UNCHANGED vars
  BY <1>2, <1>14 DEF vars
<1> QED
  BY <1>4, <1>5, <1>6, <1>7, <1>8, <1>9, <1>10, <1>11, <1>12, <1>13, <1>14, <1>15
     DEF Next, RunOnce, Execute, RecoveryGate, ExecuteRelease

LEMMA BudgetTyped ==
  ASSUME TypeOK, [Next]_vars
  PROVE  BudgetOK'
<1> USE DEF caseVars, gateVars
<1>1. BudgetOK /\ MaxFaults \in Nat /\ MaxCrashes \in Nat /\ MaxHand \in Nat
  BY ContainmentAssumption DEF TypeOK, BudgetOK
<1>2. ASSUME UNCHANGED budget PROVE BudgetOK'
  BY <1>1, <1>2 DEF BudgetOK
<1>3. ASSUME NEW i, ExecuteByHand(i) PROVE BudgetOK'
  BY <1>1, <1>3 DEF ExecuteByHand, BudgetOK
<1>4. ASSUME NEW x, FailPreserve(x) PROVE BudgetOK'
  BY <1>1, <1>4 DEF FailPreserve, BudgetOK
<1>5. ASSUME NEW x, CrashExecutor(x) PROVE BudgetOK'
  BY <1>1, <1>5 DEF CrashExecutor, BudgetOK
<1>6. CASE CrashResponder
  BY <1>1, <1>6 DEF CrashResponder, BudgetOK
<1>7. ASSUME NEW x, MakeDirectory(x) \/ Seal(x) \/ PreservationFailed(x) \/ CreateControl(x)
      PROVE  BudgetOK'
  BY <1>2, <1>7 DEF MakeDirectory, Seal, PreservationFailed, CreateControl
<1>8. ASSUME NEW x, NEW complete, Finish(x, complete) PROVE BudgetOK'
  BY <1>2, <1>8 DEF Finish
<1>9. ASSUME NEW a, Raise(a) \/ ProcessAlert(a) \/ CreatePlan(a) PROVE BudgetOK'
  BY <1>2, <1>9 DEF Raise, ProcessAlert, CreatePlan
<1>10. CASE Poll \/ Executed \/ SaveState \/ RecoveryGate
  BY <1>2, <1>10 DEF Poll, Executed, SaveState, RecoveryGate, ExecuteRelease, CreateReleaseRequest,
     ApproveRelease, CheckRelease, WriteRelease, EndRelease, GateOthersUnchanged
<1>11. CASE UNCHANGED vars
  BY <1>2, <1>11 DEF vars
<1> QED
  BY <1>3, <1>4, <1>5, <1>6, <1>7, <1>8, <1>9, <1>10, <1>11 DEF Next, RunOnce, Execute

LEMMA Inductive == Spec => []IInv
<1>1. Init => IInv
  BY InitTyped, InitSafe DEF IInv
<1>2. IInv /\ [Next]_vars => IInv'
  <2> SUFFICES ASSUME IInv, [Next]_vars PROVE IInv'
    OBVIOUS
  <2>1. TypeOK' /\ BatchOK'
    BY AlertsTyped, ExecutionsTyped, FileTyped, BudgetTyped
    DEF IInv, TypeOK, AlertsOK, ExecutionsOK, CasesOK, ExecOK, FileOK, BudgetOK
  <2> QED
    BY <2>1, NextSafe DEF IInv
<1> QED
  BY <1>1, <1>2, PTL DEF Spec

-----------------------------------------------------------------------------
(* Theorems.                                                                *)

(* Every state of containment is well typed, whatever the alerts, the plans *)
(* and the bounds: batches hold alerts the collector has, requests name     *)
(* controls that were in force, and only approved ones pass the gate.       *)
THEOREM TypeCorrect == Spec => []TypeOK
<1>1. IInv => TypeOK
  BY DEF IInv
<1> QED
  BY <1>1, Inductive, PTL

(* Evidence was sealed before an incident changed the control file, unless  *)
(* its plan waives that, for any number of alerts, failures, deaths of      *)
(* processes and repeated executions: the directory has one owner at a time *)
(* (OwnerOK), and one that outlives its owner stops all later executions.   *)
THEOREM EvidenceAlwaysFirst == Spec => []EvidenceFirst
<1>1. IInv => EvidenceFirst
  BY DEF IInv, Safe
<1> QED
  BY <1>1, Inductive, PTL

(* A plan takes effect at most once, however often the responder and the    *)
(* operator execute it: a case without a directory has no control           *)
(* (UntouchedOK), and only the owner of the directory writes one (OwnerOK). *)
THEOREM ContainedAtMostOnce == Spec => []ContainedOnce
<1>1. IInv => ContainedOnce
  BY DEF IInv, Safe
<1> QED
  BY <1>1, Inductive, PTL

(* A request that released does not release again, unless by an execution   *)
(* that was checked before: every release was checked when the control that *)
(* its request names was the newest (SpentOK), which it never is again, and *)
(* this holds of those that wait to be written, of which there may be many  *)
(* (GateOK).                                                                *)
THEOREM SpentRequestsNeverRelease == Spec => []SpentOnceReleased
<1>1. IInv => SpentOnceReleased
  BY DEF IInv, Safe
<1> QED
  BY <1>1, Inductive, PTL
=============================================================================

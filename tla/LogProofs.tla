------------------------------- MODULE LogProofs -------------------------------
(***************************************************************************)
(* Theorems about what is logged: what a run of probes and a capture tell   *)
(* about their own work, for every set of processes, probes, captures,      *)
(* directories and files, for logs of any length, and whatever fails or     *)
(* dies on the way; the history trees of private logs, for histories of     *)
(* any length up to the code's limit, and whatever witnesses sign; and the  *)
(* decisions on the keys that sign, at the times they are stamped with, for *)
(* any policies, keys, clocks and accuracies; the lineages of credentials,  *)
(* of any delegations; and the traces and links of telemetry, of any        *)
(* envelopes and any changes of their imports.                              *)
(***************************************************************************)
EXTENDS LiveAttestation, Captures, PrivateLog, KeyTrustHistory, CredentialLineage,
        Telemetry, SequenceTheorems, FiniteSetTheorems, WellFoundedInduction, TLAPS

------------------------------------------------------------------------------
(* The log of live attestation.                                             *)

On(p) == run[p].at # "none"

(* The number of the event that the one after the first k names.            *)
NumberAt(k) == IF k = 0 THEN 0 ELSE log[k].number

ChainLinked == \A i \in 1..Len(log) : log[i].prev = NumberAt(i - 1)

(* A run that calls the model, or tells of it, has a prompt.                *)
ProbeOK(p) ==
  Is(p, "called") \/ Is(p, "print") \/ (Writing(p) /\ run[p].kind \in {"ok", "error"}) =>
    run[p].request.probe <= Probes

AttestationTypes == AttestationTypeOK /\ \A p \in Process : On(p) => ProbeOK(p)

(* Numbers are given once, and what an append returned for is in the file,  *)
(* unless something there does not parse.                                   *)
CompleteOK ==
  /\ \A i \in 1..Len(log) : log[i].number \in 1..written
  /\ \A i, j \in 1..Len(log) : log[i].number = log[j].number => i = j
  /\ ~garbled => \A n \in appended : \E i \in 1..Len(log) : log[i].number = n

HeadOK ==
  head.file = "whole" => head.count \in 1..Len(log) /\ log[head.count].number = head.last

(* In a log that is linked each run remembers an event and its position.    *)
PlaceOK ==
  ~garbled /\ ChainLinked =>
    /\ HeadOK
    /\ \A p \in Process : On(p) =>
         /\ run[p].count \in 0..Len(log) /\ run[p].prev = NumberAt(run[p].count)
         /\ Is(p, "head") => run[p].count # 0

(* While all is in order one run is at work, and remembers the last event.  *)
OrderOK ==
  orderly =>
    /\ ~garbled /\ ChainLinked
    /\ \A p, q \in Process : On(p) /\ On(q) => p = q
    /\ \A p \in Process : On(p) => run[p].prev = NumberAt(Len(log))

(* The request that a run is at, or comes to next, has no outcome yet.      *)
FreshAt(p) ==
  \/ run[p].at \in {"probe", "called"}
  \/ Writing(p) /\ run[p].kind # "stop"

Answering(p) == Writing(p) /\ run[p].kind = "ok"

OutcomeOf(i) == log[i].kind \in {"ok", "error"}

RunIdsOK ==
  /\ \A p \in Process : On(p) => run[p].request.run <= runs
  /\ \A p, q \in Process :
       On(p) /\ On(q) /\ run[p].request.run = run[q].request.run => p = q
  /\ \A i \in 1..Len(log) : log[i].request.run <= runs
  /\ \A r \in answered : r.run <= runs

(* What is known of the requests of a run is of earlier ones, or of the one *)
(* it has just made.                                                        *)
PastOK(p) ==
  LET now == run[p].request
  IN  /\ \A i \in 1..Len(log) : OutcomeOf(i) /\ log[i].request.run = now.run =>
           /\ log[i].request.probe <= now.probe
           /\ FreshAt(p) => log[i].request.probe # now.probe
      /\ \A r \in answered : r.run = now.run =>
           /\ r.probe <= now.probe
           /\ FreshAt(p) /\ ~Answering(p) => r.probe # now.probe
      /\ Answering(p) => now \in answered

OutcomeOK == RunIdsOK /\ (\A p \in Process : On(p) => PastOK(p)) /\ OneOutcome

AttestationInv == AttestationTypes /\ CompleteOK /\ PlaceOK /\ OrderOK /\ OutcomeOK

-----------------------------------------------------------------------------
AttestationStep(p) ==
  \/ StartRun(p) \/ CutLine(p) \/ AppendEvent(p) \/ FailAppend(p)
  \/ EndProbes(p) \/ BeginRequest(p) \/ ModelReturns(p) \/ ModelRaises(p)
  \/ NextProbe(p) \/ PrintRaises(p) \/ WriteHead(p) \/ Killed(p)

NewEvent(p) ==
  [number |-> written + 1, prev |-> run[p].prev, kind |-> run[p].kind, request |-> run[p].request]

(* What a step of p does to the file.                                       *)
LogStep(p) ==
  /\ \A q \in Process \ {p} : run'[q] = run[q]
  /\ garbled => garbled'
  /\ \/ /\ log' = log /\ written' \in {written, written + 1}
        /\ garbled' \/ appended' = appended
     \/ /\ log' = Append(log, NewEvent(p)) /\ written' = written + 1
        /\ Writing(p) /\ appended' \subseteq appended \cup {written + 1}

LEMMA LogFacts ==
  ASSUME log \in Seq(Event)
  PROVE  /\ Len(log) \in Nat /\ DOMAIN log = 1..Len(log)
         /\ \A i \in 1..Len(log) :
              /\ log[i] \in Event /\ log[i].number \in Nat /\ log[i].number # 0
              /\ log[i].prev \in Nat /\ log[i].kind \in Kind
              /\ log[i].request \in ProbeRequest
              /\ log[i].request.run \in Nat /\ log[i].request.probe \in Nat
<1>1. Len(log) \in Nat /\ DOMAIN log = 1..Len(log)
  BY LenProperties
<1>2. \A i \in 1..Len(log) : log[i] \in Event
  BY <1>1
<1> QED
  BY <1>1, <1>2, AttestationAssumption, SMTT(60) DEF Event, ProbeRequest

LEMMA AppendFacts ==
  ASSUME log \in Seq(Event), NEW e \in Event, log' = Append(log, e)
  PROVE  /\ log' \in Seq(Event) /\ Len(log') = Len(log) + 1 /\ DOMAIN log' = 1..(Len(log) + 1)
         /\ \A i \in 1..Len(log) : log'[i] = log[i]
         /\ log'[Len(log) + 1] = e
  BY AppendProperties, LenProperties

LEMMA RunFacts ==
  ASSUME AttestationTypes, NEW p \in Process, On(p)
  PROVE  /\ run[p] \in Running /\ run[p].prev \in Nat /\ run[p].count \in Nat
         /\ run[p].kind \in Kind /\ run[p].request \in ProbeRequest
         /\ run[p].request.run \in Nat /\ run[p].request.probe \in Nat
         /\ NewEvent(p) \in Event /\ written \in Nat
<1>1. run[p] \in Running /\ written \in Nat
  BY DEF AttestationTypes, AttestationTypeOK, On, NoRun, Running
<1>2. run[p].prev \in Nat /\ run[p].kind \in Kind /\ run[p].request \in ProbeRequest
  BY <1>1 DEF Running
<1>3. NewEvent(p) \in Event
  BY <1>1, <1>2 DEF NewEvent, Event
<1> QED
  BY <1>1, <1>2, <1>3, AttestationAssumption DEF Running, ProbeRequest

(* Every action is a step of this kind.                                     *)
LEMMA Reaching ==
  ASSUME NEW p \in Process, LineReachesFile(p)
  PROVE  /\ garbled => garbled'
         /\ written' = written + 1
         /\ IF garbled' THEN log' = log ELSE log' = Append(log, NewEvent(p))
         /\ garbled' <=> garbled \/ Cutting \ {p} # {}
  BY DEF LineReachesFile, NewEvent

LEMMA LogSteps ==
  ASSUME AttestationTypes, NEW p \in Process, AttestationStep(p)
  PROVE  LogStep(p)
<1> USE DEF LogStep, Detach
<1>0. run \in [Process -> Running \cup {NoRun}]
  BY DEF AttestationTypes, AttestationTypeOK
<1>1. CASE StartRun(p)
  BY <1>0, <1>1 DEF StartRun
<1>2. CASE CutLine(p)
  BY <1>0, <1>2 DEF CutLine
<1>3. CASE AppendEvent(p)
  BY <1>0, <1>3, Reaching DEF AppendEvent
<1>4. CASE FailAppend(p)
  BY <1>0, <1>4, Reaching DEF FailAppend
<1>5. CASE EndProbes(p) \/ BeginRequest(p) \/ ModelReturns(p) \/ ModelRaises(p)
  BY <1>0, <1>5 DEF EndProbes, BeginRequest, ModelReturns, ModelRaises
<1>6. CASE NextProbe(p) \/ PrintRaises(p) \/ WriteHead(p)
  BY <1>0, <1>6 DEF NextProbe, PrintRaises, WriteHead
<1>7. CASE Killed(p)
  BY <1>0, <1>7 DEF Killed
<1> QED
  BY <1>1, <1>2, <1>3, <1>4, <1>5, <1>6, <1>7 DEF AttestationStep

(* Numbers are given once.                                                  *)
LEMMA CompleteKept ==
  ASSUME AttestationTypes, CompleteOK, NEW p \in Process, LogStep(p)
  PROVE  CompleteOK'
<1>1. log \in Seq(Event) /\ written \in Nat
  BY DEF AttestationTypes, AttestationTypeOK
<1>2. CASE log' = log /\ written' \in {written, written + 1} /\ (garbled' \/ appended' = appended)
  <2>1. \A i \in 1..Len(log) : log[i].number \in 1..written'
    BY <1>1, <1>2, LogFacts DEF CompleteOK
  <2>2. ~garbled' => ~garbled /\ appended' = appended
    BY <1>2 DEF LogStep
  <2> QED
    BY <1>2, <2>1, <2>2 DEF CompleteOK
<1>3. CASE /\ log' = Append(log, NewEvent(p)) /\ written' = written + 1
           /\ Writing(p) /\ appended' \subseteq appended \cup {written + 1}
  <2>1. On(p)
    BY <1>3 DEF On, Writing, Is
  <2>2. NewEvent(p) \in Event /\ NewEvent(p).number = written + 1
    BY <2>1, RunFacts DEF NewEvent
  <2>3. /\ Len(log') = Len(log) + 1 /\ log'[Len(log) + 1].number = written + 1
        /\ \A i \in 1..Len(log) : log'[i] = log[i]
    BY <1>1, <1>3, <2>2, AppendFacts
  <2>4. /\ Len(log) \in Nat
        /\ \A i \in 1..Len(log') : i \in 1..Len(log) \/ i = Len(log) + 1
    BY <1>1, <2>3, LogFacts
  <2> QED
    BY <1>1, <1>3, <2>3, <2>4, SMTT(60) DEF CompleteOK, LogStep
<1> QED
  BY <1>2, <1>3 DEF LogStep

(* The same of the types, one action after the other.                       *)
LEMMA TypesKept ==
  ASSUME AttestationTypes, NEW p \in Process, AttestationStep(p)
  PROVE  AttestationTypes'
<1> DEFINE run1 == run'[p]
           Good(r) == r \in Running /\ (r.at = "called" \/ r.at = "print" \/
                         (r.at \in {"append", "cut"} /\ r.kind \in {"ok", "error"}) =>
                           r.request.probe <= Probes)
<1>1. /\ run \in [Process -> Running \cup {NoRun}]
      /\ log \in Seq(Event) /\ garbled \in BOOLEAN /\ orderly \in BOOLEAN
      /\ head \in [file : {"none", "torn", "whole"}, count : Nat, last : Nat]
      /\ runs \in 0..MaxRuns /\ written \in Nat /\ mishaps \in 0..MaxMishaps
      /\ appended \subseteq 1..written /\ answered \subseteq ProbeRequest
      /\ MaxRuns \in Nat /\ Probes \in Nat /\ MaxMishaps \in Nat
  BY AttestationAssumption DEF AttestationTypes, AttestationTypeOK
<1>2. ~On(p) => run[p] = NoRun
  BY <1>1 DEF On, Running, NoRun
<1>3. On(p) => Good(run[p])
  BY <1>1, <1>2 DEF On, NoRun, Running, AttestationTypes, ProbeOK, Is, Writing
<1>4. LogStep(p)
  BY LogSteps
<1>5. log' \in Seq(Event) /\ written' \in Nat /\ written' >= written
  <2>1. CASE log' = log /\ written' \in {written, written + 1}
    BY <1>1, <2>1
  <2>2. CASE log' = Append(log, NewEvent(p)) /\ written' = written + 1 /\ Writing(p)
    BY <1>1, <2>2, RunFacts, AppendFacts DEF On, Writing, Is
  <2> QED
    BY <1>4, <2>1, <2>2 DEF LogStep
<1>6. appended' \subseteq 1..written'
  <2>1. appended' = appended \/ (appended' = appended \cup {written + 1} /\ written' = written + 1)
    BY Reaching DEF AttestationStep, StartRun, CutLine, AppendEvent, FailAppend, EndProbes,
      BeginRequest,
      ModelReturns, ModelRaises, NextProbe, PrintRaises, WriteHead, Killed
  <2>2. \A n \in 1..written : n \in 1..written'
    BY <1>1, <1>5
  <2>3. written' = written + 1 => written + 1 \in 1..written'
    BY <1>1
  <2> QED
    BY <1>1, <2>1, <2>2, <2>3
<1>7. mishaps' \in 0..MaxMishaps /\ runs' \in 0..MaxRuns
  BY <1>1, SMTT(60) DEF AttestationStep, StartRun, CutLine, AppendEvent, FailAppend, EndProbes, BeginRequest,
    ModelReturns, ModelRaises, NextProbe, PrintRaises, WriteHead, Killed
<1>8. garbled' \in BOOLEAN
  BY <1>1 DEF AttestationStep, StartRun, CutLine, AppendEvent, FailAppend, EndProbes, BeginRequest,
    ModelReturns, ModelRaises, NextProbe, PrintRaises, WriteHead, Killed, LineReachesFile
<1>9. orderly' \in BOOLEAN
  BY <1>1 DEF AttestationStep, StartRun, CutLine, AppendEvent, FailAppend, EndProbes, BeginRequest,
    ModelReturns, ModelRaises, NextProbe, PrintRaises, WriteHead, Killed
<1>10. answered' \subseteq ProbeRequest
  <2>1. Is(p, "called") => run[p].request \in ProbeRequest
    BY RunFacts DEF On, Is
  <2> QED
    BY <1>1, <2>1 DEF AttestationStep, StartRun, CutLine, AppendEvent, FailAppend, EndProbes,
      BeginRequest,
      ModelReturns, ModelRaises, NextProbe, PrintRaises, WriteHead, Killed
<1>11. head' \in [file : {"none", "torn", "whole"}, count : Nat, last : Nat]
  <2>1. Is(p, "head") => run[p].count \in Nat /\ run[p].prev \in Nat
    BY RunFacts DEF On, Is
  <2> QED
    BY <1>1, <2>1, SMTT(60) DEF AttestationStep, StartRun, CutLine, AppendEvent, FailAppend, EndProbes,
      BeginRequest,
      ModelReturns, ModelRaises, NextProbe, PrintRaises, WriteHead, Killed
<1>12. run' = [run EXCEPT ![p] = run1] /\ (run1 = NoRun \/ Good(run1))
  <2>1. CASE StartRun(p)
    <3>1. [run |-> runs + 1, probe |-> 1] \in ProbeRequest
      BY <1>1, <2>1 DEF StartRun, ProbeRequest
    <3>2. LastEvent \in Nat /\ Len(log) \in Nat
      BY <1>1, LogFacts, EmptySeq DEF LastEvent
    <3> QED
      BY <1>1, <2>1, <3>1, <3>2 DEF StartRun, Running, Kind
  <2>2. CASE CutLine(p)
    BY <1>1, <1>3, <2>2 DEF CutLine, Is, On, Running
  <2>3. CASE AppendEvent(p)
    BY <1>1, <1>3, <2>3, SMTT(60) DEF AppendEvent, Is, On, Writing, Running, Kind, AfterAppend
  <2>4. CASE FailAppend(p)
    BY <1>1, <1>3, <2>4, SMTT(60) DEF FailAppend, Detach, Is, On, Writing, Running, Kind
  <2>5. CASE EndProbes(p) \/ PrintRaises(p)
    BY <1>1, <1>3, <2>5, SMTT(60) DEF EndProbes, PrintRaises, Detach, Is, On, Running, Kind
  <2>6. CASE BeginRequest(p) \/ ModelReturns(p) \/ ModelRaises(p)
    BY <1>1, <1>3, <2>6, SMTT(60) DEF BeginRequest, ModelReturns, ModelRaises, Is, On, Running, Kind
  <2>7. CASE NextProbe(p)
    BY <1>1, <1>3, <2>7, SMTT(60) DEF NextProbe, Is, On, Running, Kind, ProbeRequest
  <2>8. CASE WriteHead(p) \/ Killed(p)
    BY <1>1, <2>8 DEF WriteHead, Killed
  <2> QED
    BY <2>1, <2>2, <2>3, <2>4, <2>5, <2>6, <2>7, <2>8 DEF AttestationStep
<1>13. run' \in [Process -> Running \cup {NoRun}]
  BY <1>1, <1>12
<1>14. \A q \in Process : On(q)' => ProbeOK(q)'
  BY <1>1, <1>12 DEF AttestationTypes, On, NoRun, ProbeOK, Is, Writing
<1> QED
  BY <1>5, <1>6, <1>7, <1>8, <1>9, <1>10, <1>11, <1>13, <1>14
    DEF AttestationTypes, AttestationTypeOK

(* What was in the file stays, and a step of p leaves the others alone.     *)
LEMMA LogGrows ==
  ASSUME AttestationTypes, NEW p \in Process, LogStep(p)
  PROVE  /\ Len(log) \in Nat /\ Len(log') \in Nat /\ Len(log) <= Len(log')
         /\ Len(log') = Len(log) \/ Len(log') = Len(log) + 1
         /\ \A i \in 1..Len(log) : log'[i] = log[i]
         /\ \A k \in 0..Len(log) : NumberAt(k)' = NumberAt(k)
         /\ ~garbled' /\ ChainLinked' => ~garbled /\ ChainLinked
<1>1. log \in Seq(Event)
  BY DEF AttestationTypes, AttestationTypeOK
<1>2. /\ Len(log) \in Nat /\ Len(log') \in Nat /\ Len(log) <= Len(log')
      /\ Len(log') = Len(log) \/ Len(log') = Len(log) + 1
      /\ \A i \in 1..Len(log) : log'[i] = log[i]
  <2>1. CASE log' = log
    BY <1>1, <2>1, LogFacts
  <2>2. CASE log' = Append(log, NewEvent(p)) /\ Writing(p)
    BY <1>1, <2>2, RunFacts, AppendFacts, LogFacts DEF On, Writing, Is
  <2> QED
    BY <2>1, <2>2 DEF LogStep
<1>3. \A k \in 0..Len(log) : NumberAt(k)' = NumberAt(k)
  BY <1>2 DEF NumberAt
<1>4. ASSUME ChainLinked', NEW i \in 1..Len(log)
      PROVE  log[i].prev = NumberAt(i - 1)
  <2>1. i - 1 \in 0..Len(log) /\ i \in 1..Len(log')
    BY <1>2
  <2>2. log'[i].prev = NumberAt(i - 1)'
    BY <1>4, <2>1 DEF ChainLinked
  <2> QED
    BY <1>2, <1>3, <2>1, <2>2
<1> QED
  BY <1>2, <1>3, <1>4 DEF ChainLinked, LogStep

LEMMA PlaceKept ==
  ASSUME AttestationTypes, CompleteOK, PlaceOK, NEW p \in Process, AttestationStep(p)
  PROVE  PlaceOK'
<1> SUFFICES ASSUME ~garbled', ChainLinked'
             PROVE  /\ HeadOK'
                    /\ \A q \in Process : On(q)' =>
                         /\ run'[q].count \in 0..Len(log') /\ run'[q].prev = NumberAt(run[q].count)'
                         /\ Is(q, "head")' => run'[q].count # 0
  BY DEF PlaceOK
<1>1. LogStep(p)
  BY LogSteps
<1>2. /\ Len(log) \in Nat /\ Len(log') \in Nat /\ Len(log) <= Len(log')
      /\ \A i \in 1..Len(log) : log'[i] = log[i]
      /\ ~garbled /\ ChainLinked
      /\ log \in Seq(Event) /\ run \in [Process -> Running \cup {NoRun}]
  BY <1>1, LogGrows DEF AttestationTypes, AttestationTypeOK
<1>3. /\ HeadOK
      /\ \A q \in Process : On(q) =>
           /\ run[q].count \in 0..Len(log)
           /\ run[q].prev = IF run[q].count = 0 THEN 0 ELSE log[run[q].count].number
           /\ Is(q, "head") => run[q].count # 0
  BY <1>2 DEF PlaceOK, NumberAt
<1>4. \A q \in Process : On(q) =>
        /\ run[q].count \in 0..Len(log')
        /\ run[q].prev = IF run[q].count = 0 THEN 0 ELSE log'[run[q].count].number
  BY <1>2, <1>3, SMTT(60)
<1>5. HeadOK'
  <2>1. CASE WriteHead(p)
    BY <1>2, <1>3, <2>1 DEF WriteHead, HeadOK, On, Is
  <2>2. CASE head' = head \/ head' = [head EXCEPT !.file = "torn"]
    BY <1>2, <1>3, <2>2 DEF HeadOK, AttestationTypes, AttestationTypeOK
  <2> QED
    BY <2>1, <2>2 DEF AttestationStep, StartRun, CutLine, AppendEvent, FailAppend, EndProbes,
      BeginRequest,
      ModelReturns, ModelRaises, NextProbe, PrintRaises, Killed
<1>6. ASSUME On(p)'
      PROVE  /\ run'[p].count \in 0..Len(log')
             /\ run'[p].prev = IF run'[p].count = 0 THEN 0 ELSE log'[run'[p].count].number
             /\ Is(p, "head")' => run'[p].count # 0
  <2>1. CASE StartRun(p)
    <3>1. LastEvent = IF Len(log) = 0 THEN 0 ELSE log[Len(log)].number
      BY <1>2, EmptySeq DEF LastEvent
    <3>2. run'[p].count = Len(log) /\ run'[p].prev = LastEvent /\ log' = log /\ ~Is(p, "head")'
      BY <1>2, <2>1 DEF StartRun, Is
    <3> QED
      BY <1>2, <3>1, <3>2
  <2>2. CASE AppendEvent(p)
    <3>1. On(p) /\ log' = Append(log, NewEvent(p))
      BY <2>2, Reaching DEF AppendEvent, On, Writing, Is
    <3>2. /\ Len(log') = Len(log) + 1 /\ log'[Len(log) + 1] = NewEvent(p)
          /\ written \in Nat
      BY <1>2, <3>1, RunFacts, AppendFacts
    <3>3. log'[Len(log) + 1].prev = IF Len(log) = 0 THEN 0 ELSE log[Len(log)].number
      <4>1. \A i \in 1..Len(log') : log'[i].prev = IF i - 1 = 0 THEN 0 ELSE log'[i - 1].number
        BY DEF ChainLinked, NumberAt
      <4>2. Len(log) + 1 \in 1..Len(log') /\ (Len(log) + 1) - 1 = Len(log)
        BY <1>2, <3>2
      <4> QED
        BY <1>2, <4>1, <4>2, SMTT(60)
    <3>4. run[p].count = Len(log)
      <4>1. run[p].prev = IF Len(log) = 0 THEN 0 ELSE log[Len(log)].number
        BY <3>2, <3>3 DEF NewEvent
      <4>2. /\ run[p].count \in 0..Len(log)
            /\ run[p].prev = IF run[p].count = 0 THEN 0 ELSE log[run[p].count].number
        BY <1>3, <3>1
      <4>3. CASE Len(log) = 0
        BY <4>2, <4>3
      <4>4. CASE Len(log) # 0
        <5>1. Len(log) \in 1..Len(log) /\ log[Len(log)].number # 0
          BY <1>2, <4>4, LogFacts
        <5>2. run[p].count \in 1..Len(log) /\ log[run[p].count].number = log[Len(log)].number
          BY ONLY <1>2, <4>1, <4>2, <4>4, <5>1
        <5> QED
          BY <5>1, <5>2 DEF CompleteOK
      <4> QED
        BY <4>3, <4>4
    <3>5. run'[p].count = Len(log) + 1 /\ run'[p].prev = written + 1
      <4>1. run[p] \in Running
        BY <3>1, RunFacts
      <4> QED
        BY <1>2, <2>2, <3>4, <4>1 DEF AppendEvent, Running
    <3> QED
      BY <1>2, <3>2, <3>5 DEF NewEvent
  <2>3. CASE ~StartRun(p) /\ ~AppendEvent(p)
    <3>1. On(p)
      BY <2>3 DEF AttestationStep, On, Is, Writing, CutLine, FailAppend, EndProbes, BeginRequest,
        ModelReturns,
        ModelRaises, NextProbe, PrintRaises, WriteHead, Killed
    <3>2. run[p] \in Running
      BY <3>1, RunFacts
    <3>3. run'[p].count = run[p].count /\ run'[p].prev = run[p].prev /\ ~Is(p, "head")'
      BY <1>2, <1>6, <2>3, <3>2 DEF AttestationStep, On, NoRun, Running, Is, Writing, Detach,
        CutLine, FailAppend,
        EndProbes, BeginRequest, ModelReturns, ModelRaises, NextProbe, PrintRaises, WriteHead,
        Killed
    <3> QED
      BY <1>4, <3>1, <3>3
  <2> QED
    BY <2>1, <2>2, <2>3
<1>7. ASSUME NEW q \in Process \ {p}, On(q)'
      PROVE  /\ run'[q].count \in 0..Len(log')
             /\ run'[q].prev = IF run'[q].count = 0 THEN 0 ELSE log'[run'[q].count].number
             /\ Is(q, "head")' => run'[q].count # 0
  BY <1>1, <1>3, <1>4, <1>7 DEF LogStep, On, Is
<1> QED
  BY <1>5, <1>6, <1>7 DEF NumberAt

LEMMA OrderKept ==
  ASSUME AttestationTypes, OrderOK, NEW p \in Process, AttestationStep(p)
  PROVE  OrderOK'
<1> SUFFICES ASSUME orderly'
             PROVE  /\ ~garbled' /\ ChainLinked'
                    /\ \A q, r \in Process : On(q)' /\ On(r)' => q = r
                    /\ \A q \in Process : On(q)' => run'[q].prev = NumberAt(Len(log))'
  BY DEF OrderOK
<1>1. LogStep(p)
  BY LogSteps
<1>2. orderly
  BY DEF AttestationStep, StartRun, CutLine, AppendEvent, FailAppend, EndProbes, BeginRequest,
    ModelReturns, ModelRaises, NextProbe, PrintRaises, WriteHead, Killed
<1>3. /\ log \in Seq(Event) /\ run \in [Process -> Running \cup {NoRun}]
      /\ Len(log) \in Nat
      /\ ~garbled /\ ChainLinked
      /\ \A q, r \in Process : On(q) /\ On(r) => q = r
      /\ \A q \in Process : On(q) => run[q].prev = NumberAt(Len(log))
  BY <1>2, LogFacts DEF OrderOK, AttestationTypes, AttestationTypeOK
<1>4. \A q \in Process \ {p} : ~On(q)'
  <2>1. \A q \in Process \ {p} : ~On(q)
    BY <1>3 DEF AttestationStep, StartRun, On, Is, Writing, CutLine, AppendEvent, FailAppend,
      EndProbes,
      BeginRequest, ModelReturns, ModelRaises, NextProbe, PrintRaises, WriteHead, Killed
  <2> QED
    BY <1>1, <2>1 DEF LogStep, On
<1>5. ~FailAppend(p)
  BY DEF FailAppend
<1>6. CASE AppendEvent(p)
  <2>1. On(p) /\ \A q \in Process \ {p} : ~Is(q, "cut")
    BY <1>3, <1>6 DEF AppendEvent, Writing, On, Is
  <2>2. ~garbled' /\ log' = Append(log, NewEvent(p)) /\ written' = written + 1
    BY <1>3, <1>6, <2>1, Reaching DEF AppendEvent, Cutting
  <2>3. /\ Len(log') = Len(log) + 1 /\ log'[Len(log) + 1] = NewEvent(p)
        /\ \A i \in 1..Len(log) : log'[i] = log[i]
        /\ written \in Nat /\ run[p] \in Running
    BY <1>3, <2>1, <2>2, RunFacts, AppendFacts
  <2>4. run'[p].prev = written + 1
    BY <1>3, <1>6, <2>3 DEF AppendEvent, Running
  <2>5. ASSUME NEW i \in 1..Len(log')
        PROVE  log'[i].prev = IF i - 1 = 0 THEN 0 ELSE log'[i - 1].number
    <3>1. CASE i \in 1..Len(log)
      BY <1>3, <2>3, <3>1 DEF ChainLinked, NumberAt
    <3>2. CASE i = Len(log) + 1
      <4>1. log'[i].prev = NumberAt(Len(log))
        BY <1>3, <2>1, <2>3, <3>2 DEF NewEvent
      <4> QED
        BY <1>3, <2>3, <3>2, <4>1 DEF NumberAt
    <3> QED
      BY <1>3, <2>3, <3>1, <3>2
  <2>6. Len(log') \in Nat /\ log'[Len(log')].number = written + 1 /\ Len(log') # 0
    BY <1>3, <2>3 DEF NewEvent
  <2> QED
    BY <1>4, <2>2, <2>4, <2>5, <2>6 DEF ChainLinked, NumberAt
<1>7. CASE ~AppendEvent(p)
  <2>1. log' = log /\ ~garbled'
    <3>1. CASE CutLine(p)
      <4>1. Cutting = {}
        BY <1>3, <3>1 DEF CutLine, Cutting, On, Is
      <4> QED
        BY <1>3, <3>1, <4>1 DEF CutLine
    <3>2. CASE Killed(p)
      BY <1>3, <3>2 DEF Killed
    <3>3. CASE StartRun(p) \/ EndProbes(p) \/ BeginRequest(p) \/ ModelReturns(p)
      <4>1. log' = log /\ garbled' = garbled
        BY <3>3 DEF StartRun, EndProbes, BeginRequest, ModelReturns
      <4> QED
        BY <1>3, <4>1
    <3>4. CASE ModelRaises(p) \/ NextProbe(p) \/ PrintRaises(p) \/ WriteHead(p)
      <4>1. log' = log /\ garbled' = garbled
        BY <3>4 DEF ModelRaises, NextProbe, PrintRaises, WriteHead
      <4> QED
        BY <1>3, <4>1
    <3> QED
      BY <1>5, <1>7, <3>1, <3>2, <3>3, <3>4 DEF AttestationStep
  <2>2. ChainLinked' /\ NumberAt(Len(log))' = NumberAt(Len(log))
    BY <1>3, <2>1 DEF ChainLinked, NumberAt
  <2>3. ASSUME On(p)'
        PROVE  run'[p].prev = NumberAt(Len(log))
    <3>1. CASE StartRun(p)
      <4>1. LastEvent = NumberAt(Len(log))
        BY <1>3, EmptySeq DEF LastEvent, NumberAt
      <4> QED
        BY <1>3, <3>1, <4>1 DEF StartRun
    <3>2. CASE ~StartRun(p)
      <4>1. On(p)
        BY <1>5, <1>7, <3>2 DEF AttestationStep, On, Is, Writing, CutLine, EndProbes, BeginRequest,
          ModelReturns, ModelRaises, NextProbe, PrintRaises, WriteHead, Killed
      <4>2. run[p] \in Running
        BY <4>1, RunFacts
      <4>3. run'[p].prev = run[p].prev
        <5>1. CASE CutLine(p) \/ EndProbes(p) \/ BeginRequest(p) \/ ModelReturns(p)
          BY <1>3, <4>2, <5>1, ZenonT(60) DEF Running, Detach, CutLine, EndProbes, BeginRequest, ModelReturns
        <5>2. CASE ModelRaises(p) \/ NextProbe(p) \/ PrintRaises(p)
          BY <1>3, <4>2, <5>2, ZenonT(60) DEF Running, Detach, ModelRaises, NextProbe, PrintRaises
        <5>3. CASE WriteHead(p) \/ Killed(p)
          <6>1. ~On(p)'
            <7>1. run'[p] = NoRun
              BY <1>3, <5>3 DEF WriteHead, Killed
            <7> QED
              BY <7>1 DEF On, NoRun
          <6> QED
            BY <2>3, <6>1
        <5> QED
          BY <1>5, <1>7, <3>2, <5>1, <5>2, <5>3 DEF AttestationStep
      <4> QED
        BY <1>3, <4>1, <4>3
    <3> QED
      BY <3>1, <3>2
  <2> QED
    BY <1>4, <2>1, <2>2, <2>3 DEF On
<1> QED
  BY <1>6, <1>7

-----------------------------------------------------------------------------
(* Outcomes.                                                                *)

(* A run keeps its number, and only a new one takes one.                    *)
LEMMA RunIdsKept ==
  ASSUME AttestationTypes, RunIdsOK, NEW p \in Process, AttestationStep(p)
  PROVE  /\ RunIdsOK'
         /\ ~StartRun(p) /\ On(p)' => On(p) /\ run'[p].request.run = run[p].request.run
         /\ \A r \in answered' \ answered : On(p) /\ r.run = run[p].request.run
<1>1. LogStep(p)
  BY LogSteps
<1>2. /\ log \in Seq(Event) /\ run \in [Process -> Running \cup {NoRun}]
      /\ runs \in Nat /\ Len(log) \in Nat
  BY LogFacts, AttestationAssumption DEF AttestationTypes, AttestationTypeOK
<1>3. runs' = runs \/ (StartRun(p) /\ runs' = runs + 1)
  BY DEF AttestationStep, StartRun, CutLine, AppendEvent, FailAppend, EndProbes, BeginRequest,
    ModelReturns, ModelRaises, NextProbe, PrintRaises, WriteHead, Killed
<1>4. ~StartRun(p) /\ On(p)' => On(p) /\ run'[p].request.run = run[p].request.run
  <2> SUFFICES ASSUME ~StartRun(p), On(p)'
               PROVE  On(p) /\ run'[p].request.run = run[p].request.run
    OBVIOUS
  <2>1. On(p)
    BY DEF AttestationStep, On, Is, Writing, CutLine, AppendEvent, FailAppend, EndProbes,
      BeginRequest,
      ModelReturns, ModelRaises, NextProbe, PrintRaises, WriteHead, Killed
  <2>2. run[p] \in Running /\ run[p].request \in ProbeRequest
    BY <2>1, RunFacts
  <2> QED
    BY <1>2, <2>1, <2>2, SMTT(60) DEF AttestationStep, On, NoRun, Running, ProbeRequest, Detach, CutLine,
      AppendEvent,
      FailAppend, EndProbes, BeginRequest, ModelReturns, ModelRaises, NextProbe, PrintRaises,
      WriteHead, Killed
<1>5. \A r \in answered' \ answered : On(p) /\ r.run = run[p].request.run
  BY DEF AttestationStep, On, Is, StartRun, CutLine, AppendEvent, FailAppend, EndProbes,
    BeginRequest,
    ModelReturns, ModelRaises, NextProbe, PrintRaises, WriteHead, Killed
<1>6. StartRun(p) => run'[p].request.run = runs + 1
  BY <1>2 DEF StartRun
<1>7. \A q \in Process : On(q) => run[q].request.run \in Nat
  BY RunFacts
<1>8. runs' \in Nat /\ runs <= runs'
  BY <1>2, <1>3
<1>9. \A q \in Process : On(q)' => run'[q].request.run <= runs'
  <2>1. \A q \in Process : On(q) => run[q].request.run <= runs'
    BY <1>2, <1>7, <1>8 DEF RunIdsOK
  <2>2. \A q \in Process \ {p} : On(q)' => On(q) /\ run'[q].request.run = run[q].request.run
    BY <1>1 DEF LogStep, On
  <2>3. On(p)' => run'[p].request.run <= runs'
    <3>1. CASE StartRun(p)
      <4>1. runs' = runs + 1
        BY <3>1 DEF StartRun
      <4> QED
        BY <1>2, <1>6, <3>1, <4>1
    <3>2. CASE ~StartRun(p)
      BY <1>4, <2>1, <3>2
    <3> QED
      BY <3>1, <3>2
  <2> QED
    BY <2>1, <2>2, <2>3
<1>10. \A q, r \in Process :
         On(q)' /\ On(r)' /\ run'[q].request.run = run'[r].request.run => q = r
  <2>1. ASSUME NEW q \in Process \ {p}, On(q)', On(p)'
        PROVE  run'[q].request.run # run'[p].request.run
    BY <1>1, <1>2, <1>4, <1>6, <1>7, <2>1 DEF RunIdsOK, LogStep, On
  <2> QED
    BY <1>1, <2>1 DEF RunIdsOK, LogStep, On
<1>11. \A i \in 1..Len(log') : log'[i].request.run <= runs'
  <2>1. CASE log' = log
    BY <1>2, <1>3, <2>1, LogFacts, SMTT(60) DEF RunIdsOK
  <2>2. CASE log' = Append(log, NewEvent(p)) /\ Writing(p)
    <3>1. On(p)
      BY <2>2 DEF On, Writing, Is
    <3>2. /\ Len(log') = Len(log) + 1 /\ log'[Len(log) + 1] = NewEvent(p)
          /\ \A i \in 1..Len(log) : log'[i] = log[i]
      BY <1>2, <2>2, <3>1, RunFacts, AppendFacts
    <3>3. NewEvent(p).request.run <= runs
      BY <3>1 DEF NewEvent, RunIdsOK
    <3> QED
      BY <1>2, <1>3, <3>2, <3>3, LogFacts, <1>7, <3>1 DEF RunIdsOK, NewEvent
  <2> QED
    BY <1>1, <2>1, <2>2 DEF LogStep
<1>12. \A r \in answered' : r.run <= runs'
  <2>1. \A r \in answered : r.run \in Nat
    BY AttestationAssumption DEF AttestationTypes, AttestationTypeOK, ProbeRequest
  <2> QED
    BY <1>2, <1>5, <1>7, <1>8, <2>1 DEF RunIdsOK
<1> QED
  BY <1>4, <1>5, <1>9, <1>10, <1>11, <1>12 DEF RunIdsOK

(* What a step of p adds: an outcome of its own request, which had none, or *)
(* the answer to it.                                                        *)
LEMMA AddedTo ==
  ASSUME AttestationTypes, NEW p \in Process, AttestationStep(p)
  PROVE  /\ answered' = answered \/ (ModelReturns(p) /\ answered' = answered \cup {run[p].request})
         /\ log' = log \/ ((AppendEvent(p) \/ FailAppend(p)) /\ Writing(p) /\ log' = Append(log, NewEvent(p)))
<1>1. answered' = answered \/ (ModelReturns(p) /\ answered' = answered \cup {run[p].request})
  BY DEF AttestationStep, StartRun, CutLine, AppendEvent, FailAppend, EndProbes, BeginRequest,
    ModelReturns, ModelRaises, NextProbe, PrintRaises, WriteHead, Killed
<1>2. AppendEvent(p) \/ FailAppend(p) =>
        Writing(p) /\ (log' = log \/ log' = Append(log, NewEvent(p)))
  BY Reaching DEF AppendEvent, FailAppend
<1>3. ~AppendEvent(p) /\ ~FailAppend(p) => log' = log
  BY DEF AttestationStep, StartRun, CutLine, EndProbes, BeginRequest,
    ModelReturns, ModelRaises, NextProbe, PrintRaises, WriteHead, Killed
<1> QED
  BY <1>1, <1>2, <1>3

(* An event of the log, and an answer, are of before or of this step.       *)
LEMMA Entries ==
  ASSUME AttestationTypes, NEW p \in Process, AttestationStep(p)
  PROVE  /\ \A i \in 1..Len(log') :
              \/ i \in 1..Len(log) /\ log'[i] = log[i]
              \/ /\ i = Len(log) + 1 /\ log'[i] = NewEvent(p)
                 /\ Writing(p) /\ (AppendEvent(p) \/ FailAppend(p))
         /\ \A r \in answered' : r \in answered \/ (ModelReturns(p) /\ r = run[p].request)
         /\ DOMAIN log' = 1..Len(log') /\ Len(log') \in Nat /\ Len(log) \in Nat
<1>1. log \in Seq(Event)
  BY DEF AttestationTypes, AttestationTypeOK
<1>2. CASE log' = log
  BY <1>1, <1>2, AddedTo, LogFacts
<1>3. CASE (AppendEvent(p) \/ FailAppend(p)) /\ Writing(p) /\ log' = Append(log, NewEvent(p))
  <2>1. On(p)
    BY <1>3 DEF On, Writing, Is
  <2>2. NewEvent(p) \in Event
    BY <2>1, RunFacts
  <2>3. /\ Len(log) \in Nat /\ Len(log') = Len(log) + 1 /\ log'[Len(log) + 1] = NewEvent(p)
        /\ \A i \in 1..Len(log) : log'[i] = log[i]
        /\ DOMAIN log' = 1..(Len(log) + 1)
    BY <1>1, <1>3, <2>2, AppendFacts, LogFacts
  <2>4. \A i \in 1..Len(log') : i \in 1..Len(log) \/ i = Len(log) + 1
    BY <2>3
  <2> QED
    BY <1>3, <2>3, <2>4, AddedTo
<1> QED
  BY <1>2, <1>3, AddedTo

LEMMA PastKept ==
  ASSUME AttestationTypes, OutcomeOK, NEW p \in Process, AttestationStep(p)
  PROVE  \A q \in Process : On(q)' => PastOK(q)'
<1>1. LogStep(p) /\ run \in [Process -> Running \cup {NoRun}]
  BY LogSteps DEF AttestationTypes, AttestationTypeOK
<1>2. ASSUME NEW q \in Process \ {p}, On(q)'
      PROVE  PastOK(q)'
  <2>1. run'[q] = run[q] /\ On(q) /\ PastOK(q)
    BY <1>1, <1>2 DEF LogStep, On, OutcomeOK
  <2>2. On(p) => run[p].request.run # run[q].request.run
    BY <2>1 DEF OutcomeOK, RunIdsOK
  <2>3. \A i \in 1..Len(log') : log'[i].request.run = run[q].request.run =>
          i \in 1..Len(log) /\ log'[i] = log[i]
    <3>1. ASSUME NEW i \in 1..Len(log'), log'[i] = NewEvent(p), Writing(p)
          PROVE  log'[i].request.run # run[q].request.run
      BY <2>2, <3>1 DEF NewEvent, On, Writing, Is
    <3> QED
      BY <3>1, Entries
  <2>4. \A r \in answered' : r.run = run[q].request.run => r \in answered
    BY <2>2, Entries DEF ModelReturns, On, Is
  <2>5. answered \subseteq answered'
    BY AddedTo
  <2>6. (FreshAt(q)' <=> FreshAt(q)) /\ (Answering(q)' <=> Answering(q))
    BY <2>1 DEF FreshAt, Answering, Writing, Is
  <2> QED
    BY <2>1, <2>3, <2>4, <2>5, <2>6 DEF PastOK, OutcomeOf
<1>3. ASSUME StartRun(p), On(p)'
      PROVE  PastOK(p)'
  <2>1. /\ run'[p].request.run = runs + 1 /\ log' = log /\ answered' = answered
        /\ ~Answering(p)'
    BY <1>1, <1>3 DEF StartRun, Answering
  <2>2. /\ \A i \in 1..Len(log) : log[i].request.run # runs + 1
        /\ \A r \in answered : r.run # runs + 1
    BY SMTT(60), LogFacts, AttestationAssumption
      DEF OutcomeOK, RunIdsOK, AttestationTypes, AttestationTypeOK, ProbeRequest
  <2> QED
    BY <2>1, <2>2 DEF PastOK
<1>4. ASSUME ~StartRun(p), On(p)'
      PROVE  PastOK(p)'
  <2>1. On(p) /\ PastOK(p)
    BY <1>4, RunIdsKept DEF OutcomeOK
  <2>2. run[p] \in Running /\ run[p].request \in ProbeRequest /\ run[p].request.probe \in Nat
    BY <2>1, RunFacts
  <2>3. /\ \A i \in 1..Len(log) : OutcomeOf(i) /\ log[i].request.run = run[p].request.run =>
             log[i].request.probe \in Nat
        /\ \A r \in answered : r.probe \in Nat
    <3>1. log \in Seq(Event) /\ \A r \in answered : r.probe \in Nat
      BY AttestationAssumption DEF AttestationTypes, AttestationTypeOK, ProbeRequest
    <3> QED
      BY <3>1, LogFacts
  <2>4. CASE NextProbe(p)
    <3>1. /\ run'[p].request.probe = run[p].request.probe + 1
          /\ run'[p].request.run = run[p].request.run
          /\ ~Answering(p)' /\ log' = log /\ answered' = answered
      BY <1>1, <2>2, <2>4 DEF NextProbe, Running, ProbeRequest, Answering, Writing, Is
    <3> QED
      BY <2>1, <2>2, <2>3, <3>1, SMTT(60) DEF PastOK, OutcomeOf
  <2>5. CASE ModelReturns(p)
    <3>1. /\ run'[p].request = run[p].request /\ log' = log
          /\ answered' = answered \cup {run[p].request}
          /\ Answering(p)' /\ FreshAt(p)
      BY <1>1, <2>2, <2>5 DEF ModelReturns, Running, Answering, FreshAt, Writing, Is
    <3> QED
      BY <2>1, <2>2, <2>3, <3>1 DEF PastOK, OutcomeOf
  <2>6. CASE AppendEvent(p) \/ FailAppend(p)
    <3>1. /\ run'[p].request = run[p].request /\ answered' = answered
          /\ ~Answering(p)'
          /\ FreshAt(p)' => FreshAt(p) /\ ~Answering(p) /\ run[p].kind = "start"
      BY <1>1, <1>4, <2>2, <2>6 DEF AppendEvent, FailAppend, Detach, Running, Kind, AfterAppend,
        Answering, FreshAt, Writing, Is, On, NoRun
    <3>2. FreshAt(p)' => \A i \in 1..Len(log') : OutcomeOf(i)' => i \in 1..Len(log) /\ log'[i] = log[i]
      <4>1. ASSUME FreshAt(p)', NEW i \in 1..Len(log'), log'[i] = NewEvent(p), Writing(p)
            PROVE  ~(OutcomeOf(i)')
        BY <3>1, <4>1 DEF OutcomeOf, NewEvent
      <4> QED
        BY <4>1, Entries
    <3>3. \A i \in 1..Len(log') : ~(i \in 1..Len(log) /\ log'[i] = log[i]) =>
            log'[i].request = run[p].request
      <4>1. NewEvent(p).request = run[p].request
        BY DEF NewEvent
      <4> QED
        BY <4>1, Entries
    <3> QED
      BY <2>1, <2>2, <2>3, <3>1, <3>2, <3>3 DEF PastOK, OutcomeOf
  <2>7. CASE ~NextProbe(p) /\ ~ModelReturns(p) /\ ~AppendEvent(p) /\ ~FailAppend(p)
    <3>1. /\ run'[p].request = run[p].request /\ answered' = answered /\ log' = log
          /\ FreshAt(p)' => FreshAt(p)
          /\ Answering(p)' <=> Answering(p)
      <4>1. CASE CutLine(p) \/ EndProbes(p)
        BY <1>1, <2>2, <4>1 DEF CutLine, EndProbes, Detach, Running, Answering, FreshAt, Writing, Is
      <4>2. CASE BeginRequest(p) \/ ModelRaises(p)
        BY <1>1, <2>2, <4>2 DEF BeginRequest, ModelRaises, Running, Answering, FreshAt, Writing, Is
      <4>3. CASE PrintRaises(p)
        BY <1>1, <2>2, <4>3 DEF PrintRaises, Detach, Running, Answering, FreshAt, Writing, Is
      <4>4. CASE WriteHead(p) \/ Killed(p)
        BY <1>1, <1>4, <4>4 DEF WriteHead, Killed, On, NoRun
      <4> QED
        BY <1>4, <2>7, <4>1, <4>2, <4>3, <4>4 DEF AttestationStep
    <3> QED
      BY <2>1, <3>1 DEF PastOK, OutcomeOf
  <2> QED
    BY <2>4, <2>5, <2>6, <2>7
<1> QED
  BY <1>2, <1>3, <1>4

LEMMA OneOutcomeKept ==
  ASSUME AttestationTypes, OutcomeOK, NEW p \in Process, AttestationStep(p)
  PROVE  OneOutcome'
<1>1. /\ log \in Seq(Event) /\ DOMAIN log = 1..Len(log) /\ Len(log) \in Nat
      /\ answered \subseteq ProbeRequest
  BY LogFacts DEF AttestationTypes, AttestationTypeOK
<1>2. \A i \in 1..Len(log) : OutcomeOf(i) =>
        /\ log[i].kind = "ok" <=> log[i].request \in answered
        /\ \A j \in 1..Len(log) : j # i /\ log[j].request = log[i].request => ~OutcomeOf(j)
  BY <1>1 DEF OutcomeOK, OneOutcome, OutcomeOf
<1>3. On(p) => PastOK(p)
  BY DEF OutcomeOK
(* A request that has no outcome yet.                                       *)
<1>4. On(p) /\ FreshAt(p) =>
        /\ \A i \in 1..Len(log) : OutcomeOf(i) => log[i].request # run[p].request
        /\ run[p].request \in answered <=> Answering(p)
  BY <1>3 DEF PastOK
<1>5. ASSUME NEW i \in 1..Len(log), OutcomeOf(i)
      PROVE  log[i].request \in answered' <=> log[i].request \in answered
  <2>1. CASE answered' = answered
    BY <2>1
  <2>2. CASE ModelReturns(p) /\ answered' = answered \cup {run[p].request}
    <3>1. On(p) /\ FreshAt(p)
      BY <2>2 DEF ModelReturns, On, FreshAt, Is
    <3> QED
      BY <1>4, <1>5, <2>2, <3>1
  <2> QED
    BY <2>1, <2>2, AddedTo
<1>6. ASSUME NEW i \in 1..Len(log'), log'[i] = NewEvent(p), Writing(p), OutcomeOf(i)',
             AppendEvent(p) \/ FailAppend(p)
      PROVE  /\ On(p) /\ FreshAt(p) /\ log'[i].request = run[p].request
             /\ log'[i].kind = "ok" <=> log'[i].request \in answered'
  <2>1. log'[i].kind = run[p].kind /\ log'[i].request = run[p].request
    BY <1>6 DEF NewEvent
  <2>2. On(p) /\ FreshAt(p)
    BY <1>6, <2>1 DEF On, FreshAt, Writing, Is, OutcomeOf
  <2>3. answered' = answered
    BY <1>6 DEF AppendEvent, FailAppend
  <2> QED
    BY <1>4, <1>6, <2>1, <2>2, <2>3 DEF Answering
<1>7. ASSUME NEW i \in 1..Len(log'), OutcomeOf(i)'
      PROVE  log'[i].kind = "ok" <=> log'[i].request \in answered'
  <2>1. CASE i \in 1..Len(log) /\ log'[i] = log[i]
    BY <1>2, <1>5, <1>7, <2>1 DEF OutcomeOf
  <2>2. CASE ~(i \in 1..Len(log) /\ log'[i] = log[i])
    BY <1>6, <1>7, <2>2, Entries
  <2> QED
    BY <2>1, <2>2
<1>8. ASSUME NEW i \in 1..Len(log'), OutcomeOf(i)', NEW j \in 1..Len(log'), OutcomeOf(j)', i # j
      PROVE  log'[j].request # log'[i].request
  <2>1. CASE i \in 1..Len(log) /\ log'[i] = log[i] /\ j \in 1..Len(log) /\ log'[j] = log[j]
    BY <1>2, <1>8, <2>1 DEF OutcomeOf
  <2>2. CASE i \in 1..Len(log) /\ log'[i] = log[i] /\ ~(j \in 1..Len(log) /\ log'[j] = log[j])
    BY <1>4, <1>6, <1>8, <2>2, Entries DEF OutcomeOf
  <2>3. CASE ~(i \in 1..Len(log) /\ log'[i] = log[i]) /\ j \in 1..Len(log) /\ log'[j] = log[j]
    BY <1>4, <1>6, <1>8, <2>3, Entries DEF OutcomeOf
  <2>4. CASE ~(i \in 1..Len(log) /\ log'[i] = log[i]) /\ ~(j \in 1..Len(log) /\ log'[j] = log[j])
    BY <1>8, <2>4, Entries
  <2> QED
    BY <2>1, <2>2, <2>3, <2>4
<1>9. DOMAIN log' = 1..Len(log')
  BY Entries
<1> QED
  BY <1>7, <1>8, <1>9 DEF OneOutcome, OutcomeOf

-----------------------------------------------------------------------------
LEMMA AttestationHolds == AttestationSpec => []AttestationInv
<1>1. AttestationInit => AttestationInv
  <2> SUFFICES ASSUME AttestationInit
               PROVE  AttestationInv
    OBVIOUS
  <2>1. /\ log = <<>> /\ Len(log) = 0 /\ log \in Seq(Event) /\ DOMAIN log = {}
        /\ appended = {} /\ answered = {} /\ head.file = "none" /\ ~garbled
        /\ \A p \in Process : ~On(p)
    BY EmptySeq DEF AttestationInit, On, NoRun
  <2>2. AttestationTypes
    <3>1. head \in [file : {"none", "torn", "whole"}, count : Nat, last : Nat]
      BY DEF AttestationInit
    <3>2. run \in [Process -> Running \cup {NoRun}]
      BY DEF AttestationInit
    <3>3. runs \in 0..MaxRuns /\ mishaps \in 0..MaxMishaps /\ written \in Nat
      BY AttestationAssumption DEF AttestationInit
    <3>4. garbled \in BOOLEAN /\ orderly \in BOOLEAN
      BY DEF AttestationInit
    <3> QED
      BY <2>1, <3>1, <3>2, <3>3, <3>4 DEF AttestationTypes, AttestationTypeOK
  <2>3. CompleteOK /\ PlaceOK
    BY <2>1 DEF CompleteOK, PlaceOK, HeadOK
  <2>4. OrderOK
    BY <2>1 DEF OrderOK, ChainLinked
  <2>5. OutcomeOK
    BY <2>1 DEF OutcomeOK, RunIdsOK, OneOutcome
  <2> QED
    BY <2>2, <2>3, <2>4, <2>5 DEF AttestationInv
<1>2. AttestationInv /\ [AttestationNext]_attestationVars => AttestationInv'
  <2> SUFFICES ASSUME AttestationInv, [AttestationNext]_attestationVars
               PROVE  AttestationInv'
    OBVIOUS
  <2>1. CASE AttestationNext
    <3>1. PICK p \in Process : AttestationStep(p)
      BY <2>1 DEF AttestationNext, AttestationStep
    <3>2. AttestationTypes' /\ CompleteOK'
      BY <3>1, TypesKept, LogSteps, CompleteKept DEF AttestationInv
    <3>3. PlaceOK' /\ OrderOK'
      BY <3>1, PlaceKept, OrderKept DEF AttestationInv
    <3>4. RunIdsOK' /\ OneOutcome' /\ \A q \in Process : On(q)' => PastOK(q)'
      BY <3>1, RunIdsKept, PastKept, OneOutcomeKept, SMTT(60) DEF AttestationInv, OutcomeOK
    <3> QED
      BY <3>2, <3>3, <3>4 DEF AttestationInv, OutcomeOK
  <2>2. CASE UNCHANGED attestationVars
    BY <2>2 DEF attestationVars, AttestationInv, AttestationTypes, AttestationTypeOK, ProbeOK,
      On, Is, Writing, CompleteOK, PlaceOK, HeadOK, ChainLinked, NumberAt, OrderOK, OutcomeOK,
      RunIdsOK, PastOK, OutcomeOf, FreshAt, Answering, OneOutcome
  <2> QED
    BY <2>1, <2>2
<1> QED
  BY <1>1, <1>2, PTL DEF AttestationSpec

(* Live attestation: whatever failed, died or overlapped, a log that        *)
(* verifies has every event whose append returned, and its head names one   *)
(* of its events; a request has one outcome, that of its model call; and    *)
(* runs that are in order leave a log that verifies.                        *)
THEOREM AttestationAlwaysSound == AttestationSpec => []AttestationSound
<1>1. AttestationInv => AttestationSound
  <2> SUFFICES ASSUME AttestationInv
               PROVE  AttestationSound
    OBVIOUS
  <2>1. log \in Seq(Event) /\ DOMAIN log = 1..Len(log) /\ Len(log) \in Nat
    BY LogFacts DEF AttestationInv, AttestationTypes, AttestationTypeOK
  <2>2. LogVerifies <=> ~garbled /\ Cutting = {} /\ ChainLinked
    <3>1. \A i \in 1..Len(log) : (i = 1 <=> i - 1 = 0)
      BY <2>1
    <3> QED
      BY <2>1, <3>1 DEF LogVerifies, ChainLinked, NumberAt
  <2>3. VerifiedLogComplete
    BY <2>1, <2>2 DEF VerifiedLogComplete, AttestationInv, CompleteOK, PlaceOK, HeadOK
  <2>4. OrderlyLogVerifies
    BY <2>2 DEF OrderlyLogVerifies, AttestationInv, OrderOK
  <2> QED
    BY <2>3, <2>4 DEF AttestationSound, AttestationInv, OutcomeOK
<1> QED
  BY <1>1, AttestationHolds, PTL

------------------------------------------------------------------------------
(* Published captures.                                                      *)

(* A capture that has made its directory, and still works in it.            *)
Owns(c) == capture[c].at \in {"send", "write", "fill", "link", "unlink"}

Begun(c) == capture[c].at # "none"

(* A directory that there is has one capture, and who works in it made it.  *)
DirectoriesOK ==
  /\ \A f \in published :
       /\ f.dir \in made /\ f.dir = capture[f.by].dir
       /\ capture[f.by].at \in {"write", "fill", "link", "unlink", "done", "error", "dead"}
  /\ \A c \in Capturer : Owns(c) =>
       /\ capture[c].dir \in made
       /\ \A f \in published : f.dir = capture[c].dir => f.by = c
  /\ \A c, e \in Capturer : Owns(c) /\ Owns(e) /\ capture[c].dir = capture[e].dir => c = e
  /\ \A f, g \in published : f.dir = g.dir => f.by = g.by

(* What is left to write, and what was written before.                      *)
Progress(c) ==
  LET all == FilesOf(capture[c].kind, capture[c].outcome)
      left == capture[c].left
      done == Len(all) - Len(left)
  IN  /\ capture[c].outcome # "none"
      /\ Len(left) <= Len(all)
      /\ \A i \in 1..Len(left) : left[i] = all[done + i]
      /\ \A i \in 1..done : Written(c, all[i], TRUE) \in published

ProgressOK(c) ==
  /\ Stands(c, "link") => capture[c].kind = "query" /\ capture[c].left = <<>> /\ Progress(c)
  /\ capture[c].at \in {"write", "fill"} => capture[c].left # <<>> /\ Progress(c)
  /\ Stands(c, "directory") /\ capture[c].kind # "query" =>
       /\ capture[c].outcome = capture[c].kind
       /\ capture[c].left = FilesOf(capture[c].kind, capture[c].kind)

(* A container that is gone, or never was, does not come back.              *)
ContainerOK(c) ==
  /\ ~Begun(c) => container[c] = [is |-> "none", ran |-> FALSE]
  /\ Begun(c) =>
       /\ capture[c].performed = "no" => ~container[c].ran
       /\ capture[c].at \in {"send", "link", "unlink"} => capture[c].kind = "query"
       /\ capture[c].at \in {"daemon", "create", "inspect", "start", "attached", "remove", "report"} =>
            capture[c].kind # "query"
       /\ capture[c].kind = "query" => container[c].is = "none"
       /\ capture[c].kind # "query" =>
            /\ capture[c].outcome \in {"none", capture[c].kind}
            /\ capture[c].outcome # "none" => container[c].ran
       /\ capture[c].at \in {"daemon", "create"} => container[c].is = "none"
       /\ Stands(c, "attached") => container[c].ran
       /\ capture[c].at \in {"report", "directory", "write", "fill", "done", "reported", "error"} =>
            (capture[c].cleaned => container[c].is = "none")
       /\ Stands(c, "directory") \/ Owns(c) => capture[c].cleaned

ReceiptsOK ==
  /\ \A f \in published : f.name \in Receipts /\ f.whole =>
       /\ capture[f.by].outcome # "none"
       /\ \A i \in DOMAIN MembersOf[capture[f.by].outcome] :
            [f EXCEPT !.name = MembersOf[capture[f.by].outcome][i]] \in published
       /\ capture[f.by].kind # "query" => container[f.by].ran /\ container[f.by].is = "none"
  /\ \A f \in published : f.name = "receipt.json" => capture[f.by].at \in {"unlink", "done", "dead"}

CapturesInv ==
  /\ CapturesTypeOK /\ DirectoriesOK /\ ReceiptsOK
  /\ \A c \in Capturer : ProgressOK(c) /\ ContainerOK(c)

-----------------------------------------------------------------------------
LEMMA FilesFacts ==
  ASSUME NEW kind \in Kinds, NEW o \in Outcomes
  PROVE  /\ Len(MembersOf[o]) \in Nat \ {0} /\ DOMAIN MembersOf[o] = 1..Len(MembersOf[o])
         /\ FilesOf(kind, o) \in Seq(Names)
         /\ Len(FilesOf(kind, o)) = Len(MembersOf[o]) + 1
         /\ \A i \in 1..Len(MembersOf[o]) :
              FilesOf(kind, o)[i] = MembersOf[o][i] /\ MembersOf[o][i] \notin Receipts \cup {Pending}
         /\ FilesOf(kind, o)[Len(MembersOf[o]) + 1] =
              IF kind = "query" THEN Pending ELSE ReceiptOf[kind]
         /\ \A i \in 1..Len(FilesOf(kind, o)) : FilesOf(kind, o)[i] # "receipt.json"
<1> DEFINE members == MembersOf[o]
           last == IF kind = "query" THEN Pending ELSE ReceiptOf[kind]
<1>1. Receipts = {"receipt.json", "render.json", "png-ocr.json"}
  BY DEF Receipts, Kinds, ReceiptOf
<1>2. last \in Names \ {"receipt.json"}
  <2>1. \A k \in Kinds : ReceiptOf[k] \in Receipts
    BY DEF Receipts
  <2>2. kind # "query" => ReceiptOf[kind] # "receipt.json"
    BY DEF Kinds, ReceiptOf
  <2> QED
    BY <2>1, <2>2 DEF Names, Pending
<1>3. \A i \in DOMAIN members : members[i] \in Names
  BY DEF Names
<1>4. /\ Len(members) \in Nat \ {0} /\ DOMAIN members = 1..Len(members)
      /\ members \in Seq(Names)
      /\ \A i \in 1..Len(members) : members[i] \notin Receipts \cup {Pending}
  <2>1. CASE o = "captured"
    <3>1. members = <<"response.json", "context.json", "projection.json">>
      BY <2>1 DEF MembersOf
    <3> HIDE DEF members
    <3>2. Len(members) = 3 /\ DOMAIN members = 1..3
      BY <3>1
    <3>3. \A i \in 1..3 : members[i] \notin Receipts \cup {Pending}
      BY <1>1, <3>1 DEF Pending
    <3>4. members \in Seq(Names)
      BY <1>3, <3>1, <3>2
    <3> QED
      BY <3>2, <3>3, <3>4
  <2>2. CASE o = "failed"
    <3>1. members = <<"response.json", "capture-observation.json">>
      BY <2>2 DEF MembersOf
    <3> HIDE DEF members
    <3>2. Len(members) = 2 /\ DOMAIN members = 1..2
      BY <3>1
    <3>3. \A i \in 1..2 : members[i] \notin Receipts \cup {Pending}
      BY <1>1, <3>1 DEF Pending
    <3>4. members \in Seq(Names)
      BY <1>3, <3>1, <3>2
    <3> QED
      BY <3>2, <3>3, <3>4
  <2>3. CASE o = "pdf"
    <3>1. members = <<"source.pdf", "visible.txt", "page-001.png">>
      BY <2>3 DEF MembersOf
    <3> HIDE DEF members
    <3>2. Len(members) = 3 /\ DOMAIN members = 1..3
      BY <3>1
    <3>3. \A i \in 1..3 : members[i] \notin Receipts \cup {Pending}
      BY <1>1, <3>1 DEF Pending
    <3>4. members \in Seq(Names)
      BY <1>3, <3>1, <3>2
    <3> QED
      BY <3>2, <3>3, <3>4
  <2>4. CASE o = "png"
    <3>1. members = <<"source.png", "bridge.pdf", "visible.txt", "observed.png">>
      BY <2>4 DEF MembersOf
    <3> HIDE DEF members
    <3>2. Len(members) = 4 /\ DOMAIN members = 1..4
      BY <3>1
    <3>3. \A i \in 1..4 : members[i] \notin Receipts \cup {Pending}
      BY <1>1, <3>1 DEF Pending
    <3>4. members \in Seq(Names)
      BY <1>3, <3>1, <3>2
    <3> QED
      BY <3>2, <3>3, <3>4
  <2> QED
    BY <2>1, <2>2, <2>3, <2>4 DEF Outcomes, MembersOf
<1>5. /\ FilesOf(kind, o) \in Seq(Names) /\ Len(FilesOf(kind, o)) = Len(members) + 1
      /\ \A i \in 1..Len(members) : FilesOf(kind, o)[i] = members[i]
      /\ FilesOf(kind, o)[Len(members) + 1] = last
  <2>1. FilesOf(kind, o) = Append(members, last)
    BY DEF FilesOf
  <2> HIDE DEF members, last
  <2> QED
    BY <1>2, <1>4, <2>1, AppendProperties
<1>6. "receipt.json" \in Receipts
  BY <1>1
<1> QED
  BY <1>2, <1>4, <1>5, <1>6, SMTT(60)

LEMMA CapturesTyped ==
  ASSUME CapturesTypeOK, NEW c \in Capturer, Begun(c)
  PROVE  /\ capture[c] \in Capturing /\ capture[c].kind \in Kinds /\ capture[c].dir \in Directory
         /\ capture[c].outcome \in Outcomes \cup {"none"} /\ capture[c].left \in Seq(Names)
         /\ Len(capture[c].left) \in Nat
         /\ capture[c].left # <<>> =>
              /\ Len(capture[c].left) > 0
              /\ Head(capture[c].left) = capture[c].left[1] /\ Head(capture[c].left) \in Names
              /\ Tail(capture[c].left) \in Seq(Names)
              /\ Len(Tail(capture[c].left)) = Len(capture[c].left) - 1
              /\ \A i \in 1..(Len(capture[c].left) - 1) : Tail(capture[c].left)[i] = capture[c].left[i + 1]
<1>1. capture[c] \in Capturing
  BY DEF CapturesTypeOK, Begun, NoCapture
<1>2. capture[c].kind \in Kinds /\ capture[c].dir \in Directory
      /\ capture[c].outcome \in Outcomes \cup {"none"} /\ capture[c].left \in Seq(Names)
  BY <1>1 DEF Capturing
<1> DEFINE left == capture[c].left
<1>3. left \in Seq(Names)
  BY <1>2
<1> HIDE DEF left
<1>4. Len(left) \in Nat
  BY <1>3, LenProperties
<1>5. left # <<>> =>
        /\ Len(left) > 0 /\ Head(left) = left[1] /\ Head(left) \in Names
        /\ Tail(left) \in Seq(Names) /\ Len(Tail(left)) = Len(left) - 1
        /\ \A i \in 1..(Len(left) - 1) : Tail(left)[i] = left[i + 1]
  BY <1>3, <1>4, EmptySeq, HeadTailProperties
<1> QED
  BY <1>1, <1>2, <1>4, <1>5 DEF left

CaptureStep(c) ==
  \/ \E kind \in Kinds, d \in Directory : BeginCapture(c, kind, d)
  \/ MakeDirectory(c) \/ Send(c) \/ OpenNew(c) \/ FillFile(c) \/ FillFails(c)
  \/ LinkReceipt(c) \/ PublishFails(c) \/ UnlinkPending(c)
  \/ AskDaemon(c) \/ CreateContainer(c) \/ InspectContainer(c) \/ StartContainer(c)
  \/ ContainerEnds(c) \/ TakeResponse(c) \/ RemoveContainer(c) \/ ReportRendering(c)
  \/ Dies(c)

(* A step of c leaves the other captures and their containers alone.        *)
LEMMA OthersStand ==
  ASSUME CapturesTypeOK, NEW c \in Capturer, CaptureStep(c)
  PROVE  /\ capture' = [capture EXCEPT ![c] = capture'[c]]
         /\ container' = [container EXCEPT ![c] = container'[c]]
         /\ \A e \in Capturer \ {c} : capture'[e] = capture[e] /\ container'[e] = container[e]
<1>1. /\ capture \in [Capturer -> {NoCapture} \cup Capturing]
      /\ container \in [Capturer -> [is : {"none", "created", "running", "exited", "failed"}, ran : BOOLEAN]]
  BY DEF CapturesTypeOK
<1>2. capture' = [capture EXCEPT ![c] = capture'[c]]
  <2>1. CASE \E kind \in Kinds, d \in Directory : BeginCapture(c, kind, d)
    BY <1>1, <2>1 DEF BeginCapture
  <2>2. CASE MakeDirectory(c) \/ Send(c) \/ OpenNew(c) \/ FillFile(c) \/ FillFails(c)
    BY <1>1, <2>2 DEF MakeDirectory, Send, OpenNew, FillFile, FillFails, Move
  <2>3. CASE LinkReceipt(c) \/ PublishFails(c) \/ UnlinkPending(c) \/ AskDaemon(c)
    BY <1>1, <2>3 DEF LinkReceipt, PublishFails, UnlinkPending, AskDaemon, Move
  <2>4. CASE CreateContainer(c) \/ InspectContainer(c) \/ StartContainer(c)
    BY <1>1, <2>4 DEF CreateContainer, InspectContainer, StartContainer, Move
  <2>5. CASE ContainerEnds(c) \/ TakeResponse(c) \/ RemoveContainer(c)
    BY <1>1, <2>5 DEF ContainerEnds, TakeResponse, RemoveContainer, Move
  <2>6. CASE ReportRendering(c) \/ Dies(c)
    BY <1>1, <2>6, SMTT(60) DEF ReportRendering, Dies, Move
  <2> QED
    BY <2>1, <2>2, <2>3, <2>4, <2>5, <2>6 DEF CaptureStep
<1>3. container' = [container EXCEPT ![c] = container'[c]]
  <2>1. CASE UNCHANGED container
    BY <1>1, <2>1
  <2>2. CASE CreateContainer(c) \/ StartContainer(c) \/ ContainerEnds(c) \/ RemoveContainer(c)
    BY <1>1, <2>2 DEF CreateContainer, StartContainer, ContainerEnds, RemoveContainer
  <2> QED
    BY <2>1, <2>2 DEF CaptureStep, BeginCapture, MakeDirectory, Send, OpenNew, FillFile, FillFails,
      LinkReceipt, PublishFails, UnlinkPending, AskDaemon, InspectContainer, TakeResponse,
      ReportRendering, Dies
<1>4. \A e \in Capturer \ {c} : capture'[e] = capture[e] /\ container'[e] = container[e]
  BY <1>1, <1>2, <1>3
<1> QED
  BY <1>2, <1>3, <1>4

Place ==
  {"directory", "send", "write", "fill", "link", "unlink", "daemon", "create", "inspect",
   "start", "attached", "remove", "report", "done", "reported", "error", "dead"}

LEMMA CaptureMoved ==
  ASSUME CapturesTypeOK, NEW c \in Capturer, Begun(c), NEW at \in Place, Move(c, at)
  PROVE  /\ capture'[c] \in Capturing /\ capture'[c].at = at
         /\ capture'[c].kind = capture[c].kind /\ capture'[c].dir = capture[c].dir
         /\ capture'[c].outcome = capture[c].outcome /\ capture'[c].left = capture[c].left
         /\ capture'[c].performed = capture[c].performed /\ capture'[c].cleaned = capture[c].cleaned
<1>1. capture[c] \in Capturing /\ capture'[c] = [capture[c] EXCEPT !.at = at]
  BY CapturesTyped DEF Move, CapturesTypeOK
<1> QED
  BY <1>1 DEF Capturing, Place

(* What it makes of its own.                                                *)
LEMMA ContainerTyped ==
  ASSUME CapturesTypeOK, NEW c \in Capturer, CaptureStep(c)
  PROVE  container'[c] \in [is : {"none", "created", "running", "exited", "failed"}, ran : BOOLEAN]
<1>1. container \in [Capturer -> [is : {"none", "created", "running", "exited", "failed"}, ran : BOOLEAN]]
  BY DEF CapturesTypeOK
<1>2. CASE UNCHANGED container
  BY <1>1, <1>2
<1>3. CASE CreateContainer(c) \/ StartContainer(c)
  <2>1. CASE CreateContainer(c)
    BY <1>1, <2>1 DEF CreateContainer
  <2>2. CASE StartContainer(c)
    <3>1. [is |-> "running", ran |-> TRUE] \in [is : {"none", "created", "running", "exited", "failed"}, ran : BOOLEAN]
      OBVIOUS
    <3>2. container' = container \/ container' = [container EXCEPT ![c] = [is |-> "running", ran |-> TRUE]]
      BY <2>2 DEF StartContainer
    <3> QED
      BY <1>1, <3>1, <3>2
  <2> QED
    BY <1>3, <2>1, <2>2
<1>4. CASE ContainerEnds(c) \/ RemoveContainer(c)
  BY <1>1, <1>4 DEF ContainerEnds, RemoveContainer
<1>5. UNCHANGED container \/ CreateContainer(c) \/ StartContainer(c) \/ ContainerEnds(c) \/ RemoveContainer(c)
  BY DEF CaptureStep, BeginCapture, MakeDirectory, Send, OpenNew, FillFile, FillFails, LinkReceipt,
    PublishFails, UnlinkPending, AskDaemon, InspectContainer, TakeResponse, ReportRendering, Dies
<1> QED
  BY <1>2, <1>3, <1>4, <1>5

LEMMA CaptureTyped ==
  ASSUME CapturesTypeOK, NEW c \in Capturer, CaptureStep(c), ProgressOK(c), ContainerOK(c)
  PROVE  capture'[c] \in {NoCapture} \cup Capturing
<1>1. capture \in [Capturer -> {NoCapture} \cup Capturing]
  BY DEF CapturesTypeOK
<1>2. Begun(c) => capture[c] \in Capturing
  BY CapturesTyped
<1>3. CASE \E kind \in Kinds, d \in Directory : BeginCapture(c, kind, d)
  <2>1. <<>> \in Seq(Names)
    OBVIOUS
  <2> QED
    BY <1>1, <1>3, <2>1 DEF BeginCapture, Capturing
<1>4. CASE Send(c)
  <2>1. Begun(c)
    BY <1>4 DEF Send, Begun, Stands
  <2>2. CASE Move(c, "error")
    BY <2>1, <2>2, CaptureMoved DEF Place
  <2>3. CASE \E outcome \in {"captured", "failed"} :
               capture' = [capture EXCEPT ![c].at = "write", ![c].outcome = outcome,
                                          ![c].left = FilesOf("query", outcome)]
    <3>1. \A o \in {"captured", "failed"} : o \in Outcomes /\ FilesOf("query", o) \in Seq(Names)
      BY FilesFacts, ZenonT(60) DEF Kinds, Outcomes, MembersOf
    <3>2. PICK o \in {"captured", "failed"} :
            capture' = [capture EXCEPT ![c].at = "write", ![c].outcome = o,
                                       ![c].left = FilesOf("query", o)]
      BY <2>3
    <3> HIDE DEF FilesOf
    <3> QED
      BY <1>1, <1>2, <2>1, <3>1, <3>2, ZenonT(60) DEF Capturing
  <2> QED
    BY <1>4, <2>2, <2>3 DEF Send
<1>5. CASE FillFile(c)
  <2>1. Begun(c) /\ Tail(capture[c].left) \in Seq(Names)
    BY <1>5, CapturesTyped DEF FillFile, Stands, Begun, ProgressOK
  <2> QED
    BY <1>1, <1>2, <1>5, <2>1, ZenonT(60) DEF FillFile, Capturing
<1>6. CASE StartContainer(c) \/ RemoveContainer(c)
  <2>1. Begun(c)
    BY <1>6 DEF StartContainer, RemoveContainer, Begun, Stands
  <2>2. CASE \E at \in Place : Move(c, at)
    BY <2>1, <2>2, CaptureMoved
  <2>3. CASE \E at \in {"attached", "remove"} :
               capture' = [capture EXCEPT ![c].performed = "unknown", ![c].at = at]
    <3>1. PICK at \in {"attached", "remove"} :
            capture' = [capture EXCEPT ![c].performed = "unknown", ![c].at = at]
      BY <2>3
    <3> QED
      BY <1>1, <1>2, <2>1, <3>1, ZenonT(60) DEF Capturing
  <2>4. CASE capture' = [capture EXCEPT ![c].cleaned = FALSE, ![c].at = "report"]
    BY <1>1, <1>2, <2>1, <2>4, ZenonT(60) DEF Capturing
  <2>5. "report" \in Place
    BY DEF Place
  <2> QED
    BY <1>6, <2>2, <2>3, <2>4, <2>5 DEF StartContainer, RemoveContainer
<1>7. CASE TakeResponse(c) \/ ReportRendering(c)
  <2>1. Begun(c)
    BY <1>7 DEF TakeResponse, ReportRendering, Begun, Stands
  <2>2. capture[c].kind \in Outcomes /\ FilesOf(capture[c].kind, capture[c].kind) \in Seq(Names)
    <3>1. capture[c].kind \in Kinds \ {"query"}
      BY <1>7, <2>1, CapturesTyped DEF TakeResponse, ReportRendering, ContainerOK, Stands
    <3>2. capture[c].kind \in Outcomes
      BY <3>1 DEF Kinds, Outcomes, MembersOf
    <3> QED
      BY <3>1, <3>2, FilesFacts
  <2>3. CASE \E at \in Place : Move(c, at)
    BY <2>1, <2>3, CaptureMoved
  <2>4. CASE capture' = [capture EXCEPT ![c].outcome = capture[c].kind, ![c].at = "remove"]
    BY <1>1, <1>2, <2>1, <2>2, <2>4, ZenonT(60) DEF Capturing
  <2>5. CASE capture' = [capture EXCEPT ![c].performed = "yes", ![c].at = "directory",
                                        ![c].left = FilesOf(capture[c].kind, capture[c].kind)]
    BY <1>1, <1>2, <2>1, <2>2, <2>5, ZenonT(60) DEF Capturing
  <2>6. "remove" \in Place /\ "reported" \in Place
    BY DEF Place
  <2> QED
    BY <1>7, <2>3, <2>4, <2>5, <2>6 DEF TakeResponse, ReportRendering
<1>8. CASE ContainerEnds(c)
  BY <1>1, <1>8 DEF ContainerEnds
<1>9. CASE \/ MakeDirectory(c) \/ OpenNew(c) \/ FillFails(c) \/ LinkReceipt(c) \/ PublishFails(c)
           \/ UnlinkPending(c) \/ AskDaemon(c) \/ CreateContainer(c) \/ InspectContainer(c) \/ Dies(c)
  <2>1. Begun(c)
    BY <1>9 DEF MakeDirectory, OpenNew, FillFails, LinkReceipt, PublishFails, UnlinkPending,
      AskDaemon, CreateContainer, InspectContainer, Dies, Begun, Stands, Ended
  <2>2. \E at \in Place : Move(c, at)
    BY <1>9 DEF MakeDirectory, OpenNew, FillFails, LinkReceipt, PublishFails, UnlinkPending,
      AskDaemon, CreateContainer, InspectContainer, Dies, Place
  <2> QED
    BY <2>1, <2>2, CaptureMoved
<1> QED
  BY <1>3, <1>4, <1>5, <1>6, <1>7, <1>8, <1>9 DEF CaptureStep

(* Where files have been, or may be, published.                             *)
FilePlace == {"write", "fill", "link", "unlink", "done", "error", "dead"}

(* Who moves keeps all but its place.                                       *)
LEMMA OnlyMoves ==
  ASSUME NEW c \in Capturer, CaptureStep(c)
  PROVE  \/ ContainerEnds(c)
         \/ (\E kind \in Kinds, d \in Directory : BeginCapture(c, kind, d))
         \/ /\ Begun(c)
            /\ \/ \E at \in Place : Move(c, at) /\ (capture[c].at \in FilePlace => at \in FilePlace)
               \/ Send(c) /\ \E o \in {"captured", "failed"} :
                    capture' = [capture EXCEPT ![c].at = "write", ![c].outcome = o,
                                               ![c].left = FilesOf("query", o)]
               \/ FillFile(c)
               \/ StartContainer(c) /\ \E at \in {"attached", "remove"} :
                    capture' = [capture EXCEPT ![c].performed = "unknown", ![c].at = at]
               \/ RemoveContainer(c) /\ capture' = [capture EXCEPT ![c].cleaned = FALSE, ![c].at = "report"]
               \/ TakeResponse(c) /\
                    capture' = [capture EXCEPT ![c].outcome = capture[c].kind, ![c].at = "remove"]
               \/ ReportRendering(c) /\
                    capture' = [capture EXCEPT ![c].performed = "yes", ![c].at = "directory",
                                  ![c].left = FilesOf(capture[c].kind, capture[c].kind)]
<1>1. CASE MakeDirectory(c) \/ OpenNew(c) \/ FillFails(c) \/ LinkReceipt(c) \/ PublishFails(c) \/ UnlinkPending(c)
  BY <1>1 DEF MakeDirectory, OpenNew, FillFails, LinkReceipt, PublishFails, UnlinkPending, Begun,
    Stands, FilePlace, Place
<1>2. CASE AskDaemon(c) \/ CreateContainer(c) \/ InspectContainer(c) \/ Dies(c)
  BY <1>2 DEF AskDaemon, CreateContainer, InspectContainer, Dies, Begun, Stands, Ended, FilePlace,
    Place
<1>3. CASE Send(c) \/ FillFile(c)
  BY <1>3 DEF Send, FillFile, Begun, Stands, FilePlace, Place
<1>4. CASE StartContainer(c) \/ RemoveContainer(c)
  BY <1>4 DEF StartContainer, RemoveContainer, Begun, Stands, FilePlace, Place
<1>5. CASE TakeResponse(c) \/ ReportRendering(c)
  BY <1>5, SMTT(60) DEF TakeResponse, ReportRendering, Begun, Stands, FilePlace, Place
<1> QED
  BY <1>1, <1>2, <1>3, <1>4, <1>5 DEF CaptureStep

(* The kind and the directory of a capture are fixed, and its outcome once  *)
(* it writes.                                                               *)
LEMMA KeptFields ==
  ASSUME CapturesTypeOK, NEW c \in Capturer, CaptureStep(c), Begun(c)
  PROVE  /\ Begun(c)' /\ capture'[c].dir = capture[c].dir /\ capture'[c].kind = capture[c].kind
         /\ capture[c].at \in FilePlace =>
              capture'[c].at \in FilePlace /\ capture'[c].outcome = capture[c].outcome
<1>1. capture \in [Capturer -> {NoCapture} \cup Capturing] /\ capture[c] \in Capturing
  BY CapturesTyped DEF CapturesTypeOK
<1>2. CASE \E at \in Place : Move(c, at) /\ (capture[c].at \in FilePlace => at \in FilePlace)
  <2>1. PICK at \in Place : Move(c, at) /\ (capture[c].at \in FilePlace => at \in FilePlace)
    BY <1>2
  <2> QED
    BY <2>1, CaptureMoved DEF Begun, Place
<1>3. CASE Send(c) /\ \E o \in {"captured", "failed"} :
             capture' = [capture EXCEPT ![c].at = "write", ![c].outcome = o,
                                        ![c].left = FilesOf("query", o)]
  <2>1. PICK o \in {"captured", "failed"} :
          capture' = [capture EXCEPT ![c].at = "write", ![c].outcome = o,
                                     ![c].left = FilesOf("query", o)]
    BY <1>3
  <2>2. capture[c].at \notin FilePlace
    BY <1>3 DEF Send, Stands, FilePlace
  <2> HIDE DEF FilesOf
  <2> QED
    BY <1>1, <2>1, <2>2 DEF Capturing, Begun
<1>4. CASE FillFile(c)
  <2>1. /\ capture'[c].dir = capture[c].dir /\ capture'[c].kind = capture[c].kind
        /\ capture'[c].outcome = capture[c].outcome /\ capture'[c].at \in {"write", "link", "done"}
    BY <1>1, <1>4 DEF FillFile, Capturing
  <2> QED
    BY <2>1 DEF Begun, FilePlace
<1>5. CASE StartContainer(c) /\ \E at \in {"attached", "remove"} :
             capture' = [capture EXCEPT ![c].performed = "unknown", ![c].at = at]
  <2>1. PICK at \in {"attached", "remove"} :
          capture' = [capture EXCEPT ![c].performed = "unknown", ![c].at = at]
    BY <1>5
  <2>2. capture[c].at \notin FilePlace
    BY <1>5 DEF StartContainer, Stands, FilePlace
  <2> QED
    BY <1>1, <2>1, <2>2 DEF Capturing, Begun
<1>6. CASE RemoveContainer(c) /\ capture' = [capture EXCEPT ![c].cleaned = FALSE, ![c].at = "report"]
  <2>1. capture[c].at \notin FilePlace
    BY <1>6 DEF RemoveContainer, Stands, FilePlace
  <2> QED
    BY <1>1, <1>6, <2>1 DEF Capturing, Begun
<1>7. CASE TakeResponse(c) /\
             capture' = [capture EXCEPT ![c].outcome = capture[c].kind, ![c].at = "remove"]
  <2>1. capture[c].at \notin FilePlace
    BY <1>7 DEF TakeResponse, Stands, FilePlace
  <2> QED
    BY <1>1, <1>7, <2>1 DEF Capturing, Begun
<1>8. CASE ReportRendering(c) /\
             capture' = [capture EXCEPT ![c].performed = "yes", ![c].at = "directory",
                           ![c].left = FilesOf(capture[c].kind, capture[c].kind)]
  <2>1. capture[c].at \notin FilePlace
    BY <1>8 DEF ReportRendering, Stands, FilePlace
  <2> HIDE DEF FilesOf
  <2> QED
    BY <1>1, <1>8, <2>1 DEF Capturing, Begun
<1>9. CASE ContainerEnds(c)
  BY <1>9 DEF ContainerEnds, Begun
<1>10. ~\E kind \in Kinds, d \in Directory : BeginCapture(c, kind, d)
  BY DEF BeginCapture, Begun, Stands
<1> QED
  BY <1>2, <1>3, <1>4, <1>5, <1>6, <1>7, <1>8, <1>9, <1>10, OnlyMoves

(* A directory is made by who works in it, and where there was none.        *)
LEMMA DirectorySteps ==
  ASSUME CapturesTypeOK, NEW c \in Capturer, CaptureStep(c)
  PROVE  /\ made \subseteq made'
         /\ Owns(c)' =>
              \/ Owns(c)
              \/ capture[c].dir \notin made /\ capture[c].dir \in made' /\ Begun(c)
<1>1. capture \in [Capturer -> {NoCapture} \cup Capturing]
  BY DEF CapturesTypeOK
<1>2. CASE MakeDirectory(c)
  <2>1. Begun(c)
    BY <1>2 DEF MakeDirectory, Begun, Stands
  <2>2. CASE capture[c].dir \in made
    <3>1. Move(c, "error") /\ made' = made
      BY <1>2, <2>2 DEF MakeDirectory
    <3>2. capture'[c].at = "error"
      BY <2>1, <3>1, CaptureMoved DEF Place
    <3> QED
      BY <3>1, <3>2 DEF Owns
  <2> QED
    BY <1>2, <2>1, <2>2 DEF MakeDirectory
<1>3. CASE ~MakeDirectory(c)
  <2>1. made' = made
    BY <1>3 DEF CaptureStep, BeginCapture, Send, OpenNew, FillFile, FillFails, LinkReceipt,
      PublishFails, UnlinkPending, AskDaemon, CreateContainer, InspectContainer, StartContainer,
      ContainerEnds, TakeResponse, RemoveContainer, ReportRendering, Dies
  <2>2. ASSUME ~Owns(c)
        PROVE  ~Owns(c)'
    <3>1. CASE \E kind \in Kinds, d \in Directory : BeginCapture(c, kind, d)
      <4>1. capture'[c].at \in {"directory", "daemon"}
        BY <1>1, <3>1 DEF BeginCapture
      <4> QED
        BY <4>1 DEF Owns
    <3>2. CASE StartContainer(c) \/ RemoveContainer(c) \/ TakeResponse(c) \/ ReportRendering(c)
      <4>1. capture[c] \in Capturing
        BY <3>2, CapturesTyped DEF StartContainer, RemoveContainer, TakeResponse, ReportRendering,
          Begun, Stands
      <4> HIDE DEF FilesOf
      <4>2. capture'[c].at \in {"attached", "remove", "report", "directory", "reported"}
        <5>1. CASE StartContainer(c)
          BY <1>1, <4>1, <5>1 DEF StartContainer, Capturing
        <5>2. CASE RemoveContainer(c)
          BY <1>1, <4>1, <5>2 DEF RemoveContainer, Move, Capturing
        <5>3. CASE TakeResponse(c)
          BY <1>1, <4>1, <5>3 DEF TakeResponse, Move, Capturing
        <5>4. CASE ReportRendering(c)
          BY <1>1, <4>1, <5>4 DEF ReportRendering, Move, Capturing
        <5> QED
          BY <3>2, <5>1, <5>2, <5>3, <5>4
      <4> QED
        BY <4>2, SMTT(60) DEF Owns
    <3>3. CASE AskDaemon(c) \/ CreateContainer(c) \/ InspectContainer(c) \/ Dies(c)
      <4>1. \E at \in {"create", "reported", "inspect", "remove", "start", "dead"} : Move(c, at)
        BY <3>3 DEF AskDaemon, CreateContainer, InspectContainer, Dies
      <4> QED
        BY <1>1, <4>1 DEF Move, Owns
    <3>4. CASE ContainerEnds(c)
      BY <2>2, <3>4 DEF ContainerEnds, Owns
    <3>5. ~Send(c) /\ ~OpenNew(c) /\ ~FillFile(c) /\ ~FillFails(c) /\ ~LinkReceipt(c)
          /\ ~PublishFails(c) /\ ~UnlinkPending(c)
      BY <2>2 DEF Send, OpenNew, FillFile, FillFails, LinkReceipt, PublishFails, UnlinkPending,
        Stands, Owns
    <3> QED
      BY <1>3, <3>1, <3>2, <3>3, <3>4, <3>5 DEF CaptureStep
  <2> QED
    BY <2>1, <2>2, SMTT(60)
<1> QED
  BY <1>2, <1>3

(* What a step publishes, and what it takes back.                           *)
LEMMA PublishedSteps ==
  ASSUME NEW c \in Capturer, CaptureStep(c)
  PROVE  /\ \A f \in published' : f \in published \/
              /\ f.by = c /\ f.dir = capture[c].dir
              /\ \/ LinkReceipt(c) /\ f = Written(c, "receipt.json", TRUE)
                 \/ OpenNew(c) /\ f = Written(c, Head(capture[c].left), FALSE)
                 \/ (FillFile(c) \/ FillFails(c)) /\ f = Written(c, Head(capture[c].left), TRUE)
         /\ \A f \in published : f \in published' \/ (f.by = c /\ (~f.whole \/ f.name = Pending))
<1>1. CASE OpenNew(c)
  BY <1>1 DEF OpenNew, Written
<1>2. CASE FillFile(c) \/ FillFails(c)
  <2>1. published' = published \/ published' = Filled(c)
    BY <1>2 DEF FillFile, FillFails
  <2> QED
    BY <1>2, <2>1 DEF Filled, Written
<1>3. CASE LinkReceipt(c)
  BY <1>3 DEF LinkReceipt, Written
<1>4. CASE UnlinkPending(c)
  BY <1>4 DEF UnlinkPending, Written
<1>5. OpenNew(c) \/ FillFile(c) \/ FillFails(c) \/ LinkReceipt(c) \/ UnlinkPending(c) \/ UNCHANGED published
  BY DEF CaptureStep, BeginCapture, MakeDirectory, Send, PublishFails, AskDaemon, CreateContainer,
    InspectContainer, StartContainer, ContainerEnds, TakeResponse, RemoveContainer, ReportRendering,
    Dies
<1> QED
  BY <1>1, <1>2, <1>3, <1>4, <1>5

LEMMA DirectoriesKept ==
  ASSUME CapturesTypeOK, DirectoriesOK, NEW c \in Capturer, CaptureStep(c)
  PROVE  DirectoriesOK'
<1>1. \A e \in Capturer \ {c} : capture'[e] = capture[e]
  BY OthersStand
<1>2. \A f \in published' : f \in published \/ (f.by = c /\ f.dir = capture[c].dir /\ Owns(c) /\ Begun(c))
  BY PublishedSteps DEF LinkReceipt, OpenNew, FillFile, FillFails, Stands, Owns, Begun
<1>3. \A f \in published : f.by \in Capturer /\ Begun(f.by)
  BY DEF CapturesTypeOK, File, DirectoriesOK, Begun
<1>4. Owns(c) => Begun(c)
  BY DEF Owns, Begun
<1>5. \A e \in Capturer : Owns(e)' =>
        capture'[e].dir = capture[e].dir /\ (Owns(e) \/ (e = c /\ capture[c].dir \notin made /\ capture[c].dir \in made'))
  BY <1>1, <1>4, DirectorySteps, KeptFields DEF Owns
<1>6. ASSUME NEW f \in published'
      PROVE  /\ f.dir \in made' /\ f.dir = capture'[f.by].dir
             /\ capture'[f.by].at \in {"write", "fill", "link", "unlink", "done", "error", "dead"}
  <2>1. CASE f \in published
    BY <1>1, <1>3, <2>1, DirectorySteps, KeptFields DEF DirectoriesOK, FilePlace
  <2>2. CASE f.by = c /\ f.dir = capture[c].dir /\ Owns(c) /\ f \notin published
    <3>1. Stands(c, "link") \/ Stands(c, "write") \/ Stands(c, "fill")
      BY <2>2, PublishedSteps DEF LinkReceipt, OpenNew, FillFile, FillFails
    <3>2. capture[c].at \in FilePlace
      BY <3>1 DEF Stands, FilePlace
    <3> QED
      BY <1>4, <2>2, <3>2, DirectorySteps, KeptFields DEF DirectoriesOK, FilePlace
  <2> QED
    BY <1>2, <2>1, <2>2
<1>7. ASSUME NEW e \in Capturer, Owns(e)'
      PROVE  /\ capture'[e].dir \in made'
             /\ \A f \in published' : f.dir = capture'[e].dir => f.by = e
  <2>1. CASE Owns(e)
    BY <1>2, <1>5, <1>7, <2>1, DirectorySteps DEF DirectoriesOK
  <2>2. CASE e = c /\ capture[c].dir \notin made /\ capture[c].dir \in made'
    BY <1>2, <1>5, <1>7, <2>2 DEF DirectoriesOK
  <2> QED
    BY <1>5, <1>7, <2>1, <2>2
<1>8. ASSUME NEW e \in Capturer, NEW g \in Capturer, Owns(e)', Owns(g)', capture'[e].dir = capture'[g].dir
      PROVE  e = g
  BY <1>5, <1>8 DEF DirectoriesOK
<1>9. ASSUME NEW f \in published', NEW g \in published', f.dir = g.dir
      PROVE  f.by = g.by
  BY <1>2, <1>9 DEF DirectoriesOK
<1> QED
  BY <1>6, <1>7, <1>8, <1>9 DEF DirectoriesOK

LEMMA PublishedTyped ==
  ASSUME CapturesTypeOK, NEW c \in Capturer, CaptureStep(c), ProgressOK(c)
  PROVE  published' \subseteq File /\ made' \subseteq Directory
<1>1. "receipt.json" \in Names
  BY DEF Names, Receipts, ReceiptOf, Kinds
<1>2. ASSUME Begun(c)
      PROVE  \A name \in Names, whole \in BOOLEAN : Written(c, name, whole) \in File
  BY <1>2, CapturesTyped DEF Written, File
<1>3. OpenNew(c) \/ FillFile(c) \/ FillFails(c) => Begun(c) /\ Head(capture[c].left) \in Names
  BY CapturesTyped DEF OpenNew, FillFile, FillFails, Stands, Begun, ProgressOK
<1>4. LinkReceipt(c) => Begun(c)
  BY DEF LinkReceipt, Stands, Begun
<1>5. published' \subseteq File
  BY <1>1, <1>2, <1>3, <1>4, PublishedSteps DEF CapturesTypeOK
<1>6. MakeDirectory(c) => capture[c].dir \in Directory
  BY CapturesTyped DEF MakeDirectory, Stands, Begun
<1>7. made' \subseteq Directory
  BY <1>6 DEF CaptureStep, BeginCapture, MakeDirectory, Send, OpenNew, FillFile, FillFails,
    LinkReceipt, PublishFails, UnlinkPending, AskDaemon, CreateContainer, InspectContainer,
    StartContainer, ContainerEnds, TakeResponse, RemoveContainer, ReportRendering, Dies,
    CapturesTypeOK
<1> QED
  BY <1>5, <1>7

-----------------------------------------------------------------------------
(* Who writes goes through what is left, in order.                          *)
LEMMA ProgressKept ==
  ASSUME CapturesTypeOK, DirectoriesOK, NEW c \in Capturer, CaptureStep(c), ProgressOK(c), ContainerOK(c)
  PROVE  ProgressOK(c)'
<1>1. capture \in [Capturer -> {NoCapture} \cup Capturing]
  BY DEF CapturesTypeOK
<1>2. CASE \E kind \in Kinds, d \in Directory : BeginCapture(c, kind, d)
  <2>1. PICK kind \in Kinds, d \in Directory : BeginCapture(c, kind, d)
    BY <1>2
  <2>2. /\ capture'[c].at = IF kind = "query" THEN "directory" ELSE "daemon"
        /\ capture'[c].kind = kind
    BY <1>1, <2>1 DEF BeginCapture
  <2> QED
    BY <2>2 DEF ProgressOK, Stands
<1>3. CASE Send(c)
  <2>1. Begun(c) /\ capture[c].kind = "query"
    BY <1>3 DEF Send, Stands, Begun, ContainerOK
  <2>2. CASE Move(c, "error")
    <3>1. capture'[c].at = "error"
      BY <2>1, <2>2, CaptureMoved DEF Place
    <3> QED
      BY <3>1 DEF ProgressOK, Stands
  <2>3. CASE \E o \in {"captured", "failed"} :
               capture' = [capture EXCEPT ![c].at = "write", ![c].outcome = o,
                                          ![c].left = FilesOf("query", o)]
    <3>1. PICK o \in {"captured", "failed"} :
            capture' = [capture EXCEPT ![c].at = "write", ![c].outcome = o,
                                       ![c].left = FilesOf("query", o)]
      BY <2>3
    <3>2. /\ Len(FilesOf("query", o)) \in Nat \ {0} /\ o # "none" /\ FilesOf("query", o) # <<>>
      <4>1. o \in Outcomes /\ "query" \in Kinds
        BY DEF Outcomes, MembersOf, Kinds
      <4> QED
        BY <4>1, FilesFacts, EmptySeq
    <3> HIDE DEF FilesOf
    <3>3. /\ capture'[c].at = "write" /\ capture'[c].outcome = o /\ capture'[c].kind = "query"
          /\ capture'[c].left = FilesOf("query", o)
      BY <1>1, <2>1, <3>1, CapturesTyped DEF Capturing
    <3> QED
      BY <3>2, <3>3 DEF ProgressOK, Progress, Stands
  <2> QED
    BY <1>3, <2>2, <2>3 DEF Send
<1>4. CASE FillFile(c)
  <2> DEFINE left == capture[c].left
             all == FilesOf(capture[c].kind, capture[c].outcome)
             done == Len(all) - Len(left)
  <2>1. Begun(c) /\ left # <<>> /\ Progress(c)
    BY <1>4 DEF FillFile, Stands, Begun, ProgressOK
  <2>2. /\ Len(left) \in Nat /\ Len(left) > 0 /\ Head(left) = left[1]
        /\ Tail(left) \in Seq(Names) /\ Len(Tail(left)) = Len(left) - 1
        /\ \A i \in 1..(Len(left) - 1) : Tail(left)[i] = left[i + 1]
        /\ capture[c].outcome \in Outcomes /\ capture[c].kind \in Kinds /\ capture[c] \in Capturing
    BY <2>1, CapturesTyped DEF Progress
  <2>3. Len(all) \in Nat
    BY <2>2, FilesFacts
  <2>4. /\ capture'[c].left = Tail(left) /\ capture'[c].dir = capture[c].dir
        /\ capture'[c].kind = capture[c].kind /\ capture'[c].outcome = capture[c].outcome
        /\ capture'[c].at = IF Len(left) > 1 THEN "write"
                           ELSE IF capture[c].kind = "query" THEN "link" ELSE "done"
    BY <1>1, <1>4, <2>2 DEF FillFile, Capturing
  <2>5. published' = (published \ {Written(c, Head(left), FALSE)}) \cup {Written(c, Head(left), TRUE)}
    BY <1>4 DEF FillFile, Filled
  <2>6. /\ Len(left) <= Len(all) /\ \A i \in 1..Len(left) : left[i] = all[done + i]
        /\ \A i \in 1..done : Written(c, all[i], TRUE) \in published
        /\ capture[c].outcome # "none"
    BY <2>1 DEF Progress
  <2> HIDE DEF left, all, done
  <2>7. Head(left) = all[done + 1] /\ done \in Nat /\ Len(all) - (Len(left) - 1) = done + 1
        /\ Len(left) - 1 <= Len(all)
    BY <2>2, <2>3, <2>6 DEF done
  <2>8. \A i \in 1..(done + 1) : Written(c, all[i], TRUE) \in published'
    <3>1. \A i \in 1..done : Written(c, all[i], TRUE) \in published'
      BY <2>5, <2>6 DEF Written
    <3>2. Written(c, all[done + 1], TRUE) \in published'
      BY <2>5, <2>7
    <3>3. \A i \in 1..(done + 1) : i \in 1..done \/ i = done + 1
      BY <2>7
    <3> QED
      BY <3>1, <3>2, <3>3
  <2>9. \A i \in 1..(Len(left) - 1) : Tail(left)[i] = all[(done + 1) + i]
    <3>1. ASSUME NEW i \in 1..(Len(left) - 1)
          PROVE  Tail(left)[i] = all[(done + 1) + i]
      <4>1. i + 1 \in 1..Len(left) /\ done + (i + 1) = (done + 1) + i
        BY <2>2, <2>7
      <4> QED
        BY <2>2, <2>6, <4>1
    <3> QED
      BY <3>1
  <2>10. Progress(c)'
    <3> DEFINE rest == Tail(left)
    <3>1. /\ capture'[c].left = rest /\ FilesOf(capture'[c].kind, capture'[c].outcome) = all
          /\ Len(rest) = Len(left) - 1 /\ Len(all) - Len(rest) = done + 1
          /\ \A i \in 1..Len(rest) : rest[i] = all[(done + 1) + i]
          /\ Len(rest) <= Len(all) /\ capture'[c].outcome # "none"
      BY <2>2, <2>4, <2>6, <2>7, <2>9 DEF all
    <3>2. \A i \in 1..(done + 1) :
            [dir |-> capture'[c].dir, name |-> all[i], by |-> c, whole |-> TRUE] \in published'
      BY <2>4, <2>8 DEF Written
    <3> HIDE DEF rest
    <3> QED
      BY <3>1, <3>2 DEF Progress, Written
  <2>11. /\ Len(left) > 1 => Tail(left) # <<>>
         /\ ~(Len(left) > 1) => Tail(left) = <<>>
    <3> DEFINE rest == Tail(left)
    <3>1. rest \in Seq(Names) /\ Len(rest) = Len(left) - 1
      BY <2>2
    <3> HIDE DEF rest
    <3>2. rest = <<>> <=> Len(rest) = 0
      BY <3>1, EmptySeq
    <3>3. rest = <<>> <=> ~(Len(left) > 1)
      BY <2>2, <3>1, <3>2
    <3> QED
      BY <3>3 DEF rest
  <2> QED
    BY <2>4, <2>10, <2>11 DEF ProgressOK, Stands
<1>5. CASE OpenNew(c)
  <2>1. Begun(c) /\ capture[c].left # <<>> /\ Progress(c)
    BY <1>5 DEF OpenNew, Stands, Begun, ProgressOK
  <2>2. PICK at \in {"fill", "error"} : Move(c, at) /\ published \subseteq published'
    BY <1>5 DEF OpenNew
  <2>3. /\ capture'[c].at = at /\ capture'[c].kind = capture[c].kind /\ capture'[c].dir = capture[c].dir
        /\ capture'[c].outcome = capture[c].outcome /\ capture'[c].left = capture[c].left
    BY <2>1, <2>2, CaptureMoved DEF Place
  <2>4. Progress(c)'
    BY <2>1, <2>2, <2>3 DEF Progress, Written
  <2> QED
    BY <2>1, <2>2, <2>3, <2>4 DEF ProgressOK, Stands
<1>6. CASE MakeDirectory(c)
  <2>1. Begun(c) /\ Stands(c, "directory")
    BY <1>6 DEF MakeDirectory, Stands, Begun
  <2>2. PICK at \in {"error", "send", "write"} : Move(c, at) /\ (at = "write" => capture[c].kind # "query")
    BY <1>6 DEF MakeDirectory
  <2>3. /\ capture'[c].at = at /\ capture'[c].kind = capture[c].kind
        /\ capture'[c].outcome = capture[c].outcome /\ capture'[c].left = capture[c].left
    BY <2>1, <2>2, CaptureMoved DEF Place
  <2>4. ASSUME at = "write"
        PROVE  Progress(c)' /\ capture'[c].left # <<>>
    <3> DEFINE kind == capture[c].kind
               all == FilesOf(kind, kind)
    <3>1. kind \in Kinds /\ kind \in Outcomes /\ kind # "none"
      <4>1. kind \in Kinds \ {"query"}
        BY <2>1, <2>2, <2>4, CapturesTyped
      <4> QED
        BY <4>1 DEF Kinds, Outcomes, MembersOf
    <3>2. capture[c].outcome = kind /\ capture[c].left = all
      BY <2>1, <2>2, <2>4 DEF ProgressOK
    <3>3. Len(all) \in Nat \ {0} /\ all # <<>>
      BY <3>1, FilesFacts, EmptySeq
    <3> HIDE DEF kind, all
    <3>4. capture'[c].outcome = kind /\ capture'[c].left = all /\ FilesOf(capture'[c].kind, capture'[c].outcome) = all
      BY <2>3, <3>2 DEF kind, all
    <3> QED
      BY <3>1, <3>3, <3>4 DEF Progress
  <2> QED
    BY <2>2, <2>3, <2>4 DEF ProgressOK, Stands
<1>7. CASE ReportRendering(c)
  <2>1. Begun(c) /\ capture[c].kind # "query"
    BY <1>7 DEF ReportRendering, Stands, Begun, ContainerOK
  <2>2. CASE Move(c, "reported")
    <3>1. capture'[c].at = "reported"
      BY <2>1, <2>2, CaptureMoved DEF Place
    <3> QED
      BY <3>1 DEF ProgressOK, Stands
  <2>3. CASE ~Move(c, "reported")
    <3>1. /\ capture[c].outcome = capture[c].kind
          /\ capture' = [capture EXCEPT ![c].performed = "yes", ![c].at = "directory",
                           ![c].left = FilesOf(capture[c].kind, capture[c].kind)]
      BY <1>7, <2>1, <2>3 DEF ReportRendering, ContainerOK
    <3> HIDE DEF FilesOf
    <3>2. /\ capture'[c].at = "directory" /\ capture'[c].kind = capture[c].kind
          /\ capture'[c].outcome = capture[c].outcome
          /\ capture'[c].left = FilesOf(capture[c].kind, capture[c].kind)
      BY <1>1, <2>1, <3>1, CapturesTyped DEF Capturing
    <3> QED
      BY <3>1, <3>2 DEF ProgressOK, Stands
  <2> QED
    BY <2>2, <2>3
<1>8. CASE ContainerEnds(c)
  <2>1. capture' = capture /\ published' = published
    BY <1>8 DEF ContainerEnds
  <2> QED
    BY <2>1 DEF ProgressOK, Progress, Stands, Written
<1>9. CASE \/ FillFails(c) \/ LinkReceipt(c) \/ PublishFails(c) \/ UnlinkPending(c) \/ AskDaemon(c)
           \/ CreateContainer(c) \/ InspectContainer(c) \/ Dies(c)
  <2>1. \E at \in {"error", "unlink", "done", "create", "reported", "inspect", "remove", "start", "dead"} :
          Move(c, at)
    BY <1>9 DEF FillFails, LinkReceipt, PublishFails, UnlinkPending, AskDaemon, CreateContainer,
      InspectContainer, Dies
  <2>2. capture'[c].at \notin {"link", "write", "fill", "directory"}
    BY <1>1, <2>1, CapturesTyped DEF Move, Capturing, NoCapture
  <2> QED
    BY <2>2 DEF ProgressOK, Stands
<1>10. CASE StartContainer(c) \/ RemoveContainer(c) \/ TakeResponse(c)
  <2>1. capture[c] \in Capturing
    BY <1>10, CapturesTyped DEF StartContainer, RemoveContainer, TakeResponse, Stands, Begun
  <2>2. capture'[c].at \in {"attached", "remove", "report"}
    <3>1. CASE StartContainer(c)
      BY <1>1, <2>1, <3>1 DEF StartContainer, Capturing
    <3>2. CASE RemoveContainer(c)
      BY <1>1, <2>1, <3>2 DEF RemoveContainer, Move, Capturing
    <3>3. CASE TakeResponse(c)
      BY <1>1, <2>1, <3>3 DEF TakeResponse, Move, Capturing
    <3> QED
      BY <1>10, <3>1, <3>2, <3>3
  <2> QED
    BY <2>2 DEF ProgressOK, Stands
<1> QED
  BY <1>2, <1>3, <1>4, <1>5, <1>6, <1>7, <1>8, <1>9, <1>10 DEF CaptureStep

LEMMA ProgressOfOthers ==
  ASSUME CapturesTypeOK, NEW c \in Capturer, CaptureStep(c), NEW e \in Capturer \ {c}, ProgressOK(e)
  PROVE  ProgressOK(e)'
<1>1. capture'[e] = capture[e]
  BY OthersStand
<1>2. \A name : Written(e, name, TRUE) \in published => Written(e, name, TRUE) \in published'
  BY PublishedSteps DEF Written
<1>3. Progress(e) => Progress(e)'
  BY <1>1, <1>2 DEF Progress, Written
<1> QED
  BY <1>1, <1>3 DEF ProgressOK, Stands

LEMMA ContainerKept ==
  ASSUME CapturesTypeOK, NEW c \in Capturer, CaptureStep(c), ContainerOK(c)
  PROVE  ContainerOK(c)'
<1>1. /\ capture \in [Capturer -> {NoCapture} \cup Capturing]
      /\ container \in [Capturer -> [is : {"none", "created", "running", "exited", "failed"}, ran : BOOLEAN]]
  BY DEF CapturesTypeOK
<1>2. CASE \E kind \in Kinds, d \in Directory : BeginCapture(c, kind, d)
  <2>1. PICK kind \in Kinds, d \in Directory : BeginCapture(c, kind, d)
    BY <1>2
  <2>2. /\ capture'[c].at = IF kind = "query" THEN "directory" ELSE "daemon"
        /\ capture'[c].kind = kind /\ capture'[c].outcome = "none"
        /\ capture'[c].performed = "no" /\ capture'[c].cleaned
        /\ container'[c] = [is |-> "none", ran |-> FALSE]
    BY <1>1, <2>1 DEF BeginCapture, ContainerOK, Stands, Begun
  <2> QED
    BY <2>2 DEF ContainerOK, Begun, Stands, Owns
<1>3. ASSUME Begun(c)
      PROVE  ContainerOK(c)'
  <2> DEFINE x == capture[c]
             y == capture'[c]
  <2>1. /\ x \in Capturing
        /\ x.performed = "no" => ~container[c].ran
        /\ x.at \in {"send", "link", "unlink"} => x.kind = "query"
        /\ x.at \in {"daemon", "create", "inspect", "start", "attached", "remove", "report"} =>
             x.kind # "query"
        /\ x.kind = "query" => container[c].is = "none"
        /\ x.kind # "query" =>
             x.outcome \in {"none", x.kind} /\ (x.outcome # "none" => container[c].ran)
        /\ x.at \in {"daemon", "create"} => container[c].is = "none"
        /\ x.at = "attached" => container[c].ran
        /\ x.at \in {"report", "directory", "write", "fill", "done", "reported", "error"} =>
             (x.cleaned => container[c].is = "none")
        /\ x.at = "directory" \/ Owns(c) => x.cleaned
    BY <1>3, CapturesTyped DEF ContainerOK, Stands
  <2>2. ASSUME NEW at \in Place, Move(c, at)
        PROVE  /\ y.at = at /\ y.kind = x.kind /\ y.outcome = x.outcome
               /\ y.performed = x.performed /\ y.cleaned = x.cleaned
    BY <1>3, <2>2, CaptureMoved
  <2>3. CASE MakeDirectory(c)
    <3>1. PICK at \in {"error", "send", "write"} :
            /\ Move(c, at) /\ (at = "write" <=> at # "error" /\ x.kind # "query")
            /\ x.at = "directory" /\ container' = container
      BY <2>3 DEF MakeDirectory, Stands
    <3> QED
      BY <2>1, <2>2, <3>1 DEF ContainerOK, Begun, Stands, Owns, Place
  <2>4. CASE Send(c)
    <3>1. x.at = "send" /\ x.kind = "query" /\ container' = container /\ x.cleaned
      BY <2>1, <2>4 DEF Send, Stands, Owns
    <3>2. /\ y.kind = x.kind /\ y.performed = x.performed /\ y.cleaned = x.cleaned
          /\ y.at \in {"error", "write"}
      <4>1. CASE Move(c, "error")
        BY <2>2, <4>1 DEF Place
      <4>2. CASE ~Move(c, "error")
        <5>1. PICK o \in {"captured", "failed"} :
                capture' = [capture EXCEPT ![c].at = "write", ![c].outcome = o,
                                           ![c].left = FilesOf("query", o)]
          BY <2>4, <4>2 DEF Send
        <5> HIDE DEF FilesOf
        <5> QED
          BY <1>1, <2>1, <5>1 DEF Capturing
      <4> QED
        BY <4>1, <4>2
    <3> QED
      BY <2>1, <3>1, <3>2 DEF ContainerOK, Begun, Stands, Owns
  <2>5. CASE OpenNew(c) \/ FillFails(c) \/ LinkReceipt(c) \/ PublishFails(c) \/ UnlinkPending(c)
    <3>1. PICK at \in {"fill", "error", "unlink", "done"} :
            /\ Move(c, at) /\ (at = "unlink" => x.at = "link")
            /\ x.at \in {"write", "fill", "link", "unlink"} /\ container' = container
      BY <2>5 DEF OpenNew, FillFails, LinkReceipt, PublishFails, UnlinkPending, Stands
    <3> QED
      BY <2>1, <2>2, <3>1 DEF ContainerOK, Begun, Stands, Owns, Place
  <2>6. CASE FillFile(c)
    <3>1. /\ x.at = "fill" /\ container' = container /\ x.cleaned
          /\ y.kind = x.kind /\ y.outcome = x.outcome /\ y.performed = x.performed
          /\ y.cleaned = x.cleaned /\ y.at \in {"write", "link", "done"}
          /\ y.at = "link" => x.kind = "query"
      <4>1. x.at = "fill" /\ container' = container /\ x.cleaned
        BY <2>1, <2>6 DEF FillFile, Stands, Owns
      <4>2. /\ y.kind = x.kind /\ y.outcome = x.outcome /\ y.performed = x.performed
            /\ y.cleaned = x.cleaned /\ y.at \in {"write", "link", "done"}
            /\ y.at = "link" => x.kind = "query"
        BY <1>1, <2>1, <2>6 DEF FillFile, Capturing
      <4> QED
        BY <4>1, <4>2
    <3> QED
      BY <2>1, <3>1 DEF ContainerOK, Begun, Stands, Owns
  <2>7. CASE AskDaemon(c) \/ InspectContainer(c)
    <3>1. PICK at \in {"create", "reported", "start", "remove"} :
            /\ Move(c, at) /\ container' = container
            /\ IF at \in {"create", "reported"} THEN x.at = "daemon" ELSE x.at = "inspect"
      BY <2>7 DEF AskDaemon, InspectContainer, Stands
    <3> QED
      BY <2>1, <2>2, <3>1 DEF ContainerOK, Begun, Stands, Owns, Place
  <2>8. CASE CreateContainer(c)
    <3>1. PICK at \in {"inspect", "remove"} :
            /\ Move(c, at) /\ x.at = "create"
            /\ container' = container \/ container' = [container EXCEPT ![c].is = "created"]
      BY <2>8 DEF CreateContainer, Stands
    <3>2. container'[c].ran = container[c].ran
      BY <1>1, <3>1
    <3> QED
      BY <2>1, <2>2, <3>1, <3>2 DEF ContainerOK, Begun, Stands, Owns, Place
  <2>9. CASE StartContainer(c)
    <3>1. PICK at \in {"attached", "remove"} :
            /\ capture' = [capture EXCEPT ![c].performed = "unknown", ![c].at = at]
            /\ \/ container' = [container EXCEPT ![c] = [is |-> "running", ran |-> TRUE]]
               \/ at = "remove" /\ container' = container
            /\ x.at = "start"
      BY <2>9 DEF StartContainer, Stands
    <3>2. /\ y.at = at /\ y.kind = x.kind /\ y.outcome = x.outcome
          /\ y.performed = "unknown" /\ y.cleaned = x.cleaned
      BY <1>1, <2>1, <3>1 DEF Capturing
    <3>3. (container'[c].ran \/ (at = "remove" /\ container'[c] = container[c]))
      BY <1>1, <3>1
    <3> QED
      BY <2>1, <3>1, <3>2, <3>3 DEF ContainerOK, Begun, Stands, Owns
  <2>10. CASE ContainerEnds(c)
    <3>1. /\ capture' = capture /\ container[c].is = "running"
          /\ container'[c].ran = container[c].ran
      BY <1>1, <2>10 DEF ContainerEnds
    <3> QED
      BY <2>1, <3>1 DEF ContainerOK, Begun, Stands, Owns
  <2>11. CASE TakeResponse(c)
    <3>1. x.at = "attached" /\ container' = container
      BY <2>11 DEF TakeResponse, Stands
    <3>2. /\ y.at = "remove" /\ y.kind = x.kind /\ y.outcome \in {x.outcome, x.kind}
          /\ y.performed = x.performed /\ y.cleaned = x.cleaned
      BY <1>1, <2>1, <2>11 DEF TakeResponse, Move, Capturing
    <3> QED
      BY <2>1, <3>1, <3>2 DEF ContainerOK, Begun, Stands, Owns
  <2>12. CASE RemoveContainer(c)
    <3>1. x.at = "remove"
      BY <2>12 DEF RemoveContainer, Stands
    <3>2. /\ y.at = "report" /\ y.kind = x.kind /\ y.outcome = x.outcome
          /\ y.performed = x.performed
          /\ container'[c].ran = container[c].ran /\ (y.cleaned => container'[c].is = "none")
          /\ container[c].is = "none" => container'[c].is = "none"
      BY <1>1, <2>1, <2>12 DEF RemoveContainer, Move, Capturing
    <3> QED
      BY <2>1, <3>1, <3>2 DEF ContainerOK, Begun, Stands, Owns
  <2>13. CASE ReportRendering(c)
    <3>1. x.at = "report" /\ container' = container
      BY <2>13 DEF ReportRendering, Stands
    <3>2. /\ y.kind = x.kind /\ y.outcome = x.outcome /\ y.cleaned = x.cleaned
          /\ \/ y.at = "directory" /\ y.performed = "yes" /\ x.cleaned /\ x.outcome # "none"
             \/ y.at = "reported" /\ y.performed = x.performed
      <4>1. CASE Move(c, "reported")
        BY <2>2, <4>1 DEF Place
      <4>2. CASE ~Move(c, "reported")
        <5>1. /\ capture[c].cleaned /\ capture[c].outcome # "none"
              /\ capture' = [capture EXCEPT ![c].performed = "yes", ![c].at = "directory",
                               ![c].left = FilesOf(capture[c].kind, capture[c].kind)]
          BY <2>13, <4>2 DEF ReportRendering
        <5> HIDE DEF FilesOf
        <5> QED
          BY <1>1, <2>1, <5>1, ZenonT(60) DEF Capturing
      <4> QED
        BY <4>1, <4>2
    <3> QED
      BY <2>1, <3>1, <3>2 DEF ContainerOK, Begun, Stands, Owns
  <2>14. CASE Dies(c)
    <3>1. Move(c, "dead") /\ container' = container
      BY <2>14 DEF Dies
    <3> QED
      BY <2>1, <2>2, <3>1 DEF ContainerOK, Begun, Stands, Owns, Place
  <2>15. ~\E kind \in Kinds, d \in Directory : BeginCapture(c, kind, d)
    BY <1>3 DEF BeginCapture, Begun, Stands
  <2> QED
    BY <2>3, <2>4, <2>5, <2>6, <2>7, <2>8, <2>9, <2>10, <2>11, <2>12, <2>13, <2>14,
      <2>15 DEF CaptureStep
<1>4. CASE ContainerEnds(c)
  <2>1. Begun(c)
    BY <1>4, SMTT(60) DEF ContainerEnds, ContainerOK
  <2> QED
    BY <1>3, <2>1
<1> QED
  BY <1>2, <1>3, <1>4, OnlyMoves

(* A container that is gone, of who writes, stays as it is.                 *)
LEMMA GoneStays ==
  ASSUME NEW c \in Capturer, CaptureStep(c), capture[c].at \in FilePlace, container[c].is = "none"
  PROVE  container' = container
BY DEF CaptureStep, BeginCapture, MakeDirectory, Send, OpenNew, FillFile, FillFails, LinkReceipt,
  PublishFails, UnlinkPending, AskDaemon, CreateContainer, InspectContainer, StartContainer,
  ContainerEnds, TakeResponse, RemoveContainer, ReportRendering, Dies, Stands, FilePlace

(* What who writes has left: when it comes to its receipt, all members are  *)
(* there.                                                                   *)
LEMMA MembersBy ==
  ASSUME CapturesTypeOK, NEW c \in Capturer, ProgressOK(c), capture[c].at \in {"write", "fill", "link"}
  PROVE  /\ Begun(c) /\ capture[c].outcome \in Outcomes
         /\ capture[c].at # "link" => Head(capture[c].left) # "receipt.json"
         /\ capture[c].at = "link" \/ Head(capture[c].left) \in Receipts =>
              \A i \in DOMAIN MembersOf[capture[c].outcome] :
                Written(c, MembersOf[capture[c].outcome][i], TRUE) \in published
<1> DEFINE left == capture[c].left
           o == capture[c].outcome
           members == MembersOf[o]
           all == FilesOf(capture[c].kind, o)
           done == Len(all) - Len(left)
<1>1. Begun(c) /\ Progress(c)
  BY DEF ProgressOK, Stands, Begun
<1>2. /\ capture[c].kind \in Kinds /\ o \in Outcomes /\ Len(left) \in Nat
      /\ capture[c].at # "link" => Len(left) > 0 /\ Head(left) = left[1]
      /\ capture[c].at = "link" => Len(left) = 0
  BY <1>1, CapturesTyped DEF Progress, ProgressOK, Stands
<1>3. /\ Len(members) \in Nat \ {0} /\ DOMAIN members = 1..Len(members) /\ Len(all) = Len(members) + 1
      /\ \A i \in 1..Len(members) : all[i] = members[i] /\ members[i] \notin Receipts
      /\ \A i \in 1..Len(all) : all[i] # "receipt.json"
  BY <1>2, FilesFacts, SMTT(60)
<1>4. /\ Len(left) <= Len(all) /\ \A i \in 1..Len(left) : left[i] = all[done + i]
      /\ \A i \in 1..done : Written(c, all[i], TRUE) \in published
  BY <1>1 DEF Progress
<1> HIDE DEF members, all, left, o
<1>5. done \in Nat /\ (capture[c].at # "link" => Head(left) = all[done + 1] /\ done + 1 \in 1..Len(all))
  BY <1>2, <1>3, <1>4
<1>6. capture[c].at = "link" \/ Head(left) \in Receipts => done >= Len(members)
  BY <1>2, <1>3, <1>5
<1>7. done >= Len(members) => \A i \in 1..Len(members) : Written(c, members[i], TRUE) \in published
  <2>1. ASSUME done >= Len(members), NEW i \in 1..Len(members)
        PROVE  i \in 1..done /\ members[i] = all[i]
    BY <1>3, <1>5, <2>1
  <2> QED
    BY <1>4, <2>1
<1>8. capture[c].at # "link" => Head(left) # "receipt.json"
  BY <1>3, <1>5
<1> QED
  BY <1>1, <1>2, <1>3, <1>6, <1>7, <1>8 DEF members, left, o

LEMMA ReceiptsKept ==
  ASSUME CapturesTypeOK, DirectoriesOK, ReceiptsOK,
         NEW c \in Capturer, CaptureStep(c), ProgressOK(c), ContainerOK(c)
  PROVE  ReceiptsOK'
<1> DEFINE MembersIn(f, set) ==
      \A i \in DOMAIN MembersOf[capture[f.by].outcome] :
        [f EXCEPT !.name = MembersOf[capture[f.by].outcome][i]] \in set
<1>1. \A f \in published : f \in File /\ f.by \in Capturer /\ capture[f.by].at \in FilePlace /\ Begun(f.by)
  BY DEF CapturesTypeOK, File, DirectoriesOK, FilePlace, Begun
<1>2. \A e \in Capturer \ {c} : capture'[e] = capture[e] /\ container'[e] = container[e]
  BY OthersStand
<1>3. \A f \in published' : f \notin published =>
        /\ f.by = c /\ f.dir = capture[c].dir /\ capture[c].at \in {"write", "fill", "link"}
        /\ \/ LinkReceipt(c) /\ f = Written(c, "receipt.json", TRUE) /\ capture[c].at = "link"
           \/ capture[c].at # "link" /\ f.name = Head(capture[c].left)
  <2>1. LinkReceipt(c) => capture[c].at = "link"
    BY DEF LinkReceipt, Stands
  <2>2. OpenNew(c) \/ FillFile(c) \/ FillFails(c) => capture[c].at \in {"write", "fill"}
    BY DEF OpenNew, FillFile, FillFails, Stands
  <2>3. \A name, whole : Written(c, name, whole).name = name
    BY DEF Written
  <2> QED
    <3>1. ASSUME NEW f \in published', f \notin published
          PROVE  /\ f.by = c /\ f.dir = capture[c].dir
                 /\ \/ LinkReceipt(c) /\ f = Written(c, "receipt.json", TRUE)
                    \/ (OpenNew(c) \/ FillFile(c) \/ FillFails(c)) /\ f.name = Head(capture[c].left)
      <4>1. /\ f.by = c /\ f.dir = capture[c].dir
            /\ \/ LinkReceipt(c) /\ f = Written(c, "receipt.json", TRUE)
               \/ OpenNew(c) /\ f = Written(c, Head(capture[c].left), FALSE)
               \/ (FillFile(c) \/ FillFails(c)) /\ f = Written(c, Head(capture[c].left), TRUE)
        BY <3>1, PublishedSteps
      <4>2. \A name, whole : f = Written(c, name, whole) => f.name = name
        BY <2>3
      <4> QED
        BY <4>1, <4>2
    <3> QED
      BY <2>1, <2>2, <3>1
<1>4. \A f \in published' : f.by \in Capturer /\ capture[f.by].at \in FilePlace /\ Begun(f.by)
  <2>1. capture[c].at \in {"write", "fill", "link"} => capture[c].at \in FilePlace /\ Begun(c)
    BY DEF FilePlace, Begun
  <2> QED
    BY <1>1, <1>3, <2>1
<1>5. \A f \in published' : capture'[f.by].outcome = capture[f.by].outcome /\ capture'[f.by].kind = capture[f.by].kind
  BY <1>2, <1>4, KeptFields
<1>6. \A f \in published' : container[f.by].is = "none" => container'[f.by] = container[f.by]
  BY <1>2, <1>4, GoneStays
<1>7. ASSUME NEW f \in published', f.name \in Receipts, f.whole
      PROVE  /\ capture[f.by].outcome # "none" /\ MembersIn(f, published)
             /\ capture[f.by].kind # "query" => container[f.by].ran /\ container[f.by].is = "none"
  <2>1. CASE f \in published
    BY <1>7, <2>1 DEF ReceiptsOK
  <2>2. CASE f \notin published
    <3>1. f.by = c /\ f.dir = capture[c].dir /\ capture[c].at \in {"write", "fill", "link"} /\ f.whole = TRUE
      <4>1. f.whole \in BOOLEAN
        BY <1>7, PublishedTyped DEF File
      <4> QED
        BY <1>3, <1>7, <2>2, <4>1
    <3>2. capture[c].at = "link" \/ Head(capture[c].left) \in Receipts
      BY <1>3, <1>7, <2>2
    <3>3. /\ capture[c].outcome \in Outcomes /\ Begun(c)
          /\ \A i \in DOMAIN MembersOf[capture[c].outcome] :
               Written(c, MembersOf[capture[c].outcome][i], TRUE) \in published
      BY <3>1, <3>2, MembersBy
    <3>4. f \in File
      BY PublishedTyped
    <3>5. \A name : [f EXCEPT !.name = name] = Written(c, name, TRUE)
      <4>1. ASSUME NEW name
            PROVE  [f EXCEPT !.name = name] = [dir |-> f.dir, name |-> name, by |-> f.by, whole |-> f.whole]
        BY <3>4 DEF File
      <4> QED
        BY <3>1, <4>1 DEF Written
    <3>6. MembersIn(f, published)
      <4>1. \A i \in DOMAIN MembersOf[capture[c].outcome] :
              [f EXCEPT !.name = MembersOf[capture[c].outcome][i]] \in published
        BY <3>3, <3>5
      <4> QED
        BY <3>1, <4>1
    <3>7. capture[c].outcome # "none"
      BY <3>3 DEF Outcomes, MembersOf
    <3>8. capture[c].kind # "query" => container[c].ran /\ container[c].is = "none"
      BY <3>1, <3>3, <3>7 DEF ContainerOK, Owns
    <3> QED
      BY <3>1, <3>6, <3>7, <3>8
  <2> QED
    BY <2>1, <2>2
<1>8. ASSUME NEW f \in published', f.name \in Receipts, f.whole
      PROVE  MembersIn(f, published')
  <2>1. capture[f.by].outcome \in Outcomes /\ capture[f.by].kind \in Kinds /\ f \in File /\ f.whole = TRUE
    <3>1. f \in File /\ f.whole \in BOOLEAN
      BY PublishedTyped DEF File
    <3> QED
      BY <1>4, <1>7, <1>8, <3>1, CapturesTyped
  <2>2. \A i \in DOMAIN MembersOf[capture[f.by].outcome] : MembersOf[capture[f.by].outcome][i] # Pending
    BY <2>1, FilesFacts
  <2>3. \A name : [f EXCEPT !.name = name].name = name /\ [f EXCEPT !.name = name].whole
    BY <2>1 DEF File
  <2> QED
    <3>1. ASSUME NEW i \in DOMAIN MembersOf[capture[f.by].outcome]
          PROVE  [f EXCEPT !.name = MembersOf[capture[f.by].outcome][i]] \in published'
      <4> DEFINE name == MembersOf[capture[f.by].outcome][i]
                 g == [f EXCEPT !.name = name]
      <4>1. g \in published /\ g.name # Pending /\ g.whole
        BY <1>7, <1>8, <2>2, <2>3
      <4> HIDE DEF g
      <4> QED
        BY <4>1, PublishedSteps DEF g
    <3> QED
      BY <3>1
<1>9. ASSUME NEW f \in published', f.name = "receipt.json"
      PROVE  capture'[f.by].at \in {"unlink", "done", "dead"}
  <2>1. CASE f \in published /\ f.by # c
    BY <1>1, <1>2, <1>9, <2>1 DEF ReceiptsOK
  <2>2. CASE f \in published /\ f.by = c
    <3>1. capture[c].at \in {"unlink", "done", "dead"} /\ Begun(c)
      BY <1>1, <1>9, <2>2 DEF ReceiptsOK
    <3>2. CASE UnlinkPending(c) \/ Dies(c)
      BY <2>2, <3>1, <3>2, CaptureMoved DEF UnlinkPending, Dies, Place
    <3>3. CASE ContainerEnds(c)
      BY <2>2, <3>1, <3>3 DEF ContainerEnds
    <3>4. UnlinkPending(c) \/ Dies(c) \/ ContainerEnds(c)
      BY <3>1 DEF CaptureStep, BeginCapture, MakeDirectory, Send, OpenNew, FillFile, FillFails,
        LinkReceipt, PublishFails, AskDaemon, CreateContainer, InspectContainer, StartContainer,
        TakeResponse, RemoveContainer, ReportRendering, Stands
    <3> QED
      BY <3>2, <3>3, <3>4
  <2>3. CASE f \notin published
    <3>1. capture[c].at \in {"write", "fill", "link"}
      BY <1>3, <2>3
    <3>2. LinkReceipt(c) /\ f.by = c
      BY <1>3, <1>9, <2>3, <3>1, MembersBy
    <3>3. Move(c, "unlink") /\ Begun(c)
      BY <2>3, <3>2 DEF LinkReceipt, Stands, Begun
    <3> QED
      BY <3>2, <3>3, CaptureMoved DEF Place
  <2> QED
    BY <2>1, <2>2, <2>3
<1> QED
  BY <1>5, <1>6, <1>7, <1>8, <1>9, ZenonT(60) DEF ReceiptsOK

(* A directory goes with all that is in it.                                 *)
LEMMA DiscardKept ==
  ASSUME CapturesInv, NEW d \in Directory, Discard(d)
  PROVE  CapturesInv'
<1>1. /\ capture' = capture /\ container' = container /\ faults' = faults
      /\ made' = made \ {d} /\ published' = {f \in published : f.dir # d}
      /\ \A c \in Capturer : ~Ended(c) => capture[c].dir # d
  BY DEF Discard
<1>2. CapturesTypeOK'
  BY <1>1 DEF CapturesInv, CapturesTypeOK
<1>3. \A c \in Capturer : Owns(c) => capture[c].dir # d
  BY <1>1 DEF Owns, Ended
<1>4. DirectoriesOK'
  BY <1>1, <1>3 DEF CapturesInv, DirectoriesOK, Owns
<1>5. ReceiptsOK'
  <2>1. \A f \in published : f \in File
    BY DEF CapturesInv, CapturesTypeOK
  <2>2. \A f \in File : \A name : [f EXCEPT !.name = name].dir = f.dir
    BY DEF File
  <2>3. ASSUME NEW f \in published, f.dir # d, NEW name, [f EXCEPT !.name = name] \in published
        PROVE  [f EXCEPT !.name = name] \in published'
    BY <1>1, <2>1, <2>2, <2>3
  <2>4. \A f \in published' : f \in published /\ f.dir # d
    BY <1>1
  <2> QED
    BY <1>1, <2>3, <2>4 DEF CapturesInv, ReceiptsOK
<1>6. ASSUME NEW c \in Capturer
      PROVE  ProgressOK(c)' /\ ContainerOK(c)'
  <2>1. ContainerOK(c)'
    BY <1>1 DEF CapturesInv, ContainerOK, Begun, Stands, Owns
  <2>2. ASSUME Progress(c), capture[c].at \in {"write", "fill", "link"}
        PROVE  Progress(c)'
    <3>1. capture[c].dir # d
      BY <1>3, <2>2 DEF Owns
    <3>2. \A name : Written(c, name, TRUE) \in published => Written(c, name, TRUE) \in published'
      BY <1>1, <3>1 DEF Written
    <3> QED
      BY <1>1, <2>2, <3>2 DEF Progress, Written
  <2>3. ProgressOK(c)'
    BY <1>1, <2>2 DEF CapturesInv, ProgressOK, Stands
  <2> QED
    BY <2>1, <2>3
<1> QED
  BY <1>2, <1>4, <1>5, <1>6 DEF CapturesInv

LEMMA CapturesHold == CapturesSpec => []CapturesInv
<1>1. CapturesInit => CapturesInv
  <2> SUFFICES ASSUME CapturesInit
               PROVE  CapturesInv
    OBVIOUS
  <2>1. /\ \A c \in Capturer : capture[c] = NoCapture /\ container[c] = [is |-> "none", ran |-> FALSE]
        /\ made = {} /\ published = {} /\ NoCapture.at = "none"
    BY DEF CapturesInit, NoCapture
  <2>2. CapturesTypeOK
    <3>1. capture \in [Capturer -> {NoCapture} \cup Capturing]
      BY DEF CapturesInit
    <3>2. container \in [Capturer -> [is : {"none", "created", "running", "exited", "failed"}, ran : BOOLEAN]]
      BY DEF CapturesInit
    <3>3. faults \in 0..MaxFaults
      BY CaptureAssumption DEF CapturesInit
    <3> QED
      BY <2>1, <3>1, <3>2, <3>3 DEF CapturesTypeOK
  <2>3. \A c \in Capturer : ProgressOK(c) /\ ContainerOK(c) /\ ~Owns(c)
    BY <2>1 DEF ProgressOK, ContainerOK, Begun, Stands, Owns
  <2>4. DirectoriesOK /\ ReceiptsOK
    BY <2>1, <2>3 DEF DirectoriesOK, ReceiptsOK
  <2> QED
    BY <2>2, <2>3, <2>4 DEF CapturesInv
<1>2. CapturesInv /\ [CapturesNext]_captureVars => CapturesInv'
  <2> SUFFICES ASSUME CapturesInv, [CapturesNext]_captureVars
               PROVE  CapturesInv'
    OBVIOUS
  <2>1. ASSUME NEW c \in Capturer, CaptureStep(c)
        PROVE  CapturesInv'
    <3>1. CapturesTypeOK /\ ProgressOK(c) /\ ContainerOK(c) /\ DirectoriesOK /\ ReceiptsOK
      BY DEF CapturesInv
    <3>2. CapturesTypeOK'
      <4>1. capture \in [Capturer -> {NoCapture} \cup Capturing]
            /\ container \in [Capturer -> [is : {"none", "created", "running", "exited", "failed"}, ran : BOOLEAN]]
        BY <3>1 DEF CapturesTypeOK
      <4>2. capture' \in [Capturer -> {NoCapture} \cup Capturing]
        BY <2>1, <3>1, <4>1, OthersStand, CaptureTyped
      <4>3. container' \in [Capturer -> [is : {"none", "created", "running", "exited", "failed"}, ran : BOOLEAN]]
        BY <2>1, <3>1, <4>1, OthersStand, ContainerTyped
      <4>4. faults' \in 0..MaxFaults
        <5>1. faults' = faults \/ (faults < MaxFaults /\ faults' = faults + 1)
          BY <2>1 DEF CaptureStep, BeginCapture, MakeDirectory, Send, OpenNew, FillFile, FillFails,
            LinkReceipt, PublishFails, UnlinkPending, AskDaemon, CreateContainer, InspectContainer,
            StartContainer, ContainerEnds, TakeResponse, RemoveContainer, ReportRendering, Dies
        <5> QED
          BY <3>1, <5>1, CaptureAssumption, SMTT(60) DEF CapturesTypeOK
      <4> QED
        BY <2>1, <3>1, <4>2, <4>3, <4>4, PublishedTyped DEF CapturesTypeOK
    <3>3. DirectoriesOK'
      BY <2>1, <3>1, DirectoriesKept
    <3>4. ReceiptsOK'
      BY <2>1, <3>1, ReceiptsKept
    <3>5. \A e \in Capturer : ProgressOK(e)'
      BY <2>1, <3>1, ProgressKept, ProgressOfOthers DEF CapturesInv
    <3>6. \A e \in Capturer : ContainerOK(e)'
      <4>1. \A e \in Capturer \ {c} : capture'[e] = capture[e] /\ container'[e] = container[e]
        BY <2>1, <3>1, OthersStand
      <4>2. \A e \in Capturer \ {c} : ContainerOK(e)'
        BY <4>1 DEF CapturesInv, ContainerOK, Begun, Stands, Owns
      <4> QED
        BY <2>1, <3>1, <4>2, ContainerKept
    <3> QED
      BY <3>2, <3>3, <3>4, <3>5, <3>6 DEF CapturesInv
  <2>2. ASSUME NEW d \in Directory, Discard(d)
        PROVE  CapturesInv'
    BY <2>2, DiscardKept
  <2>3. CASE UNCHANGED captureVars
    <3>1. CapturesTypeOK' /\ DirectoriesOK' /\ ReceiptsOK'
      <4>1. CapturesTypeOK'
        BY <2>3 DEF captureVars, CapturesInv, CapturesTypeOK
      <4>2. DirectoriesOK'
        BY <2>3 DEF captureVars, CapturesInv, DirectoriesOK, Owns
      <4>3. ReceiptsOK'
        <5> HIDE DEF MembersOf
        <5> QED
          BY <2>3 DEF captureVars, CapturesInv, ReceiptsOK
      <4> QED
        BY <4>1, <4>2, <4>3
    <3>2. ASSUME NEW c \in Capturer
          PROVE  ProgressOK(c)' /\ ContainerOK(c)'
      <4>1. capture' = capture /\ container' = container /\ published' = published
        BY <2>3 DEF captureVars
      <4>2. Progress(c)' <=> Progress(c)
        BY <4>1 DEF Progress, Written
      <4> QED
        BY <4>1, <4>2 DEF CapturesInv, ProgressOK, ContainerOK, Begun, Stands, Owns
    <3> QED
      BY <3>1, <3>2 DEF CapturesInv
  <2> QED
    BY <2>1, <2>2, <2>3 DEF CapturesNext, CaptureStep
<1> QED
  BY <1>1, <1>2, PTL DEF CapturesSpec

(* Captures: a receipt that is there in full stands beside all that it      *)
(* lists; a directory holds one capture; what is told of a container is     *)
(* true; and a query that ended in an error has no receipt.                 *)
THEOREM CapturesAlwaysSound == CapturesSpec => []CapturesSound
<1>1. CapturesInv => CapturesSound
  <2> SUFFICES ASSUME CapturesInv
               PROVE  CapturesSound
    OBVIOUS
  <2>1. CompleteSets
    BY DEF CompleteSets, CapturesInv, ReceiptsOK, DirectoriesOK
  <2>2. ContainerReported
    <3>1. ASSUME NEW c \in Capturer, Ended(c), capture[c].at \notin {"none", "dead"}
          PROVE  /\ capture[c].performed = "no" => ~container[c].ran
                 /\ capture[c].cleaned => container[c].is = "none"
      <4>1. Begun(c) /\ capture[c].at \in {"done", "reported", "error"} /\ ContainerOK(c)
        BY <3>1 DEF Begun, Ended, CapturesInv
      <4> QED
        BY <4>1 DEF ContainerOK
    <3> QED
      BY <3>1 DEF ContainerReported
  <2>3. ErrorsLeaveNoReceipt
    BY DEF ErrorsLeaveNoReceipt, CapturesInv, ReceiptsOK, Stands
  <2> QED
    BY <2>1, <2>2, <2>3 DEF CapturesSound
<1> QED
  BY <1>1, CapturesHold, PTL

------------------------------------------------------------------------------
(* History trees.                                                           *)

LEMMA MaxLeavesNat == MaxLeaves \in Nat
BY DEF MaxLeaves

LEMMA SplitFacts ==
  ASSUME NEW n \in Leaves, n # 1
  PROVE  /\ Split(n) \in PowersOfTwo /\ Split(n) < n /\ n <= 2 * Split(n)
         /\ Split(n) \in Leaves /\ n - Split(n) \in Leaves
         /\ Split(n) \in Nat /\ Split(n) >= 1 /\ n \in Nat /\ n - Split(n) < n
<1>1. n \in 2..MaxLeaves
  BY MaxLeavesNat, SMTT(60) DEF Leaves
<1>2. \E c \in PowersOfTwo : c < n /\ n <= 2 * c
  BY <1>1, SMTT(60) DEF PowersOfTwo, MaxLeaves
<1>3. Split(n) \in PowersOfTwo /\ Split(n) < n /\ n <= 2 * Split(n)
  BY <1>2 DEF Split
<1>4. Split(n) \in Nat /\ Split(n) >= 1
  BY <1>3 DEF PowersOfTwo
<1> QED
  BY <1>1, <1>3, <1>4, MaxLeavesNat DEF Leaves

(* The most leaves of a tree whose longest path has fewer than k nodes.     *)
Widths == <<1, 2, 4, 8, 16, 32, 64, 128, 256, 512, 1024, 2048, 4096, 8192, 16384, 32768, 65536>>

LEMMA SplitHalves ==
  ASSUME NEW n \in Leaves, n # 1, NEW k \in 1..17, n <= Widths[k]
  PROVE  k - 1 \in 1..17 /\ Split(n) <= Widths[k - 1] /\ n - Split(n) <= Widths[k - 1]
<1>1. k # 1 /\ k - 1 \in 1..17 /\ n \in Nat
  <2>1. Widths[1] = 1
    BY DEF Widths
  <2>2. n \in Nat /\ n > 1
    BY MaxLeavesNat DEF Leaves
  <2> QED
    BY <2>1, <2>2
<1>2. \A j \in 1..17 : j # 1 => \A c \in PowersOfTwo : c < Widths[j] => c <= Widths[j - 1]
  <2>1. ASSUME NEW j \in 1..17, j # 1 PROVE \A c \in PowersOfTwo : c < Widths[j] => c <= Widths[j - 1]
    BY <2>1 DEF Widths, PowersOfTwo
  <2> QED
    BY <2>1
<1>3. Widths[k] \in Nat /\ Widths[k - 1] \in Nat
  BY <1>1 DEF Widths
<1>4. Split(n) <= Widths[k - 1]
  <2>1. Split(n) \in PowersOfTwo /\ Split(n) < Widths[k]
    BY <1>1, <1>3, SplitFacts
  <2> QED
    BY <1>1, <1>2, <2>1
<1> QED
  BY <1>1, <1>3, <1>4, SplitFacts

(* No tree is wider than the longest proofs that verifiers take.            *)
LEMMA TreesFit == \A n \in Leaves : n <= Widths[17]
<1>1. MaxLeaves = 65536 /\ Widths[17] = 65536
  BY DEF MaxLeaves, Widths
<1> QED
  BY <1>1, SMTT(60) DEF Leaves

(* A smaller tree that reaches into the right half is cut at the same leaf. *)
LEMMA SplitSame ==
  ASSUME NEW n \in Leaves, NEW m \in Leaves, n # 1, Split(n) < m, m <= n
  PROVE  m # 1 /\ Split(m) = Split(n)
<1>1. m # 1 /\ m \in Nat /\ n \in Nat
  BY SplitFacts, MaxLeavesNat DEF Leaves
<1>2. /\ Split(m) \in PowersOfTwo /\ Split(n) \in PowersOfTwo
      /\ Split(m) < m /\ m <= 2 * Split(m) /\ Split(n) < m /\ m <= 2 * Split(n)
  BY <1>1, SplitFacts DEF Leaves
<1>3. \A c, d \in PowersOfTwo : c < m /\ m <= 2 * c /\ d < m /\ m <= 2 * d => c = d
  BY <1>1 DEF PowersOfTwo
<1> QED
  BY <1>1, <1>2, <1>3

LEMMA LeavesBelow ==
  ASSUME NEW N \in 0..(MaxLeaves - 1), NEW n \in 1..(N + 1)
  PROVE  /\ n \in Leaves /\ (n # N + 1 => n \in 1..N)
         /\ n # 1 => Split(n) \in 1..N /\ n - Split(n) \in 1..N
<1>1. n \in Leaves /\ n \in Nat /\ N \in Nat
  BY MaxLeavesNat DEF Leaves
<1> QED
  BY <1>1, SplitFacts

LEMMA FirstLeast ==
  ASSUME NEW S \in SUBSET Nat, S # {}
  PROVE  \E i \in S : \A j \in S : i <= j
<1> DEFINE R == OpToRel(<, Nat)
<1>1. IsWellFoundedOn(R, Nat)
  BY NatLessThanWellFounded
<1>2. PICK i \in S : \A j \in S : ~(<<j, i>> \in R)
  BY <1>1, WFMin, Zenon
<1>3. \A j \in S : ~(j < i)
  BY <1>2 DEF OpToRel
<1> QED
  BY <1>3

(* What holds of no leaves, and of one more than it held of, holds of all.  *)
LEMMA UpTo ==
  ASSUME NEW S, 0 \in S, \A N \in 0..(MaxLeaves - 1) : N \in S => N + 1 \in S
  PROVE  \A N \in 0..MaxLeaves : N \in S
<1> DEFINE bad == {N \in Nat : N <= MaxLeaves /\ N \notin S}
<1>1. SUFFICES ASSUME bad # {} PROVE FALSE
  BY MaxLeavesNat
<1>2. PICK i \in bad : \A j \in bad : i <= j
  BY <1>1, FirstLeast
<1>3. i # 0 /\ i - 1 \in 0..(MaxLeaves - 1) /\ i - 1 \in Nat
  BY <1>2, MaxLeavesNat
<1>4. i - 1 \notin bad
  BY <1>2, <1>3
<1> QED
  BY <1>2, <1>3, <1>4, MaxLeavesNat

------------------------------------------------------------------------------
(* Roots.                                                                   *)

RootsOf(s, f, n) ==
  [lo \in Nat |->
    IF n = 1 THEN LeafHash(s[lo + 1])
    ELSE Node(f[Split(n)][lo], f[n - Split(n)][lo + Split(n)])]

LEMMA RootsExist ==
  ASSUME NEW s
  PROVE  \E f : f = [n \in Leaves |-> RootsOf(s, f, n)]
<1> DEFINE S == {N \in 0..MaxLeaves : \E f : f = [n \in 1..N |-> RootsOf(s, f, n)]}
<1>1. 0 \in S
  <2>1. [n \in 1..0 |-> 0] = [n \in 1..0 |-> RootsOf(s, [k \in 1..0 |-> 0], n)]
    OBVIOUS
  <2>2. 0 \in 0..MaxLeaves
    BY MaxLeavesNat
  <2> QED
    BY <2>1, <2>2, Zenon
<1>2. ASSUME NEW N \in 0..(MaxLeaves - 1), N \in S PROVE N + 1 \in S
  <2>1. PICK f : f = [n \in 1..N |-> RootsOf(s, f, n)]
    BY <1>2
  <2> DEFINE g == [n \in 1..(N + 1) |-> RootsOf(s, f, n)]
  <2>2. ASSUME NEW n \in 1..(N + 1) PROVE g[n] = RootsOf(s, g, n)
    <3>1. n # 1 => g[Split(n)] = f[Split(n)] /\ g[n - Split(n)] = f[n - Split(n)]
      BY <2>1, <2>2, LeavesBelow, SMTT(60)
    <3>2. g[n] = RootsOf(s, f, n)
      OBVIOUS
    <3> HIDE DEF g
    <3> QED
      BY <3>1, <3>2 DEF RootsOf
  <2>3. g = [n \in 1..(N + 1) |-> RootsOf(s, g, n)]
    <3>1. DOMAIN g = 1..(N + 1) /\ g = [n \in 1..(N + 1) |-> g[n]]
      OBVIOUS
    <3> HIDE DEF g
    <3> QED
      BY <2>2, <3>1
  <2>4. N + 1 \in 0..MaxLeaves
    BY MaxLeavesNat
  <2> HIDE DEF g
  <2> QED
    BY <2>3, <2>4, Zenon
<1>3. MaxLeaves \in S
  <2> HIDE DEF S
  <2> QED
    BY <1>1, <1>2, UpTo, MaxLeavesNat
<1> QED
  BY <1>3 DEF Leaves

LEMMA RootUnfolds ==
  ASSUME NEW s, NEW n \in Leaves, NEW lo \in Nat
  PROVE  SubRoot(s, lo, n) =
           IF n = 1 THEN LeafHash(s[lo + 1])
           ELSE Node(SubRoot(s, lo, Split(n)), SubRoot(s, lo + Split(n), n - Split(n)))
<1> DEFINE r == CHOOSE roots : roots = [k \in Leaves |->
                  [l \in Nat |->
                    IF k = 1 THEN LeafHash(s[l + 1])
                    ELSE Node(roots[Split(k)][l], roots[k - Split(k)][l + Split(k)])]]
<1>1. PICK f : f = [k \in Leaves |->
                  [l \in Nat |->
                    IF k = 1 THEN LeafHash(s[l + 1])
                    ELSE Node(f[Split(k)][l], f[k - Split(k)][l + Split(k)])]]
  BY RootsExist, ZenonT(60) DEF RootsOf
<1>2. r = [k \in Leaves |->
            [l \in Nat |->
              IF k = 1 THEN LeafHash(s[l + 1])
              ELSE Node(r[Split(k)][l], r[k - Split(k)][l + Split(k)])]]
  <2> HIDE DEF r
  <2> QED
    BY <1>1, Zenon DEF r
<1>3. \A k \in Leaves, l \in Nat : SubRoot(s, l, k) = r[k][l]
  BY MaxLeavesNat DEF SubRoot, Leaves
<1> HIDE DEF r
<1>4. SubRoot(s, lo, n) = IF n = 1 THEN LeafHash(s[lo + 1])
                          ELSE Node(r[Split(n)][lo], r[n - Split(n)][lo + Split(n)])
  BY <1>2, <1>3
<1>5. n # 1 => /\ r[Split(n)][lo] = SubRoot(s, lo, Split(n))
               /\ r[n - Split(n)][lo + Split(n)] = SubRoot(s, lo + Split(n), n - Split(n))
  BY <1>3, SplitFacts
<1> QED
  BY <1>4, <1>5

LEMMA Digests ==
  /\ \A a, b, c, d : Node(a, b) = Node(c, d) => a = c /\ b = d
  /\ \A x, y : LeafHash(x) = LeafHash(y) => x = y
  /\ \A a, b, x : Node(a, b) # LeafHash(x)
  /\ \A a, b : Node(a, b) # NoDigest /\ Node(a, b) # EmptyRoot
  /\ \A x : LeafHash(x) # NoDigest /\ LeafHash(x) # EmptyRoot
  /\ NoDigest # EmptyRoot
BY DEF Node, LeafHash, NoDigest, EmptyRoot

LEMMA RootIsDigest ==
  ASSUME NEW s, NEW n \in Leaves, NEW lo \in Nat
  PROVE  SubRoot(s, lo, n) # NoDigest /\ SubRoot(s, lo, n) # EmptyRoot
<1>1. CASE n = 1
  <2>1. SubRoot(s, lo, n) = LeafHash(s[lo + 1])
    BY <1>1, RootUnfolds
  <2> QED
    BY <2>1, Digests
<1>2. CASE n # 1
  <2>1. SubRoot(s, lo, n) = Node(SubRoot(s, lo, Split(n)), SubRoot(s, lo + Split(n), n - Split(n)))
    BY <1>2, RootUnfolds
  <2> QED
    BY <2>1, Digests
<1> QED
  BY <1>1, <1>2

(* What holds of a tree if it holds of all smaller ones, holds of all.      *)
LEMMA TreeInduction ==
  ASSUME NEW S, \A n \in Leaves : (\A m \in Leaves : m < n => m \in S) => n \in S
  PROVE  \A n \in Leaves : n \in S
<1> DEFINE bad == {n \in Leaves : n \notin S}
<1>1. SUFFICES ASSUME bad # {} PROVE FALSE
  OBVIOUS
<1>2. bad \in SUBSET Nat
  BY MaxLeavesNat DEF Leaves
<1>3. PICK i \in bad : \A j \in bad : i <= j
  BY <1>1, <1>2, FirstLeast
<1>4. \A m \in Leaves : m < i => m \in S
  BY <1>2, <1>3, MaxLeavesNat DEF Leaves
<1> QED
  BY <1>3, <1>4

(* Trees with one root have the same leaves, if they have one size.         *)
LEMMA SameRoot ==
  ASSUME NEW s, NEW t, NEW n \in Leaves, NEW lo \in Nat
  PROVE  SubRoot(s, lo, n) = SubRoot(t, lo, n) <=>
           \A i \in (lo + 1)..(lo + n) : s[i] = t[i]
<1> DEFINE Same(k, l) == SubRoot(s, l, k) = SubRoot(t, l, k) <=>
                           \A i \in (l + 1)..(l + k) : s[i] = t[i]
           S == {k \in Leaves : \A l \in Nat : Same(k, l)}
<1>1. ASSUME NEW k \in Leaves, \A m \in Leaves : m < k => m \in S PROVE k \in S
  <2> SUFFICES ASSUME NEW l \in Nat PROVE Same(k, l)
    OBVIOUS
  <2>1. k \in Nat
    BY MaxLeavesNat DEF Leaves
  <2>2. CASE k = 1
    <3>1. SubRoot(s, l, k) = SubRoot(t, l, k) <=> s[l + 1] = t[l + 1]
      BY <2>2, RootUnfolds, Digests
    <3>2. (l + 1)..(l + k) = {l + 1}
      BY <2>2
    <3> QED
      BY <3>1, <3>2
  <2>3. CASE k # 1
    <3> DEFINE cut == Split(k)
    <3>1. /\ cut \in Leaves /\ k - cut \in Leaves /\ cut < k /\ k - cut < k
          /\ cut \in Nat /\ cut >= 1 /\ l + cut \in Nat
      BY <2>1, <2>3, SplitFacts
    <3> HIDE DEF cut
    <3>2. Same(cut, l) /\ Same(k - cut, l + cut)
      BY <1>1, <3>1
    <3>3. SubRoot(s, l, k) = SubRoot(t, l, k) <=>
            /\ SubRoot(s, l, cut) = SubRoot(t, l, cut)
            /\ SubRoot(s, l + cut, k - cut) = SubRoot(t, l + cut, k - cut)
      <4>1. /\ SubRoot(s, l, k) = Node(SubRoot(s, l, cut), SubRoot(s, l + cut, k - cut))
            /\ SubRoot(t, l, k) = Node(SubRoot(t, l, cut), SubRoot(t, l + cut, k - cut))
        BY <2>3, RootUnfolds DEF cut
      <4> QED
        BY <4>1, Digests
    <3>4. (l + cut) + (k - cut) = l + k
      BY <2>1, <3>1
    <3>5. \A i : i \in (l + 1)..(l + k) <=>
                 i \in (l + 1)..(l + cut) \/ i \in (l + cut + 1)..(l + k)
      BY <2>1, <3>1
    <3> QED
      BY <3>2, <3>3, <3>4, <3>5
  <2> QED
    BY <2>2, <2>3
<1> HIDE DEF S
<1>2. n \in S
  BY <1>1, TreeInduction
<1> QED
  BY <1>2 DEF S

LEMMA PrefixIs ==
  ASSUME NEW Element, NEW s \in Seq(Element), NEW t \in Seq(Element), Len(s) <= Len(t)
  PROVE  IsPrefixOf(s, t) <=> \A i \in 1..Len(s) : t[i] = s[i]
<1>1. Len(s) \in Nat /\ Len(t) \in Nat
  BY LenProperties
<1>2. \A i \in 1..Len(s) : t[i] \in Element
  BY <1>1, ElementOfSeq
<1>3. /\ SubSeq(t, 1, Len(s)) \in Seq(Element) /\ Len(SubSeq(t, 1, Len(s))) = Len(s)
      /\ \A i \in 1..Len(s) : SubSeq(t, 1, Len(s))[i] = t[i]
  BY <1>1, <1>2, SubSeqProperties
<1>4. SubSeq(t, 1, Len(s)) = s <=> \A i \in 1..Len(s) : t[i] = s[i]
  BY <1>3, SeqEqual
<1> QED
  BY <1>4 DEF IsPrefixOf

(* A root at the end of a history is that of the sequence.                  *)
LEMMA RootTellsPrefix ==
  ASSUME NEW Element, NEW s \in Seq(Element), NEW t \in Seq(Element),
         Len(s) <= Len(t), Len(t) <= MaxLeaves
  PROVE  SubRoot(t, 0, Len(s)) = Root(s) <=> IsPrefixOf(s, t)
<1>1. Len(s) \in Nat /\ Len(t) \in Nat
  BY LenProperties
<1>2. IsPrefixOf(s, t) <=> \A i \in 1..Len(s) : t[i] = s[i]
  BY PrefixIs
<1>3. CASE Len(s) = 0
  BY <1>2, <1>3 DEF Root, SubRoot
<1>4. CASE Len(s) # 0
  <2>1. Len(s) \in Leaves
    BY <1>1, <1>4, MaxLeavesNat DEF Leaves
  <2>2. SubRoot(t, 0, Len(s)) = SubRoot(s, 0, Len(s)) <=>
          \A i \in (0 + 1)..(0 + Len(s)) : t[i] = s[i]
    BY <2>1, SameRoot
  <2>3. (0 + 1)..(0 + Len(s)) = 1..Len(s)
    BY <1>1
  <2> QED
    BY <1>2, <2>2, <2>3 DEF Root
<1> QED
  BY <1>3, <1>4

------------------------------------------------------------------------------
(* Inclusion proofs.                                                        *)

RebuiltOf(x, index, proof, f, n) ==
  [lo \in Nat |-> [k \in Nat |->
    IF n = 1 THEN IF k = 0 THEN LeafHash(x) ELSE NoDigest
    ELSE IF k = 0 THEN NoDigest
    ELSE LET cut == Split(n)
         IN  IF index < lo + cut
             THEN Joined(f[cut][lo][k - 1], proof[k])
             ELSE Joined(proof[k], f[n - cut][lo + cut][k - 1])]]

Rebuilt(x, index, proof) ==
  CHOOSE rebuilt : rebuilt = [n \in Leaves |-> RebuiltOf(x, index, proof, rebuilt, n)]

LEMMA RebuiltExists ==
  ASSUME NEW x, NEW index, NEW proof
  PROVE  \E f : f = [n \in Leaves |-> RebuiltOf(x, index, proof, f, n)]
<1> DEFINE S == {N \in 0..MaxLeaves : \E f : f = [n \in 1..N |-> RebuiltOf(x, index, proof, f, n)]}
<1>1. 0 \in S
  <2>1. [n \in 1..0 |-> 0] = [n \in 1..0 |-> RebuiltOf(x, index, proof, [k \in 1..0 |-> 0], n)]
    OBVIOUS
  <2>2. 0 \in 0..MaxLeaves
    BY MaxLeavesNat
  <2> QED
    BY <2>1, <2>2, Zenon
<1>2. ASSUME NEW N \in 0..(MaxLeaves - 1), N \in S PROVE N + 1 \in S
  <2>1. PICK f : f = [n \in 1..N |-> RebuiltOf(x, index, proof, f, n)]
    BY <1>2
  <2> DEFINE g == [n \in 1..(N + 1) |-> RebuiltOf(x, index, proof, f, n)]
  <2>2. ASSUME NEW n \in 1..(N + 1) PROVE g[n] = RebuiltOf(x, index, proof, g, n)
    <3>1. n # 1 => g[Split(n)] = f[Split(n)] /\ g[n - Split(n)] = f[n - Split(n)]
      BY <2>1, <2>2, LeavesBelow, SMTT(60)
    <3>2. g[n] = RebuiltOf(x, index, proof, f, n)
      OBVIOUS
    <3> HIDE DEF g
    <3> QED
      BY <3>1, <3>2 DEF RebuiltOf
  <2>3. g = [n \in 1..(N + 1) |-> RebuiltOf(x, index, proof, g, n)]
    <3>1. DOMAIN g = 1..(N + 1) /\ g = [n \in 1..(N + 1) |-> g[n]]
      OBVIOUS
    <3> HIDE DEF g
    <3> QED
      BY <2>2, <3>1
  <2>4. N + 1 \in 0..MaxLeaves
    BY MaxLeavesNat
  <2> HIDE DEF g
  <2> QED
    BY <2>3, <2>4, Zenon
<1>3. MaxLeaves \in S
  <2> HIDE DEF S
  <2> QED
    BY <1>1, <1>2, UpTo, MaxLeavesNat
<1> QED
  BY <1>3 DEF Leaves

(* What a level of the tree is rebuilt to.                                  *)
RebuiltAt(r, x, index, proof, n, lo, k) ==
  /\ n = 1 /\ k = 0 => r[n][lo][k] = LeafHash(x)
  /\ n = 1 /\ k # 0 => r[n][lo][k] = NoDigest
  /\ n # 1 /\ k = 0 => r[n][lo][k] = NoDigest
  /\ n # 1 /\ k # 0 /\ index < lo + Split(n) =>
       r[n][lo][k] = Joined(r[Split(n)][lo][k - 1], proof[k])
  /\ n # 1 /\ k # 0 /\ ~(index < lo + Split(n)) =>
       r[n][lo][k] = Joined(proof[k], r[n - Split(n)][lo + Split(n)][k - 1])

LEMMA RebuiltUnfolds ==
  ASSUME NEW x, NEW index, NEW proof, NEW n \in Leaves, NEW lo \in Nat, NEW k \in Nat
  PROVE  RebuiltAt(Rebuilt(x, index, proof), x, index, proof, n, lo, k)
<1> DEFINE r == Rebuilt(x, index, proof)
<1>1. r = [n_1 \in Leaves |-> RebuiltOf(x, index, proof, r, n_1)]
  BY RebuiltExists, ZenonT(60) DEF Rebuilt
<1> HIDE DEF r
<1>2. r[n][lo][k] = RebuiltOf(x, index, proof, r, n)[lo][k]
  BY <1>1
<1>3. RebuiltAt(r, x, index, proof, n, lo, k)
  BY <1>2 DEF RebuiltOf, RebuiltAt
<1> QED
  BY <1>3 DEF r

LEMMA VerifyInclusionIs ==
  ASSUME NEW x, NEW index, NEW size, NEW proof, NEW root
  PROVE  VerifyInclusion(x, index, size, proof, root) <=>
           Len(proof) <= MaxProofNodes /\ Rebuilt(x, index, proof)[size][0][Len(proof)] = root
BY Zenon DEF VerifyInclusion, Rebuilt, RebuiltOf

LEMMA JoinedIs ==
  /\ \A a, b, c, d : Joined(a, b) = Node(c, d) => a = c /\ b = d
  /\ \A a, b : a # NoDigest /\ b # NoDigest => Joined(a, b) = Node(a, b)
BY Digests DEF Joined

(* Whatever is given as a proof.                                            *)
LEMMA InclusionSound ==
  ASSUME NEW s, NEW x, NEW index \in Nat, NEW proof, NEW n \in Leaves, NEW lo \in Nat, NEW k \in Nat,
         lo <= index, index < lo + n,
         Rebuilt(x, index, proof)[n][lo][k] = SubRoot(s, lo, n)
  PROVE  s[index + 1] = x
<1>r. PICK r : r = Rebuilt(x, index, proof)
  OBVIOUS
<1>u. \A m \in Leaves, l \in Nat, j \in Nat : RebuiltAt(r, x, index, proof, m, l, j)
  BY <1>r, RebuiltUnfolds
<1> DEFINE Sound(m, l) == \A j \in Nat : l <= index /\ index < l + m /\ r[m][l][j] = SubRoot(s, l, m)
                                           => s[index + 1] = x
           S == {m \in Leaves : \A l \in Nat : Sound(m, l)}
<1>1. ASSUME NEW m \in Leaves, \A a \in Leaves : a < m => a \in S PROVE m \in S
  <2> SUFFICES ASSUME NEW l \in Nat, NEW j \in Nat, l <= index, index < l + m,
                      r[m][l][j] = SubRoot(s, l, m)
               PROVE  s[index + 1] = x
    OBVIOUS
  <2>1. m \in Nat
    BY MaxLeavesNat DEF Leaves
  <2>2. r[m][l][j] # NoDigest
    BY RootIsDigest
  <2>3. CASE m = 1
    <3>1. r[m][l][j] = LeafHash(x)
      BY <2>2, <2>3, <1>u DEF RebuiltAt
    <3>2. SubRoot(s, l, m) = LeafHash(s[l + 1])
      BY <2>3, RootUnfolds, ZenonT(60)
    <3>3. l = index
      BY <2>3
    <3> QED
      BY <3>1, <3>2, <3>3, Digests
  <2>4. CASE m # 1
    <3> DEFINE cut == Split(m)
    <3>1. /\ cut \in Leaves /\ m - cut \in Leaves /\ cut < m /\ m - cut < m
          /\ cut \in Nat /\ cut >= 1 /\ l + cut \in Nat
      BY <2>1, <2>4, SplitFacts
    <3>2. SubRoot(s, l, m) = Node(SubRoot(s, l, cut), SubRoot(s, l + cut, m - cut))
      BY <2>4, RootUnfolds, ZenonT(60)
    <3>3. /\ j # 0 /\ j - 1 \in Nat
          /\ r[m][l][j] = IF index < l + cut THEN Joined(r[cut][l][j - 1], proof[j])
                          ELSE Joined(proof[j], r[m - cut][l + cut][j - 1])
      BY <2>2, <2>4, <1>u DEF RebuiltAt
    <3>4. Sound(cut, l) /\ Sound(m - cut, l + cut)
      BY <1>1, <3>1
    <3> HIDE DEF cut
    <3>5. CASE index < l + cut
      <4>1. r[cut][l][j - 1] = SubRoot(s, l, cut)
        BY <3>2, <3>3, <3>5, JoinedIs
      <4> QED
        BY <3>3, <3>4, <3>5, <4>1
    <3>6. CASE ~(index < l + cut)
      <4>1. r[m - cut][l + cut][j - 1] = SubRoot(s, l + cut, m - cut)
        BY <3>2, <3>3, <3>6, JoinedIs
      <4>2. l + cut <= index /\ index < (l + cut) + (m - cut)
        BY <2>1, <3>1, <3>6
      <4> QED
        BY <3>3, <3>4, <4>1, <4>2
    <3> QED
      BY <3>5, <3>6
  <2> QED
    BY <2>3, <2>4
<1> HIDE DEF S
<1>2. n \in S
  BY <1>1, TreeInduction
<1> QED
  BY <1>2, <1>r DEF S

TreePathOf(s, index, f, n) ==
  [lo \in Nat |->
    IF n = 1 THEN <<>>
    ELSE LET cut == Split(n)
         IN  IF index < lo + cut
             THEN Append(f[cut][lo], SubRoot(s, lo + cut, n - cut))
             ELSE Append(f[n - cut][lo + cut], SubRoot(s, lo, cut))]

TreePath(s, index) == CHOOSE trail : trail = [n \in Leaves |-> TreePathOf(s, index, trail, n)]

LEMMA PathExists ==
  ASSUME NEW s, NEW index
  PROVE  \E f : f = [n \in Leaves |-> TreePathOf(s, index, f, n)]
<1> DEFINE S == {N \in 0..MaxLeaves : \E f : f = [n \in 1..N |-> TreePathOf(s, index, f, n)]}
<1>1. 0 \in S
  <2>1. [n \in 1..0 |-> 0] = [n \in 1..0 |-> TreePathOf(s, index, [k \in 1..0 |-> 0], n)]
    OBVIOUS
  <2>2. 0 \in 0..MaxLeaves
    BY MaxLeavesNat
  <2> QED
    BY <2>1, <2>2, Zenon
<1>2. ASSUME NEW N \in 0..(MaxLeaves - 1), N \in S PROVE N + 1 \in S
  <2>1. PICK f : f = [n \in 1..N |-> TreePathOf(s, index, f, n)]
    BY <1>2
  <2> DEFINE g == [n \in 1..(N + 1) |-> TreePathOf(s, index, f, n)]
  <2>2. ASSUME NEW n \in 1..(N + 1) PROVE g[n] = TreePathOf(s, index, g, n)
    <3>1. n # 1 => g[Split(n)] = f[Split(n)] /\ g[n - Split(n)] = f[n - Split(n)]
      BY <2>1, <2>2, LeavesBelow, SMTT(60)
    <3>2. g[n] = TreePathOf(s, index, f, n)
      OBVIOUS
    <3> HIDE DEF g
    <3> QED
      BY <3>1, <3>2 DEF TreePathOf
  <2>3. g = [n \in 1..(N + 1) |-> TreePathOf(s, index, g, n)]
    <3>1. DOMAIN g = 1..(N + 1) /\ g = [n \in 1..(N + 1) |-> g[n]]
      OBVIOUS
    <3> HIDE DEF g
    <3> QED
      BY <2>2, <3>1
  <2>4. N + 1 \in 0..MaxLeaves
    BY MaxLeavesNat
  <2> HIDE DEF g
  <2> QED
    BY <2>3, <2>4, Zenon
<1>3. MaxLeaves \in S
  <2> HIDE DEF S
  <2> QED
    BY <1>1, <1>2, UpTo, MaxLeavesNat
<1> QED
  BY <1>3 DEF Leaves

LEMMA PathUnfolds ==
  ASSUME NEW s, NEW index, NEW n \in Leaves, NEW lo \in Nat
  PROVE  TreePath(s, index)[n][lo] =
           IF n = 1 THEN <<>>
           ELSE IF index < lo + Split(n)
                THEN Append(TreePath(s, index)[Split(n)][lo], SubRoot(s, lo + Split(n), n - Split(n)))
                ELSE Append(TreePath(s, index)[n - Split(n)][lo + Split(n)], SubRoot(s, lo, Split(n)))
<1> DEFINE p == TreePath(s, index)
<1>1. p = [n_1 \in Leaves |-> TreePathOf(s, index, p, n_1)]
  BY PathExists, Zenon DEF TreePath
<1> HIDE DEF p
<1>2. p[n] = TreePathOf(s, index, p, n)
  BY <1>1
<1> QED
  BY <1>2 DEF TreePathOf, p

LEMMA InclusionProofIs ==
  ASSUME NEW s, NEW index
  PROVE  InclusionProof(s, index) = TreePath(s, index)[Len(s)][0]
BY Zenon DEF InclusionProof, TreePath, TreePathOf

RootsIn(s) == {SubRoot(s, lo, n) : lo \in Nat, n \in Leaves}

LEMMA MoreOfPath ==
  ASSUME NEW s, NEW p \in Seq(RootsIn(s)), NEW lo \in Nat, NEW n \in Leaves
  PROVE  /\ Append(p, SubRoot(s, lo, n)) \in Seq(RootsIn(s))
         /\ Len(p) \in Nat /\ Len(Append(p, SubRoot(s, lo, n))) = Len(p) + 1
         /\ \A j \in 1..Len(p) : Append(p, SubRoot(s, lo, n))[j] = p[j]
         /\ Append(p, SubRoot(s, lo, n))[Len(p) + 1] = SubRoot(s, lo, n)
<1>1. SubRoot(s, lo, n) \in RootsIn(s)
  BY DEF RootsIn
<1> HIDE DEF RootsIn
<1> QED
  BY <1>1, AppendProperties, LenProperties

(* The proof that is made of a tree leads to its root.                      *)
LEMMA InclusionComplete ==
  ASSUME NEW s, NEW index \in Nat, NEW proof, NEW n \in Leaves, NEW lo \in Nat,
         lo <= index, index < lo + n,
         proof = TreePath(s, index)[n][lo]
  PROVE  /\ proof \in Seq(RootsIn(s))
         /\ \A k \in 1..17 : n <= Widths[k] => Len(proof) < k
         /\ Rebuilt(s[index + 1], index, proof)[n][lo][Len(proof)] = SubRoot(s, lo, n)
<1>r. PICK r : r = Rebuilt(s[index + 1], index, proof)
  OBVIOUS
<1>p. PICK p : p = TreePath(s, index)
  OBVIOUS
<1>x. PICK x : x = s[index + 1]
  OBVIOUS
<1>u. \A m \in Leaves, l \in Nat, j \in Nat : RebuiltAt(r, x, index, proof, m, l, j)
  BY <1>r, <1>x, RebuiltUnfolds
<1>v. ASSUME NEW m \in Leaves, NEW l \in Nat PROVE
        p[m][l] = IF m = 1 THEN <<>>
                  ELSE IF index < l + Split(m)
                       THEN Append(p[Split(m)][l], SubRoot(s, l + Split(m), m - Split(m)))
                       ELSE Append(p[m - Split(m)][l + Split(m)], SubRoot(s, l, Split(m)))
  <2>1. TreePath(s, index)[m][l] =
          IF m = 1 THEN <<>>
          ELSE IF index < l + Split(m)
               THEN Append(TreePath(s, index)[Split(m)][l], SubRoot(s, l + Split(m), m - Split(m)))
               ELSE Append(TreePath(s, index)[m - Split(m)][l + Split(m)], SubRoot(s, l, Split(m)))
    BY PathUnfolds, ZenonT(60)
  <2> QED
    BY <1>p, <2>1
<1> DEFINE Complete(m, l) ==
             l <= index /\ index < l + m =>
               /\ p[m][l] \in Seq(RootsIn(s))
               /\ \A k \in 1..17 : m <= Widths[k] => Len(p[m][l]) < k
               /\ (\A j \in 1..Len(p[m][l]) : proof[j] = p[m][l][j]) =>
                     r[m][l][Len(p[m][l])] = SubRoot(s, l, m)
           S == {m \in Leaves : \A l \in Nat : Complete(m, l)}
<1>1. ASSUME NEW m \in Leaves, \A a \in Leaves : a < m => a \in S PROVE m \in S
  <2> SUFFICES ASSUME NEW l \in Nat, l <= index, index < l + m
               PROVE  /\ p[m][l] \in Seq(RootsIn(s))
                      /\ \A k \in 1..17 : m <= Widths[k] => Len(p[m][l]) < k
                      /\ (\A j \in 1..Len(p[m][l]) : proof[j] = p[m][l][j]) =>
                            r[m][l][Len(p[m][l])] = SubRoot(s, l, m)
    OBVIOUS
  <2>1. m \in Nat
    BY MaxLeavesNat DEF Leaves
  <2>2. CASE m = 1
    <3>1. p[m][l] = <<>>
      BY <2>2, <1>v
    <3>2. Len(p[m][l]) = 0 /\ p[m][l] \in Seq(RootsIn(s))
      BY <3>1
    <3>3. r[m][l][0] = LeafHash(s[index + 1]) /\ l = index
      BY <2>2, <1>u, <1>x DEF RebuiltAt
    <3>4. SubRoot(s, l, m) = LeafHash(s[l + 1])
      BY <2>2, RootUnfolds
    <3> QED
      BY <3>2, <3>3, <3>4
  <2>3. CASE m # 1
    <3> DEFINE cut == Split(m)
    <3>1. /\ cut \in Leaves /\ m - cut \in Leaves /\ cut < m /\ m - cut < m
          /\ cut \in Nat /\ cut >= 1 /\ l + cut \in Nat
      BY <2>1, <2>3, SplitFacts
    <3>2. SubRoot(s, l, m) = Node(SubRoot(s, l, cut), SubRoot(s, l + cut, m - cut))
      BY <2>3, RootUnfolds
    <3>3. SubRoot(s, l, cut) # NoDigest /\ SubRoot(s, l + cut, m - cut) # NoDigest
      BY <3>1, RootIsDigest
    <3>4. \A j \in Nat : j # 0 =>
            r[m][l][j] = IF index < l + cut THEN Joined(r[cut][l][j - 1], proof[j])
                         ELSE Joined(proof[j], r[m - cut][l + cut][j - 1])
      BY <2>3, <1>u DEF RebuiltAt
    <3>5. p[m][l] = IF index < l + cut THEN Append(p[cut][l], SubRoot(s, l + cut, m - cut))
                    ELSE Append(p[m - cut][l + cut], SubRoot(s, l, cut))
      BY <2>3, <1>v
    <3>6. Complete(cut, l) /\ Complete(m - cut, l + cut)
      BY <1>1, <3>1
    <3> HIDE DEF cut
    <3>7. CASE index < l + cut
      <4>q. PICK q : q = p[cut][l]
        OBVIOUS
      <4>w. PICK whole : whole = p[m][l]
        OBVIOUS
      <4>1. q \in Seq(RootsIn(s)) /\ whole = Append(q, SubRoot(s, l + cut, m - cut))
        BY <4>q, <4>w, <3>5, <3>6, <3>7
      <4>2. /\ whole \in Seq(RootsIn(s)) /\ Len(q) \in Nat /\ Len(whole) = Len(q) + 1
            /\ \A j \in 1..Len(q) : whole[j] = q[j]
            /\ whole[Len(q) + 1] = SubRoot(s, l + cut, m - cut)
        <5>1. l + cut \in Nat /\ m - cut \in Leaves
          BY <3>1
        <5>2. /\ Append(q, SubRoot(s, l + cut, m - cut)) \in Seq(RootsIn(s)) /\ Len(q) \in Nat
              /\ Len(Append(q, SubRoot(s, l + cut, m - cut))) = Len(q) + 1
              /\ \A j \in 1..Len(q) : Append(q, SubRoot(s, l + cut, m - cut))[j] = q[j]
              /\ Append(q, SubRoot(s, l + cut, m - cut))[Len(q) + 1] = SubRoot(s, l + cut, m - cut)
          BY ONLY <4>1, <5>1, MoreOfPath
        <5> QED
          BY ONLY <4>1, <5>2
      <4>l. ASSUME NEW k \in 1..17, m <= Widths[k] PROVE Len(whole) < k
        <5>1. k - 1 \in 1..17 /\ cut <= Widths[k - 1] /\ m - cut <= Widths[k - 1]
          BY <4>l, <2>3, SplitHalves DEF cut
        <5>2. Len(q) < k - 1
          BY <3>6, <3>7, <4>q, <5>1
        <5>3. k \in Int /\ Len(q) \in Int /\ Len(whole) = Len(q) + 1
          BY <4>2
        <5> QED
          BY ONLY <5>2, <5>3
      <4> SUFFICES ASSUME \A j \in 1..Len(whole) : proof[j] = whole[j]
                   PROVE  r[m][l][Len(whole)] = SubRoot(s, l, m)
        BY <4>w, <4>2, <4>l
      <4>3. (\A j \in 1..Len(q) : proof[j] = q[j]) /\ proof[Len(q) + 1] = SubRoot(s, l + cut, m - cut)
        BY <4>2, SMTT(60)
      <4>4. r[cut][l][Len(q)] = SubRoot(s, l, cut)
        BY <4>q, <3>6, <3>7, <4>3
      <4>5. r[m][l][Len(q) + 1] = Joined(r[cut][l][Len(q)], proof[Len(q) + 1])
        <5>1. PICK j \in Nat : j = Len(q) + 1 /\ j # 0 /\ j - 1 = Len(q)
          BY <4>2
        <5> QED
          BY <3>4, <3>7, <5>1
      <4> QED
        BY <3>2, <3>3, <4>2, <4>3, <4>4, <4>5, JoinedIs
    <3>8. CASE ~(index < l + cut)
      <4>q. PICK q : q = p[m - cut][l + cut]
        OBVIOUS
      <4>w. PICK whole : whole = p[m][l]
        OBVIOUS
      <4>0. l + cut <= index /\ index < (l + cut) + (m - cut)
        BY <2>1, <3>1, <3>8, SMTT(60)
      <4>1. q \in Seq(RootsIn(s)) /\ whole = Append(q, SubRoot(s, l, cut))
        BY <4>q, <4>w, <3>5, <3>6, <3>8, <4>0
      <4>2. /\ whole \in Seq(RootsIn(s)) /\ Len(q) \in Nat /\ Len(whole) = Len(q) + 1
            /\ \A j \in 1..Len(q) : whole[j] = q[j]
            /\ whole[Len(q) + 1] = SubRoot(s, l, cut)
        <5>1. l \in Nat /\ cut \in Leaves
          BY <3>1
        <5>2. /\ Append(q, SubRoot(s, l, cut)) \in Seq(RootsIn(s)) /\ Len(q) \in Nat
              /\ Len(Append(q, SubRoot(s, l, cut))) = Len(q) + 1
              /\ \A j \in 1..Len(q) : Append(q, SubRoot(s, l, cut))[j] = q[j]
              /\ Append(q, SubRoot(s, l, cut))[Len(q) + 1] = SubRoot(s, l, cut)
          BY ONLY <4>1, <5>1, MoreOfPath
        <5> QED
          BY ONLY <4>1, <5>2
      <4>l. ASSUME NEW k \in 1..17, m <= Widths[k] PROVE Len(whole) < k
        <5>1. k - 1 \in 1..17 /\ cut <= Widths[k - 1] /\ m - cut <= Widths[k - 1]
          BY <4>l, <2>3, SplitHalves DEF cut
        <5>2. Len(q) < k - 1
          BY <3>6, <3>8, <4>0, <4>q, <5>1
        <5>3. k \in Int /\ Len(q) \in Int /\ Len(whole) = Len(q) + 1
          BY <4>2
        <5> QED
          BY ONLY <5>2, <5>3
      <4> SUFFICES ASSUME \A j \in 1..Len(whole) : proof[j] = whole[j]
                   PROVE  r[m][l][Len(whole)] = SubRoot(s, l, m)
        BY <4>w, <4>2, <4>l
      <4>3. (\A j \in 1..Len(q) : proof[j] = q[j]) /\ proof[Len(q) + 1] = SubRoot(s, l, cut)
        BY <4>2, SMTT(60)
      <4>4. r[m - cut][l + cut][Len(q)] = SubRoot(s, l + cut, m - cut)
        BY <4>q, <3>6, <4>0, <4>3
      <4>5. r[m][l][Len(q) + 1] = Joined(proof[Len(q) + 1], r[m - cut][l + cut][Len(q)])
        <5>1. PICK j \in Nat : j = Len(q) + 1 /\ j # 0 /\ j - 1 = Len(q)
          BY <4>2
        <5> QED
          BY <3>4, <3>8, <5>1
      <4> QED
        BY <3>2, <3>3, <4>2, <4>3, <4>4, <4>5, JoinedIs
    <3> QED
      BY <3>7, <3>8
  <2> QED
    BY <2>2, <2>3
<1>2. Complete(n, lo)
  <2> HIDE DEF S
  <2>1. n \in S
    BY <1>1, TreeInduction
  <2> QED
    BY <2>1 DEF S
<1>3. proof = p[n][lo]
  BY <1>p
<1> QED
  BY <1>2, <1>3, <1>r

------------------------------------------------------------------------------
(* Consistency proofs.                                                      *)

BothOf(old, oldRoot, proof, f, n) ==
  [lo \in Nat |-> [k \in Nat |->
    IF old = lo + n
    THEN LET same == IF lo = 0 /\ k = 0 THEN oldRoot
                     ELSE IF lo # 0 /\ k = 1 THEN proof[1] ELSE NoDigest
         IN  <<same, same>>
    ELSE IF k = 0 \/ n = 1 THEN <<NoDigest, NoDigest>>
    ELSE LET cut == Split(n)
         IN  IF old <= lo + cut
             THEN LET below == f[cut][lo][k - 1]
                  IN  <<below[1], Joined(below[2], proof[k])>>
             ELSE LET below == f[n - cut][lo + cut][k - 1]
                  IN  <<Joined(proof[k], below[1]), Joined(proof[k], below[2])>>]]

Both(old, oldRoot, proof) ==
  CHOOSE rebuilt : rebuilt = [n \in Leaves |-> BothOf(old, oldRoot, proof, rebuilt, n)]

LEMMA BothExists ==
  ASSUME NEW old, NEW oldRoot, NEW proof
  PROVE  \E f : f = [n \in Leaves |-> BothOf(old, oldRoot, proof, f, n)]
<1> DEFINE S == {N \in 0..MaxLeaves : \E f : f = [n \in 1..N |-> BothOf(old, oldRoot, proof, f, n)]}
<1>1. 0 \in S
  <2>1. [n \in 1..0 |-> 0] = [n \in 1..0 |-> BothOf(old, oldRoot, proof, [k \in 1..0 |-> 0], n)]
    OBVIOUS
  <2>2. 0 \in 0..MaxLeaves
    BY MaxLeavesNat
  <2> QED
    BY <2>1, <2>2, Zenon
<1>2. ASSUME NEW N \in 0..(MaxLeaves - 1), N \in S PROVE N + 1 \in S
  <2>1. PICK f : f = [n \in 1..N |-> BothOf(old, oldRoot, proof, f, n)]
    BY <1>2
  <2> DEFINE g == [n \in 1..(N + 1) |-> BothOf(old, oldRoot, proof, f, n)]
  <2>2. ASSUME NEW n \in 1..(N + 1) PROVE g[n] = BothOf(old, oldRoot, proof, g, n)
    <3>1. n # 1 => g[Split(n)] = f[Split(n)] /\ g[n - Split(n)] = f[n - Split(n)]
      BY <2>1, <2>2, LeavesBelow
    <3>2. g[n] = BothOf(old, oldRoot, proof, f, n)
      OBVIOUS
    <3> HIDE DEF g
    <3> QED
      BY <3>1, <3>2, ZenonT(60) DEF BothOf
  <2>3. g = [n \in 1..(N + 1) |-> BothOf(old, oldRoot, proof, g, n)]
    <3>1. DOMAIN g = 1..(N + 1) /\ g = [n \in 1..(N + 1) |-> g[n]]
      OBVIOUS
    <3> HIDE DEF g
    <3> QED
      BY <2>2, <3>1
  <2>4. N + 1 \in 0..MaxLeaves
    BY MaxLeavesNat
  <2> HIDE DEF g
  <2> QED
    BY <2>3, <2>4, Zenon
<1>3. MaxLeaves \in S
  <2> HIDE DEF S
  <2> QED
    BY <1>1, <1>2, UpTo, MaxLeavesNat
<1> QED
  BY <1>3 DEF Leaves

(* What a level of the two trees is rebuilt to.                             *)
BothAt(b, old, oldRoot, proof, n, lo, k) ==
  /\ b[n][lo][k] = <<b[n][lo][k][1], b[n][lo][k][2]>>
  /\ old = lo + n =>
       LET same == IF lo = 0 /\ k = 0 THEN oldRoot
                   ELSE IF lo # 0 /\ k = 1 THEN proof[1] ELSE NoDigest
       IN  b[n][lo][k][1] = same /\ b[n][lo][k][2] = same
  /\ old # lo + n /\ k = 0 => b[n][lo][k][1] = NoDigest /\ b[n][lo][k][2] = NoDigest
  /\ old # lo + n /\ k # 0 /\ old <= lo + Split(n) =>
       /\ b[n][lo][k][1] = b[Split(n)][lo][k - 1][1]
       /\ b[n][lo][k][2] = Joined(b[Split(n)][lo][k - 1][2], proof[k])
  /\ old # lo + n /\ k # 0 /\ ~(old <= lo + Split(n)) =>
       /\ b[n][lo][k][1] = Joined(proof[k], b[n - Split(n)][lo + Split(n)][k - 1][1])
       /\ b[n][lo][k][2] = Joined(proof[k], b[n - Split(n)][lo + Split(n)][k - 1][2])

LEMMA BothUnfolds ==
  ASSUME NEW old \in Nat, NEW oldRoot, NEW proof, NEW n \in Leaves, NEW lo \in Nat, NEW k \in Nat,
         lo < old, old <= lo + n
  PROVE  BothAt(Both(old, oldRoot, proof), old, oldRoot, proof, n, lo, k)
<1> DEFINE r == Both(old, oldRoot, proof)
<1>1. r = [m \in Leaves |-> BothOf(old, oldRoot, proof, r, m)]
  BY BothExists, ZenonT(60) DEF Both
<1> HIDE DEF r
<1>2. r[n][lo][k] = BothOf(old, oldRoot, proof, r, n)[lo][k]
  BY <1>1
<1>3. n = 1 => old = lo + n
  BY SMTT(60)
<1>4. BothAt(r, old, oldRoot, proof, n, lo, k)
  BY <1>2, <1>3, SMTT(60) DEF BothOf, BothAt
<1> QED
  BY <1>4 DEF r

LEMMA VerifyConsistencyIs ==
  ASSUME NEW old \in Nat, NEW new \in Nat, NEW oldRoot, NEW newRoot, NEW proof, old > 0, old < new
  PROVE  VerifyConsistency(old, new, oldRoot, newRoot, proof) <=>
           /\ Len(proof) <= MaxProofNodes
           /\ Both(old, oldRoot, proof)[new][0][Len(proof)] = <<oldRoot, newRoot>>
<1>1. Both(old, oldRoot, proof) = CHOOSE rebuilt : rebuilt = [n \in Leaves |->
        [lo \in Nat |-> [k \in Nat |->
          IF old = lo + n
          THEN LET same == IF lo = 0 /\ k = 0 THEN oldRoot
                           ELSE IF lo # 0 /\ k = 1 THEN proof[1] ELSE NoDigest
               IN  <<same, same>>
          ELSE IF k = 0 \/ n = 1 THEN <<NoDigest, NoDigest>>
          ELSE LET cut == Split(n)
               IN  IF old <= lo + cut
                   THEN LET below == rebuilt[cut][lo][k - 1]
                        IN  <<below[1], Joined(below[2], proof[k])>>
                   ELSE LET below == rebuilt[n - cut][lo + cut][k - 1]
                        IN  <<Joined(proof[k], below[1]), Joined(proof[k], below[2])>>]]]
  BY Zenon DEF Both, BothOf
<1>2. ~(old > new) /\ old # 0 /\ old # new
  OBVIOUS
<1> QED
  BY <1>1, <1>2, Zenon DEF VerifyConsistency

(* Whatever is given as a proof: who rebuilds both roots has one history.   *)
LEMMA ConsistencySound ==
  ASSUME NEW s, NEW t, NEW old \in Nat, NEW oldRoot, NEW proof,
         NEW n \in Leaves, NEW lo \in Nat, NEW k \in Nat, lo < old, old <= lo + n,
         Both(old, oldRoot, proof)[n][lo][k][1] = SubRoot(s, lo, old - lo),
         Both(old, oldRoot, proof)[n][lo][k][2] = SubRoot(t, lo, n)
  PROVE  \A i \in (lo + 1)..old : s[i] = t[i]
<1>b. PICK b : b = Both(old, oldRoot, proof)
  OBVIOUS
<1>u. \A m \in Leaves, l \in Nat, j \in Nat :
        l < old /\ old <= l + m => BothAt(b, old, oldRoot, proof, m, l, j)
  BY <1>b, BothUnfolds
<1> DEFINE Sound(m, l) ==
             l < old /\ old <= l + m =>
               \A j \in Nat : b[m][l][j][1] = SubRoot(s, l, old - l) /\ b[m][l][j][2] = SubRoot(t, l, m)
                                => \A i \in (l + 1)..old : s[i] = t[i]
           S == {m \in Leaves : \A l \in Nat : Sound(m, l)}
<1>1. ASSUME NEW m \in Leaves, \A a \in Leaves : a < m => a \in S PROVE m \in S
  <2> SUFFICES ASSUME NEW l \in Nat, l < old, old <= l + m, NEW j \in Nat,
                      b[m][l][j][1] = SubRoot(s, l, old - l), b[m][l][j][2] = SubRoot(t, l, m)
               PROVE  \A i \in (l + 1)..old : s[i] = t[i]
    OBVIOUS
  <2>1. m \in Nat /\ old - l \in Leaves
    BY MaxLeavesNat DEF Leaves
  <2>2a. l < old /\ old <= l + m
    OBVIOUS
  <2>2. b[m][l][j][2] # NoDigest
    BY RootIsDigest
  <2>3. CASE old = l + m
    <3>1. b[m][l][j][1] = b[m][l][j][2]
      BY <2>3, <1>u, <2>2a, SMTT(60) DEF BothAt
    <3>2. SubRoot(s, l, m) = SubRoot(t, l, m)
      BY <2>1, <2>3, <3>1
    <3> QED
      BY <2>3, <3>2, SameRoot, SMTT(60)
  <2>4. CASE old # l + m
    <3> DEFINE cut == Split(m)
    <3>0. m # 1
      BY <2>1, <2>4
    <3>1. /\ cut \in Leaves /\ m - cut \in Leaves /\ cut < m /\ m - cut < m
          /\ cut \in Nat /\ cut >= 1 /\ l + cut \in Nat
      BY <2>1, <3>0, SplitFacts
    <3>2. SubRoot(t, l, m) = Node(SubRoot(t, l, cut), SubRoot(t, l + cut, m - cut))
      BY <3>0, RootUnfolds, ZenonT(60)
    <3>3. j # 0
      BY <2>2, <2>4, <1>u, <2>2a DEF BothAt
    <3>4. Sound(cut, l) /\ Sound(m - cut, l + cut)
      BY <1>1, <3>1
    <3>5. CASE old <= l + cut
      <4>1. b[m][l][j][1] = b[cut][l][j - 1][1] /\ b[m][l][j][2] = Joined(b[cut][l][j - 1][2], proof[j])
        BY <2>4, <3>3, <3>5, <1>u, <2>2a DEF BothAt
      <4> HIDE DEF cut
      <4>2. b[cut][l][j - 1][2] = SubRoot(t, l, cut)
        BY <3>2, <4>1, JoinedIs
      <4> QED
        BY <3>3, <3>4, <3>5, <4>1, <4>2, SMTT(60)
    <3>6. CASE ~(old <= l + cut)
      <4>1. /\ b[m][l][j][1] = Joined(proof[j], b[m - cut][l + cut][j - 1][1])
            /\ b[m][l][j][2] = Joined(proof[j], b[m - cut][l + cut][j - 1][2])
        BY <2>4, <3>3, <3>6, <1>u, <2>2a DEF BothAt
      <4>2. /\ cut < old - l /\ old - l <= m /\ old - l \in Nat
            /\ l + cut < old /\ old <= (l + cut) + (m - cut)
            /\ old - l - cut = old - (l + cut)
        BY <2>1, <3>1, <3>6
      <4>3. old - l # 1 /\ Split(old - l) = cut
        BY <2>1, <3>0, <4>2, SplitSame
      <4>4. SubRoot(s, l, old - l) = Node(SubRoot(s, l, cut), SubRoot(s, l + cut, old - (l + cut)))
        <5>1. PICK k_1 \in Leaves : k_1 = old - l
          BY <2>1
        <5>2. SubRoot(s, l, k_1) = Node(SubRoot(s, l, Split(k_1)), SubRoot(s, l + Split(k_1), k_1 - Split(k_1)))
          BY <5>1, <4>3, RootUnfolds, ZenonT(60)
        <5> HIDE DEF cut
        <5> QED
          BY <5>1, <5>2, <4>2, <4>3
      <4> HIDE DEF cut
      <4>5. /\ proof[j] = SubRoot(s, l, cut) /\ b[m - cut][l + cut][j - 1][1] = SubRoot(s, l + cut, old - (l + cut))
            /\ proof[j] = SubRoot(t, l, cut) /\ b[m - cut][l + cut][j - 1][2] = SubRoot(t, l + cut, m - cut)
        BY <3>2, <4>1, <4>4, JoinedIs
      <4>6. \A i \in (l + 1)..(l + cut) : s[i] = t[i]
        <5>1. SubRoot(s, l, cut) = SubRoot(t, l, cut)
          BY <4>5
        <5> QED
          BY <3>1, <5>1, SameRoot
      <4>7. \A i \in (l + cut + 1)..old : s[i] = t[i]
        BY <3>1, <3>3, <3>4, <4>2, <4>5
      <4> QED
        BY <3>1, <4>6, <4>7, SMTT(60)
    <3> QED
      BY <3>5, <3>6
  <2> QED
    BY <2>3, <2>4
<1> HIDE DEF S
<1>2. n \in S
  BY <1>1, TreeInduction
<1> QED
  BY <1>2, <1>b DEF S

TreeStepsOf(s, old, f, n) ==
  [lo \in Nat |->
    IF old = lo + n \/ n = 1 THEN IF lo = 0 THEN <<>> ELSE <<SubRoot(s, lo, n)>>
    ELSE LET cut == Split(n)
         IN  IF old <= lo + cut
             THEN Append(f[cut][lo], SubRoot(s, lo + cut, n - cut))
             ELSE Append(f[n - cut][lo + cut], SubRoot(s, lo, cut))]

TreeSteps(s, old) == CHOOSE trail : trail = [n \in Leaves |-> TreeStepsOf(s, old, trail, n)]

LEMMA StepsExist ==
  ASSUME NEW s, NEW old
  PROVE  \E f : f = [n \in Leaves |-> TreeStepsOf(s, old, f, n)]
<1> DEFINE S == {N \in 0..MaxLeaves : \E f : f = [n \in 1..N |-> TreeStepsOf(s, old, f, n)]}
<1>1. 0 \in S
  <2>1. [n \in 1..0 |-> 0] = [n \in 1..0 |-> TreeStepsOf(s, old, [k \in 1..0 |-> 0], n)]
    OBVIOUS
  <2>2. 0 \in 0..MaxLeaves
    BY MaxLeavesNat
  <2> QED
    BY <2>1, <2>2, Zenon
<1>2. ASSUME NEW N \in 0..(MaxLeaves - 1), N \in S PROVE N + 1 \in S
  <2>1. PICK f : f = [n \in 1..N |-> TreeStepsOf(s, old, f, n)]
    BY <1>2
  <2> DEFINE g == [n \in 1..(N + 1) |-> TreeStepsOf(s, old, f, n)]
  <2>2. ASSUME NEW n \in 1..(N + 1) PROVE g[n] = TreeStepsOf(s, old, g, n)
    <3>1. n # 1 => g[Split(n)] = f[Split(n)] /\ g[n - Split(n)] = f[n - Split(n)]
      BY <2>1, <2>2, LeavesBelow
    <3>2. g[n] = TreeStepsOf(s, old, f, n)
      OBVIOUS
    <3> HIDE DEF g
    <3> QED
      BY <3>1, <3>2 DEF TreeStepsOf
  <2>3. g = [n \in 1..(N + 1) |-> TreeStepsOf(s, old, g, n)]
    <3>1. DOMAIN g = 1..(N + 1) /\ g = [n \in 1..(N + 1) |-> g[n]]
      OBVIOUS
    <3> HIDE DEF g
    <3> QED
      BY <2>2, <3>1
  <2>4. N + 1 \in 0..MaxLeaves
    BY MaxLeavesNat
  <2> HIDE DEF g
  <2> QED
    BY <2>3, <2>4, Zenon
<1>3. MaxLeaves \in S
  <2> HIDE DEF S
  <2> QED
    BY <1>1, <1>2, UpTo, MaxLeavesNat
<1> QED
  BY <1>3 DEF Leaves

LEMMA StepsUnfold ==
  ASSUME NEW s, NEW old \in Nat, NEW n \in Leaves, NEW lo \in Nat, lo < old, old <= lo + n
  PROVE  TreeSteps(s, old)[n][lo] =
           IF old = lo + n THEN IF lo = 0 THEN <<>> ELSE <<SubRoot(s, lo, n)>>
           ELSE IF old <= lo + Split(n)
                THEN Append(TreeSteps(s, old)[Split(n)][lo], SubRoot(s, lo + Split(n), n - Split(n)))
                ELSE Append(TreeSteps(s, old)[n - Split(n)][lo + Split(n)], SubRoot(s, lo, Split(n)))
<1> DEFINE p == TreeSteps(s, old)
<1>1. p = [n_1 \in Leaves |-> TreeStepsOf(s, old, p, n_1)]
  BY StepsExist, Zenon DEF TreeSteps
<1> HIDE DEF p
<1>2. p[n] = TreeStepsOf(s, old, p, n)
  BY <1>1
<1>3. n = 1 => old = lo + n
  OBVIOUS
<1> QED
  BY <1>2, <1>3 DEF TreeStepsOf, p

LEMMA ConsistencyProofIs ==
  ASSUME NEW s, NEW old, old # 0, old # Len(s)
  PROVE  ConsistencyProof(s, old) = TreeSteps(s, old)[Len(s)][0]
<1>1. old \notin {0, Len(s)}
  OBVIOUS
<1>2. TreeSteps(s, old) = CHOOSE trail : trail = [n \in Leaves |->
        [lo \in Nat |->
          IF old = lo + n \/ n = 1 THEN IF lo = 0 THEN <<>> ELSE <<SubRoot(s, lo, n)>>
          ELSE LET cut == Split(n)
               IN  IF old <= lo + cut
                   THEN Append(trail[cut][lo], SubRoot(s, lo + cut, n - cut))
                   ELSE Append(trail[n - cut][lo + cut], SubRoot(s, lo, cut))]]
  BY Zenon DEF TreeSteps, TreeStepsOf
<1> QED
  BY <1>1, <1>2, Zenon DEF ConsistencyProof

(* The proof that is made of a tree leads to the roots of both.             *)
LEMMA ConsistencyComplete ==
  ASSUME NEW s, NEW t, NEW old \in Nat, NEW proof, NEW n \in Leaves, NEW lo \in Nat,
         \A i \in 1..old : s[i] = t[i], lo < old, old <= lo + n,
         proof = TreeSteps(t, old)[n][lo]
  PROVE  /\ proof \in Seq(RootsIn(t))
         /\ \A k \in 1..17 : n <= Widths[k] => Len(proof) <= k
         /\ Both(old, SubRoot(s, 0, old), proof)[n][lo][Len(proof)][1] = SubRoot(s, lo, old - lo)
         /\ Both(old, SubRoot(s, 0, old), proof)[n][lo][Len(proof)][2] = SubRoot(t, lo, n)
<1>r. PICK oldRoot : oldRoot = SubRoot(s, 0, old)
  OBVIOUS
<1>b. PICK b : b = Both(old, oldRoot, proof)
  OBVIOUS
<1>p. PICK p : p = TreeSteps(t, old)
  OBVIOUS
<1>u. \A m \in Leaves, l \in Nat, j \in Nat :
        l < old /\ old <= l + m => BothAt(b, old, oldRoot, proof, m, l, j)
  BY <1>b, BothUnfolds
<1>v. ASSUME NEW m \in Leaves, NEW l \in Nat, l < old, old <= l + m
      PROVE  p[m][l] =
               IF old = l + m THEN IF l = 0 THEN <<>> ELSE <<SubRoot(t, l, m)>>
               ELSE IF old <= l + Split(m)
                    THEN Append(p[Split(m)][l], SubRoot(t, l + Split(m), m - Split(m)))
                    ELSE Append(p[m - Split(m)][l + Split(m)], SubRoot(t, l, Split(m)))
  BY <1>p, <1>v, StepsUnfold
<1> DEFINE Complete(m, l) ==
             l < old /\ old <= l + m =>
               /\ p[m][l] \in Seq(RootsIn(t))
               /\ \A k \in 1..17 : m <= Widths[k] => Len(p[m][l]) <= k
               /\ (\A j \in 1..Len(p[m][l]) : proof[j] = p[m][l][j]) =>
                     /\ b[m][l][Len(p[m][l])][1] = SubRoot(s, l, old - l)
                     /\ b[m][l][Len(p[m][l])][2] = SubRoot(t, l, m)
           S == {m \in Leaves : \A l \in Nat : Complete(m, l)}
<1>1. ASSUME NEW m \in Leaves, \A a \in Leaves : a < m => a \in S PROVE m \in S
  <2> SUFFICES ASSUME NEW l \in Nat, l < old, old <= l + m
               PROVE  /\ p[m][l] \in Seq(RootsIn(t))
                      /\ \A k \in 1..17 : m <= Widths[k] => Len(p[m][l]) <= k
                      /\ (\A j \in 1..Len(p[m][l]) : proof[j] = p[m][l][j]) =>
                            /\ b[m][l][Len(p[m][l])][1] = SubRoot(s, l, old - l)
                            /\ b[m][l][Len(p[m][l])][2] = SubRoot(t, l, m)
    OBVIOUS
  <2>1a. l < old /\ old <= l + m
    OBVIOUS
  <2>1. m \in Nat /\ old - l \in Leaves
    BY MaxLeavesNat DEF Leaves
  <2>2. \A k \in Leaves : l + k <= old => SubRoot(s, l, k) = SubRoot(t, l, k)
    <3>1. ASSUME NEW k \in Leaves, l + k <= old PROVE SubRoot(s, l, k) = SubRoot(t, l, k)
      <4>1. \A i \in (l + 1)..(l + k) : s[i] = t[i]
        BY <3>1, MaxLeavesNat DEF Leaves
      <4> QED
        BY <4>1, SameRoot
    <3> QED
      BY <3>1
  <2>3. CASE old = l + m
    <3>1. SubRoot(s, l, old - l) = SubRoot(t, l, m) /\ old - l = m
      BY <2>1, <2>2, <2>3
    <3>2. CASE l = 0
      <4>1. p[m][l] = <<>>
        BY <2>3, <3>2, <1>v, <2>1a
      <4>2. Len(p[m][l]) = 0 /\ p[m][l] \in Seq(RootsIn(t))
        BY <4>1
      <4>3. b[m][l][0][1] = SubRoot(s, 0, old) /\ b[m][l][0][2] = SubRoot(s, 0, old)
        BY <2>3, <3>2, <1>u, <2>1a, <1>r DEF BothAt
      <4> QED
        BY <2>3, <3>1, <3>2, <4>2, <4>3
    <3>3. CASE l # 0
      <4>1. p[m][l] = <<SubRoot(t, l, m)>>
        BY <2>3, <3>3, <1>v, <2>1a
      <4>2. Len(p[m][l]) = 1 /\ p[m][l] \in Seq(RootsIn(t)) /\ p[m][l][1] = SubRoot(t, l, m)
        <5>1. SubRoot(t, l, m) \in RootsIn(t)
          BY DEF RootsIn
        <5> QED
          BY <4>1, <5>1
      <4>3. b[m][l][1][1] = proof[1] /\ b[m][l][1][2] = proof[1]
        BY <2>3, <3>3, <1>u, <2>1a, SMTT(60) DEF BothAt
      <4> QED
        BY <3>1, <4>2, <4>3
    <3> QED
      BY <3>2, <3>3
  <2>4. CASE old # l + m
    <3> DEFINE cut == Split(m)
    <3>0. m # 1
      BY <2>1, <2>4
    <3>1. /\ cut \in Leaves /\ m - cut \in Leaves /\ cut < m /\ m - cut < m
          /\ cut \in Nat /\ cut >= 1 /\ l + cut \in Nat
      BY <2>1, <3>0, SplitFacts
    <3>2. SubRoot(t, l, m) = Node(SubRoot(t, l, cut), SubRoot(t, l + cut, m - cut))
      BY <3>0, RootUnfolds
    <3>3. SubRoot(t, l, cut) # NoDigest /\ SubRoot(t, l + cut, m - cut) # NoDigest
      BY <3>1, RootIsDigest, SMTT(60)
    <3>4. Complete(cut, l) /\ Complete(m - cut, l + cut)
      BY <1>1, <3>1
    <3>5. CASE old <= l + cut
      <4>q. PICK q : q = p[cut][l]
        OBVIOUS
      <4>w. PICK whole : whole = p[m][l]
        BY SMTT(60)
      <4>1. q \in Seq(RootsIn(t)) /\ whole = Append(q, SubRoot(t, l + cut, m - cut))
        BY <4>q, <4>w, <2>4, <3>4, <3>5, <1>v, <2>1a
      <4>2. /\ whole \in Seq(RootsIn(t)) /\ Len(q) \in Nat /\ Len(whole) = Len(q) + 1
            /\ \A j \in 1..Len(q) : whole[j] = q[j]
            /\ whole[Len(q) + 1] = SubRoot(t, l + cut, m - cut)
        BY <3>1, <4>1, MoreOfPath
      <4>l. ASSUME NEW k \in 1..17, m <= Widths[k] PROVE Len(whole) <= k
        <5>1. k - 1 \in 1..17 /\ cut <= Widths[k - 1] /\ m - cut <= Widths[k - 1]
          BY <4>l, <3>0, SplitHalves, SMTT(60) DEF cut
        <5>2. Len(q) <= k - 1
          BY <3>4, <3>5, <4>q, <5>1
        <5>3. k \in Int /\ Len(q) \in Int /\ Len(whole) = Len(q) + 1
          BY <4>2
        <5> QED
          BY ONLY <5>2, <5>3
      <4> SUFFICES ASSUME \A j \in 1..Len(whole) : proof[j] = whole[j]
                   PROVE  /\ b[m][l][Len(whole)][1] = SubRoot(s, l, old - l)
                          /\ b[m][l][Len(whole)][2] = SubRoot(t, l, m)
        BY <4>w, <4>2, <4>l
      <4>3. (\A j \in 1..Len(q) : proof[j] = q[j]) /\ proof[Len(q) + 1] = SubRoot(t, l + cut, m - cut)
        BY <4>2, SMTT(60)
      <4>4. b[cut][l][Len(q)][1] = SubRoot(s, l, old - l) /\ b[cut][l][Len(q)][2] = SubRoot(t, l, cut)
        BY <4>q, <3>4, <3>5, <4>3
      <4>5. PICK j \in Nat : j = Len(q) + 1 /\ j # 0 /\ j - 1 = Len(q)
        BY <4>2
      <4>6. b[m][l][j][1] = b[cut][l][j - 1][1] /\ b[m][l][j][2] = Joined(b[cut][l][j - 1][2], proof[j])
        BY <2>4, <3>5, <4>5, <1>u, <2>1a, SMTT(60) DEF BothAt
      <4> HIDE DEF cut
      <4> QED
        BY <3>2, <3>3, <4>2, <4>3, <4>4, <4>5, <4>6, JoinedIs
    <3>6. CASE ~(old <= l + cut)
      <4>q. PICK q : q = p[m - cut][l + cut]
        OBVIOUS
      <4>w. PICK whole : whole = p[m][l]
        OBVIOUS
      <4>0. /\ cut < old - l /\ old - l <= m /\ old - l \in Nat
            /\ l + cut < old /\ old <= (l + cut) + (m - cut) /\ l + cut <= old
            /\ old - l - cut = old - (l + cut)
        BY <2>1, <3>1, <3>6, SMTT(60)
      <4>1. q \in Seq(RootsIn(t)) /\ whole = Append(q, SubRoot(t, l, cut))
        BY <4>q, <4>w, <2>4, <3>4, <3>6, <4>0, <1>v, <2>1a
      <4>2. /\ whole \in Seq(RootsIn(t)) /\ Len(q) \in Nat /\ Len(whole) = Len(q) + 1
            /\ \A j \in 1..Len(q) : whole[j] = q[j]
            /\ whole[Len(q) + 1] = SubRoot(t, l, cut)
        BY <3>1, <4>1, MoreOfPath, SMTT(60)
      <4>l. ASSUME NEW k \in 1..17, m <= Widths[k] PROVE Len(whole) <= k
        <5>1. k - 1 \in 1..17 /\ cut <= Widths[k - 1] /\ m - cut <= Widths[k - 1]
          BY <4>l, <3>0, SplitHalves DEF cut
        <5>2. Len(q) <= k - 1
          BY <3>4, <3>6, <4>0, <4>q, <5>1
        <5>3. k \in Int /\ Len(q) \in Int /\ Len(whole) = Len(q) + 1
          BY <4>2
        <5> QED
          BY ONLY <5>2, <5>3
      <4> SUFFICES ASSUME \A j \in 1..Len(whole) : proof[j] = whole[j]
                   PROVE  /\ b[m][l][Len(whole)][1] = SubRoot(s, l, old - l)
                          /\ b[m][l][Len(whole)][2] = SubRoot(t, l, m)
        BY <4>w, <4>2, <4>l
      <4>3. (\A j \in 1..Len(q) : proof[j] = q[j]) /\ proof[Len(q) + 1] = SubRoot(t, l, cut)
        BY <4>2, SMTT(60)
      <4>4. /\ b[m - cut][l + cut][Len(q)][1] = SubRoot(s, l + cut, old - (l + cut))
            /\ b[m - cut][l + cut][Len(q)][2] = SubRoot(t, l + cut, m - cut)
        BY <4>q, <3>4, <4>0, <4>3
      <4>5. PICK j \in Nat : j = Len(q) + 1 /\ j # 0 /\ j - 1 = Len(q)
        BY <4>2
      <4>6. /\ b[m][l][j][1] = Joined(proof[j], b[m - cut][l + cut][j - 1][1])
            /\ b[m][l][j][2] = Joined(proof[j], b[m - cut][l + cut][j - 1][2])
        BY <2>4, <3>6, <4>5, <1>u, <2>1a DEF BothAt
      <4>7. old - l # 1 /\ Split(old - l) = cut
        BY <2>1, <3>0, <4>0, SplitSame
      <4>8. SubRoot(s, l, old - l) = Node(SubRoot(s, l, cut), SubRoot(s, l + cut, old - (l + cut)))
        <5>1. PICK k_1 \in Leaves : k_1 = old - l
          BY <2>1
        <5>2. SubRoot(s, l, k_1) = Node(SubRoot(s, l, Split(k_1)), SubRoot(s, l + Split(k_1), k_1 - Split(k_1)))
          BY <5>1, <4>7, RootUnfolds
        <5> HIDE DEF cut
        <5> QED
          BY <5>1, <5>2, <4>0, <4>7
      <4>9. SubRoot(s, l, cut) = SubRoot(t, l, cut)
        BY <2>2, <3>1, <4>0
      <4>10. SubRoot(s, l + cut, old - (l + cut)) # NoDigest
        <5>1. old - (l + cut) \in Leaves
          BY <2>1, <3>1, <4>0, MaxLeavesNat, SMTT(60) DEF Leaves
        <5> QED
          BY <3>1, <5>1, RootIsDigest
      <4> HIDE DEF cut
      <4> QED
        BY <3>2, <3>3, <4>2, <4>3, <4>4, <4>5, <4>6, <4>8, <4>9, <4>10, JoinedIs
    <3> QED
      BY <3>5, <3>6
  <2> QED
    BY <2>3, <2>4
<1>2. Complete(n, lo)
  <2> HIDE DEF S
  <2>1. n \in S
    BY <1>1, TreeInduction
  <2> QED
    BY <2>1 DEF S
<1>3. proof = p[n][lo]
  BY <1>p
<1> QED
  BY <1>2, <1>3, <1>b, <1>r

------------------------------------------------------------------------------
(* Proofs between two histories.                                            *)

LEMMA PrefixOfPrefix ==
  ASSUME NEW Element, NEW s \in Seq(Element), NEW t \in Seq(Element), NEW u \in Seq(Element),
         IsPrefixOf(s, t), IsPrefixOf(t, u)
  PROVE  IsPrefixOf(s, u)
<1>1. /\ Len(s) \in Nat /\ Len(t) \in Nat /\ Len(u) \in Nat
      /\ Len(s) <= Len(t) /\ Len(t) <= Len(u) /\ Len(s) <= Len(u)
  BY LenProperties DEF IsPrefixOf
<1>2. \A i \in 1..Len(s) : t[i] = s[i]
  BY <1>1, PrefixIs
<1>3. \A i \in 1..Len(t) : u[i] = t[i]
  BY <1>1, PrefixIs
<1>4. \A i \in 1..Len(s) : u[i] = s[i]
  BY <1>1, <1>2, <1>3
<1> QED
  BY <1>1, <1>4, PrefixIs

(* The proofs are sequences of roots.                                       *)
LEMMA ProofsAreSequences ==
  ASSUME NEW Element, NEW t \in Seq(Element), Len(t) <= MaxLeaves, NEW i \in Nat, i < Len(t)
  PROVE  /\ Len(InclusionProof(t, i)) \in Nat
         /\ i # 0 => Len(ConsistencyProof(t, i)) \in Nat
<1>1. Len(t) \in Leaves /\ Len(t) \in Nat /\ 0 \in Nat
  BY LenProperties, MaxLeavesNat DEF Leaves
<1>2. TreePath(t, i)[Len(t)][0] \in Seq(RootsIn(t))
  <2>1. PICK proof : proof = TreePath(t, i)[Len(t)][0]
    OBVIOUS
  <2>2. 0 <= i /\ i < 0 + Len(t)
    BY <1>1
  <2> QED
    BY <1>1, <2>1, <2>2, InclusionComplete
<1>3. ASSUME i # 0 PROVE TreeSteps(t, i)[Len(t)][0] \in Seq(RootsIn(t))
  <2>1. PICK proof : proof = TreeSteps(t, i)[Len(t)][0]
    OBVIOUS
  <2>2. 0 < i /\ i <= 0 + Len(t) /\ \A j \in 1..i : t[j] = t[j]
    BY <1>1, <1>3
  <2> QED
    BY <1>1, <2>1, <2>2, ConsistencyComplete
<1> QED
  BY <1>1, <1>2, <1>3, InclusionProofIs, ConsistencyProofIs, LenProperties

LEMMA VerifyConsistencyElse ==
  ASSUME NEW old \in Nat, NEW new \in Nat, NEW oldRoot, NEW newRoot, NEW proof
  PROVE  /\ old > new => ~VerifyConsistency(old, new, oldRoot, newRoot, proof)
         /\ old = 0 => (VerifyConsistency(old, new, oldRoot, newRoot, proof) <=>
                          proof = <<>> /\ oldRoot = EmptyRoot /\ (new = 0 => newRoot = EmptyRoot))
         /\ old # 0 /\ old = new => (VerifyConsistency(old, new, oldRoot, newRoot, proof) <=>
                                       proof = <<>> /\ oldRoot = newRoot)
<1>1. ASSUME old > new PROVE ~VerifyConsistency(old, new, oldRoot, newRoot, proof)
  <2>1. old # 0 /\ old # new
    BY <1>1
  <2> QED
    BY <1>1, <2>1, Zenon DEF VerifyConsistency
<1>2. ASSUME old = 0
      PROVE  VerifyConsistency(old, new, oldRoot, newRoot, proof) <=>
               proof = <<>> /\ oldRoot = EmptyRoot /\ (new = 0 => newRoot = EmptyRoot)
  <2>1. ~(old > new) /\ ~(old > 0)
    BY <1>2
  <2> QED
    BY <1>2, <2>1, Zenon DEF VerifyConsistency
<1>3. ASSUME old # 0, old = new
      PROVE  VerifyConsistency(old, new, oldRoot, newRoot, proof) <=> proof = <<>> /\ oldRoot = newRoot
  <2>1. ~(old > new) /\ old > 0
    BY <1>3
  <2> QED
    BY <1>3, <2>1, Zenon DEF VerifyConsistency
<1> QED
  BY <1>1, <1>2, <1>3

(* Whoever verifies a proof has a history that goes on from the older one.  *)
LEMMA VerifiedIsPrefix ==
  ASSUME NEW Element, NEW s \in Seq(Element), NEW t \in Seq(Element), Len(t) <= MaxLeaves,
         NEW proof, Len(proof) \in Nat,
         VerifyConsistency(Len(s), Len(t), Root(s), Root(t), proof)
  PROVE  IsPrefixOf(s, t)
<1>1. Len(s) \in Nat /\ Len(t) \in Nat /\ 0 \in Nat
  BY LenProperties
<1>2. Len(s) <= Len(t)
  BY <1>1, VerifyConsistencyElse
<1>3. CASE Len(s) = 0
  <2>1. \A i \in 1..Len(s) : t[i] = s[i]
    BY <1>3
  <2> QED
    BY <1>2, <2>1, PrefixIs
<1>4. CASE Len(s) # 0 /\ Len(s) = Len(t)
  <2>1. Root(s) = Root(t)
    BY <1>1, <1>4, VerifyConsistencyElse
  <2>2. SubRoot(t, 0, Len(s)) = Root(s)
    BY <1>4, <2>1 DEF Root
  <2> QED
    BY <1>2, <2>2, RootTellsPrefix
<1>5. CASE Len(s) # 0 /\ Len(s) # Len(t)
  <2>1. Len(t) \in Leaves /\ Len(s) > 0 /\ Len(s) < Len(t) /\ Len(s) - 0 = Len(s) /\ 0 + Len(t) = Len(t)
    BY <1>1, <1>2, <1>5, MaxLeavesNat DEF Leaves
  <2>2. PICK b : b = Both(Len(s), Root(s), proof)
    OBVIOUS
  <2>3. b[Len(t)][0][Len(proof)] = <<Root(s), Root(t)>>
    BY <1>1, <2>1, <2>2, VerifyConsistencyIs
  <2>4. /\ b[Len(t)][0][Len(proof)][1] = SubRoot(s, 0, Len(s) - 0)
        /\ b[Len(t)][0][Len(proof)][2] = SubRoot(t, 0, Len(t))
    BY <2>1, <2>3 DEF Root
  <2>5. \A i \in (0 + 1)..Len(s) : s[i] = t[i]
    <3>1. PICK k \in Nat, old \in Nat, n \in Leaves, lo \in Nat :
            k = Len(proof) /\ old = Len(s) /\ n = Len(t) /\ lo = 0
      BY <1>1, <2>1
    <3>2. /\ Both(old, Root(s), proof)[n][lo][k][1] = SubRoot(s, lo, old - lo)
          /\ Both(old, Root(s), proof)[n][lo][k][2] = SubRoot(t, lo, n)
      BY <2>2, <2>4, <3>1
    <3>3. lo < old /\ old <= lo + n
      BY <2>1, <3>1
    <3>4. \A i \in (lo + 1)..old : s[i] = t[i]
      BY <3>2, <3>3, ConsistencySound
    <3> QED
      BY <3>1, <3>4, SMTT(60)
  <2> QED
    BY <1>1, <1>2, <2>5, PrefixIs
<1> QED
  BY <1>3, <1>4, <1>5

(* The proof that is made for an older history that is a prefix verifies.   *)
LEMMA PrefixIsVerified ==
  ASSUME NEW Element, NEW s \in Seq(Element), NEW t \in Seq(Element), Len(t) <= MaxLeaves,
         IsPrefixOf(s, t)
  PROVE  VerifyConsistency(Len(s), Len(t), Root(s), Root(t), ConsistencyProof(t, Len(s)))
<1>1. Len(s) \in Nat /\ Len(t) \in Nat /\ 0 \in Nat /\ Len(s) <= Len(t)
  BY LenProperties DEF IsPrefixOf
<1>2. CASE Len(s) = 0
  <2>1. ConsistencyProof(t, Len(s)) = <<>>
    BY <1>2 DEF ConsistencyProof
  <2>2. Root(s) = EmptyRoot /\ (Len(t) = 0 => Root(t) = EmptyRoot)
    BY <1>2 DEF Root, SubRoot
  <2> QED
    BY <1>1, <1>2, <2>1, <2>2, VerifyConsistencyElse
<1>3. CASE Len(s) # 0 /\ Len(s) = Len(t)
  <2>1. ConsistencyProof(t, Len(s)) = <<>>
    BY <1>3 DEF ConsistencyProof
  <2>2. Root(s) = Root(t)
    BY <1>1, <1>3, RootTellsPrefix DEF Root
  <2> QED
    BY <1>1, <1>3, <2>1, <2>2, VerifyConsistencyElse
<1>4. CASE Len(s) # 0 /\ Len(s) # Len(t)
  <2>1. Len(t) \in Leaves /\ Len(s) > 0 /\ Len(s) < Len(t) /\ Len(s) - 0 = Len(s) /\ Len(s) <= 0 + Len(t)
    BY <1>1, <1>4, MaxLeavesNat DEF Leaves
  <2>2. \A i \in 1..Len(s) : s[i] = t[i]
    BY <1>1, PrefixIs
  <2>3. PICK proof : proof = TreeSteps(t, Len(s))[Len(t)][0]
    OBVIOUS
  <2>4. PICK b : b = Both(Len(s), SubRoot(s, 0, Len(s)), proof)
    OBVIOUS
  <2>5. /\ proof \in Seq(RootsIn(t))
        /\ \A k \in 1..17 : Len(t) <= Widths[k] => Len(proof) <= k
        /\ b[Len(t)][0][Len(proof)][1] = SubRoot(s, 0, Len(s) - 0)
        /\ b[Len(t)][0][Len(proof)][2] = SubRoot(t, 0, Len(t))
    <3>1. PICK old \in Nat, n \in Leaves, lo \in Nat : old = Len(s) /\ n = Len(t) /\ lo = 0
      BY <1>1, <2>1
    <3>2. /\ \A i \in 1..old : s[i] = t[i]
          /\ lo < old /\ old <= lo + n /\ proof = TreeSteps(t, old)[n][lo]
      BY <2>1, <2>2, <2>3, <3>1
    <3>3. /\ proof \in Seq(RootsIn(t))
          /\ \A k \in 1..17 : n <= Widths[k] => Len(proof) <= k
          /\ Both(old, SubRoot(s, 0, old), proof)[n][lo][Len(proof)][1] = SubRoot(s, lo, old - lo)
          /\ Both(old, SubRoot(s, 0, old), proof)[n][lo][Len(proof)][2] = SubRoot(t, lo, n)
      <4>1. proof \in Seq(RootsIn(t))
        BY <3>2, ConsistencyComplete
      <4>2. \A k \in 1..17 : n <= Widths[k] => Len(proof) <= k
        BY <3>2, ConsistencyComplete, ZenonT(60)
      <4>3. Both(old, SubRoot(s, 0, old), proof)[n][lo][Len(proof)][1] = SubRoot(s, lo, old - lo)
        BY <3>2, ConsistencyComplete, SMTT(60)
      <4>4. Both(old, SubRoot(s, 0, old), proof)[n][lo][Len(proof)][2] = SubRoot(t, lo, n)
        BY <3>2, ConsistencyComplete, SMTT(60)
      <4> QED
        BY <4>1, <4>2, <4>3, <4>4
    <3> QED
      BY <2>4, <3>1, <3>3, SMTT(60)
  <2>6. Len(proof) \in Nat
    BY <2>5, LenProperties
  <2>7. BothAt(b, Len(s), SubRoot(s, 0, Len(s)), proof, Len(t), 0, Len(proof))
    BY <1>1, <2>1, <2>4, <2>6, BothUnfolds
  <2>8. b[Len(t)][0][Len(proof)] = <<b[Len(t)][0][Len(proof)][1], b[Len(t)][0][Len(proof)][2]>>
    BY <2>7 DEF BothAt
  <2>9. Both(Len(s), Root(s), proof)[Len(t)][0][Len(proof)] = <<Root(s), Root(t)>>
    BY <2>1, <2>4, <2>5, <2>8 DEF Root
  <2>10. Len(proof) <= MaxProofNodes
    BY <2>1, <2>5, TreesFit DEF MaxProofNodes
  <2>11. VerifyConsistency(Len(s), Len(t), Root(s), Root(t), proof)
    BY <1>1, <2>1, <2>9, <2>10, VerifyConsistencyIs
  <2> QED
    BY <1>4, <2>3, <2>11, ConsistencyProofIs
<1> QED
  BY <1>2, <1>3, <1>4

(* What verifies as included, with the proof of whatever tree, is there.    *)
LEMMA VerifiedIsIncluded ==
  ASSUME NEW Element, NEW s \in Seq(Element), Len(s) <= MaxLeaves,
         NEW j \in 0..(Len(s) - 1), NEW x, NEW proof, Len(proof) \in Nat,
         VerifyInclusion(x, j, Len(s), proof, Root(s))
  PROVE  s[j + 1] = x
<1>1. Len(s) \in Nat /\ Len(s) \in Leaves /\ 0 \in Nat /\ j \in Nat /\ 0 <= j /\ j < 0 + Len(s)
  BY LenProperties, MaxLeavesNat DEF Leaves
<1>2. Rebuilt(x, j, proof)[Len(s)][0][Len(proof)] = SubRoot(s, 0, Len(s))
  BY VerifyInclusionIs DEF Root
<1> QED
  BY <1>1, <1>2, InclusionSound

LEMMA IncludedIsVerified ==
  ASSUME NEW Element, NEW t \in Seq(Element), Len(t) <= MaxLeaves, NEW i \in 0..(Len(t) - 1)
  PROVE  VerifyInclusion(t[i + 1], i, Len(t), InclusionProof(t, i), Root(t))
<1>1. Len(t) \in Nat /\ Len(t) \in Leaves /\ 0 \in Nat /\ i \in Nat /\ 0 <= i /\ i < 0 + Len(t)
  BY LenProperties, MaxLeavesNat DEF Leaves
<1>2. PICK proof : proof = TreePath(t, i)[Len(t)][0]
  OBVIOUS
<1>3. Rebuilt(t[i + 1], i, proof)[Len(t)][0][Len(proof)] = SubRoot(t, 0, Len(t))
  BY <1>1, <1>2, InclusionComplete
<1>4. InclusionProof(t, i) = proof
  BY <1>2, InclusionProofIs
<1>5. Len(proof) <= MaxProofNodes
  <2>1. \A k \in 1..17 : Len(t) <= Widths[k] => Len(proof) < k
    BY <1>1, <1>2, InclusionComplete
  <2>2. proof \in Seq(RootsIn(t))
    BY <1>1, <1>2, InclusionComplete
  <2>3. Len(proof) < 17 /\ Len(proof) \in Nat
    BY <1>1, <2>1, <2>2, TreesFit, LenProperties
  <2> QED
    BY <2>3 DEF MaxProofNodes
<1> QED
  BY <1>3, <1>4, <1>5, VerifyInclusionIs DEF Root

------------------------------------------------------------------------------
(* The private log.                                                         *)

FileOK(file) == file \in HeadFile /\ Size(file) <= MaxEntries

(* A history without entries is the one the log was founded with, and there *)
(* is no witness left who could sign it.                                    *)
FoundedIsSigned == \A file \in heads : Size(file) = 0 => file.signers = Witness

LogInv == LogTypeOK /\ FoundedIsSigned

LEMMA LogBounds ==
  ASSUME NEW file, FileOK(file)
  PROVE  /\ file.entries \in Seq(Subject) /\ Size(file) \in Nat /\ Size(file) = Len(file.entries)
         /\ Size(file) <= MaxLeaves /\ file.issued \in Nat /\ file.signers \in SUBSET Witness
<1>1. file.entries \in Seq(Subject) /\ file.issued \in Nat /\ file.signers \in SUBSET Witness
  BY DEF FileOK, HeadFile
<1>2. Size(file) \in Nat /\ Size(file) = Len(file.entries)
  BY <1>1, LenProperties DEF Size
<1> QED
  BY <1>1, <1>2, MaxLeavesNat, PrivateLogAssumption DEF FileOK

LEMMA LogInitOK == LogInit => LogInv
<1> SUFFICES ASSUME LogInit PROVE LogInv
  OBVIOUS
<1> DEFINE Old(entries) == [entries |-> entries, issued |-> 0, signers |-> Witness]
<1>1. PICK one \in Founded, other \in Founded :
        /\ heads = {Old(one), Old(other)} /\ kept \in [Keeper -> heads] /\ appends = 0
  BY DEF LogInit
<1>2. Cardinality(Witness) \in Nat /\ Threshold <= Cardinality(Witness) /\ Threshold \in Nat
  BY PrivateLogAssumption, FS_CardinalityType
<1>3. ASSUME NEW s \in Founded PROVE FileOK(Old(s)) /\ Approved(Old(s)) /\ Old(s).signers = Witness
  <2>1. s \in Seq(Subject) /\ Len(s) <= MaxEntries
    BY PrivateLogAssumption
  <2> QED
    BY <1>2, <2>1 DEF FileOK, HeadFile, Size, Approved
<1> HIDE DEF Old
<1>4. \A file \in heads : FileOK(file) /\ Approved(file) /\ file.signers = Witness
  BY <1>1, <1>3
<1>5. \A k \in Keeper : Approved(kept[k])
  BY <1>1, <1>4
<1>6. appends \in 0..MaxAppends
  BY <1>1, PrivateLogAssumption
<1> QED
  BY <1>1, <1>4, <1>5, <1>6 DEF LogInv, LogTypeOK, FoundedIsSigned, FileOK

LEMMA AppendKeeps ==
  ASSUME LogInv, NEW file \in heads, NEW subject \in Subject, NEW issued \in 0..1,
         AppendEntry(file, subject, issued)
  PROVE  LogInv'
<1> DEFINE new == [entries |-> Append(file.entries, subject), issued |-> issued, signers |-> {}]
<1>1. FileOK(file)
  BY DEF LogInv, LogTypeOK, FileOK
<1>2. /\ Append(file.entries, subject) \in Seq(Subject)
      /\ Len(Append(file.entries, subject)) = Size(file) + 1
  BY <1>1, LogBounds, AppendProperties
<1>3. Size(file) + 1 <= MaxEntries /\ Size(file) + 1 # 0
  BY <1>1, LogBounds, PrivateLogAssumption, MaxLeavesNat DEF AppendEntry
<1>4. FileOK(new) /\ Size(new) # 0
  BY <1>2, <1>3 DEF FileOK, HeadFile, Size
<1>5. heads' = heads \cup {new} /\ kept' = kept /\ appends' = appends + 1 /\ appends < MaxAppends
  BY DEF AppendEntry
<1> HIDE DEF new
<1>6. appends' \in 0..MaxAppends
  BY <1>5, PrivateLogAssumption DEF LogInv, LogTypeOK
<1>7. \A hd \in heads' : FileOK(hd) /\ (Size(hd) = 0 => hd.signers = Witness)
  BY <1>4, <1>5 DEF LogInv, LogTypeOK, FoundedIsSigned, FileOK
<1>8. kept' \in [Keeper -> heads'] /\ \A k \in Keeper : Approved(kept'[k])
  BY <1>5 DEF LogInv, LogTypeOK
<1> QED
  BY <1>6, <1>7, <1>8 DEF LogInv, LogTypeOK, FoundedIsSigned, FileOK, Size, Approved

LEMMA CosignKeeps ==
  ASSUME LogInv, NEW w \in Witness, NEW file \in heads, CosignHead(w, file)
  PROVE  LogInv'
<1> DEFINE new == [file EXCEPT !.signers = @ \cup {w}]
<1>1. FileOK(file) /\ file.signers # Witness
  BY DEF LogInv, LogTypeOK, FileOK, CosignHead
<1>2. FileOK(new) /\ Size(new) # 0
  <2>1. new \in HeadFile /\ new.entries = file.entries
    BY <1>1, LogBounds DEF FileOK, HeadFile
  <2> QED
    BY <1>1, <2>1 DEF FileOK, Size, LogInv, FoundedIsSigned
<1>3. heads' = heads \cup {new} /\ kept' = kept /\ appends' = appends
  BY DEF CosignHead
<1> HIDE DEF new
<1>4. \A hd \in heads' : FileOK(hd) /\ (Size(hd) = 0 => hd.signers = Witness)
  BY <1>2, <1>3 DEF LogInv, LogTypeOK, FoundedIsSigned, FileOK
<1>5. kept' \in [Keeper -> heads'] /\ \A k \in Keeper : Approved(kept'[k])
  BY <1>3 DEF LogInv, LogTypeOK
<1> QED
  BY <1>3, <1>4, <1>5 DEF LogInv, LogTypeOK, FoundedIsSigned, FileOK, Size, Approved

LEMMA VerifyKeeps ==
  ASSUME LogInv, NEW k \in Keeper, NEW file \in heads, NEW i \in 0..Size(file),
         VerifyReceipt(k, file, i)
  PROVE  LogInv'
<1>1. Approved(file)
  BY DEF VerifyReceipt, ReceiptVerifies, Receipt
<1>2. heads' = heads /\ kept' = [kept EXCEPT ![k] = file] /\ appends' = appends
  BY DEF VerifyReceipt
<1>3. kept' \in [Keeper -> heads'] /\ \A j \in Keeper : Approved(kept'[j])
  BY <1>1, <1>2 DEF LogInv, LogTypeOK
<1> QED
  BY <1>2, <1>3 DEF LogInv, LogTypeOK, FoundedIsSigned, Approved

LEMMA LogNextKeeps == LogInv /\ [LogNext]_logVars => LogInv'
<1> SUFFICES ASSUME LogInv, [LogNext]_logVars PROVE LogInv'
  OBVIOUS
<1>1. CASE UNCHANGED logVars
  BY <1>1 DEF logVars, LogInv, LogTypeOK, FoundedIsSigned, Approved
<1>2. CASE LogNext
  BY <1>2, AppendKeeps, CosignKeeps, VerifyKeeps DEF LogNext
<1> QED
  BY <1>1, <1>2

LEMMA LogInvariance == LogSpec => []LogInv
<1>1. LogInit => LogInv
  BY LogInitOK
<1>2. LogInv /\ [LogNext]_logVars => LogInv'
  BY LogNextKeeps
<1> QED
  BY <1>1, <1>2, PTL DEF LogSpec

(* Heads and the heads that keepers retain are what they are taken for,     *)
(* and what a keeper retains was approved.                                  *)
THEOREM LogTypeCorrect == LogSpec => []LogTypeOK
<1>1. LogInv => LogTypeOK
  BY DEF LogInv
<1> QED
  BY <1>1, LogInvariance, PTL

LEMMA LogInvExact == LogInv => ProofsExact
<1> SUFFICES ASSUME LogInv PROVE ProofsExact
  OBVIOUS
<1> DEFINE histories == {file.entries : file \in heads}
<1>1. ASSUME NEW s \in histories PROVE s \in Seq(Subject) /\ Len(s) \in Nat /\ Len(s) <= MaxLeaves
  <2>1. PICK file \in heads : s = file.entries
    OBVIOUS
  <2>2. FileOK(file)
    BY DEF LogInv, LogTypeOK, FileOK
  <2> QED
    BY <2>1, <2>2, LogBounds
<1> HIDE DEF histories
<1>2. ASSUME NEW s \in histories, NEW t \in histories, Len(s) <= Len(t)
      PROVE  VerifyConsistency(Len(s), Len(t), Root(s), Root(t), ConsistencyProof(t, Len(s)))
               <=> IsPrefixOf(s, t)
  <2>1. Len(ConsistencyProof(t, Len(s))) \in Nat
    <3>1. CASE Len(s) \in {0, Len(t)}
      <4>1. ConsistencyProof(t, Len(s)) = <<>>
        BY <3>1 DEF ConsistencyProof
      <4> QED
        BY <4>1
    <3>2. CASE Len(s) \notin {0, Len(t)}
      <4>1. Len(s) \in Nat /\ Len(s) < Len(t) /\ Len(s) # 0
        BY <1>1, <1>2, <3>2
      <4> QED
        BY <1>1, <4>1, ProofsAreSequences
    <3> QED
      BY <3>1, <3>2
  <2> QED
    BY <1>1, <2>1, VerifiedIsPrefix, PrefixIsVerified
<1>3. ASSUME NEW s \in histories, NEW t \in histories, NEW i \in 0..Len(t) - 1,
             NEW j \in 0..Len(s) - 1, NEW x, s[j + 1] # x
      PROVE  ~VerifyInclusion(x, j, Len(s), InclusionProof(t, i), Root(s))
  <2>1. i \in Nat /\ i < Len(t)
    BY <1>1
  <2>2. Len(InclusionProof(t, i)) \in Nat
    BY <1>1, <2>1, ProofsAreSequences
  <2> QED
    BY <1>1, <1>3, <2>2, VerifiedIsIncluded
<1>4. ASSUME NEW t \in histories, NEW i \in 0..Len(t) - 1
      PROVE  VerifyInclusion(t[i + 1], i, Len(t), InclusionProof(t, i), Root(t))
  BY <1>1, IncludedIsVerified
<1> QED
  BY <1>2, <1>3, <1>4, ZenonT(60) DEF ProofsExact, histories

(* Whatever histories there are, a consistency proof verifies just when the *)
(* first is a prefix of the second, and an inclusion proof just for the     *)
(* entry at its position.                                                   *)
THEOREM ProofsAlwaysExact == LogSpec => []ProofsExact
BY LogInvExact, LogInvariance, PTL

(* Who verifies a receipt stays in its history.                             *)
LEMMA VerifyGoesOn ==
  ASSUME LogInv, NEW k \in Keeper, NEW file \in heads, NEW i \in 0..Size(file),
         VerifyReceipt(k, file, i)
  PROVE  IsPrefixOf(kept[k].entries, file.entries)
<1> DEFINE s == kept[k].entries
           t == file.entries
           proof == IF Size(kept[k]) > Size(file) THEN <<>> ELSE ConsistencyProof(t, Size(kept[k]))
<1>1. FileOK(file) /\ FileOK(kept[k])
  BY DEF LogInv, LogTypeOK, FileOK
<1>2. /\ s \in Seq(Subject) /\ t \in Seq(Subject) /\ Len(s) \in Nat /\ Len(t) \in Nat
      /\ Len(t) <= MaxLeaves /\ Size(kept[k]) = Len(s) /\ Size(file) = Len(t)
  BY <1>1, LogBounds
<1>3. VerifyConsistency(Len(s), Len(t), Root(s), Root(t), proof)
  BY DEF VerifyReceipt, ReceiptVerifies, Receipt, Size, RootOf
<1>4. Len(proof) \in Nat
  <2>1. CASE Len(s) > Len(t) \/ Len(s) \in {0, Len(t)}
    <3>1. proof = <<>>
      BY <1>2, <2>1 DEF ConsistencyProof
    <3> HIDE DEF proof
    <3> QED
      BY <3>1, SMTT(60)
  <2>2. CASE ~(Len(s) > Len(t)) /\ Len(s) \notin {0, Len(t)}
    <3>1. Len(s) < Len(t) /\ Len(s) # 0 /\ proof = ConsistencyProof(t, Len(s))
      BY <1>2, <2>2
    <3> HIDE DEF proof, s, t
    <3> QED
      BY <1>2, <3>1, ProofsAreSequences
  <2> QED
    BY <2>1, <2>2
<1> HIDE DEF proof, s, t
<1>5. IsPrefixOf(s, t)
  BY <1>2, <1>3, <1>4, VerifiedIsPrefix
<1> QED
  BY <1>5 DEF s, t

LEMMA PrefixOfItself ==
  ASSUME NEW Element, NEW s \in Seq(Element)
  PROVE  IsPrefixOf(s, s)
<1>1. Len(s) \in Nat
  BY LenProperties
<1> QED
  BY <1>1, PrefixIs

LEMMA KeptGoOn ==
  ASSUME LogInv, LogNext, NEW k \in Keeper
  PROVE  IsPrefixOf(kept[k].entries, kept'[k].entries)
<1>1. FileOK(kept[k])
  BY DEF LogInv, LogTypeOK, FileOK
<1>2. IsPrefixOf(kept[k].entries, kept[k].entries)
  BY <1>1, LogBounds, PrefixOfItself
<1>3. CASE kept'[k] = kept[k]
  BY <1>2, <1>3
<1>4. CASE \E j \in Keeper, file \in heads : \E i \in 0..Size(file) : VerifyReceipt(j, file, i)
  <2>1. PICK j \in Keeper, file \in heads : \E i \in 0..Size(file) : VerifyReceipt(j, file, i)
    BY <1>4
  <2>2. PICK i \in 0..Size(file) : VerifyReceipt(j, file, i)
    BY <2>1
  <2>3. kept' = [kept EXCEPT ![j] = file] /\ kept \in [Keeper -> heads]
    BY <2>2 DEF VerifyReceipt, LogInv, LogTypeOK
  <2>4. CASE j = k
    BY <2>2, <2>3, <2>4, VerifyGoesOn
  <2>5. CASE j # k
    BY <1>3, <2>3, <2>5
  <2> QED
    BY <2>4, <2>5
<1>5. ASSUME NEW w \in Witness, NEW file \in heads, CosignHead(w, file) PROVE kept'[k] = kept[k]
  BY <1>5 DEF CosignHead
<1>6. ASSUME NEW file \in heads, NEW subject \in Subject, NEW issued \in 0..1,
             AppendEntry(file, subject, issued)
      PROVE  kept'[k] = kept[k]
  BY <1>6 DEF AppendEntry
<1> QED
  BY <1>3, <1>4, <1>5, <1>6 DEF LogNext

(* The witnesses who have signed a draft, or who still may.                 *)
Signed(w, draft) ==
  \E file \in heads : file.entries = draft.entries /\ file.issued = draft.issued /\ w \in file.signers
Counted(draft) ==
  {w \in Witness : Signed(w, draft) \/ IsPrefixOf(kept[w].entries, draft.entries)}

LEMMA BlockedIs ==
  /\ \A draft : Blocked(draft) <=> Cardinality(Counted(draft)) < Threshold
  /\ \A draft : Blocked(draft)' <=> Cardinality(Counted(draft)') < Threshold
BY Zenon DEF Blocked, Counted, Signed

(* Nobody signs a draft who was not counted.                                *)
LEMMA CosignCounted ==
  ASSUME LogInv, NEW w \in Witness, NEW file \in heads, CosignHead(w, file)
  PROVE  IsPrefixOf(kept[w].entries, file.entries)
<1>1. w \in Keeper /\ kept[w] \in heads
  BY PrivateLogAssumption DEF LogInv, LogTypeOK
<1>2. FileOK(file) /\ FileOK(kept[w])
  BY <1>1 DEF LogInv, LogTypeOK, FileOK
<1>3. Size(file) > 0
  BY <1>2, LogBounds DEF CosignHead, LogInv, FoundedIsSigned
<1>4. /\ Len(kept[w].entries) <= Len(file.entries) /\ Len(file.entries) <= MaxLeaves
      /\ SubRoot(file.entries, 0, Len(kept[w].entries)) = Root(kept[w].entries)
  BY <1>2, <1>3, LogBounds DEF CosignHead, Size, RootOf
<1> QED
  BY <1>2, <1>4, LogBounds, RootTellsPrefix

LEMMA CountedShrinks ==
  ASSUME LogInv, LogNext, NEW draft \in heads
  PROVE  Counted(draft)' \subseteq Counted(draft)
<1>0. draft.entries \in Seq(Subject)
  BY LogBounds DEF LogInv, LogTypeOK, FileOK
<1>1. ASSUME NEW v \in Witness, Signed(v, draft)' PROVE v \in Counted(draft)
  <2>1. PICK hd \in heads' : hd.entries = draft.entries /\ hd.issued = draft.issued /\ v \in hd.signers
    BY <1>1 DEF Signed
  <2>2. CASE hd \in heads
    BY <2>1, <2>2 DEF Counted, Signed
  <2>3. ASSUME NEW file \in heads, NEW subject \in Subject, NEW issued \in 0..1,
               AppendEntry(file, subject, issued)
        PROVE  hd \in heads
    <3>1. hd \in heads \cup {[entries |-> Append(file.entries, subject), issued |-> issued, signers |-> {}]}
      BY <2>3 DEF AppendEntry
    <3> QED
      BY <2>1, <3>1
  <2>4. ASSUME NEW w \in Witness, NEW file \in heads, CosignHead(w, file)
        PROVE  v \in Counted(draft)
    <3>1. hd \in heads \cup {[file EXCEPT !.signers = @ \cup {w}]}
      BY <2>4 DEF CosignHead
    <3>2. CASE hd = [file EXCEPT !.signers = @ \cup {w}]
      <4>1. file \in HeadFile
        BY DEF LogInv, LogTypeOK
      <4>2. hd.entries = file.entries /\ hd.issued = file.issued /\ hd.signers = file.signers \cup {w}
        BY <3>2, <4>1 DEF HeadFile
      <4>3. CASE v \in file.signers
        BY <2>1, <4>2, <4>3 DEF Counted, Signed
      <4>4. CASE v = w
        <5>1. IsPrefixOf(kept[v].entries, draft.entries)
          BY <2>1, <2>4, <4>2, <4>4, CosignCounted
        <5> QED
          BY <5>1 DEF Counted
      <4> QED
        BY <2>1, <4>2, <4>3, <4>4
    <3> QED
      BY <2>2, <3>1, <3>2
  <2>5. ASSUME NEW k \in Keeper, NEW file \in heads, NEW i \in 0..Size(file), VerifyReceipt(k, file, i)
        PROVE  hd \in heads
    BY <2>5 DEF VerifyReceipt
  <2> QED
    BY <2>2, <2>3, <2>4, <2>5 DEF LogNext
<1>2. ASSUME NEW v \in Witness, IsPrefixOf(kept[v].entries, draft.entries)'
      PROVE  IsPrefixOf(kept[v].entries, draft.entries)
  <2>1. v \in Keeper
    BY PrivateLogAssumption
  <2>2. LogInv'
    BY LogNextKeeps
  <2>3. FileOK(kept[v]) /\ FileOK(kept'[v])
    BY <2>1, <2>2 DEF LogInv, LogTypeOK, FileOK, Size
  <2>4. IsPrefixOf(kept[v].entries, kept'[v].entries)
    BY <2>1, KeptGoOn
  <2>5. IsPrefixOf(kept'[v].entries, draft.entries)
    BY <1>2
  <2> QED
    BY <1>0, <2>3, <2>4, <2>5, LogBounds, PrefixOfPrefix
<1>3. ASSUME NEW v, v \in Counted(draft)' PROVE v \in Counted(draft)
  <2>1. v \in Witness /\ (Signed(v, draft)' \/ IsPrefixOf(kept[v].entries, draft.entries)')
    BY <1>3 DEF Counted
  <2> QED
    BY <1>1, <1>2, <2>1 DEF Counted
<1> QED
  BY <1>3

LEMMA BlockedStays ==
  ASSUME LogInv, LogNext, NEW draft \in heads, Blocked(draft)
  PROVE  Blocked(draft)'
<1>1. Counted(draft)' \subseteq Counted(draft) /\ Counted(draft) \subseteq Witness
  BY CountedShrinks DEF Counted
<1>2. IsFiniteSet(Counted(draft)) /\ IsFiniteSet(Counted(draft)')
  BY <1>1, PrivateLogAssumption, FS_Subset
<1>3. /\ Cardinality(Counted(draft)') <= Cardinality(Counted(draft))
      /\ Cardinality(Counted(draft)') \in Nat /\ Cardinality(Counted(draft)) \in Nat
  BY <1>1, <1>2, FS_Subset, FS_CardinalityType
<1>4. Cardinality(Counted(draft)) < Threshold
  BY BlockedIs
<1>5. Threshold \in Nat
  BY PrivateLogAssumption, FS_CardinalityType
<1>6. Cardinality(Counted(draft)') < Threshold
  BY <1>3, <1>4, <1>5
<1> QED
  BY <1>6, BlockedIs

LEMMA LogStepsApart ==
  LogInv /\ [LogNext]_logVars =>
    /\ [\A k \in Keeper : IsPrefixOf(kept[k].entries, kept'[k].entries)]_kept
    /\ [\A draft \in heads : Blocked(draft) => Blocked(draft)']_logVars
<1> SUFFICES ASSUME LogInv, [LogNext]_logVars
             PROVE  /\ [\A k \in Keeper : IsPrefixOf(kept[k].entries, kept'[k].entries)]_kept
                    /\ [\A draft \in heads : Blocked(draft) => Blocked(draft)']_logVars
  OBVIOUS
<1>1. CASE LogNext
  BY <1>1, KeptGoOn, BlockedStays
<1>2. CASE UNCHANGED logVars
  BY <1>2 DEF logVars
<1> QED
  BY <1>1, <1>2

(* However often a log is forked: no keeper is led from one history into    *)
(* another, and a draft that the witnesses block is never approved.         *)
THEOREM HistoriesAlwaysApart == LogSpec => HistoriesStayApart
<1>1. LogInv /\ [LogNext]_logVars =>
        /\ [\A k \in Keeper : IsPrefixOf(kept[k].entries, kept'[k].entries)]_kept
        /\ [\A draft \in heads : Blocked(draft) => Blocked(draft)']_logVars
  BY LogStepsApart
<1> QED
  BY <1>1, LogInvariance, PTL DEF LogSpec, HistoriesStayApart, KeptHistoriesGrow, ForkedDraftsDie

------------------------------------------------------------------------------
(* Timestamped decisions on keys.                                           *)

(* A record is the decision of a policy at a time that it was in force, and *)
(* a stamp is right up to its accuracy.                                     *)
RecordOK(record) ==
  /\ IsPolicy(record.policy) /\ record.checkpoint \in Checkpoint /\ record.recorded \in Int
  /\ Authority(record.policy, record.recorded)
  /\ record.decision = Decision(record.policy, record.checkpoint, record.recorded)

StampOK(stamp) ==
  /\ stamp.of \in prepared /\ stamp.generated \in Int /\ stamp.accuracy \in Nat /\ stamp.at \in Int
  /\ Lower(stamp) <= stamp.at /\ stamp.at <= Upper(stamp)

HistoryInv ==
  /\ clock \in 0..MaxInstant /\ skew \in Int /\ rootValid \in Window /\ approved \in Policies
  /\ revision \in DOMAIN approved
  /\ \A r, q \in records : r = q
  /\ IsFiniteSet(records) /\ prepared \subseteq records
  /\ \A record \in records : RecordOK(record)
  /\ \A stamp \in stamps : StampOK(stamp)

(* What a policy finds depends on which of the three boundaries are past.   *)
LEMMA SameSideSameDecision ==
  ASSUME NEW policy, IsPolicy(policy), NEW c \in Checkpoint, NEW s \in Int, NEW t \in Int,
         In(s, policy.valid) <=> In(t, policy.valid), c.signed <= s <=> c.signed <= t,
         c.key \in DOMAIN policy.keys =>
           LET valid == policy.keys[c.key].valid
           IN  (valid.from <= s <=> valid.from <= t) /\ (valid.until <= s <=> valid.until <= t)
  PROVE  Decision(policy, c, s) = Decision(policy, c, t)
<1>1. c.key \in DOMAIN policy.keys =>
        (In(s, policy.keys[c.key].valid) <=> In(t, policy.keys[c.key].valid))
  BY DEF In, IsPolicy, KeyRow, Window
<1>2. (c.created <= c.signed /\ c.signed <= s) <=> (c.created <= c.signed /\ c.signed <= t)
  OBVIOUS
<1>3. Findings(policy, c, s) = Findings(policy, c, t)
  BY <1>1, <1>2, ZenonT(60) DEF Findings
<1> QED
  BY <1>3 DEF Decision

(* Of the instants that are tried, one lies between the same boundaries as  *)
(* any other: the last boundary up to it, or the lower end.                 *)
LEMMA TriedStandsForAll ==
  ASSUME NEW record, IsPolicy(record.policy), record.checkpoint \in Checkpoint,
         NEW lower \in Int, NEW upper \in Int, NEW t \in lower..upper
  PROVE  \E s \in Instants(record, lower, upper) :
           /\ s \in lower..upper
           /\ record.checkpoint.signed <= s <=> record.checkpoint.signed <= t
           /\ record.checkpoint.key \in DOMAIN record.policy.keys =>
                LET valid == record.policy.keys[record.checkpoint.key].valid
                IN  (valid.from <= s <=> valid.from <= t) /\ (valid.until <= s <=> valid.until <= t)
<1> DEFINE keys == record.policy.keys  c == record.checkpoint
           from == keys[c.key].valid.from  until == keys[c.key].valid.until
<1>1. c.signed \in Int /\ lower \in Instants(record, lower, upper)
  BY SMTT(60) DEF Checkpoint, Instants
<1>2. c.signed \in lower..upper => c.signed \in Instants(record, lower, upper)
  BY SMTT(60) DEF Instants
<1>3. ASSUME c.key \in DOMAIN keys
      PROVE  /\ from \in Int /\ until \in Int
             /\ from \in lower..upper => from \in Instants(record, lower, upper)
             /\ until \in lower..upper => until \in Instants(record, lower, upper)
  BY <1>3, ZenonT(60) DEF IsPolicy, KeyRow, Window, Instants
<1>4. CASE c.key \notin DOMAIN keys
  <2>1. CASE lower <= c.signed /\ c.signed <= t
    BY <1>1, <1>2, <1>4, <2>1, SMTT(60)
  <2>2. CASE ~(lower <= c.signed /\ c.signed <= t)
    BY <1>1, <1>4, <2>2, SMTT(60)
  <2> QED
    BY <2>1, <2>2, SMTT(60)
<1>5. CASE c.key \in DOMAIN keys
  <2>1. PICK signed \in Int, first \in Int, last \in Int :
          signed = c.signed /\ first = from /\ last = until
    BY <1>1, <1>3, <1>5
  <2>2. PICK s \in {lower, signed, first, last} :
          /\ lower <= s /\ s <= t
          /\ \A b \in {lower, signed, first, last} : lower <= b /\ b <= t => b <= s
    OBVIOUS
  <2>3. s \in Instants(record, lower, upper) /\ s \in lower..upper
    <3>1. s \in lower..upper
      BY <2>2, SMTT(60)
    <3>2. /\ lower \in Instants(record, lower, upper)
          /\ signed \in lower..upper => signed \in Instants(record, lower, upper)
          /\ first \in lower..upper => first \in Instants(record, lower, upper)
          /\ last \in lower..upper => last \in Instants(record, lower, upper)
      BY <1>1, <1>2, <1>3, <1>5, <2>1
    <3> QED
      BY <2>2, <3>1, <3>2
  <2>4. (signed <= s <=> signed <= t) /\ (first <= s <=> first <= t) /\ (last <= s <=> last <= t)
    BY <2>2, SMTT(60)
  <2> QED
    BY <2>1, <2>3, <2>4, ZenonT(60)
<1> QED
  BY <1>4, <1>5, SMTT(60)

LEMMA InstantsWithin ==
  ASSUME NEW record, NEW lower \in Int, NEW upper \in Int, lower <= upper
  PROVE  Instants(record, lower, upper) \subseteq lower..upper
BY DEF Instants

(* The interval of a stamp is in force as a whole if its ends are.          *)
LEMMA WindowsAreWhole ==
  ASSUME NEW w \in Window, NEW lower \in Int, NEW upper \in Int, NEW t \in lower..upper,
         In(lower, w), In(upper, w)
  PROVE  In(t, w)
BY DEF In, Window

LEMMA ReproducedIsExact ==
  ASSUME HistoryInv, NEW record \in records, NEW stamp \in stamps
  PROVE  Reproduces(record, stamp) <=>
           /\ record.recorded <= Upper(stamp)
           /\ \A instant \in Lower(stamp)..Upper(stamp) :
                /\ In(instant, rootValid) /\ In(instant, record.policy.valid)
                /\ Decision(record.policy, record.checkpoint, instant) = record.decision
<1>1. RecordOK(record) /\ StampOK(stamp) /\ rootValid \in Window /\ stamp.of = record
  BY DEF HistoryInv, StampOK
<1>2. PICK lower \in Int, upper \in Int : lower = Lower(stamp) /\ upper = Upper(stamp) /\ lower <= upper
  BY <1>1 DEF StampOK, Lower, Upper
<1>3. record.policy.valid \in Window /\ IsPolicy(record.policy) /\ record.checkpoint \in Checkpoint
  BY <1>1 DEF RecordOK, IsPolicy
<1>4. ASSUME Reproduces(record, stamp), NEW t \in lower..upper
      PROVE  /\ In(t, rootValid) /\ In(t, record.policy.valid)
             /\ Decision(record.policy, record.checkpoint, t) = record.decision
  <2>1. /\ In(lower, rootValid) /\ In(upper, rootValid)
        /\ In(lower, record.policy.valid) /\ In(upper, record.policy.valid)
    BY <1>2, <1>4 DEF Reproduces, Authority
  <2>2. \A s \in lower..upper : In(s, rootValid) /\ In(s, record.policy.valid)
    BY <1>1, <1>3, <2>1, WindowsAreWhole, SMTT(60)
  <2>3. PICK s \in Instants(record, lower, upper) :
          /\ s \in lower..upper
          /\ record.checkpoint.signed <= s <=> record.checkpoint.signed <= t
          /\ record.checkpoint.key \in DOMAIN record.policy.keys =>
               LET valid == record.policy.keys[record.checkpoint.key].valid
               IN  (valid.from <= s <=> valid.from <= t) /\ (valid.until <= s <=> valid.until <= t)
    BY <1>3, TriedStandsForAll, SMTT(60)
  <2>4. Decision(record.policy, record.checkpoint, s) = Decision(record.policy, record.checkpoint, t)
    BY <1>3, <2>2, <2>3, SameSideSameDecision, SMTT(60)
  <2>5. Decision(record.policy, record.checkpoint, s) = record.decision
    BY <1>2, <1>4, <2>3 DEF Reproduces
  <2> QED
    BY <2>2, <2>4, <2>5
<1>5. ASSUME record.recorded <= upper,
             \A t \in lower..upper :
               /\ In(t, rootValid) /\ In(t, record.policy.valid)
               /\ Decision(record.policy, record.checkpoint, t) = record.decision
      PROVE  Reproduces(record, stamp)
  <2>1. Instants(record, lower, upper) \subseteq lower..upper
    BY <1>2, InstantsWithin
  <2>2. Authority(record.policy, lower) /\ Authority(record.policy, upper)
    BY <1>2, <1>5 DEF Authority
  <2> QED
    BY <1>1, <1>2, <1>5, <2>1, <2>2 DEF Reproduces, RecordOK
<1>6. Reproduces(record, stamp) => record.recorded <= upper
  BY <1>2 DEF Reproduces
<1> QED
  BY <1>2, <1>4, <1>5, <1>6

LEMMA HistoryTold == HistoryInv => AcceptanceExact /\ HistoryTypeOK
<1> SUFFICES ASSUME HistoryInv PROVE AcceptanceExact /\ HistoryTypeOK
  OBVIOUS
<1>1. HistoryExact
  BY ReproducedIsExact DEF HistoryExact
<1>2. ASSUME NEW record \in records, NEW stamp \in stamps, Reproduces(record, stamp)
      PROVE  /\ stamp.at <= Upper(stamp)
             /\ In(stamp.at, rootValid) /\ In(stamp.at, record.policy.valid)
             /\ Decision(record.policy, record.checkpoint, stamp.at) = record.decision
  <2>1. StampOK(stamp) /\ stamp.at \in Lower(stamp)..Upper(stamp)
    BY DEF HistoryInv, StampOK, Lower, Upper
  <2> QED
    BY <1>1, <1>2, <2>1 DEF HistoryExact, StampOK
<1>3. HistoryTypeOK
  <2>1. ASSUME NEW record \in records
        PROVE  /\ IsPolicy(record.policy) /\ record.checkpoint \in Checkpoint
               /\ record.decision.status \in {"ALLOW", "DENY"}
    <3>1. RecordOK(record)
      BY DEF HistoryInv
    <3>2. \A t : Decision(record.policy, record.checkpoint, t).status \in {"ALLOW", "DENY"}
      BY DEF Decision
    <3> QED
      BY <3>1, <3>2 DEF RecordOK
  <2> QED
    BY <2>1 DEF HistoryTypeOK, HistoryInv, StampOK
<1> QED
  BY <1>1, <1>2, <1>3 DEF AcceptanceExact, StampedDecisionHeld

LEMMA HistoryBegins == HistoryInit => HistoryInv
<1> SUFFICES ASSUME HistoryInit PROVE HistoryInv
  OBVIOUS
<1>1. revision \in DOMAIN approved
  BY HistoryAssumption DEF HistoryInit
<1>2. IsFiniteSet(records)
  BY FS_EmptySet DEF HistoryInit
<1> QED
  BY <1>1, <1>2, HistoryAssumption DEF HistoryInit, HistoryInv

LEMMA HistoryHolds == HistoryInv /\ [HistoryNext]_historyVars => HistoryInv'
<1> SUFFICES ASSUME HistoryInv, [HistoryNext]_historyVars PROVE HistoryInv'
  OBVIOUS
<1> USE DEF HistoryInv
<1>1. CASE UNCHANGED historyVars
  BY <1>1 DEF historyVars, RecordOK, StampOK, Authority
<1>2. CASE Tick
  BY <1>2, HistoryAssumption DEF Tick, RecordOK, StampOK, Authority
<1>3. CASE AcceptPolicy
  <2>1. revision' \in DOMAIN approved'
    BY <1>3, HistoryAssumption DEF AcceptPolicy
  <2> QED
    BY <1>3, <2>1 DEF AcceptPolicy, RecordOK, StampOK, Authority
<1>4. ASSUME NEW c \in Checkpoints, Capture(c) PROVE HistoryInv'
  <2>1. records = {}
    <3> SUFFICES ASSUME NEW r \in records PROVE FALSE
      OBVIOUS
    <3>1. records = {r}
      OBVIOUS
    <3>2. Cardinality(records) = 1
      BY ONLY <3>1, FS_Singleton
    <3>3. Cardinality(records) < 1
      BY ONLY <1>4 DEF Capture
    <3> QED
      BY ONLY <3>2, <3>3
  <2>2. PICK record :
          record = [policy |-> approved[revision], checkpoint |-> c, recorded |-> clock + skew,
                    decision |-> Decision(approved[revision], c, clock + skew)]
    OBVIOUS
  <2>3. records' = {record}
    BY <1>4, <2>1, <2>2 DEF Capture
  <2>4. RecordOK(record)
    BY <1>4, <2>2, HistoryAssumption DEF Capture, RecordOK
  <2>5. UNCHANGED rootValid
    BY <1>4 DEF Capture
  <2>6. RecordOK(record)'
    BY <2>4, <2>5 DEF RecordOK, Authority
  <2>7. IsFiniteSet(records')
    BY <2>3, FS_Singleton
  <2> QED
    BY <1>4, <2>1, <2>3, <2>6, <2>7 DEF Capture, StampOK
<1>5. ASSUME NEW record \in records, Prepare(record) PROVE HistoryInv'
  BY <1>5 DEF Prepare, RecordOK, StampOK, Authority
<1>6. ASSUME NEW record \in records, NEW accuracy \in Accuracies, Stamp(record, accuracy) PROVE HistoryInv'
  <2>1. accuracy \in Nat /\ clock \in Int
    BY HistoryAssumption
  <2>2. PICK generated \in clock - accuracy .. clock + accuracy :
          stamps' = {[of |-> record, generated |-> generated, accuracy |-> accuracy, at |-> clock]}
    BY <1>6 DEF Stamp
  <2>3. \A stamp \in stamps' : StampOK(stamp)'
    BY <1>6, <2>1, <2>2 DEF Stamp, StampOK, Lower, Upper
  <2>4. UNCHANGED <<clock, skew, approved, rootValid, revision, records, prepared>>
    BY <1>6 DEF Stamp
  <2> QED
    BY <2>3, <2>4 DEF RecordOK, Authority
<1> QED
  BY <1>1, <1>2, <1>3, <1>4, <1>5, <1>6 DEF HistoryNext

(* A record is accepted just if its decision was the same at every instant  *)
(* at which its stamp may have been made, for any policies and keys, clocks *)
(* and accuracies: the few instants that are tried stand for all.  So an    *)
(* accepted decision is what its policy said when it was stamped.           *)
THEOREM AcceptanceAlwaysExact == HistorySpec => [](AcceptanceExact /\ HistoryTypeOK)
BY HistoryBegins, HistoryHolds, HistoryTold, PTL DEF HistorySpec

------------------------------------------------------------------------------
(* Lineages of credentials.                                                 *)

(* The path of the search follows hops and meets no credential twice; what  *)
(* a credential on it does not have left was explored, or is next on it.    *)
PathOK(x, p, done) ==
  /\ Len(p) \in Nat /\ DOMAIN p = 1..Len(p)
  /\ \A i \in 1..Len(p) :
       /\ DOMAIN p[i] = {"at", "left"}
       /\ p[i].at \in Credential \ done /\ p[i].left \subseteq Adjacent(x, p[i].at)
       /\ \A c \in Adjacent(x, p[i].at) \ p[i].left : c \in done \/ (i < Len(p) /\ c = p[i + 1].at)
  /\ \A i \in 1..Len(p) - 1 : p[i + 1].at \in Adjacent(x, p[i].at)
  /\ \A i, j \in 1..Len(p) : p[i].at = p[j].at => i = j

(* Nothing leads out of what is explored, and no chain goes round in it.    *)
ExploredOK(x, done) ==
  /\ done \subseteq Credential
  /\ \A c \in done : Adjacent(x, c) \subseteq done
  /\ \A S \in SUBSET done : S # {} => \E c \in S : Adjacent(x, c) \cap S = {}

IsCycle(x, s) ==
  /\ Len(s) > 1 /\ s[1] = s[Len(s)]
  /\ \A i \in 1..Len(s) - 1 : s[i + 1] \in Adjacent(x, s[i])

LineageInv ==
  /\ IsLineage(lineage) /\ PathOK(lineage, path, explored) /\ ExploredOK(lineage, explored)
  /\ phase \in {"search", "refused", "searched", "reported", "projected", "invalid"}
  /\ phase = "refused" => IsCycle(lineage, cycle)
  /\ phase \notin {"search", "refused"} => \A h \in lineage.hops : h.from \in explored
  /\ phase \in {"reported", "projected", "invalid"} => report = ReportOf(lineage)
  /\ phase = "projected" => graph = GraphOf(lineage, ReportOf(lineage))
  /\ phase = "invalid" => LET g == GraphOf(lineage, ReportOf(lineage)) IN g.nodes = {} \/ ~IsRecord(g)

LEMMA FirstIsIn ==
  ASSUME NEW S \in SUBSET Credential, S # {}
  PROVE  First(S) \in S
<1> DEFINE R == OpToRel(<, Nat)
<1>1. IsWellFoundedOn(R, Nat)
  BY NatLessThanWellFounded
<1>2. S \subseteq Nat
  BY LineageAssumption
<1>3. PICK c \in S : \A d \in S : ~(<<d, c>> \in R)
  BY <1>1, <1>2, WFMin, Zenon
<1>4. \A d \in S : ~(d < c)
  BY <1>2, <1>3 DEF OpToRel
<1>5. \A d \in S : c <= d
  BY <1>2, <1>4
<1> QED
  BY <1>5 DEF First

LEMMA AdjacentIsCredential ==
  ASSUME NEW x, IsLineage(x), NEW c
  PROVE  Adjacent(x, c) \subseteq Credential
BY DEF IsLineage, Adjacent, Hop

(* What is left on one credential only can be explored.                     *)
LEMMA ExploredGrows ==
  ASSUME NEW x, NEW done, ExploredOK(x, done), NEW c \in Credential \ done,
         Adjacent(x, c) \subseteq done
  PROVE  ExploredOK(x, done \cup {c})
<1>1. \A d \in done \cup {c} : Adjacent(x, d) \subseteq done \cup {c}
  BY DEF ExploredOK
<1>2. ASSUME NEW S \in SUBSET (done \cup {c}), S # {}
      PROVE  \E d \in S : Adjacent(x, d) \cap S = {}
  <2>1. CASE S \ {c} = {}
    <3>1. S = {c}
      BY <1>2, <2>1
    <3> QED
      BY <3>1
  <2>2. CASE S \ {c} # {}
    <3>1. S \ {c} \in SUBSET done
      OBVIOUS
    <3>2. PICK d \in S \ {c} : Adjacent(x, d) \cap (S \ {c}) = {}
      BY <2>2, <3>1 DEF ExploredOK
    <3>3. Adjacent(x, d) \subseteq done
      BY <3>1, <3>2 DEF ExploredOK
    <3> QED
      BY <3>2, <3>3
  <2> QED
    BY <2>1, <2>2
<1> QED
  BY <1>1, <1>2 DEF ExploredOK

LEMMA LineageBegins == LineageInit => LineageInv
BY LineageAssumption DEF LineageInit, Unsearched, LineageInv, PathOK, ExploredOK

LEMMA LineageGoesOn == LineageInv /\ [LineageNext]_lineageVars => LineageInv'
<1> SUFFICES ASSUME LineageInv, [LineageNext]_lineageVars PROVE LineageInv'
  OBVIOUS
<1> USE DEF LineageInv
<1>1. CASE UNCHANGED lineageVars
  BY <1>1 DEF lineageVars
<1>2. CASE VisitRoot
  <2> DEFINE left == {h.from : h \in lineage.hops} \ explored
  <2>1. CASE left = {}
    BY <1>2, <2>1 DEF VisitRoot
  <2>2. CASE left # {}
    <3>1. left \in SUBSET Credential
      BY DEF IsLineage, Hop
    <3>2. PICK c : c = First(left)
      OBVIOUS
    <3>3. c \in Credential \ explored
      BY <2>2, <3>1, <3>2, FirstIsIn
    <3>4. path' = <<Frame(c)>> /\ UNCHANGED <<lineage, phase, explored, cycle, report, graph>>
      BY <1>2, <2>2, <3>2 DEF VisitRoot
    <3>5. PathOK(lineage, <<Frame(c)>>, explored)
      BY <3>3 DEF PathOK, Frame
    <3> QED
      BY <1>2, <3>4, <3>5 DEF VisitRoot
  <2> QED
    BY <2>1, <2>2
<1>3. CASE VisitTarget
  <2>1. PICK n : n = Len(path)
    OBVIOUS
  <2>2. /\ n \in Nat \ {0} /\ DOMAIN path = 1..n /\ Top = path[n] /\ Top.left # {}
        /\ phase = "search" /\ UNCHANGED <<lineage, explored, report, graph>>
    BY <1>3, <2>1 DEF VisitTarget, Top, PathOK
  <2>3. PICK next : next = First(Top.left)
    OBVIOUS
  <2>4. /\ next \in Top.left /\ next \in Adjacent(lineage, Top.at) /\ next \in Credential
        /\ Top.left \subseteq Adjacent(lineage, Top.at) /\ Top.at \in Credential
    <3>1. Top.left \subseteq Adjacent(lineage, Top.at) /\ Top.at \in Credential
      BY <2>1, <2>2 DEF PathOK
    <3> QED
      BY <2>2, <2>3, <3>1, FirstIsIn, AdjacentIsCredential
  <2>5. CASE IsActive(next)
    <3>1. PICK i : i = CHOOSE k \in DOMAIN path : path[k].at = next
      OBVIOUS
    <3>2. i \in 1..n /\ path[i].at = next
      BY <2>2, <2>5, <3>1 DEF IsActive
    <3>3. /\ cycle' = Append(SubSeq(Active, i, n), next)
          /\ phase' = "refused" /\ UNCHANGED path
      BY <1>3, <2>1, <2>3, <2>5, <3>1 DEF VisitTarget
    <3>4. PICK s : s = SubSeq(Active, i, n)
      OBVIOUS
    <3>5. /\ Len(s) = n - i + 1 /\ \A j \in 1..Len(s) : s[j] = path[i + j - 1].at
          /\ s \in Seq(Credential)
      <4>1. Active = [j \in 1..n |-> path[j].at] /\ \A j \in 1..n : path[j].at \in Credential
        BY <2>1, <2>2 DEF Active, PathOK
      <4>2. Active \in Seq(Credential) /\ Len(Active) = n
        BY <2>2, <4>1
      <4> QED
        BY <2>2, <3>2, <3>4, <4>1, <4>2
    <3>6. /\ Len(cycle') = n - i + 2 /\ cycle'[n - i + 2] = next
          /\ \A j \in 1..n - i + 1 : cycle'[j] = path[i + j - 1].at
      <4>1. Len(s) \in Nat /\ Len(s) = n - i + 1
        BY <2>2, <3>2, <3>5
      <4>2. PICK told : told = Append(s, next)
        OBVIOUS
      <4>3. /\ Len(told) = Len(s) + 1 /\ told[Len(s) + 1] = next
            /\ \A j \in 1..Len(s) : told[j] = s[j]
        BY ONLY <2>4, <3>5, <4>1, <4>2
      <4>4. cycle' = told
        BY <3>3, <3>4, <4>2
      <4> QED
        BY <2>2, <3>2, <3>5, <4>1, <4>3, <4>4
    <3>7. ASSUME NEW j \in 1..n - i + 1 PROVE cycle'[j + 1] \in Adjacent(lineage, cycle'[j])
      <4>1. CASE j = n - i + 1
        BY <2>2, <2>4, <3>2, <3>6, <4>1
      <4>2. CASE j # n - i + 1
        <5>1. i + j - 1 \in 1..n - 1 /\ j + 1 \in 1..n - i + 1 /\ i + (j + 1) - 1 = (i + j - 1) + 1
          BY <2>2, <3>2, <4>2
        <5>2. path[(i + j - 1) + 1].at \in Adjacent(lineage, path[i + j - 1].at)
          BY <2>1, <5>1 DEF PathOK
        <5> QED
          BY <3>6, <5>1, <5>2
      <4> QED
        BY <4>1, <4>2
    <3>8. IsCycle(lineage, cycle')
      BY <2>2, <3>2, <3>6, <3>7 DEF IsCycle
    <3> QED
      BY <2>2, <3>3, <3>8
  <2>6. CASE ~IsActive(next)
    <3>1. PICK rest : rest = Append(Popped, [Top EXCEPT !.left = @ \ {next}])
      OBVIOUS
    <3>2. /\ path' = IF next \in explored THEN rest ELSE Append(rest, Frame(next))
          /\ UNCHANGED <<phase, cycle>>
      BY <1>3, <2>3, <2>6, <3>1 DEF VisitTarget
    <3>3. /\ Len(rest) = n /\ DOMAIN rest = 1..n
          /\ \A i \in 1..n - 1 : rest[i] = path[i]
          /\ rest[n] = [Top EXCEPT !.left = @ \ {next}]
      BY <2>1, <2>2, <3>1 DEF Popped
    <3>4. /\ \A i \in 1..n : /\ DOMAIN rest[i] = {"at", "left"} /\ rest[i].at = path[i].at
                             /\ rest[i].left \subseteq path[i].left
          /\ rest[n].left = path[n].left \ {next}
      BY <2>1, <2>2, <3>3 DEF PathOK
    <3>5. \A i \in 1..n : path[i].at # next
      BY <2>2, <2>6 DEF IsActive
    <3>6. CASE next \in explored
      <4>1. PathOK(lineage, rest, explored)
        BY <2>1, <2>2, <3>3, <3>4, <3>6 DEF PathOK
      <4> QED
        BY <2>2, <3>2, <3>6, <4>1
    <3>7. CASE next \notin explored
      <4>1. PICK more : more = Append(rest, Frame(next))
        OBVIOUS
      <4>2. /\ Len(more) = n + 1 /\ DOMAIN more = 1..n + 1
            /\ \A i \in 1..n : more[i] = rest[i]
            /\ more[n + 1] = Frame(next)
        BY <2>2, <3>3, <4>1
      <4>3. PathOK(lineage, more, explored)
        <5>1. ASSUME NEW i \in 1..n + 1
              PROVE  /\ DOMAIN more[i] = {"at", "left"}
                     /\ more[i].at \in Credential \ explored /\ more[i].left \subseteq Adjacent(lineage, more[i].at)
                     /\ \A c \in Adjacent(lineage, more[i].at) \ more[i].left :
                          c \in explored \/ (i < n + 1 /\ c = more[i + 1].at)
          <6>1. CASE i = n + 1
            BY <2>2, <2>4, <3>7, <4>2, <6>1 DEF Frame
          <6>2. CASE i = n
            BY <2>1, <2>2, <2>4, <3>4, <4>2, <6>2 DEF PathOK, Frame
          <6>3. CASE i \in 1..n - 1
            BY <2>1, <2>2, <3>3, <3>4, <4>2, <6>3 DEF PathOK
          <6> QED
            BY <2>2, <6>1, <6>2, <6>3
        <5>2. ASSUME NEW i \in 1..n PROVE more[i + 1].at \in Adjacent(lineage, more[i].at)
          <6>1. CASE i = n
            BY <2>2, <2>4, <3>4, <4>2, <6>1 DEF Frame
          <6>2. CASE i \in 1..n - 1
            BY <2>1, <2>2, <3>4, <4>2, <6>2 DEF PathOK
          <6> QED
            BY <2>2, <6>1, <6>2
        <5>3. \A j, k \in 1..n + 1 : more[j].at = more[k].at => j = k
          BY <2>1, <2>2, <3>4, <3>5, <4>2 DEF PathOK, Frame
        <5> QED
          BY <2>2, <4>2, <5>1, <5>2, <5>3 DEF PathOK
      <4> QED
        BY <2>2, <3>2, <3>7, <4>1, <4>3
    <3> QED
      BY <3>6, <3>7
  <2> QED
    BY <2>5, <2>6
<1>4. CASE LeaveCredential
  <2>1. PICK n : n = Len(path)
    OBVIOUS
  <2>2. PICK c : c = Top.at
    OBVIOUS
  <2>3. /\ n \in Nat \ {0} /\ DOMAIN path = 1..n /\ Top = path[n] /\ Top.left = {}
        /\ path' = Popped /\ explored' = explored \cup {c}
        /\ phase = "search" /\ UNCHANGED <<lineage, phase, cycle, report, graph>>
    BY <1>4, <2>1, <2>2 DEF LeaveCredential, Top, PathOK
  <2>4. c \in Credential \ explored /\ Adjacent(lineage, c) \subseteq explored
    BY <2>1, <2>2, <2>3 DEF PathOK
  <2>5. ExploredOK(lineage, explored \cup {c})
    BY <2>4, ExploredGrows
  <2>6. PICK rest : rest = Popped
    OBVIOUS
  <2>7. Len(rest) = n - 1 /\ DOMAIN rest = 1..n - 1 /\ \A i \in 1..n - 1 : rest[i] = path[i]
    BY <2>1, <2>3, <2>6 DEF Popped
  <2>8. PathOK(lineage, rest, explored \cup {c})
    <3>1. ASSUME NEW i \in 1..n - 1
          PROVE  /\ rest[i].at \in Credential \ (explored \cup {c})
                 /\ \A d \in Adjacent(lineage, rest[i].at) \ rest[i].left :
                      d \in explored \cup {c} \/ (i < n - 1 /\ d = rest[i + 1].at)
      BY <2>1, <2>2, <2>3, <2>7 DEF PathOK
    <3> QED
      BY <2>1, <2>3, <2>7, <3>1 DEF PathOK
  <2> QED
    BY <2>3, <2>5, <2>6, <2>8
<1>5. CASE BuildReport
  BY <1>5 DEF BuildReport
<1>6. CASE Project
  BY <1>6 DEF Project
<1> QED
  BY <1>1, <1>2, <1>3, <1>4, <1>5, <1>6 DEF LineageNext

(* The search keeps credentials on its path, with credentials that are left *)
(* on each, and tells one cycle of them.                                    *)
Framed == [at : Credential, left : SUBSET Credential]
SearchTyped == path \in Seq(Framed) /\ cycle \in Seq(Credential)

LEMMA SearchBegins == Unsearched => SearchTyped
BY DEF Unsearched, SearchTyped

LEMMA SearchTold == LineageInv /\ SearchTyped => LineageTypeOK
BY DEF LineageInv, ExploredOK, SearchTyped, Framed, LineageTypeOK

LEMMA FramesOfCredentials ==
  ASSUME IsLineage(lineage), NEW c \in Credential
  PROVE  Frame(c) \in Framed
BY AdjacentIsCredential DEF Frame, Framed

LEMMA SearchStaysTyped ==
  LineageInv /\ SearchTyped /\ [LineageNext]_lineageVars => SearchTyped'
<1> SUFFICES ASSUME LineageInv, SearchTyped, [LineageNext]_lineageVars PROVE SearchTyped'
  OBVIOUS
<1>1. /\ IsLineage(lineage) /\ path \in Seq(Framed) /\ cycle \in Seq(Credential)
      /\ Len(path) \in Nat /\ DOMAIN path = 1..Len(path) /\ \A i \in 1..Len(path) : path[i] \in Framed
  BY LenProperties DEF LineageInv, SearchTyped, PathOK
<1>2. CASE UNCHANGED lineageVars
  BY <1>2 DEF lineageVars, SearchTyped
<1>3. CASE VisitRoot
  <2> DEFINE left == {h.from : h \in lineage.hops} \ explored
  <2>1. left \in SUBSET Credential
    BY <1>1 DEF IsLineage, Hop
  <2>2. CASE left = {}
    BY <1>3, <2>2 DEF VisitRoot, SearchTyped
  <2>3. CASE left # {}
    <3>1. PICK c : c = First(left)
      OBVIOUS
    <3>2. c \in Credential
      BY <2>1, <2>3, <3>1, FirstIsIn
    <3>3. path' = <<Frame(c)>> /\ cycle' = cycle
      BY <1>3, <2>3, <3>1 DEF VisitRoot
    <3> QED
      BY <1>1, <3>2, <3>3, FramesOfCredentials DEF SearchTyped
  <2> QED
    BY <2>2, <2>3
<1>4. path # <<>> => Len(path) \in 1..Len(path) /\ Popped \in Seq(Framed) /\ Top \in Framed
  <2> SUFFICES ASSUME path # <<>> PROVE Len(path) \in 1..Len(path) /\ Popped \in Seq(Framed) /\ Top \in Framed
    OBVIOUS
  <2>1. Len(path) \in 1..Len(path)
    BY <1>1, EmptySeq
  <2>2. Popped \in Seq(Framed)
    BY <1>1, <2>1, SubSeqProperties DEF Popped
  <2> QED
    BY <1>1, <2>1, <2>2 DEF Top
<1>5. CASE VisitTarget
  <2>1. path # <<>> /\ Top.left # {} /\ Top.left \subseteq Credential
    BY <1>4, <1>5 DEF VisitTarget, Framed
  <2>2. PICK next : next = First(Top.left)
    OBVIOUS
  <2>3. next \in Credential
    BY <2>1, <2>2, FirstIsIn
  <2>4. CASE IsActive(next)
    <3>1. PICK i : i = CHOOSE k \in DOMAIN path : path[k].at = next
      OBVIOUS
    <3>2. i \in 1..Len(path)
      BY <1>1, <2>4, <3>1 DEF IsActive
    <3>3. cycle' = Append(SubSeq(Active, i, Len(path)), next) /\ path' = path
      BY <1>5, <2>2, <2>4, <3>1 DEF VisitTarget
    <3>4. Active \in Seq(Credential) /\ Len(Active) = Len(path)
      BY <1>1 DEF Active, Framed
    <3>5. SubSeq(Active, i, Len(path)) \in Seq(Credential)
      BY <1>1, <3>2, <3>4
    <3> QED
      BY <1>1, <2>3, <3>3, <3>5, AppendProperties DEF SearchTyped
  <2>5. CASE ~IsActive(next)
    <3>1. PICK top : top = [Top EXCEPT !.left = @ \ {next}]
      OBVIOUS
    <3>2. top \in Framed
      BY <1>4, <2>1, <3>1 DEF Framed
    <3>3. /\ path' = IF next \in explored THEN Append(Popped, top) ELSE Append(Append(Popped, top), Frame(next))
          /\ cycle' = cycle
      BY <1>5, <2>2, <2>5, <3>1 DEF VisitTarget
    <3>4. Append(Popped, top) \in Seq(Framed)
      BY <1>4, <2>1, <3>2, AppendProperties
    <3>5. Append(Append(Popped, top), Frame(next)) \in Seq(Framed)
      BY <1>1, <2>3, <3>4, AppendProperties, FramesOfCredentials
    <3> QED
      BY <1>1, <3>3, <3>4, <3>5 DEF SearchTyped
  <2> QED
    BY <2>4, <2>5
<1>6. CASE LeaveCredential
  BY <1>1, <1>4, <1>6 DEF LeaveCredential, SearchTyped
<1>7. CASE BuildReport
  BY <1>7 DEF BuildReport, SearchTyped
<1>8. CASE Project
  BY <1>8 DEF Project, SearchTyped
<1> QED
  BY <1>2, <1>3, <1>5, <1>6, <1>7, <1>8 DEF LineageNext

(* What a record has for who and what a lineage names.                      *)
KnownCredentials(x) == x.credentials \cup CredentialsNamed(x)
KnownPrincipals(x) == x.principals \cup PrincipalsNamed(x)

LEMMA NodesOfLineage ==
  ASSUME NEW x, IsLineage(x), NEW g, g = GraphOf(x, ReportOf(x))
  PROVE  /\ \A h \in x.hops : h.from \in KnownCredentials(x) /\ h.to \in KnownCredentials(x)
                              /\ h.source \in KnownPrincipals(x) /\ h.target \in KnownPrincipals(x)
         /\ \A p \in x.shown : p.credential \in KnownCredentials(x) /\ p.presenter \in KnownPrincipals(x)
         /\ KnownCredentials(x) \subseteq Credential
         /\ g.nodes = {CredentialNode(x, c) : c \in KnownCredentials(x)}
                        \cup {PrincipalNode(x, p) : p \in KnownPrincipals(x)}
<1>c. PICK credentials : credentials = KnownCredentials(x)
  OBVIOUS
<1>p. PICK principals : principals = KnownPrincipals(x)
  OBVIOUS
<1>1. /\ x.credentials \cup ReportOf(x).missingCredentials = credentials
      /\ x.principals \cup ReportOf(x).missingPrincipals = principals
  BY <1>c, <1>p DEF ReportOf, KnownCredentials, KnownPrincipals
<1>2. g.nodes = {CredentialNode(x, c) : c \in credentials} \cup {PrincipalNode(x, p) : p \in principals}
  BY <1>1 DEF GraphOf
<1>3. credentials \subseteq Credential
  BY <1>c DEF KnownCredentials, CredentialsNamed, IsLineage, Hop, Presentation
<1>4. /\ \A h \in x.hops : h.from \in credentials /\ h.to \in credentials
      /\ \A p \in x.shown : p.credential \in credentials
  BY <1>c DEF KnownCredentials, CredentialsNamed
<1>5. /\ \A h \in x.hops : h.source \in principals /\ h.target \in principals
      /\ \A p \in x.shown : p.presenter \in principals
  BY <1>p DEF KnownPrincipals, PrincipalsNamed
<1> QED
  BY <1>c, <1>p, <1>2, <1>3, <1>4, <1>5

LEMMA RecordsAreWhole ==
  ASSUME NEW x, IsLineage(x), NEW g, g = GraphOf(x, ReportOf(x))
  PROVE  /\ IsRecord(g)
         /\ g.nodes = {} => x.credentials \cup x.principals = {} /\ x.hops \cup x.shown = {}
<1>1. PICK credentials : credentials = KnownCredentials(x)
  OBVIOUS
<1>2. PICK principals : principals = KnownPrincipals(x)
  OBVIOUS
<1>3. /\ \A h \in x.hops : h.from \in credentials /\ h.to \in credentials
                           /\ h.source \in principals /\ h.target \in principals
      /\ \A p \in x.shown : p.credential \in credentials /\ p.presenter \in principals
      /\ g.nodes = {CredentialNode(x, c) : c \in credentials} \cup {PrincipalNode(x, p) : p \in principals}
  BY <1>1, <1>2, NodesOfLineage
<1>4. ASSUME NEW e \in g.edges PROVE e.from \in g.nodes /\ e.to \in g.nodes
  <2>1. e \in EdgesOf(x)
    BY DEF GraphOf
  <2>2. \/ e.from \in {CredentialNode(x, c) : c \in credentials}
        \/ e.from \in {PrincipalNode(x, p) : p \in principals}
    BY <1>3, <2>1 DEF EdgesOf, Edge
  <2>3. \/ e.to \in {CredentialNode(x, c) : c \in credentials}
        \/ e.to \in {PrincipalNode(x, p) : p \in principals}
    BY <1>3, <2>1 DEF EdgesOf, Edge
  <2> QED
    BY <1>3, <2>2, <2>3
<1>5. ASSUME g.nodes = {} PROVE x.credentials \cup x.principals = {} /\ x.hops \cup x.shown = {}
  <2>1. credentials = {} /\ principals = {}
    BY <1>3, <1>5
  <2> QED
    BY <1>1, <1>2, <1>3, <2>1 DEF KnownCredentials, KnownPrincipals
<1> QED
  BY <1>4, <1>5 DEF IsRecord

(* Authority flows in a record as it does along the hops.                   *)
LEMMA FlowFollowsHops ==
  ASSUME NEW x, IsLineage(x), NEW g, g = GraphOf(x, ReportOf(x)),
         NEW m \in g.nodes, NEW n \in g.nodes
  PROVE  Reaches(AuthorityFlow(g), g.nodes, m, n) <=>
           /\ n.type = "credential"
           /\ \/ m.type = "credential" /\ Delegates(x, m.id, n.id)
              \/ /\ m.type = "principal"
                 /\ \E h \in x.hops : h.source = m.id /\ (h.to = n.id \/ Delegates(x, h.to, n.id))
<1>1. PICK credentials : credentials = KnownCredentials(x)
  OBVIOUS
<1>2. PICK principals : principals = KnownPrincipals(x)
  OBVIOUS
<1>3. /\ \A h \in x.hops : h.from \in credentials /\ h.to \in credentials
                           /\ h.source \in principals /\ h.target \in principals
      /\ credentials \subseteq Credential
  BY <1>1, <1>2, NodesOfLineage
<1>4. g.nodes = {CredentialNode(x, c) : c \in credentials} \cup {PrincipalNode(x, p) : p \in principals}
  BY <1>1, <1>2, NodesOfLineage
<1>f. PICK flow : flow = AuthorityFlow(g)
  OBVIOUS
<1>5. /\ \A c : CredentialNode(x, c).type = "credential" /\ CredentialNode(x, c).id = c
      /\ \A p : PrincipalNode(x, p).type = "principal" /\ PrincipalNode(x, p).id = p
  BY DEF CredentialNode, PrincipalNode, LineageNode
<1>7. /\ \A k \in g.nodes : k.type = "credential" => k.id \in credentials /\ k = CredentialNode(x, k.id)
      /\ \A k \in g.nodes : k.type = "principal" => k.id \in principals /\ k = PrincipalNode(x, k.id)
      /\ \A k \in g.nodes : k.type \in {"credential", "principal"}
  BY <1>4, <1>5
<1>6. g.edges = EdgesOf(x)
  BY DEF GraphOf
<1>8. \A e \in flow :
        \E h \in x.hops : /\ e[2] = CredentialNode(x, h.to)
                          /\ e[1] = CredentialNode(x, h.from) \/ e[1] = PrincipalNode(x, h.source)
  BY <1>6, <1>f DEF AuthorityFlow, EdgesOf, Edge
<1>9. ASSUME NEW h \in x.hops
      PROVE  /\ <<CredentialNode(x, h.from), CredentialNode(x, h.to)>> \in flow
             /\ <<PrincipalNode(x, h.source), CredentialNode(x, h.to)>> \in flow
  <2>1. PICK e : e = Edge(CredentialNode(x, h.from), CredentialNode(x, h.to), "delegated_authority")
    OBVIOUS
  <2>2. PICK d : d = Edge(PrincipalNode(x, h.source), CredentialNode(x, h.to), "delegated_authority")
    OBVIOUS
  <2>3. e \in g.edges /\ d \in g.edges
    BY <1>6, <2>1, <2>2 DEF EdgesOf
  <2>4. /\ e.relationship = "delegated_authority" /\ d.relationship = "delegated_authority"
        /\ e.from = CredentialNode(x, h.from) /\ e.to = CredentialNode(x, h.to)
        /\ d.from = PrincipalNode(x, h.source) /\ d.to = CredentialNode(x, h.to)
    BY <2>1, <2>2 DEF Edge
  <2>5. <<e.from, e.to>> \in flow /\ <<d.from, d.to>> \in flow
    BY <1>f, <2>3, <2>4 DEF AuthorityFlow
  <2> QED
    BY <2>4, <2>5
<1>10. ASSUME Reaches(flow, g.nodes, m, n)
       PROVE  /\ n.type = "credential"
              /\ \/ m.type = "credential" /\ Delegates(x, m.id, n.id)
                 \/ /\ m.type = "principal"
                    /\ \E h \in x.hops : h.source = m.id /\ (h.to = n.id \/ Delegates(x, h.to, n.id))
  <2>1. n.type = "credential"
    <3>1. PICK S : S = {CredentialNode(x, c) : c \in credentials}
      OBVIOUS
    <3>2. S \in SUBSET g.nodes /\ \A e \in flow : e[2] \in S
      BY <1>3, <1>4, <1>8, <3>1
    <3>3. n \in S
      BY <1>10, <3>2 DEF Reaches
    <3> QED
      BY <1>5, <3>1, <3>3
  <2>2. CASE m.type = "credential"
    <3>1. ASSUME NEW S \in SUBSET Credential,
                 \A e \in Delegations(x) : e[1] \in S \cup {m.id} => e[2] \in S
          PROVE  n.id \in S
      <4>1. PICK T : T = {CredentialNode(x, c) : c \in S \cap credentials}
        OBVIOUS
      <4>2. T \in SUBSET g.nodes
        BY <1>4, <4>1
      <4>3. ASSUME NEW e \in flow, e[1] \in T \cup {m} PROVE e[2] \in T
        <5>1. PICK h \in x.hops : /\ e[2] = CredentialNode(x, h.to)
                                  /\ e[1] = CredentialNode(x, h.from) \/ e[1] = PrincipalNode(x, h.source)
          BY <1>8
        <5>2. e[1].type = "credential" /\ e[1].id \in S \cup {m.id}
          BY <1>5, <2>2, <4>1, <4>3
        <5>3. h.from \in S \cup {m.id}
          BY <1>5, <5>1, <5>2
        <5>d. <<h.from, h.to>> \in Delegations(x)
          BY DEF Delegations
        <5>4. h.to \in S
          BY <3>1, <5>3, <5>d
        <5> QED
          BY <1>3, <4>1, <5>1, <5>4
      <4>4. n \in T
        BY <1>10, <4>2, <4>3 DEF Reaches
      <4> QED
        BY <1>5, <4>1, <4>4
    <3> QED
      BY <2>1, <2>2, <3>1 DEF Delegates, Reaches
  <2>3. CASE m.type = "principal"
    <3>1. PICK T : T = {c \in credentials :
                          \E h \in x.hops : h.source = m.id /\ (h.to = c \/ Delegates(x, h.to, c))}
      OBVIOUS
    <3>2. PICK S : S = {CredentialNode(x, c) : c \in T}
      OBVIOUS
    <3>3. S \in SUBSET g.nodes
      BY <1>4, <3>1, <3>2
    <3>4. ASSUME NEW e \in flow, e[1] \in S \cup {m} PROVE e[2] \in S
      <4>1. PICK h \in x.hops : /\ e[2] = CredentialNode(x, h.to)
                                /\ e[1] = CredentialNode(x, h.from) \/ e[1] = PrincipalNode(x, h.source)
        BY <1>8
      <4>2. CASE e[1] = m
        <5>1. h.source = m.id
          BY <1>5, <2>3, <4>1, <4>2
        <5>2. h.to \in T
          BY <1>3, <3>1, <5>1
        <5> QED
          BY <3>2, <4>1, <5>2
      <4>3. CASE e[1] \in S
        <5>1. h.from \in T
          BY <1>5, <3>2, <4>1, <4>3
        <5>2. PICK k \in x.hops : k.source = m.id /\ (k.to = h.from \/ Delegates(x, k.to, h.from))
          BY <3>1, <5>1
        <5>3. <<h.from, h.to>> \in Delegations(x)
          BY DEF Delegations
        <5>4. Delegates(x, k.to, h.to)
          <6>1. ASSUME NEW R \in SUBSET Credential,
                       \A d \in Delegations(x) : d[1] \in R \cup {k.to} => d[2] \in R
                PROVE  h.to \in R
            <7>1. h.from \in R \cup {k.to}
              BY <5>2, <6>1 DEF Delegates, Reaches
            <7> QED
              BY <5>3, <6>1, <7>1
          <6> QED
            BY <6>1 DEF Delegates, Reaches
        <5>5. h.to \in T
          BY <1>3, <3>1, <5>2, <5>4
        <5> QED
          BY <3>2, <4>1, <5>5
      <4> QED
        BY <3>4, <4>2, <4>3
    <3>5. n \in S
      BY <1>10, <3>3, <3>4 DEF Reaches
    <3>6. n.id \in T
      BY <1>5, <3>2, <3>5
    <3> QED
      BY <2>1, <2>3, <3>1, <3>6
  <2> QED
    BY <1>7, <2>2, <2>3
<1>11. ASSUME n.type = "credential",
              \/ m.type = "credential" /\ Delegates(x, m.id, n.id)
              \/ /\ m.type = "principal"
                 /\ \E h \in x.hops : h.source = m.id /\ (h.to = n.id \/ Delegates(x, h.to, n.id)),
              NEW S \in SUBSET g.nodes, \A e \in flow : e[1] \in S \cup {m} => e[2] \in S
       PROVE  n \in S
  <2>1. PICK T : T = {c \in credentials : CredentialNode(x, c) \in S}
    OBVIOUS
  <2>2. T \in SUBSET Credential
    BY <1>3, <2>1
  <2>3. n = CredentialNode(x, n.id) /\ n.id \in credentials
    BY <1>7, <1>11
  <2>4. ASSUME NEW c, c \in T \/ CredentialNode(x, c) = m,
               NEW d \in Delegations(x), d[1] \in T \cup {c}
        PROVE  d[2] \in T
    <3>1. PICK h \in x.hops : d = <<h.from, h.to>>
      BY DEF Delegations
    <3>2. CredentialNode(x, h.from) \in S \cup {m}
      BY <2>1, <2>4, <3>1
    <3>3. CredentialNode(x, h.to) \in S
      BY <1>9, <1>11, <3>2
    <3> QED
      BY <1>3, <2>1, <3>1, <3>3
  <2>5. ASSUME NEW c, c \in T \/ CredentialNode(x, c) = m, Delegates(x, c, n.id)
        PROVE  n \in S
    <3>1. n.id \in T
      BY <2>2, <2>4, <2>5 DEF Delegates, Reaches
    <3> QED
      BY <2>1, <2>3, <3>1
  <2>6. CASE m.type = "credential" /\ Delegates(x, m.id, n.id)
    <3>1. CredentialNode(x, m.id) = m
      BY <1>7, <2>6
    <3> QED
      BY <2>5, <2>6, <3>1
  <2>7. CASE /\ m.type = "principal"
             /\ \E h \in x.hops : h.source = m.id /\ (h.to = n.id \/ Delegates(x, h.to, n.id))
    <3>1. PICK h \in x.hops : h.source = m.id /\ (h.to = n.id \/ Delegates(x, h.to, n.id))
      BY <2>7
    <3>2. PrincipalNode(x, h.source) = m
      BY <1>7, <2>7, <3>1
    <3>3. CredentialNode(x, h.to) \in S
      BY <1>9, <1>11, <3>2
    <3>4. h.to \in T
      BY <1>3, <2>1, <3>3
    <3>5. CASE h.to = n.id
      BY <2>3, <3>3, <3>5
    <3>6. CASE Delegates(x, h.to, n.id)
      BY <2>5, <3>4, <3>6
    <3> QED
      BY <3>1, <3>5, <3>6
  <2> QED
    BY <1>11, <2>6, <2>7
<1> QED
  BY <1>f, <1>10, <1>11 DEF Reaches

LEMMA LineageTold == LineageInv => LineageExact
<1> SUFFICES ASSUME LineageInv PROVE LineageExact
  OBVIOUS
<1>1. CyclesFound
  <2>1. ASSUME phase \notin {"search", "refused"}, NEW S \in SUBSET Credential, S # {}
        PROVE  \E c \in S : Adjacent(lineage, c) \cap S = {}
    <3>1. CASE S \subseteq explored
      BY <2>1, <3>1 DEF LineageInv, ExploredOK
    <3>2. CASE \E c \in S : c \notin explored
      <4>1. PICK c \in S : c \notin explored
        BY <3>2
      <4>2. Adjacent(lineage, c) = {}
        BY <2>1, <4>1 DEF LineageInv, Adjacent
      <4> QED
        BY <4>2
    <3> QED
      BY <3>1, <3>2
  <2> QED
    BY <2>1 DEF LineageInv, CyclesFound, IsCycle
<1>2. AuthorityFromHops
  <2>1. phase = "projected" => IsLineage(lineage) /\ graph = GraphOf(lineage, ReportOf(lineage))
    BY DEF LineageInv
  <2> QED
    BY <2>1, FlowFollowsHops DEF AuthorityFromHops
<1>3. RecordsMade
  BY RecordsAreWhole DEF LineageInv, RecordsMade
<1>4. ASSUME phase \in {"reported", "projected"}, NEW scope \in Scope,
             NEW quiet, quiet = {h \in lineage.hops : /\ TokenScopes(lineage, h.from) # {}
                                                      /\ TokenScopes(lineage, h.to) # {}
                                                      /\ scope \notin report.added[h]},
             NEW c \in Credential, NEW d \in Credential,
             Reaches({<<h.from, h.to>> : h \in quiet}, Credential, c, d),
             scope \in TokenScopes(lineage, d)
      PROVE  scope \in TokenScopes(lineage, c)
  <2>1. \A h \in lineage.hops : report.added[h] = Added(lineage, h)
    BY <1>4 DEF LineageInv, ReportOf
  <2>2. \A h \in quiet : scope \in TokenScopes(lineage, h.to) => scope \in TokenScopes(lineage, h.from)
    BY <1>4, <2>1 DEF Added
  <2>3. SUFFICES ASSUME scope \notin TokenScopes(lineage, c) PROVE FALSE
    OBVIOUS
  <2>4. PICK S : S = {k \in Credential : scope \notin TokenScopes(lineage, k)}
    OBVIOUS
  <2>5. \A h \in quiet : h.from \in S \cup {c} => h.to \in S
    BY <1>4, <2>2, <2>3, <2>4 DEF LineageInv, IsLineage, Hop
  <2>6. d \in S
    BY <1>4, <2>4, <2>5 DEF Reaches
  <2> QED
    BY <1>4, <2>4, <2>6
<1>5. ScopesTraced
  BY <1>4 DEF ScopesTraced
<1> QED
  BY <1>1, <1>2, <1>3, <1>5 DEF LineageExact

(* Hops are refused just when they are cyclic, and the cycle that is told   *)
(* is one; in the execution record authority flows along the hops and along *)
(* nothing else; every lineage that says anything has a record; and a scope *)
(* that a chain gains is told.  For any number of credentials, principals,  *)
(* scopes and hops, however their chains join, part and close.              *)
THEOREM LineageAlwaysExact == LineageSpec => [](LineageTypeOK /\ LineageExact)
<1>1. LineageInit => SearchTyped
  BY SearchBegins DEF LineageInit
<1> QED
  BY <1>1, LineageBegins, LineageGoesOn, LineageTold, SearchStaysTyped, SearchTold, PTL DEF LineageSpec

------------------------------------------------------------------------------
(* Telemetry.                                                               *)

(* A set of numbers that each of its members but the last leads on in.      *)
LEMMA Onward ==
  ASSUME NEW S, NEW n \in Nat, 0 \in S, \A k \in 1..n : k - 1 \in S => k \in S
  PROVE  \A k \in 0..n : k \in S
<1> DEFINE bad == {k \in 0..n : k \notin S}
<1>1. SUFFICES ASSUME bad # {} PROVE FALSE
  OBVIOUS
<1>2. PICK i \in bad : \A j \in bad : i <= j
  <2>1. bad \in SUBSET Nat
    OBVIOUS
  <2> HIDE DEF bad
  <2> QED
    BY <1>1, <2>1, FirstLeast
<1>3. i \in 1..n /\ i - 1 \in 0..n
  OBVIOUS
<1>4. i - 1 \in S
  BY <1>2, <1>3
<1> QED
  BY <1>3, <1>4

(* The steps from spans to their parents.                                   *)
StepsOf(parent) == {<<s, parent[s]>> : s \in DOMAIN parent}

(* Who is its own ancestor is among others with parents who lead to it.     *)
LEMMA AncestorsStay ==
  ASSUME NEW D \in SUBSET Span, NEW parent \in [D -> Span], NEW s \in Span,
         OwnAncestor(StepsOf(parent), s)
  PROVE  \E Q \in SUBSET D : s \in Q /\ \A x \in Q : parent[x] \in Q
<1> DEFINE Leads(x) ==
      \A S \in SUBSET Span : (\A e \in StepsOf(parent) : e[1] \in S \cup {x} => e[2] \in S) => s \in S
           Q == {x \in Span : Leads(x)}
<1>1. s \in Q
  BY DEF OwnAncestor
<1>2. ASSUME NEW x \in Q PROVE x \in D
  <2>1. SUFFICES ASSUME x \notin D PROVE FALSE
    OBVIOUS
  <2>2. \A e \in StepsOf(parent) : ~(e[1] \in {} \cup {x})
    BY <2>1 DEF StepsOf
  <2>3. {} \in SUBSET Span /\ Leads(x)
    OBVIOUS
  <2> QED
    BY <2>2, <2>3
<1>3. ASSUME NEW x \in Q PROVE parent[x] \in Q
  <2>1. x \in D /\ parent[x] \in Span /\ Leads(x)
    BY <1>2
  <2>2. SUFFICES ASSUME parent[x] # s, NEW S \in SUBSET Span,
                        \A e \in StepsOf(parent) : e[1] \in S \cup {parent[x]} => e[2] \in S
                 PROVE  s \in S
    BY <1>1, <2>1
  <2>3. S \cup {parent[x]} \in SUBSET Span
    BY <2>1
  <2>4. \A e \in StepsOf(parent) : e[1] \in (S \cup {parent[x]}) \cup {x} => e[2] \in S \cup {parent[x]}
    BY <2>1, <2>2 DEF StepsOf
  <2>5. s \in S \cup {parent[x]}
    BY <2>1, <2>3, <2>4
  <2> QED
    BY <2>2, <2>5
<1> QED
  BY <1>1, <1>2, <1>3

LEMMA WalksExist ==
  ASSUME NEW D, NEW parent \in [D -> Span], NEW Q \in SUBSET D, Q # {},
         \A x \in Q : parent[x] \in Q, NEW n \in Nat
  PROVE  \E w \in Walks(parent, n) : w[n] \in Q
<1> DEFINE S == {k \in 0..n : \E w \in Walks(parent, k) : w[k] \in Q}
<1>1. 0 \in S
  <2>1. PICK x \in Q : TRUE
    OBVIOUS
  <2>2. [k \in 0..0 |-> x] \in Walks(parent, 0)
    BY DEF Walks
  <2> QED
    BY <2>2
<1>2. ASSUME NEW k \in 1..n, k - 1 \in S PROVE k \in S
  <2>1. PICK w \in Walks(parent, k - 1) : w[k - 1] \in Q
    BY <1>2
  <2>2. w \in [0..(k - 1) -> D] /\ \A j \in 1..(k - 1) : w[j] = parent[w[j - 1]]
    BY <2>1 DEF Walks
  <2> DEFINE v == [j \in 0..k |-> IF j < k THEN w[j] ELSE parent[w[k - 1]]]
  <2>3. v \in [0..k -> D]
    BY <2>1, <2>2
  <2>4. \A j \in 1..k : v[j] = parent[v[j - 1]]
    BY <2>2
  <2>5. v[k] \in Q
    BY <2>1
  <2>6. v \in Walks(parent, k)
    BY <2>3, <2>4 DEF Walks
  <2> QED
    BY <2>5, <2>6
<1>3. n \in S
  <2> HIDE DEF S
  <2> QED
    BY <1>1, <1>2, Onward
<1> QED
  BY <1>3

(* A walk that is longer than there are spans comes back to one of them.    *)
LEMMA LongWalksReturn ==
  ASSUME NEW D \in SUBSET Span, NEW parent \in [D -> Span],
         IsFiniteSet(D), NEW w \in Walks(parent, Cardinality(D))
  PROVE  \E s \in Span : OwnAncestor(StepsOf(parent), s)
<1> DEFINE n == Cardinality(D)
<1>1. n \in Nat
  BY FS_CardinalityType
<1>2. w \in [0..n -> D] /\ \A k \in 1..n : w[k] = parent[w[k - 1]]
  BY DEF Walks
<1>3. IsFiniteSet(0..n) /\ Cardinality(0..n) = n + 1
  BY <1>1, FS_Interval
<1>4. PICK i, j \in 0..n : i # j /\ w[i] = w[j]
  <2>1. Cardinality(D) < Cardinality(0..n)
    BY <1>1, <1>3
  <2>2. w \in [0..n -> D]
    BY <1>2
  <2> HIDE DEF n
  <2> QED
    BY ONLY IsFiniteSet(D), <1>3, <2>1, <2>2, FS_PigeonHole
<1> HIDE DEF n
<1>5. ASSUME NEW a \in 0..n, NEW b \in 0..n, a < b, w[a] = w[b]
      PROVE  OwnAncestor(StepsOf(parent), w[a])
  <2>1. SUFFICES ASSUME NEW S \in SUBSET Span,
                        \A e \in StepsOf(parent) : e[1] \in S \cup {w[a]} => e[2] \in S
                 PROVE  w[a] \in S
    BY DEF OwnAncestor
  <2>2. \A k \in 1..n : w[k - 1] \in S \cup {w[a]} => w[k] \in S
    <3>1. TAKE k \in 1..n
    <3>2. w[k - 1] \in D /\ <<w[k - 1], w[k]>> \in StepsOf(parent)
      BY <1>1, <1>2, <3>1 DEF StepsOf
    <3> QED
      BY <2>1, <3>2
  <2> DEFINE T == {k \in 0..n : k < a \/ w[k] \in S \cup {w[a]}}
  <2>3. 0 \in T
    BY <1>1, <1>5
  <2>4. \A k \in 1..n : k - 1 \in T => k \in T
    BY <1>1, <2>2
  <2>5. b - 1 \in T
    <3> HIDE DEF T
    <3> QED
      BY <1>1, <1>5, <2>3, <2>4, Onward
  <2> QED
    BY <1>1, <1>5, <2>2, <2>5
<1>6. w[i] \in Span /\ w[j] \in Span
  BY <1>2, <1>4
<1> QED
  BY <1>1, <1>4, <1>5, <1>6

LEMMA CycleExact ==
  ASSUME NEW D \in SUBSET Span, NEW parent \in [D -> Span], IsFiniteSet(D)
  PROVE  Cycle(parent) <=> \E s \in Span : OwnAncestor(StepsOf(parent), s)
<1>1. DOMAIN parent = D /\ Cardinality(D) \in Nat
  BY FS_CardinalityType
<1>2. ASSUME NEW s \in Span, OwnAncestor(StepsOf(parent), s) PROVE Walks(parent, Cardinality(D)) # {}
  <2>1. PICK Q \in SUBSET D : s \in Q /\ \A x \in Q : parent[x] \in Q
    BY <1>2, AncestorsStay
  <2>2. Q # {}
    BY <2>1
  <2> QED
    BY <1>1, <2>1, <2>2, WalksExist
<1>3. ASSUME Walks(parent, Cardinality(D)) # {} PROVE \E s \in Span : OwnAncestor(StepsOf(parent), s)
  BY <1>3, LongWalksReturn
<1> QED
  BY <1>1, <1>2, <1>3 DEF Cycle

(* Imports.                                                                 *)
IsList(s) == Len(s) \in Nat /\ s \in [1..Len(s) -> {s[i] : i \in DOMAIN s}]

LEMMA ListIs ==
  ASSUME NEW n \in Nat, NEW u, DOMAIN u = 1..n, u = [i \in 1..n |-> u[i]]
  PROVE  IsList(u) /\ Len(u) = n
<1> DEFINE S == {u[i] : i \in 1..n}
<1>1. u \in [1..n -> S]
  OBVIOUS
<1>2. u \in Seq(S)
  BY <1>1, SeqDef
<1>3. Len(u) \in Nat /\ DOMAIN u = 1..Len(u)
  BY <1>2, LenProperties
<1>4. Len(u) = n
  BY <1>3
<1> QED
  BY <1>1, <1>4 DEF IsList

LEMMA ListFacts ==
  ASSUME NEW s, IsList(s)
  PROVE  /\ Len(s) \in Nat /\ DOMAIN s = 1..Len(s) /\ s \in Seq(EntriesOf([entries |-> s]))
         /\ s = [i \in 1..Len(s) |-> s[i]]
<1>1. Len(s) \in Nat /\ s \in [1..Len(s) -> {s[i] : i \in DOMAIN s}]
  BY DEF IsList
<1>2. s \in Seq({s[i] : i \in DOMAIN s})
  BY <1>1, SeqDef
<1> QED
  BY <1>1, <1>2 DEF EntriesOf

LEMMA RepeatedIsList ==
  ASSUME NEW s, IsList(s), NEW u \in Repeated(s)
  PROVE  /\ IsList(u) /\ Len(u) = Len(s) + 1
         /\ \A j \in DOMAIN u : \E i \in DOMAIN s : u[j] = s[i]
<1> DEFINE S == EntriesOf([entries |-> s])
<1>1. PICK i \in DOMAIN s : u = Append(s, s[i])
  BY DEF Repeated
<1>2. Len(s) \in Nat /\ DOMAIN s = 1..Len(s) /\ s \in Seq(S)
  BY ListFacts
<1>3. s[i] \in S
  BY DEF EntriesOf
<1>4. /\ Append(s, s[i]) \in Seq(S) /\ Len(u) = Len(s) + 1
      /\ \A j \in 1..Len(s) : u[j] = s[j]
      /\ u[Len(s) + 1] = s[i]
  BY <1>1, <1>2, <1>3, AppendProperties
<1>5. u \in [1..Len(u) -> S]
  BY <1>1, <1>4, LenProperties
<1>6. DOMAIN u = 1..(Len(s) + 1) /\ u = [j \in 1..(Len(s) + 1) |-> u[j]]
  BY <1>4, <1>5
<1>7. IsList(u)
  BY <1>2, <1>6, ListIs
<1>8. \A j \in DOMAIN u : j \in 1..Len(s) \/ j = Len(s) + 1
  BY <1>2, <1>6
<1> QED
  BY <1>2, <1>4, <1>7, <1>8

LEMMA DroppedIsList ==
  ASSUME NEW s, IsList(s), NEW u \in Dropped(s)
  PROVE  /\ IsList(u) /\ Len(u) = Len(s) - 1
         /\ \A j \in DOMAIN u : \E i \in DOMAIN s : u[j] = s[i]
<1>1. PICK i \in DOMAIN s : u = [j \in 1..Len(s) - 1 |-> s[IF j < i THEN j ELSE j + 1]]
  BY DEF Dropped, Without
<1>2. Len(s) \in Nat /\ DOMAIN s = 1..Len(s)
  BY ListFacts
<1>3. Len(s) - 1 \in Nat
  BY <1>2
<1>4. DOMAIN u = 1..(Len(s) - 1) /\ u = [j \in 1..(Len(s) - 1) |-> u[j]]
  BY <1>1
<1>5. IsList(u) /\ Len(u) = Len(s) - 1
  BY <1>3, <1>4, ListIs
<1> QED
  BY <1>1, <1>2, <1>4, <1>5, SMTT(60)

LEMMA SetIsList ==
  ASSUME NEW s, IsList(s), NEW i \in DOMAIN s, NEW x
  PROVE  /\ IsList([s EXCEPT ![i] = x]) /\ Len([s EXCEPT ![i] = x]) = Len(s)
         /\ \A j \in DOMAIN [s EXCEPT ![i] = x] : j \in DOMAIN s /\ [s EXCEPT ![i] = x][j] \in {s[j], x}
<1> DEFINE u == [s EXCEPT ![i] = x]
<1>1. Len(s) \in Nat /\ DOMAIN s = 1..Len(s)
  BY ListFacts
<1>2. DOMAIN u = 1..Len(s) /\ u = [j \in 1..Len(s) |-> u[j]]
  BY <1>1
<1>3. \A j \in DOMAIN u : j \in DOMAIN s /\ u[j] \in {s[j], x}
  BY <1>1
<1> HIDE DEF u
<1>4. IsList(u) /\ Len(u) = Len(s)
  BY <1>1, <1>2, ListIs
<1> QED
  BY <1>3, <1>4 DEF u

LEMMA ListedIsList ==
  ASSUME NEW S, IsFiniteSet(S)
  PROVE  /\ IsList(Listed(S)) /\ Len(Listed(S)) = Cardinality(S)
         /\ \A i \in DOMAIN Listed(S) : Listed(S)[i] \in S
<1> DEFINE n == Cardinality(S)
<1>1. n \in Nat /\ ExistsBijection(1..n, S)
  BY FS_CardinalityType
<1>2. \E s \in [1..n -> S] : \A x \in S : \E i \in 1..n : s[i] = x
  BY <1>1 DEF ExistsBijection, Bijection, Surjection
<1>3. Listed(S) \in [1..n -> S]
  BY <1>2 DEF Listed
<1> HIDE DEF n
<1>4. DOMAIN Listed(S) = 1..n /\ Listed(S) = [i \in 1..n |-> Listed(S)[i]]
  BY <1>3
<1>5. IsList(Listed(S)) /\ Len(Listed(S)) = n
  BY <1>1, <1>4, ListIs
<1> QED
  BY <1>3, <1>4, <1>5 DEF n

IsAdapted(a) ==
  a = [trace |-> a.trace, span |-> a.span, parent |-> a.parent, says |-> a.says,
       raw |-> a.raw, hash |-> a.hash]
IsSpanEntry(x) == x = [adapted |-> x.adapted, context |-> x.context] /\ IsAdapted(x.adapted)
IsLogEntry(x) ==
  x = [trace |-> x.trace, span |-> x.span, says |-> x.says, raw |-> x.raw,
       context |-> x.context, hash |-> x.hash]

TracesImported(r, bound) ==
  /\ r = [at |-> "imported", raw |-> r.raw, entries |-> r.entries, ids |-> r.ids, claims |-> r.claims]
  /\ IsEnvelope(r.raw) /\ IsList(r.entries) /\ Len(r.entries) <= bound
  /\ \A i \in DOMAIN r.entries : IsSpanEntry(r.entries[i])
LogsImported(r, bound) ==
  /\ r = [at |-> "imported", raw |-> r.raw, entries |-> r.entries, claims |-> r.claims]
  /\ IsEnvelope(r.raw) /\ IsList(r.entries) /\ Len(r.entries) <= bound
  /\ \A i \in DOMAIN r.entries : IsLogEntry(r.entries[i])

(* What is concluded is what reconstruction and correlation give now.       *)
Reconstructed(r, t) ==
  IF /\ ValidTraces(r) /\ SpansOf(r, t) # {}
     /\ Distinct(r, t) /\ ~Cycle(ParentOf(SpansOf(r, t)))
  THEN [at |-> "graph", trace |-> t, graph |-> Graph(SpansOf(r, t))]
  ELSE [at |-> "no graph", trace |-> t]
RowsOf(r, l) ==
  {[log |-> l.entries[i].raw, context |-> l.entries[i].context,
    status |-> LinkStatus(l.entries[i], SpanPairs(r))] : i \in DOMAIN l.entries}

ResultOK(r, l, concluded) ==
  /\ concluded.at \in {"nothing", "graph", "no graph", "report"}
  /\ concluded.at \in {"graph", "no graph"} =>
       r # Nothing /\ \E t \in Trace : concluded = Reconstructed(r, t)
  /\ concluded.at = "report" =>
       r # Nothing /\ l # Nothing /\ ValidTraces(r) /\ ValidLogs(l) /\ concluded.rows = RowsOf(r, l)

TelemetryInv ==
  /\ traces = Nothing \/ TracesImported(traces, MaxItems + edits)
  /\ logs = Nothing \/ LogsImported(logs, MaxItems + edits)
  /\ edits \in 0..MaxEdits
  /\ ResultOK(traces, logs, result)

LEMMA SpanChangeShape ==
  ASSUME NEW x, NEW r, NEW y \in ChangedSpan(x, r)
  PROVE  IsSpanEntry(y)
<1>1. PICK g, h, c : y \in {[adapted |-> Hashed(g), context |-> c],
                            [adapted |-> [Hashed(g) EXCEPT !.hash = h], context |-> c]}
  BY DEF ChangedSpan
<1> QED
  BY <1>1 DEF IsSpanEntry, IsAdapted, Hashed

LEMMA LogChangeShape ==
  ASSUME NEW x, NEW r, NEW y \in ChangedLog(x, r)
  PROVE  IsLogEntry(y)
<1>1. PICK item, c, t, s : y = Relabelled(LogRecord(item, c), t, s)
  BY DEF ChangedLog
<1> QED
  BY <1>1 DEF IsLogEntry, LogRecord, Relabelled

LEMMA SwappedIsList ==
  ASSUME NEW s, IsList(s), \A i \in DOMAIN s : IsSpanEntry(s[i]), NEW u \in Swapped(s)
  PROVE  IsList(u) /\ Len(u) = Len(s) /\ \A i \in DOMAIN u : IsSpanEntry(u[i])
<1>1. PICK i \in DOMAIN s, j \in DOMAIN s :
        u = [[s EXCEPT ![i] = Placed(s[i], s[j].context)] EXCEPT ![j] = Placed(s[j], s[i].context)]
  BY DEF Swapped
<1> DEFINE x == Placed(s[i], s[j].context)
           y == Placed(s[j], s[i].context)
           v == [s EXCEPT ![i] = x]
<1>3. IsSpanEntry(x) /\ IsSpanEntry(y)
  BY DEF IsSpanEntry, Placed
<1> HIDE DEF x, y
<1>2. u = [v EXCEPT ![j] = y]
  BY <1>1 DEF x, y
<1>4. IsList(v) /\ Len(v) = Len(s) /\ j \in DOMAIN v /\ \A k \in DOMAIN v : IsSpanEntry(v[k])
  BY <1>3, SetIsList
<1> HIDE DEF v
<1>5. IsList(u) /\ Len(u) = Len(v) /\ \A k \in DOMAIN u : k \in DOMAIN v /\ u[k] \in {v[k], y}
  BY <1>2, <1>4, SetIsList, ZenonT(60)
<1> QED
  BY <1>3, <1>4, <1>5

LEMMA SpansChangeShape ==
  ASSUME NEW r, IsList(r.entries), \A i \in DOMAIN r.entries : IsSpanEntry(r.entries[i]),
         NEW u \in ChangedSpans(r)
  PROVE  IsList(u) /\ Len(u) <= Len(r.entries) + 1 /\ \A i \in DOMAIN u : IsSpanEntry(u[i])
<1> DEFINE s == r.entries
<1>1. Len(s) \in Nat
  BY ListFacts
<1>2. CASE u \in Dropped(s) \cup Repeated(s)
  BY <1>1, <1>2, DroppedIsList, RepeatedIsList
<1>3. CASE u \in Swapped(s)
  BY <1>1, <1>3, SwappedIsList
<1>4. ASSUME NEW i \in DOMAIN s, NEW x \in ChangedSpan(s[i], r), u = [s EXCEPT ![i] = x]
      PROVE  IsList(u) /\ Len(u) <= Len(s) + 1 /\ \A j \in DOMAIN u : IsSpanEntry(u[j])
  <2>1. IsSpanEntry(x)
    BY SpanChangeShape
  <2> QED
    BY <1>1, <1>4, <2>1, SetIsList
<1>5. u \in Dropped(s) \cup Repeated(s) \cup Swapped(s)
        \/ \E i \in DOMAIN s : \E x \in ChangedSpan(s[i], r) : u = [s EXCEPT ![i] = x]
  <2>1. u \in UNION {{[r.entries EXCEPT ![i] = x] : x \in ChangedSpan(r.entries[i], r)} : i \in DOMAIN r.entries}
        => \E i \in DOMAIN s : \E x \in ChangedSpan(s[i], r) : u = [s EXCEPT ![i] = x]
    OBVIOUS
  <2> QED
    BY <2>1 DEF ChangedSpans
<1> QED
  BY <1>2, <1>3, <1>4, <1>5

LEMMA LogsChangeShape ==
  ASSUME NEW r, IsList(r.entries), \A i \in DOMAIN r.entries : IsLogEntry(r.entries[i]),
         NEW u \in ChangedLogs(r)
  PROVE  IsList(u) /\ Len(u) <= Len(r.entries) + 1 /\ \A i \in DOMAIN u : IsLogEntry(u[i])
<1> DEFINE s == r.entries
<1>1. Len(s) \in Nat
  BY ListFacts
<1>2. CASE u \in Dropped(s) \cup Repeated(s)
  BY <1>1, <1>2, DroppedIsList, RepeatedIsList
<1>4. ASSUME NEW i \in DOMAIN s, NEW x \in ChangedLog(s[i], r), u = [s EXCEPT ![i] = x]
      PROVE  IsList(u) /\ Len(u) <= Len(s) + 1 /\ \A j \in DOMAIN u : IsLogEntry(u[j])
  <2>1. IsLogEntry(x)
    BY LogChangeShape
  <2> QED
    BY <1>1, <1>4, <2>1, SetIsList
<1>5. u \in Dropped(s) \cup Repeated(s)
        \/ \E i \in DOMAIN s : \E x \in ChangedLog(s[i], r) : u = [s EXCEPT ![i] = x]
  <2>1. u \in UNION {{[r.entries EXCEPT ![i] = x] : x \in ChangedLog(r.entries[i], r)} : i \in DOMAIN r.entries}
        => \E i \in DOMAIN s : \E x \in ChangedLog(s[i], r) : u = [s EXCEPT ![i] = x]
    OBVIOUS
  <2> QED
    BY <2>1 DEF ChangedLogs
<1> QED
  BY <1>2, <1>4, <1>5

LEMMA EntriesAreFew ==
  ASSUME NEW e, IsEnvelope(e)
  PROVE  /\ IsFiniteSet({SpanEntry(e, p) : p \in DOMAIN e.items})
         /\ Cardinality({SpanEntry(e, p) : p \in DOMAIN e.items}) <= Cardinality(DOMAIN e.items)
         /\ IsFiniteSet({LogEntry(e, p) : p \in DOMAIN e.items})
         /\ Cardinality({LogEntry(e, p) : p \in DOMAIN e.items}) <= Cardinality(DOMAIN e.items)
         /\ Cardinality(DOMAIN e.items) \in Nat
<1> DEFINE D == DOMAIN e.items
           S == {SpanEntry(e, p) : p \in D}
           L == {LogEntry(e, p) : p \in D}
           f == [p \in D |-> SpanEntry(e, p)]
           g == [p \in D |-> LogEntry(e, p)]
<1>1. IsFiniteSet(D)
  BY DEF IsEnvelope
<1>2. f \in Surjection(D, S) /\ g \in Surjection(D, L)
  BY DEF Surjection
<1> HIDE DEF D, S, L, f, g
<1>3. IsFiniteSet(S) /\ Cardinality(S) <= Cardinality(D) /\ IsFiniteSet(L) /\ Cardinality(L) <= Cardinality(D)
  BY <1>1, <1>2, FS_Surjection
<1>4. Cardinality(D) \in Nat
  BY <1>1, FS_CardinalityType
<1> QED
  BY <1>3, <1>4 DEF D, S, L

LEMMA ImportedTraces ==
  ASSUME NEW e \in Envelopes, Accepts(e, "spans"), NEW bound \in Nat, MaxItems <= bound
  PROVE  TracesImported([at |-> "imported", raw |-> e, entries |-> SpanEntries(e),
                         ids |-> TraceIds(SpanEntries(e)), claims |-> Claims(e)], bound)
<1> DEFINE S == {SpanEntry(e, p) : p \in DOMAIN e.items}
<1>1. IsEnvelope(e) /\ MaxItems \in Nat
  BY TelemetryAssumption
<1>2. IsFiniteSet(S) /\ Cardinality(S) <= MaxItems /\ Cardinality(S) \in Nat
  <2>1. /\ IsFiniteSet(S) /\ Cardinality(S) <= Cardinality(DOMAIN e.items)
        /\ Cardinality(DOMAIN e.items) \in Nat
    BY <1>1, EntriesAreFew
  <2>2. Cardinality(DOMAIN e.items) <= MaxItems
    BY DEF Accepts
  <2> HIDE DEF S
  <2> QED
    BY <1>1, <2>1, <2>2, FS_CardinalityType
<1>3. \A x \in S : IsSpanEntry(x)
  BY DEF SpanEntry, AdaptSpan, Hashed, IsSpanEntry, IsAdapted
<1> HIDE DEF S
<1>4. /\ IsList(Listed(S)) /\ Len(Listed(S)) <= bound
      /\ \A i \in DOMAIN Listed(S) : IsSpanEntry(Listed(S)[i])
  BY <1>1, <1>2, <1>3, ListedIsList
<1> QED
  BY <1>1, <1>4 DEF TracesImported, SpanEntries, S

LEMMA ImportedLogs ==
  ASSUME NEW e \in Envelopes, Accepts(e, "logs"), NEW bound \in Nat, MaxItems <= bound
  PROVE  LogsImported([at |-> "imported", raw |-> e, entries |-> LogEntries(e), claims |-> Claims(e)], bound)
<1> DEFINE S == {LogEntry(e, p) : p \in DOMAIN e.items}
<1>1. IsEnvelope(e) /\ MaxItems \in Nat
  BY TelemetryAssumption
<1>2. IsFiniteSet(S) /\ Cardinality(S) <= MaxItems /\ Cardinality(S) \in Nat
  <2>1. /\ IsFiniteSet(S) /\ Cardinality(S) <= Cardinality(DOMAIN e.items)
        /\ Cardinality(DOMAIN e.items) \in Nat
    BY <1>1, EntriesAreFew
  <2>2. Cardinality(DOMAIN e.items) <= MaxItems
    BY DEF Accepts
  <2> HIDE DEF S
  <2> QED
    BY <1>1, <2>1, <2>2, FS_CardinalityType
<1>3. \A x \in S : IsLogEntry(x)
  BY DEF LogEntry, LogRecord, IsLogEntry
<1> HIDE DEF S
<1>4. /\ IsList(Listed(S)) /\ Len(Listed(S)) <= bound
      /\ \A i \in DOMAIN Listed(S) : IsLogEntry(Listed(S)[i])
  BY <1>1, <1>2, <1>3, ListedIsList
<1> QED
  BY <1>1, <1>4 DEF LogsImported, LogEntries, S

LEMMA TracesEdited ==
  ASSUME NEW r, NEW bound \in Nat, TracesImported(r, bound),
         NEW u \in Changed(r, ChangedSpans(r)), NEW ids
  PROVE  TracesImported([u EXCEPT !.ids = ids], bound + 1)
<1> USE DEF TracesImported
<1>0. Len(r.entries) \in Nat
  BY ListFacts
<1>1. ASSUME NEW s \in ChangedSpans(r), u = [r EXCEPT !.entries = s]
      PROVE  TracesImported([u EXCEPT !.ids = ids], bound + 1)
  <2>1. IsList(s) /\ Len(s) <= bound + 1 /\ \A i \in DOMAIN s : IsSpanEntry(s[i])
    BY <1>0, SpansChangeShape, ListFacts
  <2>2. [u EXCEPT !.ids = ids] = [at |-> "imported", raw |-> r.raw, entries |-> s, ids |-> ids, claims |-> r.claims]
    <3>1. u = [at |-> "imported", raw |-> r.raw, entries |-> s, ids |-> r.ids, claims |-> r.claims]
      BY <1>1
    <3> QED
      BY ONLY <3>1
  <2> QED
    BY <2>1, <2>2
<1>2. ASSUME NEW e \in Envelopes, u = [r EXCEPT !.raw = e]
      PROVE  TracesImported([u EXCEPT !.ids = ids], bound + 1)
  <2>1. [u EXCEPT !.ids = ids] = [at |-> "imported", raw |-> e, entries |-> r.entries, ids |-> ids, claims |-> r.claims]
    <3>1. u = [at |-> "imported", raw |-> e, entries |-> r.entries, ids |-> r.ids, claims |-> r.claims]
      BY <1>2
    <3> QED
      BY ONLY <3>1
  <2> QED
    BY <1>0, <2>1, TelemetryAssumption
<1>3. ASSUME NEW c, u = [r EXCEPT !.claims = c]
      PROVE  TracesImported([u EXCEPT !.ids = ids], bound + 1)
  <2>1. [u EXCEPT !.ids = ids] = [at |-> "imported", raw |-> r.raw, entries |-> r.entries, ids |-> ids, claims |-> c]
    <3>1. u = [at |-> "imported", raw |-> r.raw, entries |-> r.entries, ids |-> r.ids, claims |-> c]
      BY <1>3
    <3> QED
      BY ONLY <3>1
  <2> QED
    BY <1>0, <2>1
<1> QED
  BY <1>1, <1>2, <1>3 DEF Changed

LEMMA LogsEdited ==
  ASSUME NEW r, NEW bound \in Nat, LogsImported(r, bound), NEW u \in Changed(r, ChangedLogs(r))
  PROVE  LogsImported(u, bound + 1)
<1> USE DEF LogsImported
<1>0. Len(r.entries) \in Nat
  BY ListFacts
<1>1. ASSUME NEW s \in ChangedLogs(r), u = [r EXCEPT !.entries = s]
      PROVE  LogsImported(u, bound + 1)
  <2>1. IsList(s) /\ Len(s) <= bound + 1 /\ \A i \in DOMAIN s : IsLogEntry(s[i])
    BY <1>0, LogsChangeShape, ListFacts
  <2> QED
    BY <1>1, <2>1
<1>2. ASSUME NEW e \in Envelopes, u = [r EXCEPT !.raw = e]
      PROVE  LogsImported(u, bound + 1)
  BY <1>0, <1>2, TelemetryAssumption
<1>3. ASSUME NEW c, u = [r EXCEPT !.claims = c]
      PROVE  LogsImported(u, bound + 1)
  BY <1>0, <1>3
<1> QED
  BY <1>1, <1>2, <1>3 DEF Changed

LEMMA TelemetryBegins == TelemetryInit => TelemetryInv
BY TelemetryAssumption DEF TelemetryInit, TelemetryInv, ResultOK, Nothing

LEMMA Later ==
  ASSUME TelemetryInv
  PROVE  /\ \A l : LogsImported(l, MaxItems + edits) => l.at = "imported" /\ LogsImported(l, MaxItems + (edits + 1))
         /\ \A r : TracesImported(r, MaxItems + edits) => r.at = "imported" /\ TracesImported(r, MaxItems + (edits + 1))
         /\ MaxItems \in Nat /\ edits \in Nat /\ MaxItems + edits \in Nat /\ Nothing.at = "nothing"
<1>1. MaxItems \in Nat /\ edits \in Nat
  BY TelemetryAssumption DEF TelemetryInv
<1> QED
  BY <1>1, ListFacts DEF LogsImported, TracesImported, Nothing

LEMMA TelemetryGoesOn == TelemetryInv /\ [TelemetryNext]_telemetryVars => TelemetryInv'
<1> SUFFICES ASSUME TelemetryInv, [TelemetryNext]_telemetryVars PROVE TelemetryInv'
  OBVIOUS
<1>0. ResultOK(traces', logs', Nothing)
  BY DEF ResultOK, Nothing
<1>1. ASSUME NEW e \in Envelopes, ImportTraceEnvelope(e) PROVE TelemetryInv'
  BY <1>0, <1>1, Later, ImportedTraces DEF ImportTraceEnvelope, TelemetryInv
<1>2. ASSUME NEW e \in Envelopes, ImportLogEnvelope(e) PROVE TelemetryInv'
  BY <1>0, <1>2, Later, ImportedLogs DEF ImportLogEnvelope, TelemetryInv
<1>3. ASSUME EditTraces PROVE TelemetryInv'
  <2>1. TracesImported(traces, MaxItems + edits)
    BY <1>3, Later DEF EditTraces, TelemetryInv
  <2>2. TracesImported(traces', MaxItems + edits + 1)
    <3>1. PICK u \in Changed(traces, ChangedSpans(traces)) : \E ids : traces' = [u EXCEPT !.ids = ids]
      BY <1>3 DEF EditTraces
    <3>3. PICK ids : traces' = [u EXCEPT !.ids = ids]
      BY <3>1
    <3>4. TracesImported([u EXCEPT !.ids = ids], MaxItems + edits + 1)
      BY <2>1, Later, TracesEdited
    <3> QED
      BY <3>3, <3>4
  <2>3. logs' = Nothing \/ LogsImported(logs', MaxItems + edits')
    BY <1>3, Later DEF EditTraces, TelemetryInv
  <2>4. edits' \in 0..MaxEdits /\ MaxItems + edits' = MaxItems + edits + 1
    BY <1>3, Later, TelemetryAssumption DEF EditTraces, TelemetryInv
  <2> QED
    BY <1>0, <1>3, <2>2, <2>3, <2>4 DEF EditTraces, TelemetryInv
<1>4. ASSUME EditLogs PROVE TelemetryInv'
  <2>1. LogsImported(logs, MaxItems + edits)
    BY <1>4, Later DEF EditLogs, TelemetryInv
  <2>2. LogsImported(logs', MaxItems + edits + 1)
    BY <1>4, <2>1, Later, LogsEdited DEF EditLogs
  <2>3. traces' = Nothing \/ TracesImported(traces', MaxItems + edits')
    BY <1>4, Later DEF EditLogs, TelemetryInv
  <2>4. edits' \in 0..MaxEdits /\ MaxItems + edits' = MaxItems + edits + 1
    BY <1>4, Later, TelemetryAssumption DEF EditLogs, TelemetryInv
  <2> QED
    BY <1>0, <1>4, <2>2, <2>3, <2>4 DEF EditLogs, TelemetryInv
<1>5. ASSUME NEW t \in Trace, ReconstructTrace(t) PROVE TelemetryInv'
  <2>1. result' = Reconstructed(traces, t) /\ traces # Nothing
    BY <1>5, Later DEF ReconstructTrace, Reconstructed
  <2>2. ResultOK(traces, logs, result')
    BY <2>1 DEF ResultOK, Reconstructed
  <2> QED
    BY <1>5, <2>2 DEF ReconstructTrace, TelemetryInv
<1>6. ASSUME CorrelateTraceLogs PROVE TelemetryInv'
  <2>1. traces # Nothing /\ logs # Nothing
    BY <1>6, Later DEF CorrelateTraceLogs
  <2>2. ResultOK(traces, logs, result')
    BY <1>6, <2>1 DEF CorrelateTraceLogs, ResultOK, RowsOf, Nothing
  <2> QED
    BY <1>6, <2>2 DEF CorrelateTraceLogs, TelemetryInv
<1>7. ASSUME UNCHANGED telemetryVars PROVE TelemetryInv'
  BY <1>7 DEF telemetryVars, TelemetryInv
<1> QED
  BY <1>1, <1>2, <1>3, <1>4, <1>5, <1>6, <1>7 DEF TelemetryNext

LEMMA AdaptFacts ==
  /\ \A item : /\ AdaptSpan(item).trace = item.trace /\ AdaptSpan(item).span = item.span
               /\ AdaptSpan(item).parent = item.parent /\ AdaptSpan(item).says = item.says
               /\ AdaptSpan(item).raw = item
  /\ \A x, y : AdaptSpan(x).hash = AdaptSpan(y).hash => x = y
<1>1. \A item : AdaptSpan(item).hash.raw = item
  BY DEF AdaptSpan, Hashed
<1> QED
  BY <1>1 DEF AdaptSpan, Hashed

LEMMA ReplayedIsAdapted ==
  ASSUME NEW a, IsAdapted(a), Replays(a)
  PROVE  a = AdaptSpan(a.raw)
<1>1. Fields(a) = AdaptSpan(a.raw).hash
  BY DEF Replays
<1>2. /\ Fields(a).trace = a.trace /\ Fields(a).span = a.span /\ Fields(a).parent = a.parent
      /\ Fields(a).says = a.says
  BY DEF Fields
<1>3. LET h == AdaptSpan(a.raw).hash
      IN  /\ h.trace = a.raw.trace /\ h.span = a.raw.span /\ h.parent = a.raw.parent
          /\ h.says = a.raw.says
  BY DEF AdaptSpan, Hashed
<1>4. a.trace = a.raw.trace /\ a.span = a.raw.span /\ a.parent = a.raw.parent /\ a.says = a.raw.says
  BY <1>1, <1>2, <1>3
<1>5. a.hash = AdaptSpan(a.raw).hash
  BY DEF Replays
<1>6. AdaptSpan(a.raw) = [trace |-> a.raw.trace, span |-> a.raw.span, parent |-> a.raw.parent,
                          says |-> a.raw.says, raw |-> a.raw, hash |-> AdaptSpan(a.raw).hash]
  BY DEF AdaptSpan, Hashed
<1> QED
  BY <1>4, <1>5, <1>6 DEF IsAdapted

(* The place of each entry, of which each place has one.                    *)
LaidOut(r, place) ==
  /\ place \in Bijection(DOMAIN r.entries, DOMAIN r.raw.items)
  /\ \A i \in DOMAIN r.entries : r.entries[i] = SpanEntry(r.raw, place[i])

LEMMA ValidIsLaidOut ==
  ASSUME NEW r, NEW bound, TracesImported(r, bound), ValidTraces(r)
  PROVE  \E place : LaidOut(r, place)
<1> DEFINE D == DOMAIN r.raw.items
           N == DOMAIN r.entries
           place == [i \in N |-> r.entries[i].context.place]
<1>1. \A i \in N : IsSpanEntry(r.entries[i]) /\ r.entries[i].adapted = AdaptSpan(r.entries[i].adapted.raw)
  BY ReplayedIsAdapted DEF TracesImported, ValidTraces, IsSpanEntry
<1>2. {<<r.entries[i].adapted.raw, r.entries[i].context>> : i \in N} =
        {<<r.raw.items[p], Context(r.raw, p)>> : p \in D}
  BY DEF ValidTraces, BoundOnce
<1>3. \A p : Context(r.raw, p).place = p
  BY DEF Context
<1>4. ASSUME NEW i \in N, NEW p \in D,
             r.entries[i].adapted.raw = r.raw.items[p], r.entries[i].context = Context(r.raw, p)
      PROVE  place[i] = p /\ r.entries[i] = SpanEntry(r.raw, p)
  <2>1. place[i] = p
    BY <1>3, <1>4
  <2>2. r.entries[i] = [adapted |-> AdaptSpan(r.raw.items[p]), context |-> Context(r.raw, p)]
    BY <1>1, <1>4 DEF IsSpanEntry
  <2> QED
    BY <2>1, <2>2 DEF SpanEntry
<1>5. ASSUME NEW i \in N PROVE place[i] \in D /\ r.entries[i] = SpanEntry(r.raw, place[i])
  <2>0. <<r.entries[i].adapted.raw, r.entries[i].context>> \in {<<r.raw.items[p], Context(r.raw, p)>> : p \in D}
    BY <1>2
  <2>1. PICK p \in D : r.entries[i].adapted.raw = r.raw.items[p] /\ r.entries[i].context = Context(r.raw, p)
    BY <2>0
  <2> QED
    BY <1>4, <2>1, ZenonT(60)
<1>6. ASSUME NEW p \in D PROVE \E i \in N : place[i] = p
  <2>0. <<r.raw.items[p], Context(r.raw, p)>> \in {<<r.entries[i].adapted.raw, r.entries[i].context>> : i \in N}
    BY <1>2
  <2>1. PICK i \in N : r.entries[i].adapted.raw = r.raw.items[p] /\ r.entries[i].context = Context(r.raw, p)
    BY <2>0
  <2> QED
    BY <1>4, <2>1
<1>7. place \in Surjection(N, D)
  <2>1. place \in [N -> D]
    BY <1>5
  <2> QED
    BY <1>6, <2>1 DEF Surjection
<1>8. IsFiniteSet(N) /\ Cardinality(N) = Cardinality(D)
  <2>1. Len(r.entries) \in Nat /\ N = 1..Len(r.entries)
    BY ListFacts DEF TracesImported
  <2>2. IsFiniteSet(1..Len(r.entries)) /\ Cardinality(1..Len(r.entries)) = Len(r.entries)
    BY <2>1, FS_Interval
  <2>3. Len(r.entries) = Cardinality(D)
    BY DEF ValidTraces, BoundOnce
  <2> QED
    BY <2>1, <2>2, <2>3
<1>9. place \in Injection(N, D)
  <2> HIDE DEF N, D, place
  <2> QED
    BY <1>7, <1>8, FS_SurjSameCardinalityImpliesInj
<1>10. place \in Bijection(N, D)
  BY <1>7, <1>9 DEF Bijection
<1> QED
  BY <1>5, <1>10 DEF LaidOut

LEMMA LaidOutFacts ==
  ASSUME NEW r, NEW place, LaidOut(r, place)
  PROVE  /\ \A i \in DOMAIN r.entries : place[i] \in DOMAIN r.raw.items
         /\ \A i, j \in DOMAIN r.entries : i # j => place[i] # place[j]
         /\ \A p \in DOMAIN r.raw.items : \E i \in DOMAIN r.entries : place[i] = p
         /\ \A i \in DOMAIN r.entries :
              /\ r.entries[i] = SpanEntry(r.raw, place[i])
              /\ r.entries[i].adapted = AdaptSpan(r.raw.items[place[i]])
BY DEF LaidOut, Bijection, Injection, Surjection, IsInjective, SpanEntry

LEMMA TracesAreReplayed ==
  ASSUME TelemetryInv
  PROVE  TracesReplay
<1>1. SUFFICES ASSUME traces.at = "imported", ValidTraces(traces)
               PROVE  /\ EntriesOf(traces) = {SpanEntry(traces.raw, p) : p \in DOMAIN traces.raw.items}
                      /\ Len(traces.entries) = Cardinality(DOMAIN traces.raw.items)
  BY DEF TracesReplay
<1>2. TracesImported(traces, MaxItems + edits)
  BY <1>1, Later DEF TelemetryInv
<1>3. PICK place : LaidOut(traces, place)
  BY <1>1, <1>2, ValidIsLaidOut
<1>4. EntriesOf(traces) = {SpanEntry(traces.raw, p) : p \in DOMAIN traces.raw.items}
  BY <1>3, LaidOutFacts DEF EntriesOf
<1> QED
  BY <1>1, <1>4 DEF ValidTraces, BoundOnce

(* The items of a trace.                                                    *)
PlacesOf(e, t) == {p \in DOMAIN e.items : e.items[p].trace = t}
ItemsOf(e, t) == {e.items[p] : p \in PlacesOf(e, t)}
AdaptedOf(e, t) == {AdaptSpan(e.items[p]) : p \in PlacesOf(e, t)}
TwinsOf(e, t) ==
  \E p, q \in PlacesOf(e, t) :
    /\ p # q
    /\ e.items[p] = e.items[q] \/ (e.items[p].span = e.items[q].span /\ e.items[p].span # None)

LEMMA SpansAreItems ==
  ASSUME NEW r, NEW place, LaidOut(r, place), NEW t
  PROVE  SpansOf(r, t) = AdaptedOf(r.raw, t)
<1>1. \A i \in DOMAIN r.entries : i \in OfTrace(r, t) <=> place[i] \in PlacesOf(r.raw, t)
  BY LaidOutFacts, AdaptFacts DEF OfTrace, PlacesOf
<1>2. OfTrace(r, t) \subseteq DOMAIN r.entries /\ PlacesOf(r.raw, t) \subseteq DOMAIN r.raw.items
  BY DEF OfTrace, PlacesOf
<1>3. ASSUME NEW a \in SpansOf(r, t) PROVE a \in AdaptedOf(r.raw, t)
  <2>1. PICK i \in OfTrace(r, t) : a = r.entries[i].adapted
    BY DEF SpansOf
  <2> QED
    BY <1>1, <1>2, <2>1, LaidOutFacts DEF AdaptedOf
<1>4. ASSUME NEW a \in AdaptedOf(r.raw, t) PROVE a \in SpansOf(r, t)
  <2>1. PICK p \in PlacesOf(r.raw, t) : a = AdaptSpan(r.raw.items[p])
    BY DEF AdaptedOf
  <2>2. PICK i \in DOMAIN r.entries : place[i] = p
    BY <1>2, <2>1, LaidOutFacts
  <2>3. r.entries[i].adapted = a /\ i \in OfTrace(r, t)
    BY <1>1, <2>1, <2>2, LaidOutFacts
  <2> QED
    BY <2>3 DEF SpansOf
<1> QED
  BY <1>3, <1>4

LEMMA DistinctExact ==
  ASSUME NEW r, NEW place, LaidOut(r, place), NEW t
  PROVE  Distinct(r, t) <=> ~TwinsOf(r.raw, t)
<1>1. \A i \in DOMAIN r.entries : i \in OfTrace(r, t) <=> place[i] \in PlacesOf(r.raw, t)
  BY LaidOutFacts, AdaptFacts DEF OfTrace, PlacesOf
<1>2. OfTrace(r, t) \subseteq DOMAIN r.entries /\ PlacesOf(r.raw, t) \subseteq DOMAIN r.raw.items
  BY DEF OfTrace, PlacesOf
<1> DEFINE item(i) == r.raw.items[place[i]]
<1>3. \A i \in DOMAIN r.entries : r.entries[i].adapted.span = item(i).span
                                   /\ r.entries[i].adapted.hash = AdaptSpan(item(i)).hash
  BY LaidOutFacts, AdaptFacts
<1>4. ASSUME Distinct(r, t), TwinsOf(r.raw, t) PROVE FALSE
  <2>1. PICK p, q \in PlacesOf(r.raw, t) :
          /\ p # q
          /\ \/ r.raw.items[p] = r.raw.items[q]
             \/ r.raw.items[p].span = r.raw.items[q].span /\ r.raw.items[p].span # None
    BY <1>4 DEF TwinsOf
  <2>2. PICK i \in DOMAIN r.entries : place[i] = p
    BY <1>2, LaidOutFacts
  <2>3. PICK j \in DOMAIN r.entries : place[j] = q
    BY <1>2, LaidOutFacts
  <2>4. i \in OfTrace(r, t) /\ j \in OfTrace(r, t) /\ i # j
    BY <1>1, <2>1, <2>2, <2>3
  <2>5. \/ r.entries[i].adapted.hash = r.entries[j].adapted.hash
        \/ /\ r.entries[i].adapted.span = r.entries[j].adapted.span
           /\ r.entries[i].adapted.span # None
    BY <1>3, <2>1, <2>2, <2>3
  <2> QED
    BY <1>4, <2>4, <2>5 DEF Distinct
<1>5. ASSUME ~TwinsOf(r.raw, t), NEW i \in OfTrace(r, t), NEW j \in OfTrace(r, t), i # j
      PROVE  /\ r.entries[i].adapted.hash # r.entries[j].adapted.hash
             /\ r.entries[i].adapted.span # r.entries[j].adapted.span \/ r.entries[i].adapted.span = None
  <2>1. place[i] # place[j] /\ place[i] \in PlacesOf(r.raw, t) /\ place[j] \in PlacesOf(r.raw, t)
    BY <1>1, <1>2, <1>5, LaidOutFacts
  <2>2. item(i) # item(j) /\ (item(i).span # item(j).span \/ item(i).span = None)
    BY <1>5, <2>1 DEF TwinsOf
  <2> QED
    BY <1>2, <1>3, <2>2, AdaptFacts
<1> QED
  BY <1>4, <1>5 DEF Distinct

(* Without twins a span with an identifier has one parent.                  *)
LEMMA ParentsExact ==
  ASSUME NEW e, IsEnvelope(e), NEW t, ~TwinsOf(e, t)
  PROVE  /\ DOMAIN ParentOf(AdaptedOf(e, t)) \in SUBSET Span
         /\ ParentOf(AdaptedOf(e, t)) \in [DOMAIN ParentOf(AdaptedOf(e, t)) -> Span]
         /\ StepsOf(ParentOf(AdaptedOf(e, t))) = ParentSteps(ItemsOf(e, t))
<1> DEFINE spans == AdaptedOf(e, t)
           D == {a.span : a \in {a \in spans : a.span # None /\ a.parent # None}}
<1>1. ASSUME NEW a \in spans, NEW b \in spans, a.span = b.span, a.span # None PROVE a = b
  <2>1. PICK p \in PlacesOf(e, t) : a = AdaptSpan(e.items[p])
    BY DEF AdaptedOf
  <2>2. PICK q \in PlacesOf(e, t) : b = AdaptSpan(e.items[q])
    BY DEF AdaptedOf
  <2>3. e.items[p].span = e.items[q].span /\ e.items[p].span # None
    BY <1>1, <2>1, <2>2, AdaptFacts
  <2> QED
    BY <2>1, <2>2, <2>3 DEF TwinsOf
<1>2. ASSUME NEW a \in spans PROVE a.span \in Span \cup {None} /\ a.parent \in Span \cup {None}
  <2>1. PICK p \in PlacesOf(e, t) : a = AdaptSpan(e.items[p])
    BY DEF AdaptedOf
  <2>2. e.items[p] \in Item
    BY DEF IsEnvelope, PlacesOf
  <2> QED
    BY <2>1, <2>2, AdaptFacts DEF Item
<1>3. ParentOf(spans) = [s \in D |-> (CHOOSE a \in spans : a.span = s).parent]
  BY DEF ParentOf
<1>4. ASSUME NEW a \in spans, a.span # None, a.parent # None
      PROVE  a.span \in D /\ (CHOOSE b \in spans : b.span = a.span).parent = a.parent
  BY <1>1, <1>4
<1>5. \A s \in D : \E a \in spans : a.span = s /\ a.span # None /\ a.parent # None
  OBVIOUS
<1> HIDE DEF spans
<1>6. D \in SUBSET Span /\ ParentOf(spans) \in [D -> Span]
  BY <1>2, <1>3, <1>4, <1>5
<1>7. ASSUME NEW s \in D
      PROVE  <<s, ParentOf(spans)[s]>> \in ParentSteps(ItemsOf(e, t))
  <2>1. PICK a \in spans : a.span = s /\ a.span # None /\ a.parent # None
    BY <1>5
  <2>2. PICK p \in PlacesOf(e, t) : a = AdaptSpan(e.items[p])
    BY DEF AdaptedOf, spans
  <2>3. ParentOf(spans)[s] = e.items[p].parent /\ e.items[p].span = s /\ e.items[p].parent # None
    BY <1>3, <1>4, <2>1, <2>2, AdaptFacts
  <2>4. e.items[p] \in {i \in ItemsOf(e, t) : i.span # None /\ i.parent # None}
    BY <2>1, <2>3 DEF ItemsOf
  <2> QED
    BY <2>3, <2>4 DEF ParentSteps
<1>8. ASSUME NEW x \in ParentSteps(ItemsOf(e, t))
      PROVE  \E s \in D : x = <<s, ParentOf(spans)[s]>>
  <2>1. PICK i \in ItemsOf(e, t) : i.span # None /\ i.parent # None /\ x = <<i.span, i.parent>>
    BY DEF ParentSteps
  <2>2. PICK p \in PlacesOf(e, t) : i = e.items[p]
    BY DEF ItemsOf
  <2>3. AdaptSpan(i) \in spans /\ AdaptSpan(i).span = i.span /\ AdaptSpan(i).parent = i.parent
    BY <2>2, AdaptFacts DEF AdaptedOf, spans
  <2>4. i.span \in D /\ ParentOf(spans)[i.span] = i.parent
    BY <1>3, <1>4, <2>1, <2>3
  <2> QED
    BY <2>1, <2>4
<1>9. DOMAIN ParentOf(spans) = D
  BY <1>3
<1> HIDE DEF D
<1>10. StepsOf(ParentOf(spans)) = ParentSteps(ItemsOf(e, t))
  BY <1>7, <1>8, <1>9 DEF StepsOf
<1> QED
  BY <1>6, <1>9, <1>10 DEF spans

LEMMA CircularExact ==
  ASSUME NEW e, IsEnvelope(e), NEW t, ~TwinsOf(e, t)
  PROVE  Cycle(ParentOf(AdaptedOf(e, t))) <=> \E s \in Span : OwnAncestor(ParentSteps(ItemsOf(e, t)), s)
<1> DEFINE parent == ParentOf(AdaptedOf(e, t))
           D == DOMAIN parent
<1>1. D \in SUBSET Span /\ parent \in [D -> Span] /\ StepsOf(parent) = ParentSteps(ItemsOf(e, t))
  BY ParentsExact
<1>2. IsFiniteSet(D)
  BY <1>1, TelemetryAssumption, FS_Subset
<1> HIDE DEF D, parent
<1>3. Cycle(parent) <=> \E s \in Span : OwnAncestor(StepsOf(parent), s)
  BY <1>1, <1>2, CycleExact
<1> QED
  BY <1>1, <1>3 DEF parent

(* What the graph of a trace without twins holds.                           *)
LEMMA NamesApart ==
  ASSUME NEW e, NEW t, ~TwinsOf(e, t), NEW p \in PlacesOf(e, t), NEW q \in PlacesOf(e, t), p # q
  PROVE  Base(AdaptSpan(e.items[p])) # Base(AdaptSpan(e.items[q]))
<1> DEFINE a == AdaptSpan(e.items[p])
           b == AdaptSpan(e.items[q])
<1>1. /\ e.items[p] # e.items[q]
      /\ e.items[p].span # e.items[q].span \/ e.items[p].span = None
  BY DEF TwinsOf
<1>2. a.span = e.items[p].span /\ b.span = e.items[q].span /\ a.hash # b.hash
  BY <1>1, AdaptFacts
<1> HIDE DEF a, b
<1>3. Name(a) # Name(b)
  BY <1>1, <1>2 DEF Name, Named
<1> QED
  BY <1>3 DEF Base, a, b

LEMMA BasesCounted ==
  ASSUME NEW e, IsEnvelope(e), NEW t, ~TwinsOf(e, t)
  PROVE  /\ Cardinality({Base(a) : a \in AdaptedOf(e, t)}) = Cardinality(PlacesOf(e, t))
         /\ Cardinality({a \in AdaptedOf(e, t) : a.span = None}) =
              Cardinality({p \in PlacesOf(e, t) : e.items[p].span = None})
<1> DEFINE P == PlacesOf(e, t)
           N == {p \in P : e.items[p].span = None}
           B == {Base(a) : a \in AdaptedOf(e, t)}
           A == {a \in AdaptedOf(e, t) : a.span = None}
           f == [p \in P |-> Base(AdaptSpan(e.items[p]))]
           g == [p \in N |-> AdaptSpan(e.items[p])]
<1>1. IsFiniteSet(P) /\ IsFiniteSet(N)
  <2>1. P \in SUBSET DOMAIN e.items /\ N \in SUBSET P
    BY DEF PlacesOf
  <2> QED
    BY <2>1, FS_Subset DEF IsEnvelope
<1>2. f \in Bijection(P, B)
  <2>1. f \in [P -> B]
    BY DEF AdaptedOf
  <2>2. \A p, q \in P : f[p] = f[q] => p = q
    BY NamesApart
  <2>3. \A b \in B : \E p \in P : f[p] = b
    BY DEF AdaptedOf
  <2> QED
    BY <2>1, <2>2, <2>3 DEF Bijection, Injection, Surjection, IsInjective
<1>3. g \in Bijection(N, A)
  <2>1. \A p \in P : AdaptSpan(e.items[p]) \in AdaptedOf(e, t)
    BY DEF AdaptedOf
  <2>2. g \in [N -> A]
    BY <2>1, AdaptFacts
  <2>3. \A p, q \in N : g[p] = g[q] => p = q
    BY AdaptFacts DEF TwinsOf
  <2>4. \A b \in A : \E p \in N : g[p] = b
    BY AdaptFacts DEF AdaptedOf
  <2> QED
    BY <2>2, <2>3, <2>4 DEF Bijection, Injection, Surjection, IsInjective
<1> HIDE DEF P, N, B, A, f, g
<1>4. Cardinality(B) = Cardinality(P) /\ Cardinality(A) = Cardinality(N)
  BY <1>1, <1>2, <1>3, FS_Bijection DEF ExistsBijection
<1> QED
  BY <1>4 DEF P, N, B, A

LEMMA GraphParts ==
  ASSUME NEW e, IsEnvelope(e), NEW t
  PROVE  LET spans == AdaptedOf(e, t)
             g == Graph(spans)
         IN  /\ {n \in g.nodes : n[2] = "span"} = {Base(a) : a \in spans}
             /\ g.nameless = {a \in spans : a.span = None}
             /\ \A ed \in g.edges : ed.from \in g.nodes /\ ed.to \in g.nodes
<1> DEFINE spans == AdaptedOf(e, t)
           g == Graph(spans)
           kinds == UNION {{<<Name(a), kind>> : kind \in a.says \ {"agent"}} : a \in spans}
           found == UNION {{GraphEdge(Base(a), <<Name(a), kind>>) : kind \in a.says \ {"agent"}} : a \in spans}
           below == {GraphEdge(<<Named(a.parent), "span">>, Base(a)) :
                       a \in {a \in spans : a.span # None /\ a.parent \in ById(spans)}}
<1>1. ASSUME NEW a \in spans PROVE a.says \subseteq Derived
  <2>1. PICK p \in PlacesOf(e, t) : a = AdaptSpan(e.items[p])
    BY DEF AdaptedOf
  <2>2. e.items[p] \in Item
    BY DEF IsEnvelope, PlacesOf
  <2> QED
    BY <2>1, <2>2, AdaptFacts DEF Item
<1> HIDE DEF spans
<1>2. \A n \in kinds : n[2] # "span"
  BY <1>1 DEF Derived
<1>3. g.nodes = {Base(a) : a \in spans} \cup kinds
  BY DEF Graph
<1>4. \A a \in spans : Base(a)[2] = "span"
  BY DEF Base
<1>5. {n \in g.nodes : n[2] = "span"} = {Base(a) : a \in spans}
  <2> HIDE DEF g, kinds
  <2> QED
    BY <1>2, <1>3, <1>4
<1>6. g.edges = found \cup below
  BY DEF Graph
<1>7. \A ed \in found : ed.from \in g.nodes /\ ed.to \in g.nodes
  <2>1. ASSUME NEW ed \in found PROVE ed.from \in {Base(a) : a \in spans} /\ ed.to \in kinds
    BY DEF GraphEdge
  <2> HIDE DEF found, kinds, g
  <2> QED
    BY <1>3, <2>1
<1>8. \A ed \in below : ed.from \in g.nodes /\ ed.to \in g.nodes
  <2>1. ASSUME NEW ed \in below PROVE ed.from \in {Base(a) : a \in spans} /\ ed.to \in {Base(a) : a \in spans}
    <3>1. PICK a \in spans : a.parent \in ById(spans) /\ ed = GraphEdge(<<Named(a.parent), "span">>, Base(a))
      OBVIOUS
    <3>2. PICK b \in spans : b.span = a.parent /\ b.span # None
      BY <3>1 DEF ById
    <3>3. Base(b) = <<Named(a.parent), "span">>
      BY <3>2 DEF Base, Name
    <3> QED
      BY <3>1, <3>3 DEF GraphEdge
  <2> HIDE DEF below, g
  <2> QED
    BY <1>3, <2>1
<1>9. g.nameless = {a \in spans : a.span = None}
  BY DEF Graph
<1> HIDE DEF g, found, below
<1>10. \A ed \in g.edges : ed.from \in g.nodes /\ ed.to \in g.nodes
  BY <1>6, <1>7, <1>8
<1> QED
  BY <1>5, <1>9, <1>10 DEF g, spans

LEMMA ParentsOrOrphans ==
  ASSUME NEW e, IsEnvelope(e), NEW t, NEW i \in ItemsOf(e, t), i.span # None, i.parent # None
  PROVE  LET g == Graph(AdaptedOf(e, t))
         IN  GraphEdge(<<Named(i.parent), "span">>, <<Named(i.span), "span">>) \in g.edges
               <=> <<i.span, i.parent>> \notin g.orphans
<1> DEFINE spans == AdaptedOf(e, t)
           g == Graph(spans)
           x == GraphEdge(<<Named(i.parent), "span">>, <<Named(i.span), "span">>)
           found == UNION {{GraphEdge(Base(a), <<Name(a), kind>>) : kind \in a.says \ {"agent"}} : a \in spans}
           below == {GraphEdge(<<Named(a.parent), "span">>, Base(a)) :
                       a \in {a \in spans : a.span # None /\ a.parent \in ById(spans)}}
           lost == {<<a.span, a.parent>> :
                      a \in {a \in spans : a.span # None /\ a.parent \notin ById(spans) \cup {None}}}
<1>1. PICK c \in spans : c.span = i.span /\ c.parent = i.parent
  BY AdaptFacts DEF AdaptedOf, ItemsOf
<1>2. \A a \in spans : a.says \subseteq Derived
  <2>1. TAKE a \in spans
  <2>2. PICK p \in PlacesOf(e, t) : a = AdaptSpan(e.items[p])
    BY DEF AdaptedOf
  <2>3. e.items[p] \in Item
    BY DEF IsEnvelope, PlacesOf
  <2> QED
    BY <2>2, <2>3, AdaptFacts DEF Item
<1> HIDE DEF spans
<1>3. g.edges = found \cup below /\ g.orphans = lost
  BY DEF Graph
<1>4. x \notin found
  <2>1. SUFFICES ASSUME NEW a \in spans, NEW kind \in a.says \ {"agent"}, x = GraphEdge(Base(a), <<Name(a), kind>>)
                 PROVE  FALSE
    BY ZenonT(60)
  <2>2. x.to[2] = "span"
    BY DEF GraphEdge
  <2>3. x.to[2] = kind
    BY <2>1 DEF GraphEdge
  <2> QED
    BY <1>2, <2>2, <2>3 DEF Derived
<1>5. x \in below <=> i.parent \in ById(spans)
  <2>1. ASSUME x \in below PROVE i.parent \in ById(spans)
    <3>1. PICK a \in spans : a.parent \in ById(spans) /\ x = GraphEdge(<<Named(a.parent), "span">>, Base(a))
      BY <2>1
    <3>2. x.from = <<Named(i.parent), "span">> /\ x.from = <<Named(a.parent), "span">>
      BY <3>1 DEF GraphEdge
    <3>3. i.parent = a.parent
      BY <3>2 DEF Named
    <3> QED
      BY <3>1, <3>3
  <2>2. ASSUME i.parent \in ById(spans) PROVE x \in below
    <3>1. Base(c) = <<Named(i.span), "span">>
      BY <1>1 DEF Base, Name
    <3>2. x = GraphEdge(<<Named(c.parent), "span">>, Base(c))
      BY <1>1, <3>1
    <3> QED
      BY <1>1, <2>2, <3>2
  <2> QED
    BY <2>1, <2>2
<1>6. <<i.span, i.parent>> \in lost <=> i.parent \notin ById(spans)
  <2>1. ASSUME <<i.span, i.parent>> \in lost PROVE i.parent \notin ById(spans)
    <3>1. PICK a \in spans : a.parent \notin ById(spans) /\ <<i.span, i.parent>> = <<a.span, a.parent>>
      BY <2>1
    <3> QED
      BY <3>1
  <2>2. ASSUME i.parent \notin ById(spans) PROVE <<i.span, i.parent>> \in lost
    BY <1>1, <2>2
  <2> QED
    BY <2>1, <2>2
<1> HIDE DEF g, x, found, below, lost
<1>7. x \in g.edges <=> <<i.span, i.parent>> \notin g.orphans
  BY <1>3, <1>4, <1>5, <1>6, SMTT(60)
<1> QED
  BY <1>7 DEF g, x, spans

LEMMA GraphsAreExact ==
  ASSUME TelemetryInv
  PROVE  GraphsExact
<1>1. SUFFICES ASSUME result.at \in {"graph", "no graph"}, ValidTraces(traces) PROVE GraphsExact
  BY DEF GraphsExact
<1>2. PICK t \in Trace : traces # Nothing /\ result = Reconstructed(traces, t)
  BY <1>1 DEF TelemetryInv, ResultOK
<1> DEFINE e == traces.raw
           spans == AdaptedOf(e, t)
           circular == \E s \in Span : OwnAncestor(ParentSteps(ItemsOf(e, t)), s)
<1>3. TracesImported(traces, MaxItems + edits)
  BY <1>2 DEF TelemetryInv
<1>4. IsEnvelope(e)
  BY <1>3 DEF TracesImported
<1>5. PICK place : LaidOut(traces, place)
  BY <1>1, <1>3, ValidIsLaidOut
<1>6. SpansOf(traces, t) = spans /\ (Distinct(traces, t) <=> ~TwinsOf(e, t))
  BY <1>5, SpansAreItems, DistinctExact
<1>7. ~TwinsOf(e, t) => (Cycle(ParentOf(spans)) <=> circular)
  BY <1>4, CircularExact
<1>8. spans = {} <=> PlacesOf(e, t) = {}
  BY DEF AdaptedOf
<1>9. result.trace = t
  BY <1>2 DEF Reconstructed
<1> HIDE DEF spans, circular
<1>10. IF spans # {} /\ ~TwinsOf(e, t) /\ ~circular
       THEN result.at = "graph" /\ result.graph = Graph(spans)
       ELSE result.at = "no graph"
  BY <1>1, <1>2, <1>6, <1>7 DEF Reconstructed
<1>11. result.at = "no graph" <=> PlacesOf(e, t) = {} \/ TwinsOf(e, t) \/ circular
  BY <1>8, <1>10
<1>12. ASSUME result.at = "graph"
       PROVE  LET g == result.graph
                  bases == {n \in g.nodes : n[2] = "span"}
              IN  /\ Cardinality(bases) = Cardinality(PlacesOf(e, t))
                  /\ Cardinality(g.nameless) = Cardinality({p \in PlacesOf(e, t) : e.items[p].span = None})
                  /\ \A i \in ItemsOf(e, t) : i.span # None /\ i.parent # None =>
                       (GraphEdge(<<Named(i.parent), "span">>, <<Named(i.span), "span">>) \in g.edges
                         <=> <<i.span, i.parent>> \notin g.orphans)
                  /\ \A ed \in g.edges : ed.from \in g.nodes /\ ed.to \in g.nodes
  <2>1. result.graph = Graph(spans) /\ ~TwinsOf(e, t)
    BY <1>10, <1>12
  <2>2. /\ Cardinality({Base(a) : a \in spans}) = Cardinality(PlacesOf(e, t))
        /\ Cardinality({a \in spans : a.span = None}) =
             Cardinality({p \in PlacesOf(e, t) : e.items[p].span = None})
    BY <1>4, <2>1, BasesCounted DEF spans
  <2>3. /\ {n \in Graph(spans).nodes : n[2] = "span"} = {Base(a) : a \in spans}
        /\ Graph(spans).nameless = {a \in spans : a.span = None}
        /\ \A ed \in Graph(spans).edges : ed.from \in Graph(spans).nodes /\ ed.to \in Graph(spans).nodes
    BY <1>4, GraphParts DEF spans
  <2>4. \A i \in ItemsOf(e, t) : i.span # None /\ i.parent # None =>
          (GraphEdge(<<Named(i.parent), "span">>, <<Named(i.span), "span">>) \in Graph(spans).edges
            <=> <<i.span, i.parent>> \notin Graph(spans).orphans)
    BY <1>4, ParentsOrOrphans DEF spans
  <2> QED
    BY <2>1, <2>2, <2>3, <2>4
<1> QED
  BY <1>9, <1>11, <1>12, ZenonT(60) DEF GraphsExact, PlacesOf, ItemsOf, TwinsOf, circular

LEMMA LinksAreExact ==
  ASSUME TelemetryInv
  PROVE  LinksExact
<1> DEFINE e == traces.raw
           known == {e.items[p] : p \in {p \in DOMAIN e.items : e.items[p].trace # None /\ e.items[p].span # None}}
<1>1. SUFFICES ASSUME result.at = "report",
                      EntriesOf(logs) = {LogEntry(logs.raw, p) : p \in DOMAIN logs.raw.items},
                      NEW row \in result.rows
               PROVE  /\ row.status = "matched_trace_and_span" <=>
                           \E i \in known : i.trace = row.log.trace /\ i.span = row.log.span
                      /\ row.status = "unlinked" <=> row.log.trace = None
                      /\ row.status = "external_or_unobserved_trace" <=>
                           row.log.trace # None /\ \A i \in known : i.trace # row.log.trace
  BY DEF LinksExact
<1>2. traces # Nothing /\ ValidTraces(traces) /\ result.rows = RowsOf(traces, logs)
  BY <1>1 DEF TelemetryInv, ResultOK
<1>3. PICK place : LaidOut(traces, place)
  BY <1>2, ValidIsLaidOut DEF TelemetryInv
<1>4. SpanPairs(traces) = {<<i.trace, i.span>> : i \in known}
  <2>1. ASSUME NEW k \in DOMAIN traces.entries
        PROVE  LET a == traces.entries[k].adapted
                   i == e.items[place[k]]
               IN  place[k] \in DOMAIN e.items /\ a.trace = i.trace /\ a.span = i.span
    BY <1>3, LaidOutFacts, AdaptFacts
  <2>2. ASSUME NEW x \in SpanPairs(traces) PROVE \E i \in known : x = <<i.trace, i.span>>
    <3>1. PICK k \in DOMAIN traces.entries :
            LET a == traces.entries[k].adapted
            IN  a.trace # None /\ a.span # None /\ x = <<a.trace, a.span>>
      BY DEF SpanPairs
    <3>2. e.items[place[k]] \in known
      BY <2>1, <3>1
    <3> QED
      BY <2>1, <3>1, <3>2
  <2>3. ASSUME NEW i \in known PROVE <<i.trace, i.span>> \in SpanPairs(traces)
    <3>1. PICK p \in DOMAIN e.items : i = e.items[p] /\ i.trace # None /\ i.span # None
      OBVIOUS
    <3>2. PICK k \in DOMAIN traces.entries : place[k] = p
      BY <1>3, LaidOutFacts
    <3> QED
      BY <2>1, <3>1, <3>2 DEF SpanPairs
  <2> HIDE DEF known
  <2> QED
    BY <2>2, <2>3
<1>5. PICK k \in DOMAIN logs.entries :
        row = [log |-> logs.entries[k].raw, context |-> logs.entries[k].context,
               status |-> LinkStatus(logs.entries[k], SpanPairs(traces))]
  BY <1>2 DEF RowsOf
<1> DEFINE l == logs.entries[k]
<1>6. l.trace = l.raw.trace /\ l.span = l.raw.span
  <2>1. l \in EntriesOf(logs)
    BY DEF EntriesOf
  <2>2. PICK p : l = LogEntry(logs.raw, p)
    BY <1>1, <2>1
  <2> QED
    BY <2>2 DEF LogEntry, LogRecord
<1>7. row.log.trace = l.trace /\ row.log.span = l.span /\ row.status = LinkStatus(l, SpanPairs(traces))
  BY <1>5, <1>6
<1>8. \A i \in known : i.trace # None
  OBVIOUS
<1> HIDE DEF known, l
<1>9. <<l.trace, l.span>> \in SpanPairs(traces) <=> \E i \in known : i.trace = l.trace /\ i.span = l.span
  BY <1>4
<1>10. l.trace \in {p[1] : p \in SpanPairs(traces)} <=> \E i \in known : i.trace = l.trace
  <2>1. ASSUME NEW p \in SpanPairs(traces) PROVE \E i \in known : p[1] = i.trace
    <3>1. PICK i \in known : p = <<i.trace, i.span>>
      BY <1>4
    <3> QED
      BY <3>1
  <2>2. ASSUME NEW i \in known PROVE \E p \in SpanPairs(traces) : p[1] = i.trace
    <3>1. <<i.trace, i.span>> \in SpanPairs(traces)
      BY <1>4
    <3> QED
      BY <3>1
  <2> QED
    BY <2>1, <2>2
<1> QED
  BY <1>7, <1>8, <1>9, <1>10 DEF LinkStatus

LEMMA TelemetryTold == TelemetryInv => TelemetryTypeOK /\ TelemetryExact
<1> SUFFICES ASSUME TelemetryInv PROVE TelemetryTypeOK /\ TelemetryExact
  OBVIOUS
<1>1. TelemetryTypeOK
  <2>1. traces = Nothing \/ (traces.at = "imported" /\ IsEnvelope(traces.raw) /\ Len(traces.entries) <= MaxItems + edits)
    BY Later DEF TelemetryInv, TracesImported
  <2>2. logs = Nothing \/ (logs.at = "imported" /\ IsEnvelope(logs.raw) /\ Len(logs.entries) <= MaxItems + edits)
    BY Later DEF TelemetryInv, LogsImported
  <2> QED
    BY <2>1, <2>2 DEF TelemetryInv, TelemetryTypeOK, ResultOK
<1>2. TelemetryExact
  BY TracesAreReplayed, GraphsAreExact, LinksAreExact DEF TelemetryExact
<1> QED
  BY <1>1, <1>2

(* Whatever envelopes are imported and whatever is changed in what was      *)
(* derived from them: valid spans are those that the retained envelope      *)
(* leads to; a trace is refused just when it has no span, has spans that    *)
(* cannot be told apart or one that is its own ancestor, and its graph has  *)
(* every span below its parent or among the orphans; and logs are matched   *)
(* with spans just as the envelopes say.                                    *)
THEOREM TelemetryAlwaysExact == TelemetrySpec => [](TelemetryTypeOK /\ TelemetryExact)
BY TelemetryBegins, TelemetryGoesOn, TelemetryTold, PTL DEF TelemetrySpec
==============================================================================

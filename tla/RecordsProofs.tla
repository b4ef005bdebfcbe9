----------------------------- MODULE RecordsProofs -----------------------------
(***************************************************************************)
(* Theorems about records that others rely on later: the rows, the audit    *)
(* and the anchors of the evidence repository, for every set of workers,    *)
(* contents and classifications and any number of requests; the notes of    *)
(* any number of analysts; case packages, of any ledgers and profiles and   *)
(* any number of exports; what is derived from raw evidence and replayed;   *)
(* and the parts of MCRecords put together.                                 *)
(***************************************************************************)
EXTENDS MCRecords, LogProofs

------------------------------------------------------------------------------
(* The evidence repository.                                                 *)

Working(w) == ~At(w, "ready")

StartsWith(s, t) == Len(t) <= Len(s) /\ \A i \in 1..Len(t) : s[i] = t[i]

(* What a request has left by the time it appends its event.                *)
RequestRecorded(n, request) ==
  /\ request.op \in {"ingest", "extract", "hold", "release"}
  /\ request.op = "ingest" => n \in DOMAIN evidence
  /\ request.op = "hold" => n \in DOMAIN holds
  /\ request.op = "release" => request.of \in DOMAIN holds /\ holds[request.of] = TRUE

(* A request, as far as it is: what it relies on is still so, whatever the  *)
(* others do meanwhile, since rows and objects are never removed.           *)
RunOK(w) ==
  LET request == worker[w].request
  IN  /\ At(w, "asked") =>
           /\ request.op = "extract" => request.of \in DOMAIN evidence
           /\ request.op = "release" => request.of \in DOMAIN holds
      /\ worker[w].at \in {"absent", "present", "stored", "linked"} => request.op = "ingest"
      /\ At(w, "stored") => files[request.digest] = "whole"
      /\ worker[w].at \in {"present", "linked"} => objects[request.digest] # NoObject
      /\ At(w, "unreleased") => request.op = "release" /\ request.of \in DOMAIN holds
      /\ worker[w].at \in {"recorded", "audited"} => RequestRecorded(worker[w].n, request)
      /\ At(w, "allowed") =>
           request.op = "transition" /\ request.to \in Transitions[worker[w].from]
      /\ At(w, "anchoring") => request.op = "anchor" /\ StartsWith(audit, worker[w].lines)

(* No two requests have one number, and who asks for a hold has none yet.   *)
NumbersOK ==
  \A w \in Worker : Working(w) =>
    /\ worker[w].n \in 1..requests
    /\ \A v \in Worker \ {w} : Working(v) => worker[v].n # worker[w].n
    /\ At(w, "asked") => worker[w].n \notin DOMAIN holds

(* The row of an object follows its file, and evidence follows the row.     *)
ObjectsOK == \A d \in Digest : objects[d] # NoObject => files[d] = "whole"

Answered(r) ==
  /\ r.request.op \in {"ingest", "hold", "extract", "release"} => RequestRecorded(r.n, r.request)
  /\ r.request.op = "transition" => \E i \in DOMAIN events : events[i].event = r.n
  /\ r.request.op \in {"ingest", "hold", "extract"} /\ ~torn => r.n \in Hashes(audit)

AnsweredOK == \A r \in returned : Answered(r)

(* Also of an audit that can no longer be read.                             *)
AnchorsOK == \A anchor \in anchors : anchor.count \in Nat /\ AnchorVerifies(anchor)

Safe ==
  /\ NumbersOK /\ (\A w \in Worker : RunOK(w)) /\ ObjectsOK
  /\ AnsweredOK /\ CaseFollowsEvents /\ AnchorsOK

(* The inductive invariant.                                                 *)
RepositoryInv == RepositoryTypeOK /\ Safe

(* No step takes anything back.                                             *)
Grows ==
  /\ \A d \in Digest :
       /\ files[d] = "whole" => files'[d] = "whole"
       /\ objects[d] # NoObject => objects'[d] # NoObject
  /\ DOMAIN evidence \subseteq DOMAIN evidence'
  /\ \A h \in DOMAIN holds : h \in DOMAIN holds' /\ (holds[h] = TRUE => holds'[h] = TRUE)
  /\ StartsWith(audit', audit)
  /\ StartsWith(events', events)
  /\ torn => torn'

-----------------------------------------------------------------------------
(* Helpers.                                                                 *)

LEMMA RequestFields ==
  ASSUME NEW r \in Request
  PROVE  /\ r.op \in {"ingest", "extract", "release", "hold", "anchor", "transition"}
         /\ r.op = "ingest" => r.digest \in Digest /\ r.class \in Class
         /\ r.op \in {"extract", "release"} => r.of \in Nat
         /\ r.op = "transition" => r.to \in Status
BY DEF Request

LEMMA WorkerFields ==
  ASSUME RepositoryTypeOK, NEW w \in Worker, Working(w)
  PROVE  worker[w] \in Busy /\ worker[w].n \in Nat /\ worker[w].request \in Request
<1>1. worker[w] \in Busy
  BY DEF RepositoryTypeOK, Working, At, Ready
<1> QED
  BY <1>1 DEF Busy

LEMMA StartsWithItself ==
  ASSUME NEW s, Len(s) \in Nat
  PROVE  StartsWith(s, s)
BY DEF StartsWith

LEMMA StartsWithMore ==
  ASSUME NEW Element, NEW s \in Seq(Element), NEW x
  PROVE  StartsWith(Append(s, x), s)
BY SMTT(60) DEF StartsWith

LEMMA RunStays ==
  ASSUME RepositoryTypeOK, RepositoryTypeOK', Grows,
         NEW w \in Worker, RunOK(w), worker'[w] = worker[w]
  PROVE  RunOK(w)'
<1>1. Working(w) => worker[w] \in Busy /\ worker[w].n \in Nat /\ worker[w].request \in Request
  BY WorkerFields
<1> DEFINE r == worker[w].request
<1>2. At(w, "stored") => files'[r.digest] = "whole"
  BY <1>1, RequestFields DEF RunOK, At, Working, Grows
<1>3. worker[w].at \in {"present", "linked"} => objects'[r.digest] # NoObject
  BY <1>1, RequestFields, SMTT(60) DEF RunOK, At, Working, Grows
<1>4. worker[w].at \in {"recorded", "audited"} => RequestRecorded(worker[w].n, r)'
  BY DEF RunOK, RequestRecorded, Grows
<1>5. At(w, "anchoring") => StartsWith(audit', worker[w].lines)
  <2> SUFFICES ASSUME At(w, "anchoring") PROVE StartsWith(audit', worker[w].lines)
    OBVIOUS
  <2>1. StartsWith(audit, worker[w].lines) /\ StartsWith(audit', audit)
    BY DEF RunOK, Grows
  <2>2. worker[w].lines \in Seq(Line) /\ audit \in Seq(Line) /\ audit' \in Seq(Line)
    BY <1>1 DEF At, Working, Busy, RepositoryTypeOK
  <2> QED
    BY <2>1, <2>2, SMTT(60) DEF StartsWith
<1> QED
  BY <1>2, <1>3, <1>4, <1>5 DEF RunOK, Grows, At, RequestRecorded

LEMMA AnswerStays ==
  ASSUME RepositoryTypeOK, RepositoryTypeOK', Grows, NEW r, Answered(r)
  PROVE  Answered(r)'
<1>1. audit \in Seq(Line) /\ audit' \in Seq(Line)
      /\ events \in Seq([event : Nat, from : Status, to : Status])
      /\ events' \in Seq([event : Nat, from : Status, to : Status])
  BY DEF RepositoryTypeOK
<1>2. /\ DOMAIN audit = 1..Len(audit) /\ DOMAIN audit' = 1..Len(audit')
      /\ DOMAIN events = 1..Len(events) /\ DOMAIN events' = 1..Len(events')
      /\ Len(audit) \in Nat /\ Len(audit') \in Nat /\ Len(events) \in Nat /\ Len(events') \in Nat
  BY <1>1, LenProperties
<1>3. /\ Len(audit) <= Len(audit') /\ \A i \in 1..Len(audit) : audit'[i] = audit[i]
      /\ Len(events) <= Len(events') /\ \A i \in 1..Len(events) : events'[i] = events[i]
  BY DEF Grows, StartsWith
<1>4. RequestRecorded(r.n, r.request) => RequestRecorded(r.n, r.request)'
  BY DEF RequestRecorded, Grows
<1>5. ASSUME NEW i \in DOMAIN events, events[i].event = r.n
      PROVE  \E j \in DOMAIN events' : events'[j].event = r.n
  <2>1. i \in DOMAIN events' /\ events'[i] = events[i]
    BY <1>2, <1>3
  <2> QED
    BY <1>5, <2>1
<1>6. r.n \in Hashes(audit) => r.n \in Hashes(audit)'
  <2>1. \A i \in DOMAIN audit : i \in DOMAIN audit' /\ audit'[i] = audit[i]
    BY <1>2, <1>3
  <2> QED
    BY <2>1 DEF Hashes
<1> QED
  BY <1>4, <1>5, <1>6 DEF Answered, Grows

LEMMA BeginningStays ==
  ASSUME NEW s \in Seq(Line), NEW t \in Seq(Line), StartsWith(t, s), NEW n \in Nat, n <= Len(s)
  PROVE  SubSeq(t, 1, n) = SubSeq(s, 1, n)
<1>1. \A i \in 1..n : s[i] \in Line /\ t[i] \in Line /\ t[i] = s[i]
  BY DEF StartsWith
<1>2. /\ SubSeq(s, 1, n) \in Seq(Line) /\ SubSeq(t, 1, n) \in Seq(Line)
      /\ Len(SubSeq(s, 1, n)) = n /\ Len(SubSeq(t, 1, n)) = n
      /\ \A i \in 1..n : SubSeq(s, 1, n)[i] = s[i] /\ SubSeq(t, 1, n)[i] = t[i]
  BY <1>1, SubSeqProperties
<1> QED
  BY <1>1, <1>2, SeqEqual

(* What an anchor says is of a beginning of the audit.                      *)
LEMMA Anchored ==
  ASSUME audit \in Seq(Line), NEW a, a.count \in Nat
  PROVE  AnchorVerifies(a) <=>
           /\ a.count <= Len(audit)
           /\ LastHash(SubSeq(audit, 1, a.count)) = a.head
           /\ a.digests \subseteq ObjectDigests
           /\ MerkleRoot(Hashes(SubSeq(audit, 1, a.count)), a.digests) = a.root
<1>1. ASSUME NEW n \in Nat, n <= Len(audit)
      PROVE  Len(SubSeq(audit, 1, n)) = n
  <2>1. \A i \in 1..n : audit[i] \in Line
    BY <1>1
  <2> QED
    BY <1>1, <2>1, SubSeqProperties
<1>2. CASE a.count <= Len(audit)
  <2>1. (IF a.count < Len(audit) THEN a.count ELSE Len(audit)) = a.count
    BY <1>2
  <2> QED
    BY <1>1, <1>2, <2>1 DEF AnchorVerifies
<1>3. CASE ~(a.count <= Len(audit))
  BY <1>1, <1>3 DEF AnchorVerifies
<1> QED
  BY <1>2, <1>3

LEMMA AnchorStays ==
  ASSUME RepositoryTypeOK, RepositoryTypeOK', Grows, NEW a, a.count \in Nat, AnchorVerifies(a)
  PROVE  AnchorVerifies(a)'
<1>1. audit \in Seq(Line) /\ audit' \in Seq(Line) /\ StartsWith(audit', audit)
  BY DEF RepositoryTypeOK, Grows
<1>2. a.count <= Len(audit) /\ a.count <= Len(audit')
  BY <1>1, Anchored DEF StartsWith
<1>3. SubSeq(audit', 1, a.count) = SubSeq(audit, 1, a.count)
  BY <1>1, <1>2, BeginningStays
<1>4. a.digests \subseteq ObjectDigests'
  BY <1>1, Anchored DEF ObjectDigests, Grows
<1>5. /\ LastHash(SubSeq(audit', 1, a.count)) = a.head
      /\ MerkleRoot(Hashes(SubSeq(audit', 1, a.count)), a.digests) = a.root
  BY <1>1, <1>3, Anchored
<1> DEFINE whole == SubSeq(audit', 1, IF a.count < Len(audit') THEN a.count ELSE Len(audit'))
<1>6. whole = SubSeq(audit', 1, a.count)
  BY <1>1, <1>2
<1>7. Len(SubSeq(audit', 1, a.count)) = a.count
  <2>1. \A i \in 1..a.count : audit'[i] \in Line
    BY <1>1, <1>2, SMTT(60)
  <2> QED
    BY <1>2, <2>1, SubSeqProperties
<1> QED
  BY <1>4, <1>5, <1>6, <1>7 DEF AnchorVerifies, MerkleRoot, LastHash, Hashes

(* A step that takes nothing back keeps all that was there; what is left is *)
(* whether it is right of its own request and of what it adds.              *)
LEMMA Steps ==
  ASSUME RepositoryInv, RepositoryTypeOK', Grows, requests' = requests,
         NEW w \in Worker, Working(w), \A v \in Worker \ {w} : worker'[v] = worker[v],
         Working(w)' => worker'[w].n = worker[w].n /\ ~At(w, "asked")',
         DOMAIN holds' \subseteq DOMAIN holds \cup (IF At(w, "asked") THEN {worker[w].n} ELSE {}),
         RunOK(w)', ObjectsOK', CaseFollowsEvents',
         \A r \in returned' \ returned : Answered(r)',
         \A a \in anchors' \ anchors : a.count \in Nat /\ AnchorVerifies(a)'
  PROVE  RepositoryInv'
<1> USE DEF RepositoryInv, Safe
<1>1. NumbersOK'
  <2> SUFFICES ASSUME NEW v \in Worker, Working(v)'
               PROVE  /\ worker'[v].n \in 1..requests'
                      /\ \A u \in Worker \ {v} : Working(u)' => worker'[u].n # worker'[v].n
                      /\ At(v, "asked")' => worker'[v].n \notin DOMAIN holds'
    BY DEF NumbersOK
  <2>1. \A u \in Worker : Working(u)' => Working(u) /\ worker'[u].n = worker[u].n
    BY DEF Working, At
  <2>2. /\ worker[v].n \in 1..requests
        /\ \A u \in Worker \ {v} : Working(u) => worker[u].n # worker[v].n
        /\ At(v, "asked") => worker[v].n \notin DOMAIN holds
    BY <2>1 DEF NumbersOK
  <2>3. ASSUME At(v, "asked")' PROVE worker'[v].n \notin DOMAIN holds'
    <3>1. v # w /\ At(v, "asked")
      BY <2>1, <2>3 DEF At
    <3>2. worker[w].n # worker[v].n
      BY <2>2, <3>1
    <3> QED
      BY <2>1, <2>2, <3>1, <3>2
  <2> QED
    BY <2>1, <2>2, <2>3
<1>2. \A v \in Worker : RunOK(v)'
  BY RunStays
<1>3. AnsweredOK'
  BY AnswerStays DEF AnsweredOK
<1>4. AnchorsOK'
  BY AnchorStays DEF AnchorsOK
<1> QED
  BY <1>1, <1>2, <1>3, <1>4

LEMMA Moved ==
  ASSUME RepositoryTypeOK, NEW w \in Worker, NEW s \in Busy \cup {Ready}, Go(w, s)
  PROVE  /\ worker' \in [Worker -> Busy \cup {Ready}]
         /\ worker'[w] = s /\ \A v \in Worker \ {w} : worker'[v] = worker[v]
BY DEF RepositoryTypeOK, Go

LEMMA Stepped ==
  ASSUME RepositoryInv, NEW w \in Worker, Working(w),
         NEW step \in {"absent", "stored", "linked", "unreleased", "recorded"}, Step(w, step)
  PROVE  /\ worker' \in [Worker -> Busy \cup {Ready}]
         /\ \A v \in Worker \ {w} : worker'[v] = worker[v]
         /\ worker'[w] = [at |-> step, n |-> worker[w].n, request |-> worker[w].request]
         /\ Working(w)' => worker'[w].n = worker[w].n /\ ~At(w, "asked")'
<1>1. worker[w].n \in Nat /\ worker[w].request \in Request
  BY WorkerFields DEF RepositoryInv
<1>2. [at |-> step, n |-> worker[w].n, request |-> worker[w].request] \in Busy
  BY <1>1 DEF Busy
<1> QED
  BY <1>2, Moved DEF Step, RepositoryInv, At

(* A request that raises, or dies, claims nothing.                          *)
LEMMA Raised ==
  ASSUME RepositoryInv, NEW w \in Worker, Raise(w)
  PROVE  /\ worker' \in [Worker -> Busy \cup {Ready}]
         /\ \A v \in Worker \ {w} : worker'[v] = worker[v]
         /\ RunOK(w)' /\ ~Working(w)'
<1>1. worker' \in [Worker -> Busy \cup {Ready}] /\ worker'[w] = Ready
      /\ \A v \in Worker \ {w} : worker'[v] = worker[v]
  BY Moved DEF Raise, RepositoryInv
<1> QED
  BY <1>1 DEF RunOK, Working, At, Ready

LEMMA Answers ==
  ASSUME RepositoryInv, NEW w \in Worker, Working(w), Return(w)
  PROVE  /\ Raise(w)
         /\ returned' \subseteq [n : 1..requests, request : Request]
         /\ \A r \in returned' \ returned :
              r = [n |-> worker[w].n, request |-> worker[w].request]
<1>1. worker[w].n \in 1..requests /\ worker[w].request \in Request
  BY WorkerFields DEF RepositoryInv, Safe, NumbersOK
<1> QED
  BY <1>1 DEF Return, Raise, RepositoryInv, RepositoryTypeOK

LEMMA NothingWritten ==
  ASSUME RepositoryInv, UNCHANGED <<rowVars, auditVars, caseVars>>
  PROVE  Grows /\ ObjectsOK' /\ CaseFollowsEvents'
<1>1. Len(audit) \in Nat /\ Len(events) \in Nat
  BY LenProperties DEF RepositoryInv, RepositoryTypeOK
<1>2. StartsWith(audit', audit) /\ StartsWith(events', events)
  BY <1>1, StartsWithItself DEF auditVars, caseVars
<1> QED
  BY <1>2 DEF Grows, ObjectsOK, CaseFollowsEvents, RepositoryInv, Safe, rowVars, auditVars, caseVars

(* Requests that only read.                                                 *)
LEMMA Reads ==
  ASSUME RepositoryInv, UNCHANGED <<rowVars, auditVars, caseVars, anchors, requests>>,
         NEW w \in Worker, Working(w), \A v \in Worker \ {w} : worker'[v] = worker[v],
         worker' \in [Worker -> Busy \cup {Ready}],
         Working(w)' => worker'[w].n = worker[w].n /\ ~At(w, "asked")',
         RunOK(w)',
         returned' \subseteq [n : 1..requests, request : Request],
         \A r \in returned' \ returned : Answered(r)'
  PROVE  RepositoryInv'
<1>1. RepositoryTypeOK'
  BY DEF RepositoryInv, RepositoryTypeOK, rowVars, auditVars, caseVars
<1>2. Grows /\ ObjectsOK' /\ CaseFollowsEvents'
  BY NothingWritten
<1>3. requests' = requests /\ anchors' = anchors /\ holds' = holds
  BY DEF rowVars
<1> QED
  BY <1>1, <1>2, <1>3, Steps

-----------------------------------------------------------------------------
(* The steps.                                                               *)

LEMMA AskStep ==
  ASSUME RepositoryInv, NEW w \in Worker, NEW request \in Request,
         request.op \in {"extract", "release"} => request.of \in 1..requests, Ask(w, request)
  PROVE  RepositoryInv'
<1> DEFINE s == [at |-> "asked", n |-> requests + 1, request |-> request]
<1>1. requests \in Nat /\ requests' = requests + 1 /\ s \in Busy
  BY DEF RepositoryInv, RepositoryTypeOK, Ask, Busy
<1>2. /\ worker' \in [Worker -> Busy \cup {Ready}]
      /\ worker'[w] = s /\ \A v \in Worker \ {w} : worker'[v] = worker[v]
  BY <1>1, Moved DEF RepositoryInv, Ask
<1>3. UNCHANGED <<rowVars, auditVars, caseVars, anchors, returned>>
  BY DEF Ask
<1>4. Grows /\ ObjectsOK' /\ CaseFollowsEvents'
  BY <1>3, NothingWritten
<1>5. RepositoryTypeOK'
  BY <1>1, <1>2, <1>3, RepositoryAssumption
     DEF RepositoryInv, RepositoryTypeOK, Ask, rowVars, auditVars, caseVars
<1>6. NumbersOK'
  <2>1. \A v \in Worker \ {w} : worker'[v] = worker[v]
    BY <1>2
  <2>2. worker'[w].n = requests + 1 /\ requests + 1 \notin DOMAIN holds'
    BY <1>1, <1>2, <1>3 DEF rowVars, RepositoryInv, RepositoryTypeOK
  <2>3. holds' = holds
    BY <1>3 DEF rowVars
  <2> QED
    BY <1>1, <2>1, <2>2, <2>3 DEF NumbersOK, Working, At, RepositoryInv, Safe
<1>7. RunOK(w)'
  BY <1>2, <1>3 DEF RunOK, At, Ask, rowVars
<1>8. \A v \in Worker : RunOK(v)'
  BY <1>2, <1>4, <1>5, <1>7, RunStays DEF RepositoryInv, Safe
<1>9. AnsweredOK' /\ AnchorsOK'
  BY <1>3, <1>4, <1>5, AnswerStays, AnchorStays DEF RepositoryInv, Safe, AnsweredOK, AnchorsOK
<1> QED
  BY <1>4, <1>5, <1>6, <1>8, <1>9 DEF RepositoryInv, Safe

LEMMA LookupStep ==
  ASSUME RepositoryInv, NEW w \in Worker, Lookup(w)
  PROVE  RepositoryInv'
<1> DEFINE d == worker[w].request.digest
           found == [at |-> "present", n |-> worker[w].n, request |-> worker[w].request,
                     class |-> objects[d]]
<1>1. Working(w) /\ UNCHANGED <<rowVars, auditVars, caseVars, anchors, requests, returned>>
  BY DEF Lookup, At, Working
<1>2. worker[w].n \in Nat /\ worker[w].request \in Request /\ d \in Digest
  BY <1>1, WorkerFields, RequestFields, SMTT(60) DEF RepositoryInv, Lookup, Op
<1>3. CASE objects[d] = NoObject
  <2>1. Step(w, "absent")
    BY <1>3 DEF Lookup
  <2>2. /\ worker' \in [Worker -> Busy \cup {Ready}]
        /\ \A v \in Worker \ {w} : worker'[v] = worker[v]
        /\ worker'[w] = [at |-> "absent", n |-> worker[w].n, request |-> worker[w].request]
        /\ Working(w)' => worker'[w].n = worker[w].n /\ ~At(w, "asked")'
    BY <1>1, <2>1, Stepped
  <2>3. RunOK(w)'
    BY <2>2 DEF RunOK, At, Lookup, Op
  <2> QED
    BY <1>1, <2>2, <2>3, Reads DEF RepositoryInv, RepositoryTypeOK
<1>4. CASE objects[d] # NoObject
  <2>1. Go(w, found) /\ found \in Busy
    BY <1>2, <1>4 DEF Lookup, Busy, RepositoryInv, RepositoryTypeOK
  <2>2. /\ worker' \in [Worker -> Busy \cup {Ready}]
        /\ worker'[w] = found /\ \A v \in Worker \ {w} : worker'[v] = worker[v]
    BY <2>1, Moved DEF RepositoryInv
  <2>3. RunOK(w)'
    BY <1>1, <1>4, <2>2 DEF RunOK, At, Lookup, Op, rowVars
  <2>4. worker'[w].n = worker[w].n /\ ~At(w, "asked")'
    BY <2>2 DEF At
  <2> QED
    BY <1>1, <2>2, <2>3, <2>4, Reads DEF RepositoryInv, RepositoryTypeOK
<1> QED
  BY <1>3, <1>4

LEMMA StoreObjectStep ==
  ASSUME RepositoryInv, NEW w \in Worker, StoreObject(w)
  PROVE  RepositoryInv'
<1> DEFINE d == worker[w].request.digest
<1>1. Working(w) /\ Step(w, "stored") /\ files' = [files EXCEPT ![d] = "whole"]
      /\ UNCHANGED <<objects, evidence, holds, audit, torn, status, events, anchors, requests, returned>>
  BY DEF StoreObject, At, Working, auditVars, caseVars
<1>2. worker[w].request \in Request /\ worker[w].request.op = "ingest" /\ d \in Digest
  BY <1>1, WorkerFields, RequestFields DEF RepositoryInv, Safe, RunOK, StoreObject, At
<1>3. /\ worker' \in [Worker -> Busy \cup {Ready}]
      /\ \A v \in Worker \ {w} : worker'[v] = worker[v]
      /\ worker'[w] = [at |-> "stored", n |-> worker[w].n, request |-> worker[w].request]
      /\ Working(w)' => worker'[w].n = worker[w].n /\ ~At(w, "asked")'
  BY <1>1, Stepped
<1>4. files' \in [Digest -> {"none", "whole", "partial"}] /\ files'[d] = "whole"
      /\ \A c \in Digest : files[c] = "whole" => files'[c] = "whole"
  BY <1>1, <1>2 DEF RepositoryInv, RepositoryTypeOK
<1>5. RepositoryTypeOK'
  BY <1>1, <1>3, <1>4 DEF RepositoryInv, RepositoryTypeOK
<1>6. Grows
  <2>1. StartsWith(audit', audit) /\ StartsWith(events', events)
    BY <1>1, StartsWithItself, LenProperties DEF RepositoryInv, RepositoryTypeOK
  <2> QED
    BY <1>1, <1>4, <2>1 DEF Grows
<1>7. RunOK(w)'
  BY <1>2, <1>3, <1>4 DEF RunOK, At
<1>8. ObjectsOK' /\ CaseFollowsEvents'
  BY <1>1, <1>4 DEF RepositoryInv, Safe, ObjectsOK, CaseFollowsEvents
<1> QED
  BY <1>1, <1>3, <1>5, <1>6, <1>7, <1>8, Steps

(* The row is inserted only after the file is there.                        *)
LEMMA InsertObjectStep ==
  ASSUME RepositoryInv, NEW w \in Worker, InsertObject(w)
  PROVE  RepositoryInv'
<1> DEFINE d == worker[w].request.digest
<1>1. Working(w) /\ UNCHANGED <<files, evidence, holds, audit, torn, status, events, anchors, requests, returned>>
  BY DEF InsertObject, At, Working, auditVars, caseVars
<1>2. /\ worker[w].request \in Request /\ worker[w].request.op = "ingest"
      /\ d \in Digest /\ worker[w].request.class \in Class /\ files[d] = "whole"
  BY <1>1, WorkerFields, RequestFields, SMTT(60) DEF RepositoryInv, Safe, RunOK, InsertObject, At
<1>3. CASE objects[d] # NoObject
  <2>1. Raise(w) /\ objects' = objects
    BY <1>3 DEF InsertObject
  <2> QED
    BY <1>1, <2>1, Raised, Reads DEF RepositoryInv, RepositoryTypeOK, rowVars, auditVars, caseVars
<1>4. CASE objects[d] = NoObject
  <2>1. Step(w, "linked") /\ objects' = [objects EXCEPT ![d] = worker[w].request.class]
    BY <1>4 DEF InsertObject
  <2>2. /\ worker' \in [Worker -> Busy \cup {Ready}]
        /\ \A v \in Worker \ {w} : worker'[v] = worker[v]
        /\ worker'[w] = [at |-> "linked", n |-> worker[w].n, request |-> worker[w].request]
        /\ Working(w)' => worker'[w].n = worker[w].n /\ ~At(w, "asked")'
    BY <1>1, <2>1, Stepped
  <2>3. /\ objects' \in [Digest -> Class \cup {NoObject}] /\ objects'[d] # NoObject
        /\ \A c \in Digest \ {d} : objects'[c] = objects[c]
    BY <1>2, <2>1, RepositoryAssumption DEF RepositoryInv, RepositoryTypeOK
  <2>4. RepositoryTypeOK'
    BY <1>1, <2>2, <2>3 DEF RepositoryInv, RepositoryTypeOK
  <2>5. Grows
    <3>1. StartsWith(audit', audit) /\ StartsWith(events', events)
      BY <1>1, StartsWithItself, LenProperties DEF RepositoryInv, RepositoryTypeOK
    <3> QED
      BY <1>1, <2>3, <3>1 DEF Grows
  <2>6. RunOK(w)'
    BY <1>2, <2>2, <2>3 DEF RunOK, At
  <2>7. ObjectsOK' /\ CaseFollowsEvents'
    BY <1>1, <1>2, <2>3 DEF RepositoryInv, Safe, ObjectsOK, CaseFollowsEvents
  <2> QED
    BY <1>1, <2>2, <2>4, <2>5, <2>6, <2>7, Steps
<1> QED
  BY <1>3, <1>4

LEMMA UpgradeObjectStep ==
  ASSUME RepositoryInv, NEW w \in Worker, UpgradeObject(w)
  PROVE  RepositoryInv'
<1> DEFINE d == worker[w].request.digest
<1>1. /\ Working(w) /\ Step(w, "linked")
      /\ UNCHANGED <<files, evidence, holds, audit, torn, status, events, anchors, requests, returned>>
  BY DEF UpgradeObject, At, Working, auditVars, caseVars
<1>2. /\ worker[w].request \in Request /\ worker[w].request.op = "ingest"
      /\ d \in Digest /\ worker[w].request.class \in Class /\ objects[d] # NoObject
  BY <1>1, WorkerFields, RequestFields DEF RepositoryInv, Safe, RunOK, UpgradeObject, At
<1>3. /\ worker' \in [Worker -> Busy \cup {Ready}]
      /\ \A v \in Worker \ {w} : worker'[v] = worker[v]
      /\ worker'[w] = [at |-> "linked", n |-> worker[w].n, request |-> worker[w].request]
      /\ Working(w)' => worker'[w].n = worker[w].n /\ ~At(w, "asked")'
  BY <1>1, Stepped
<1>4. /\ objects' \in [Digest -> Class \cup {NoObject}] /\ objects'[d] # NoObject
      /\ \A c \in Digest \ {d} : objects'[c] = objects[c]
  BY <1>2, RepositoryAssumption DEF UpgradeObject, RepositoryInv, RepositoryTypeOK
<1>5. RepositoryTypeOK'
  BY <1>1, <1>3, <1>4 DEF RepositoryInv, RepositoryTypeOK
<1>6. Grows
  <2>1. StartsWith(audit', audit) /\ StartsWith(events', events)
    BY <1>1, StartsWithItself, LenProperties DEF RepositoryInv, RepositoryTypeOK
  <2> QED
    BY <1>1, <1>4, <2>1 DEF Grows
<1>7. RunOK(w)'
  BY <1>2, <1>3, <1>4 DEF RunOK, At
<1>8. ObjectsOK' /\ CaseFollowsEvents'
  BY <1>1, <1>2, <1>4 DEF RepositoryInv, Safe, ObjectsOK, CaseFollowsEvents
<1> QED
  BY <1>1, <1>3, <1>5, <1>6, <1>7, <1>8, Steps

LEMMA InsertEvidenceStep ==
  ASSUME RepositoryInv, NEW w \in Worker, InsertEvidence(w)
  PROVE  RepositoryInv'
<1> DEFINE d == worker[w].request.digest
           n == worker[w].n
           reference == [digest |-> d, class |-> worker[w].request.class]
<1>1. /\ Working(w) /\ Step(w, "recorded") /\ evidence' = With(evidence, n, reference)
      /\ UNCHANGED <<files, objects, holds, audit, torn, status, events, anchors, requests, returned>>
  BY SMTT(60) DEF InsertEvidence, At, Working, auditVars, caseVars
<1>2. /\ worker[w].request \in Request /\ worker[w].request.op = "ingest"
      /\ reference \in [digest : Digest, class : Class] /\ objects[d] # NoObject /\ n \in 1..requests
  BY <1>1, WorkerFields, RequestFields DEF RepositoryInv, Safe, NumbersOK, RunOK, InsertEvidence, At
<1>3. /\ worker' \in [Worker -> Busy \cup {Ready}]
      /\ \A v \in Worker \ {w} : worker'[v] = worker[v]
      /\ worker'[w] = [at |-> "recorded", n |-> worker[w].n, request |-> worker[w].request]
      /\ Working(w)' => worker'[w].n = worker[w].n /\ ~At(w, "asked")'
  BY <1>1, Stepped
<1>4. /\ DOMAIN evidence' = DOMAIN evidence \cup {n} /\ evidence'[n] = reference
      /\ \A e \in DOMAIN evidence \ {n} : evidence'[e] = evidence[e]
  BY <1>1 DEF With
<1>5. RepositoryTypeOK'
  <2>1. DOMAIN evidence' \subseteq 1..requests'
    BY <1>1, <1>2, <1>4, SMTT(60) DEF RepositoryInv, RepositoryTypeOK
  <2>2. \A e \in DOMAIN evidence' :
          evidence'[e] \in [digest : Digest, class : Class] /\ objects'[evidence'[e].digest] # NoObject
    BY <1>1, <1>2, <1>4, SMTT(60) DEF RepositoryInv, RepositoryTypeOK
  <2> QED
    BY <1>1, <1>3, <2>1, <2>2 DEF RepositoryInv, RepositoryTypeOK
<1>6. Grows
  <2>1. StartsWith(audit', audit) /\ StartsWith(events', events)
    BY <1>1, StartsWithItself, LenProperties DEF RepositoryInv, RepositoryTypeOK
  <2> QED
    BY <1>1, <1>4, <2>1 DEF Grows
<1>7. RunOK(w)'
  BY <1>2, <1>3, <1>4 DEF RunOK, At, RequestRecorded
<1>8. ObjectsOK' /\ CaseFollowsEvents'
  BY <1>1 DEF RepositoryInv, Safe, ObjectsOK, CaseFollowsEvents
<1> QED
  BY <1>1, <1>3, <1>5, <1>6, <1>7, <1>8, Steps

LEMMA ExtractStep ==
  ASSUME RepositoryInv, NEW w \in Worker, Extract(w)
  PROVE  RepositoryInv'
<1>1. /\ Working(w) /\ worker[w].request.op = "extract" /\ (Step(w, "recorded") \/ Raise(w))
      /\ UNCHANGED <<rowVars, auditVars, caseVars, anchors, requests, returned>>
  BY DEF Extract, At, Working, Op
<1>2. CASE Step(w, "recorded")
  <2>1. /\ worker' \in [Worker -> Busy \cup {Ready}]
        /\ \A v \in Worker \ {w} : worker'[v] = worker[v]
        /\ worker'[w] = [at |-> "recorded", n |-> worker[w].n, request |-> worker[w].request]
        /\ Working(w)' => worker'[w].n = worker[w].n /\ ~At(w, "asked")'
    BY <1>1, <1>2, Stepped
  <2>2. RunOK(w)'
    BY <1>1, <2>1, SMTT(60) DEF RunOK, At, RequestRecorded
  <2> QED
    BY <1>1, <2>1, <2>2, Reads DEF RepositoryInv, RepositoryTypeOK
<1>3. CASE Raise(w)
  BY <1>1, <1>3, Raised, Reads DEF RepositoryInv, RepositoryTypeOK
<1> QED
  BY <1>1, <1>2, <1>3

LEMMA CreateHoldStep ==
  ASSUME RepositoryInv, NEW w \in Worker, CreateHold(w)
  PROVE  RepositoryInv'
<1> DEFINE n == worker[w].n
<1>1. /\ Working(w) /\ At(w, "asked") /\ worker[w].request.op = "hold"
      /\ Step(w, "recorded") /\ holds' = With(holds, n, FALSE)
      /\ UNCHANGED <<files, objects, evidence, audit, torn, status, events, anchors, requests, returned>>
  BY DEF CreateHold, At, Op, Working, auditVars, caseVars
<1>2. n \in 1..requests /\ n \notin DOMAIN holds
  BY <1>1 DEF RepositoryInv, Safe, NumbersOK
<1>3. /\ worker' \in [Worker -> Busy \cup {Ready}]
      /\ \A v \in Worker \ {w} : worker'[v] = worker[v]
      /\ worker'[w] = [at |-> "recorded", n |-> worker[w].n, request |-> worker[w].request]
      /\ Working(w)' => worker'[w].n = worker[w].n /\ ~At(w, "asked")'
  BY <1>1, Stepped
<1>4. /\ DOMAIN holds' = DOMAIN holds \cup {n} /\ holds'[n] = FALSE
      /\ \A h \in DOMAIN holds : holds'[h] = holds[h]
  BY <1>1, <1>2 DEF With
<1>5. RepositoryTypeOK'
  <2>1. DOMAIN holds \subseteq 1..requests /\ (\A h \in DOMAIN holds : holds[h] \in BOOLEAN) /\ requests' = requests
    BY <1>1, Zenon DEF RepositoryInv, RepositoryTypeOK
  <2>2. DOMAIN holds' \subseteq 1..requests'
    BY <1>2, <1>4, <2>1
  <2>3. ASSUME NEW h \in DOMAIN holds' PROVE holds'[h] \in BOOLEAN
    BY <1>4, <2>1, Zenon
  <2> QED
    BY <1>1, <1>3, <2>2, <2>3 DEF RepositoryInv, RepositoryTypeOK
<1>6. Grows
  <2>1. StartsWith(audit', audit) /\ StartsWith(events', events)
    BY <1>1, StartsWithItself, LenProperties DEF RepositoryInv, RepositoryTypeOK
  <2> QED
    BY <1>1, <1>4, <2>1 DEF Grows
<1>7. RunOK(w)'
  <2>1. worker'[w].at = "recorded" /\ worker'[w].n = n /\ worker'[w].request.op = "hold"
    BY <1>1, <1>3
  <2>2. n \in DOMAIN holds'
    BY <1>4
  <2> QED
    BY <2>1, <2>2 DEF RunOK, At, RequestRecorded
<1>8. ObjectsOK' /\ CaseFollowsEvents'
  BY <1>1 DEF RepositoryInv, Safe, ObjectsOK, CaseFollowsEvents
<1> QED
  BY <1>1, <1>3, <1>4, <1>5, <1>6, <1>7, <1>8, Steps

LEMMA CheckHoldStep ==
  ASSUME RepositoryInv, NEW w \in Worker, CheckHold(w)
  PROVE  RepositoryInv'
<1> DEFINE r == worker[w].request
<1>1. /\ Working(w) /\ At(w, "asked") /\ r.op = "release" /\ r.of \in DOMAIN holds
      /\ UNCHANGED <<rowVars, auditVars, caseVars, anchors, requests>>
  BY DEF CheckHold, At, Op, Working, RepositoryInv, Safe, RunOK
<1>2. holds[r.of] \in BOOLEAN
  BY <1>1 DEF RepositoryInv, RepositoryTypeOK
<1>3. CASE holds[r.of] = TRUE
  <2>1. Return(w)
    BY <1>3 DEF CheckHold
  <2>2. \A a \in returned' \ returned : a = [n |-> worker[w].n, request |-> r]
    BY <1>1, <2>1, Answers
  <2>3. \A a \in returned' \ returned : Answered(a)'
    BY <1>1, <1>3, <2>2 DEF Answered, RequestRecorded, rowVars
  <2> QED
    BY <1>1, <2>1, <2>3, Answers, Raised, Reads
<1>4. CASE holds[r.of] = FALSE
  <2>1. Step(w, "unreleased") /\ returned' = returned
    BY <1>4 DEF CheckHold
  <2>2. /\ worker' \in [Worker -> Busy \cup {Ready}]
        /\ \A v \in Worker \ {w} : worker'[v] = worker[v]
        /\ worker'[w] = [at |-> "unreleased", n |-> worker[w].n, request |-> worker[w].request]
        /\ Working(w)' => worker'[w].n = worker[w].n /\ ~At(w, "asked")'
    BY <1>1, <2>1, Stepped
  <2>3. RunOK(w)'
    BY <1>1, <2>2 DEF RunOK, At, rowVars
  <2> QED
    BY <1>1, <2>1, <2>2, <2>3, Reads DEF RepositoryInv, RepositoryTypeOK
<1> QED
  BY <1>2, <1>3, <1>4

LEMMA ReleaseHoldStep ==
  ASSUME RepositoryInv, NEW w \in Worker, ReleaseHold(w)
  PROVE  RepositoryInv'
<1> DEFINE h == worker[w].request.of
<1>1. /\ Working(w) /\ worker[w].request.op = "release" /\ h \in DOMAIN holds
      /\ Step(w, "recorded") /\ holds' = [holds EXCEPT ![h] = TRUE]
      /\ UNCHANGED <<files, objects, evidence, audit, torn, status, events, anchors, requests, returned>>
  BY DEF ReleaseHold, At, Working, auditVars, caseVars, RepositoryInv, Safe, RunOK
<1>2. /\ worker' \in [Worker -> Busy \cup {Ready}]
      /\ \A v \in Worker \ {w} : worker'[v] = worker[v]
      /\ worker'[w] = [at |-> "recorded", n |-> worker[w].n, request |-> worker[w].request]
      /\ Working(w)' => worker'[w].n = worker[w].n /\ ~At(w, "asked")'
  BY <1>1, Stepped
<1>3. /\ DOMAIN holds' = DOMAIN holds /\ holds'[h] = TRUE
      /\ \A g \in DOMAIN holds \ {h} : holds'[g] = holds[g]
  BY <1>1
<1>4. RepositoryTypeOK'
  <2>1. DOMAIN holds' \subseteq 1..requests' /\ \A g \in DOMAIN holds' : holds'[g] \in BOOLEAN
    BY <1>1, <1>3 DEF RepositoryInv, RepositoryTypeOK
  <2> QED
    BY <1>1, <1>2, <2>1 DEF RepositoryInv, RepositoryTypeOK
<1>5. Grows
  <2>1. StartsWith(audit', audit) /\ StartsWith(events', events)
    BY <1>1, StartsWithItself, LenProperties DEF RepositoryInv, RepositoryTypeOK
  <2> QED
    BY <1>1, <1>3, <2>1 DEF Grows
<1>6. RunOK(w)'
  BY <1>1, <1>2, <1>3 DEF RunOK, At, RequestRecorded
<1>7. ObjectsOK' /\ CaseFollowsEvents'
  BY <1>1 DEF RepositoryInv, Safe, ObjectsOK, CaseFollowsEvents
<1> QED
  BY <1>1, <1>2, <1>3, <1>4, <1>5, <1>6, <1>7, Steps

LEMMA ReadHeadStep ==
  ASSUME RepositoryInv, NEW w \in Worker, ReadHead(w)
  PROVE  RepositoryInv'
<1> DEFINE s == [at |-> "audited", n |-> worker[w].n, request |-> worker[w].request,
                 prev |-> LastHash(audit)]
<1>1. /\ Working(w) /\ At(w, "recorded")
      /\ UNCHANGED <<rowVars, auditVars, caseVars, anchors, requests, returned>>
  BY DEF ReadHead, At, Working
<1>2. CASE torn
  <2>1. Raise(w)
    BY <1>2 DEF ReadHead
  <2> QED
    BY <1>1, <2>1, Raised, Reads DEF RepositoryInv, RepositoryTypeOK
<1>3. CASE ~torn
  <2>1. Go(w, s)
    BY <1>3 DEF ReadHead
  <2>2. LastHash(audit) \in Nat
    <3>1. audit \in Seq(Line)
      BY DEF RepositoryInv, RepositoryTypeOK
    <3>2. audit # <<>> => audit[Len(audit)] \in Line
      BY <3>1
    <3> QED
      BY <3>2 DEF LastHash, Line
  <2>3. s \in Busy
    BY <1>1, <2>2, WorkerFields DEF Busy, RepositoryInv
  <2>4. /\ worker' \in [Worker -> Busy \cup {Ready}]
        /\ worker'[w] = s /\ \A v \in Worker \ {w} : worker'[v] = worker[v]
    BY <2>1, <2>3, Moved DEF RepositoryInv
  <2>5. RequestRecorded(worker[w].n, worker[w].request)'
    <3>1. RequestRecorded(worker[w].n, worker[w].request)
      BY <1>1 DEF RepositoryInv, Safe, RunOK, At
    <3> QED
      BY <1>1, <2>4, <3>1 DEF RequestRecorded, rowVars
  <2>6. RunOK(w)'
    BY <2>4, <2>5 DEF RunOK, At
  <2>7. worker'[w].n = worker[w].n /\ ~At(w, "asked")'
    BY <2>4 DEF At
  <2> QED
    BY <1>1, <2>4, <2>6, <2>7, Reads DEF RepositoryInv, RepositoryTypeOK
<1> QED
  BY <1>2, <1>3

(* The line lands behind all that others appended in the meantime.          *)
LEMMA AppendLineStep ==
  ASSUME RepositoryInv, NEW w \in Worker, AppendLine(w)
  PROVE  RepositoryInv'
<1> DEFINE line == [event |-> worker[w].n, prev |-> worker[w].prev]
<1>1. /\ Working(w) /\ At(w, "audited") /\ Return(w)
      /\ audit' = IF torn THEN audit ELSE Append(audit, line)
      /\ UNCHANGED <<files, objects, evidence, holds, torn, status, events, anchors, requests>>
  BY SMTT(60) DEF AppendLine, At, Working, rowVars, caseVars
<1>2. /\ worker[w].n \in 1..requests /\ requests \in Nat
      /\ RequestRecorded(worker[w].n, worker[w].request)
  BY <1>1 DEF RepositoryInv, Safe, NumbersOK, RunOK, At, RepositoryTypeOK
<1>3. audit \in Seq(Line) /\ line \in Line
  <2>1. worker[w] \in Busy /\ At(w, "audited")
    BY <1>1, WorkerFields DEF RepositoryInv
  <2>2. worker[w].prev \in Nat
    BY <2>1 DEF Busy, At
  <2> QED
    BY <1>2, <2>2 DEF Line, RepositoryInv, RepositoryTypeOK
<1>4. audit' \in Seq(Line) /\ StartsWith(audit', audit)
  BY <1>1, <1>3, StartsWithMore, StartsWithItself, LenProperties, AppendProperties
<1>5. /\ worker' \in [Worker -> Busy \cup {Ready}]
      /\ \A v \in Worker \ {w} : worker'[v] = worker[v]
      /\ RunOK(w)' /\ ~Working(w)'
      /\ returned' \subseteq [n : 1..requests, request : Request]
      /\ \A r \in returned' \ returned :
           r = [n |-> worker[w].n, request |-> worker[w].request]
  BY <1>1, Answers, Raised
<1>6. RepositoryTypeOK'
  BY <1>1, <1>4, <1>5 DEF RepositoryInv, RepositoryTypeOK
<1>7. Grows
  <2>1. StartsWith(events', events)
    BY <1>1, StartsWithItself, LenProperties DEF RepositoryInv, RepositoryTypeOK
  <2> QED
    BY <1>1, <1>4, <2>1, SMTT(60) DEF Grows
<1>8. ~torn => worker[w].n \in Hashes(audit')
  <2> SUFFICES ASSUME ~torn PROVE worker[w].n \in Hashes(audit')
    OBVIOUS
  <2>1. audit' = Append(audit, line)
    BY <1>1
  <2>2. Len(audit) + 1 \in DOMAIN audit' /\ audit'[Len(audit) + 1] = line
    BY <1>3, <2>1
  <2> QED
    BY <2>2 DEF Hashes
<1>9. \A r \in returned' \ returned : Answered(r)'
  <2>1. PICK n, request : n = worker[w].n /\ request = worker[w].request
    OBVIOUS
  <2>2. RequestRecorded(n, request)' /\ request.op # "transition"
    BY <1>1, <1>2, <2>1 DEF RequestRecorded
  <2>3. ASSUME NEW r \in returned' \ returned PROVE Answered(r)'
    <3>1. r.n = n /\ r.request = request
      BY <1>5, <2>1, <2>3
    <3>2. ~torn' => r.n \in Hashes(audit)'
      BY <1>1, <1>8, <2>1, <3>1, SMTT(60)
    <3> QED
      BY <2>2, <3>1, <3>2 DEF Answered
  <2> QED
    BY <2>3
<1>10. ObjectsOK' /\ CaseFollowsEvents'
  BY <1>1 DEF RepositoryInv, Safe, ObjectsOK, CaseFollowsEvents
<1> QED
  BY <1>1, <1>5, <1>6, <1>7, <1>9, <1>10, Steps

LEMMA CheckTransitionStep ==
  ASSUME RepositoryInv, NEW w \in Worker, CheckTransition(w)
  PROVE  RepositoryInv'
<1> DEFINE r == worker[w].request
           s == [at |-> "allowed", n |-> worker[w].n, request |-> r, from |-> status]
<1>1. /\ Working(w) /\ At(w, "asked") /\ r.op = "transition"
      /\ UNCHANGED <<rowVars, auditVars, caseVars, anchors, requests, returned>>
  BY DEF CheckTransition, At, Op, Working
<1>2. CASE r.to \notin Transitions[status]
  <2>1. Raise(w)
    BY <1>2 DEF CheckTransition
  <2> QED
    BY <1>1, <2>1, Raised, Reads DEF RepositoryInv, RepositoryTypeOK
<1>3. CASE r.to \in Transitions[status]
  <2>1. Go(w, s)
    BY <1>3 DEF CheckTransition
  <2>2. s \in Busy
    BY <1>1, WorkerFields DEF Busy, RepositoryInv, RepositoryTypeOK
  <2>3. /\ worker' \in [Worker -> Busy \cup {Ready}]
        /\ worker'[w] = s /\ \A v \in Worker \ {w} : worker'[v] = worker[v]
    BY <2>1, <2>2, Moved DEF RepositoryInv
  <2>4. RunOK(w)'
    BY <1>1, <1>3, <2>3 DEF RunOK, At
  <2>5. worker'[w].n = worker[w].n /\ ~At(w, "asked")'
    BY <2>3 DEF At
  <2> QED
    BY <1>1, <2>3, <2>4, <2>5, Reads DEF RepositoryInv, RepositoryTypeOK
<1> QED
  BY <1>2, <1>3

LEMMA WriteTransitionStep ==
  ASSUME RepositoryInv, NEW w \in Worker, WriteTransition(w)
  PROVE  RepositoryInv'
<1> DEFINE r == worker[w].request
           event == [event |-> worker[w].n, from |-> worker[w].from, to |-> r.to]
           Events == [event : Nat, from : Status, to : Status]
<1>1. /\ Working(w) /\ At(w, "allowed") /\ Return(w)
      /\ status' = r.to /\ events' = Append(events, event)
      /\ UNCHANGED <<files, objects, evidence, holds, audit, torn, anchors, requests>>
  BY DEF WriteTransition, At, Working, rowVars, auditVars
<1>2. r.op = "transition" /\ r.to \in Transitions[worker[w].from]
  BY <1>1 DEF RepositoryInv, Safe, RunOK
<1>3. events \in Seq(Events) /\ event \in Events /\ r.to \in Status
  <2>1. worker[w] \in Busy /\ worker[w].n \in Nat /\ r \in Request /\ At(w, "allowed")
    BY <1>1, WorkerFields DEF RepositoryInv
  <2>2. worker[w].from \in Status
    BY <2>1 DEF Busy, At
  <2> QED
    BY <1>2, <2>1, <2>2, RequestFields DEF RepositoryInv, RepositoryTypeOK
<1>4. events' \in Seq(Events) /\ StartsWith(events', events)
  BY <1>1, <1>3, StartsWithMore, AppendProperties
<1>5. /\ DOMAIN events' = 1..(Len(events) + 1) /\ Len(events') = Len(events) + 1
      /\ events' # <<>> /\ events'[Len(events) + 1] = event
      /\ DOMAIN events = 1..Len(events) /\ Len(events) \in Nat
      /\ \A i \in 1..Len(events) : events'[i] = events[i]
  BY <1>1, <1>3
<1>6. /\ worker' \in [Worker -> Busy \cup {Ready}]
      /\ \A v \in Worker \ {w} : worker'[v] = worker[v]
      /\ RunOK(w)' /\ ~Working(w)'
      /\ returned' \subseteq [n : 1..requests, request : Request]
      /\ \A a \in returned' \ returned : a = [n |-> worker[w].n, request |-> r]
  BY <1>1, Answers, Raised, SMTT(60)
<1>7. RepositoryTypeOK'
  BY <1>1, <1>3, <1>4, <1>6 DEF RepositoryInv, RepositoryTypeOK
<1>8. Grows
  <2>1. StartsWith(audit', audit)
    BY <1>1, StartsWithItself, LenProperties DEF RepositoryInv, RepositoryTypeOK
  <2> QED
    BY <1>1, <1>4, <2>1 DEF Grows
<1>9. \A a \in returned' \ returned : Answered(a)'
  <2>1. Len(events) + 1 \in DOMAIN events' /\ events'[Len(events) + 1].event = worker[w].n
    BY <1>5
  <2> QED
    BY <1>2, <1>6, <2>1 DEF Answered
<1>10. CaseFollowsEvents'
  <2>1. status' = events'[Len(events')].to
    BY <1>1, <1>5
  <2>2. \A i \in DOMAIN events' : events'[i].to \in Transitions[events'[i].from]
    BY <1>2, <1>5 DEF RepositoryInv, Safe, CaseFollowsEvents
  <2> QED
    BY <1>5, <2>1, <2>2 DEF CaseFollowsEvents
<1>11. ObjectsOK'
  BY <1>1 DEF RepositoryInv, Safe, ObjectsOK
<1> QED
  BY <1>1, <1>6, <1>7, <1>8, <1>9, <1>10, <1>11, Steps

LEMMA ReadAuditStep ==
  ASSUME RepositoryInv, NEW w \in Worker, ReadAudit(w)
  PROVE  RepositoryInv'
<1> DEFINE s == [at |-> "anchoring", n |-> worker[w].n, request |-> worker[w].request, lines |-> audit]
<1>1. /\ Working(w) /\ At(w, "asked") /\ worker[w].request.op = "anchor"
      /\ UNCHANGED <<rowVars, auditVars, caseVars, anchors, requests, returned>>
  BY SMTT(60) DEF ReadAudit, At, Op, Working
<1>2. CASE torn
  <2>1. Raise(w)
    BY <1>2 DEF ReadAudit
  <2> QED
    BY <1>1, <2>1, Raised, Reads DEF RepositoryInv, RepositoryTypeOK
<1>3. CASE ~torn
  <2>1. Go(w, s)
    BY <1>3 DEF ReadAudit
  <2>2. s \in Busy
    BY <1>1, WorkerFields DEF Busy, RepositoryInv, RepositoryTypeOK
  <2>3. /\ worker' \in [Worker -> Busy \cup {Ready}]
        /\ worker'[w] = s /\ \A v \in Worker \ {w} : worker'[v] = worker[v]
    BY <2>1, <2>2, Moved DEF RepositoryInv
  <2>4. StartsWith(audit', audit)
    BY <1>1, StartsWithItself, LenProperties DEF auditVars, RepositoryInv, RepositoryTypeOK
  <2>5. RunOK(w)'
    BY <1>1, <2>3, <2>4 DEF RunOK, At
  <2>6. worker'[w].n = worker[w].n /\ ~At(w, "asked")'
    BY <2>3 DEF At
  <2> QED
    BY <1>1, <2>3, <2>5, <2>6, Reads DEF RepositoryInv, RepositoryTypeOK
<1> QED
  BY <1>2, <1>3

(* What is anchored is a beginning of the audit as it is by now, and the    *)
(* objects of this moment.                                                  *)
LEMMA SignAnchorStep ==
  ASSUME RepositoryInv, NEW w \in Worker, SignAnchor(w)
  PROVE  RepositoryInv'
<1>1. PICK read, anchor :
        /\ read = worker[w].lines
        /\ anchor = [count |-> Len(read), head |-> LastHash(read), digests |-> ObjectDigests,
                     root |-> MerkleRoot(Hashes(read), ObjectDigests)]
  OBVIOUS
<1>2. /\ Working(w) /\ At(w, "anchoring") /\ Return(w) /\ anchors' = anchors \cup {anchor}
      /\ UNCHANGED <<rowVars, auditVars, caseVars, requests>>
  BY <1>1 DEF SignAnchor, At, Working
<1>3. worker[w].request.op = "anchor" /\ StartsWith(audit, read)
  BY <1>1, <1>2, SMTT(60) DEF RepositoryInv, Safe, RunOK
<1>4. read \in Seq(Line) /\ audit \in Seq(Line) /\ audit' = audit
  <2>1. worker[w] \in Busy /\ At(w, "anchoring")
    BY <1>2, WorkerFields DEF RepositoryInv
  <2>2. worker[w].lines \in Seq(Line)
    BY <2>1 DEF Busy, At
  <2> QED
    BY <1>1, <1>2, <2>2 DEF auditVars, RepositoryInv, RepositoryTypeOK
<1>5. SubSeq(audit, 1, Len(read)) = read /\ Len(read) \in Nat
  <2>1. Len(read) \in Nat /\ StartsWith(read, read)
    BY <1>4, LenProperties, StartsWithItself
  <2>2. SubSeq(audit, 1, Len(read)) = SubSeq(read, 1, Len(read))
    BY <1>3, <1>4, <2>1, BeginningStays
  <2> QED
    BY <1>4, <2>1, <2>2, SubSeqFull
<1>6. AnchorVerifies(anchor)
  BY <1>1, <1>3, <1>4, <1>5, Anchored DEF StartsWith
<1>7. /\ worker' \in [Worker -> Busy \cup {Ready}]
      /\ \A v \in Worker \ {w} : worker'[v] = worker[v]
      /\ RunOK(w)' /\ ~Working(w)'
      /\ returned' \subseteq [n : 1..requests, request : Request]
      /\ \A r \in returned' \ returned :
           r = [n |-> worker[w].n, request |-> worker[w].request]
  BY <1>2, Answers, Raised, SMTT(60)
<1>8. RepositoryTypeOK'
  BY <1>2, <1>7 DEF RepositoryInv, RepositoryTypeOK, rowVars, auditVars, caseVars
<1>9. Grows /\ ObjectsOK' /\ CaseFollowsEvents'
  BY <1>2, NothingWritten
<1>10. \A r \in returned' \ returned : Answered(r)'
  BY <1>3, <1>7 DEF Answered
<1>11. \A a \in anchors' \ anchors : a.count \in Nat /\ AnchorVerifies(a)'
  <2>1. AnchorVerifies(anchor)' /\ anchor.count \in Nat
    <3>1. anchor.count \in Nat
      BY <1>1, <1>5
    <3> QED
      BY <1>6, <1>8, <1>9, <3>1, AnchorStays DEF RepositoryInv
  <2> QED
    BY <1>2, <2>1
<1>12. requests' = requests /\ holds' = holds
  BY <1>2 DEF rowVars
<1> QED
  BY <1>2, <1>7, <1>8, <1>9, <1>10, <1>11, <1>12, Steps

LEMMA DieStep ==
  ASSUME RepositoryInv, NEW w \in Worker, Die(w)
  PROVE  RepositoryInv'
<1>1. /\ Working(w) /\ Raise(w) /\ torn' \in BOOLEAN /\ (torn => torn')
      /\ UNCHANGED <<files, objects, evidence, holds, audit, status, events, anchors, requests, returned>>
  BY DEF Die, Working, rowVars, caseVars, RepositoryInv, RepositoryTypeOK, At
<1>2. /\ worker' \in [Worker -> Busy \cup {Ready}]
      /\ \A v \in Worker \ {w} : worker'[v] = worker[v]
      /\ RunOK(w)' /\ ~Working(w)'
  BY <1>1, Raised
<1>3. RepositoryTypeOK'
  BY <1>1, <1>2 DEF RepositoryInv, RepositoryTypeOK
<1>4. Grows
  <2>1. StartsWith(audit', audit) /\ StartsWith(events', events)
    BY <1>1, StartsWithItself, LenProperties DEF RepositoryInv, RepositoryTypeOK
  <2> QED
    BY <1>1, <2>1 DEF Grows
<1>5. ObjectsOK' /\ CaseFollowsEvents'
  BY <1>1 DEF RepositoryInv, Safe, ObjectsOK, CaseFollowsEvents
<1> QED
  BY <1>1, <1>2, <1>3, <1>4, <1>5, Steps

LEMMA RepositoryBegins == RepositoryInit => RepositoryInv
<1> SUFFICES ASSUME RepositoryInit PROVE RepositoryInv
  OBVIOUS
<1>1. RepositoryTypeOK
  <2>1. DOMAIN evidence = {} /\ DOMAIN holds = {}
    BY DEF RepositoryInit
  <2>2. audit \in Seq(Line) /\ events \in Seq([event : Nat, from : Status, to : Status])
    BY EmptySeq DEF RepositoryInit
  <2>3. /\ files \in [Digest -> {"none", "whole", "partial"}]
        /\ objects \in [Digest -> Class \cup {NoObject}]
        /\ worker \in [Worker -> Busy \cup {Ready}]
    BY DEF RepositoryInit
  <2>4. torn \in BOOLEAN /\ status \in Status
    BY DEF RepositoryInit, Status
  <2>5. requests \in 0..MaxRequests
    BY RepositoryAssumption DEF RepositoryInit
  <2>6. returned \subseteq [n : 1..requests, request : Request]
    BY DEF RepositoryInit
  <2> QED
    BY <2>1, <2>2, <2>3, <2>4, <2>5, <2>6 DEF RepositoryTypeOK
<1>2. NumbersOK /\ \A w \in Worker : RunOK(w)
  BY DEF RepositoryInit, NumbersOK, RunOK, Working, At, Ready
<1>3. ObjectsOK /\ AnsweredOK /\ AnchorsOK /\ CaseFollowsEvents
  BY DEF RepositoryInit, ObjectsOK, AnsweredOK, AnchorsOK, CaseFollowsEvents
<1> QED
  BY <1>1, <1>2, <1>3 DEF RepositoryInv, Safe

LEMMA RepositoryInvariant == RepositorySpec => []RepositoryInv
<1>1. RepositoryInv /\ [RepositoryNext]_repositoryVars => RepositoryInv'
  <2> SUFFICES ASSUME RepositoryInv, [RepositoryNext]_repositoryVars PROVE RepositoryInv'
    BY SMTT(60)
  <2>1. CASE UNCHANGED repositoryVars
    BY <2>1 DEF repositoryVars, RepositoryInv, RepositoryTypeOK, Safe, NumbersOK, RunOK, ObjectsOK,
       AnsweredOK, Answered, RequestRecorded, CaseFollowsEvents, AnchorsOK, AnchorVerifies,
       ObjectDigests,
       At, Working
  <2>2. CASE RepositoryNext
    <3>1. PICK w \in Worker :
            \/ \E request \in [op : {"ingest"}, digest : Digest, class : Class]
                                \cup [op : {"extract", "release"}, of : 1..requests]
                                \cup [op : {"hold", "anchor"}]
                                \cup [op : {"transition"}, to : Status] : Ask(w, request)
            \/ Lookup(w) \/ StoreObject(w) \/ InsertObject(w) \/ UpgradeObject(w) \/ InsertEvidence(w)
            \/ Extract(w) \/ CreateHold(w) \/ CheckHold(w) \/ ReleaseHold(w)
            \/ ReadHead(w) \/ AppendLine(w) \/ CheckTransition(w) \/ WriteTransition(w)
            \/ ReadAudit(w) \/ SignAnchor(w) \/ Die(w)
      BY <2>2 DEF RepositoryNext
    <3>2. ASSUME NEW request \in [op : {"ingest"}, digest : Digest, class : Class]
                                   \cup [op : {"extract", "release"}, of : 1..requests]
                                   \cup [op : {"hold", "anchor"}]
                                   \cup [op : {"transition"}, to : Status], Ask(w, request)
          PROVE  RepositoryInv'
      <4>1. request \in Request
        BY DEF Request
      <4>2. request.op \in {"extract", "release"} => request.of \in 1..requests
        OBVIOUS
      <4> QED
        BY <3>2, <4>1, <4>2, AskStep
    <3> QED
      BY <3>1, <3>2, LookupStep, StoreObjectStep, InsertObjectStep, UpgradeObjectStep,
         InsertEvidenceStep, ExtractStep, CreateHoldStep, CheckHoldStep, ReleaseHoldStep,
         ReadHeadStep, AppendLineStep, CheckTransitionStep, WriteTransitionStep, ReadAuditStep,
         SignAnchorStep, DieStep
  <2> QED
    BY <2>1, <2>2
<1> QED
  BY <1>1, RepositoryBegins, PTL DEF RepositorySpec

-----------------------------------------------------------------------------
(* Every piece of evidence on record has an object that is whole, so that   *)
(* it can be extracted, however ingests of one content overlap, raise and   *)
(* die.                                                                     *)
THEOREM EvidenceAlwaysReadable == RepositorySpec => []EvidenceReadable
<1>1. RepositoryInv => EvidenceReadable
  BY DEF RepositoryInv, RepositoryTypeOK, Safe, ObjectsOK, EvidenceReadable
<1> QED
  BY <1>1, RepositoryInvariant, PTL

(* What was answered with success is on record, in the rows and, while the  *)
(* audit can be read, in the audit, although nothing locks the audit.       *)
THEOREM AnswersAlwaysRecorded == RepositorySpec => []AnswersRecorded
<1>1. RepositoryInv => AnswersRecorded
  BY DEF RepositoryInv, Safe, AnsweredOK, Answered, RequestRecorded, AnswersRecorded
<1> QED
  BY <1>1, RepositoryInvariant, PTL

(* An anchor verifies ever after, though it was put together from an audit  *)
(* and objects of different moments, while others wrote both.               *)
THEOREM AnchorsAlwaysVerify == RepositorySpec => []AnchorsVerify
<1>1. RepositoryInv => AnchorsVerify
  BY DEF RepositoryInv, Safe, AnchorsOK, AnchorsVerify
<1> QED
  BY <1>1, RepositoryInvariant, PTL

------------------------------------------------------------------------------
(* Analysts' notes.                                                         *)

(* The hash that the record after the first k names.                        *)
HashAt(k) == IF k = 0 THEN 0 ELSE lines[k].id

NotesTypes ==
  /\ lines \in Seq(Record \cup {Garbage, Torn})
  /\ adding \in [Author -> Adding \cup {NotAdding}]
  /\ begun \in 0..MaxNotes /\ added \subseteq Record /\ crossed \in BOOLEAN

Adds(a) == adding[a] # NotAdding

(* No two records have one number.                                          *)
IdsOK ==
  /\ \A i \in 1..Len(lines) : lines[i].id \in 1..begun
  /\ \A i, j \in 1..Len(lines) : lines[i].id = lines[j].id => i = j
  /\ \A a \in Author, i \in 1..Len(lines) : Adds(a) => lines[i].id # adding[a].record.id

(* An author whom nobody overtook names the last record, and one who was    *)
(* overtaken an earlier one.                                                *)
PrevOK ==
  \A a \in Author : Adds(a) =>
    IF adding[a].overtaken
    THEN \E k \in 0..(Len(lines) - 1) : adding[a].record.prev = HashAt(k)
    ELSE adding[a].record.prev = HashAt(Len(lines))

Linked == \A i \in 1..Len(lines) : lines[i].prev = HashAt(i - 1)

AddedOK == \A r \in added : \E i \in 1..Len(lines) : lines[i] = r

(* A line that was cut, or swallowed, never parses again, so that nothing   *)
(* needs to be known of a log that has one.                                 *)
NotesInv ==
  /\ NotesTypes
  /\ \A a \in Author : Adds(a) => adding[a].record.id \in 1..begun
  /\ \A a, b \in Author :
       Adds(a) /\ Adds(b) /\ adding[a].record.id = adding[b].record.id => a = b
  /\ Parse(lines) => IdsOK /\ PrevOK /\ (Linked <=> ~crossed) /\ AddedOK

-----------------------------------------------------------------------------
LEMMA WholeLines ==
  ASSUME NotesTypes, Parse(lines)
  PROVE  /\ \A i \in 1..Len(lines) : lines[i] \in Record
         /\ Len(lines) \in Nat /\ LastHashOf(lines) = HashAt(Len(lines))
<1>1. Len(lines) \in Nat /\ DOMAIN lines = 1..Len(lines)
  BY LenProperties DEF NotesTypes
<1>2. lines = <<>> <=> Len(lines) = 0
  BY <1>1, EmptySeq DEF NotesTypes
<1> QED
  BY <1>1, <1>2 DEF NotesTypes, Parse, LastHashOf, HashAt

LEMMA ChainedIsLinked ==
  ASSUME NotesTypes, Parse(lines)
  PROVE  Chained(lines) <=> Linked
<1>1. /\ \A i \in 1..Len(lines) : lines[i] \in Record
      /\ Len(lines) \in Nat /\ DOMAIN lines = 1..Len(lines)
  BY WholeLines, LenProperties DEF NotesTypes
<1>2. ASSUME NEW i \in 1..Len(lines)
      PROVE  LastHashOf(SubSeq(lines, 1, i - 1)) = HashAt(i - 1)
  <2>1. /\ SubSeq(lines, 1, i - 1) \in Seq(Record)
        /\ Len(SubSeq(lines, 1, i - 1)) = i - 1
        /\ \A j \in 1..(i - 1) : SubSeq(lines, 1, i - 1)[j] = lines[j]
    <3>1. \A j \in 1..(i - 1) : lines[j] \in Record
      BY <1>1
    <3>2. /\ SubSeq(lines, 1, i - 1) \in Seq(Record)
          /\ Len(SubSeq(lines, 1, i - 1)) = IF 1 <= i - 1 THEN i - 1 - 1 + 1 ELSE 0
          /\ \A j \in 1..(i - 1 - 1 + 1) : SubSeq(lines, 1, i - 1)[j] = lines[1 + j - 1]
      BY <1>1, <3>1, SubSeqProperties
    <3> QED
      BY <1>1, <3>2
  <2>2. SubSeq(lines, 1, i - 1) = <<>> <=> i - 1 = 0
    BY <2>1, EmptySeq
  <2> QED
    BY <1>1, <2>1, <2>2 DEF LastHashOf, HashAt
<1> QED
  BY <1>1, <1>2 DEF Chained, Linked

LEMMA BeginNoteStep ==
  ASSUME NotesInv, NEW a \in Author, BeginNote(a)
  PROVE  NotesInv'
<1> DEFINE note == [id |-> begun + 1, prev |-> HashAt(Len(lines)), by |-> a]
<1>1. /\ NotesTypes /\ Parse(lines) /\ IdsOK /\ PrevOK /\ (Linked <=> ~crossed) /\ AddedOK
      /\ \A b \in Author : Adds(b) => adding[b].record.id \in 1..begun
  BY DEF NotesInv, BeginNote
<1>2. /\ \A i \in 1..Len(lines) : lines[i] \in Record
      /\ Len(lines) \in Nat /\ LastHashOf(lines) = HashAt(Len(lines))
  BY <1>1, WholeLines
<1>3. begun \in Nat /\ MaxNotes \in Nat /\ begun' = begun + 1 /\ begun < MaxNotes
      /\ UNCHANGED <<lines, added, crossed>>
  BY <1>1, NotesAssumption DEF BeginNote, NotesTypes
<1>4. HashAt(Len(lines)) \in 0..MaxNotes
  BY <1>2, <1>3 DEF HashAt, Record
<1>5. note \in Record
  BY <1>3, <1>4 DEF Record
<1>6. adding' = [adding EXCEPT ![a] = [record |-> note, overtaken |-> FALSE]]
  BY <1>2, <1>3 DEF BeginNote
<1>7. /\ adding'[a] = [record |-> note, overtaken |-> FALSE]
      /\ \A b \in Author \ {a} : adding'[b] = adding[b]
  BY <1>1, <1>6 DEF NotesTypes
<1>8. NotesTypes'
  BY <1>1, <1>3, <1>5, <1>6 DEF NotesTypes, Adding
<1>9. \A b \in Author : Adds(b)' => adding'[b].record.id \in 1..begun'
  BY <1>1, <1>3, <1>7 DEF Adds
<1>10. \A b, c \in Author :
         Adds(b)' /\ Adds(c)' /\ adding'[b].record.id = adding'[c].record.id => b = c
  BY <1>1, <1>3, <1>7 DEF Adds, NotesInv
<1>11. IdsOK'
  BY <1>1, <1>2, <1>3, <1>7, SMTT(60) DEF IdsOK, Adds
<1>12. PrevOK'
  <2>1. HashAt(Len(lines))' = HashAt(Len(lines)) /\ \A k : HashAt(k)' = HashAt(k)
    BY <1>3 DEF HashAt
  <2> QED
    BY <1>1, <1>3, <1>7, <2>1 DEF PrevOK, Adds
<1>13. (Linked <=> ~crossed)' /\ AddedOK'
  BY <1>1, <1>3 DEF Linked, AddedOK, HashAt
<1> QED
  BY <1>8, <1>9, <1>10, <1>11, <1>12, <1>13 DEF NotesInv

(* A log parses after a write only if it did before, and the line is whole. *)
LEMMA NoteWritten ==
  ASSUME NotesTypes, NEW line \in Record \cup {Garbage, Torn}, Write(line)
  PROVE  /\ lines' \in Seq(Record \cup {Garbage, Torn})
         /\ Parse(lines)' =>
              Parse(lines) /\ lines' = Append(lines, line) /\ line \notin {Garbage, Torn}
<1> DEFINE Lines == Record \cup {Garbage, Torn}
           n == Len(lines)
<1>1. lines \in Seq(Lines) /\ n \in Nat /\ DOMAIN lines = 1..n
  BY LenProperties DEF NotesTypes
<1>2. CASE lines # <<>> /\ lines[n] = Torn
  <2>1. n \in 1..n
    BY <1>1, <1>2, EmptySeq
  <2>2. PICK rest \in {Garbage, Torn} : lines' = [lines EXCEPT ![n] = rest]
    BY <1>2 DEF Write
  <2>3. lines' \in Seq(Lines)
    BY <1>1, <2>1, <2>2, ExceptSeq
  <2>4. n \in DOMAIN lines' /\ lines'[n] = rest
    BY <1>1, <2>1, <2>2
  <2> QED
    BY <2>3, <2>4 DEF Parse
<1>3. CASE ~(lines # <<>> /\ lines[n] = Torn)
  <2>1. lines' = Append(lines, line)
    BY <1>3 DEF Write
  <2>2. /\ lines' \in Seq(Lines) /\ DOMAIN lines' = 1..(n + 1) /\ lines'[n + 1] = line
        /\ \A i \in 1..n : lines'[i] = lines[i]
    BY <1>1, <2>1
  <2>3. ASSUME Parse(lines)' PROVE Parse(lines) /\ line \notin {Garbage, Torn}
    <3>1. \A i \in 1..(n + 1) : lines'[i] \notin {Garbage, Torn}
      BY <2>2, <2>3 DEF Parse
    <3>2. \A i \in 1..n : i \in 1..(n + 1)
      BY <1>1
    <3>3. n + 1 \in 1..(n + 1)
      BY <1>1
    <3> QED
      BY <1>1, <2>2, <3>1, <3>2, <3>3 DEF Parse
  <2> QED
    BY <2>1, <2>2, <2>3
<1> QED
  BY <1>2, <1>3

LEMMA Overtook ==
  ASSUME NotesTypes, NEW a \in Author, Overtaking(a)
  PROVE  /\ adding' \in [Author -> Adding \cup {NotAdding}]
         /\ ~Adds(a)'
         /\ \A b \in Author : Adds(b)' =>
              b # a /\ Adds(b) /\ adding'[b].record = adding[b].record /\ adding'[b].overtaken = TRUE
<1>1. \A b \in Author : adding[b] = NotAdding \/ adding[b] \in Adding
  BY DEF NotesTypes
<1>2. \A b \in Author : [adding[b] EXCEPT !.overtaken = TRUE] \in Adding \/ adding[b] = NotAdding
  BY <1>1 DEF Adding
<1>3. adding' \in [Author -> Adding \cup {NotAdding}]
  BY <1>1, <1>2 DEF Overtaking
<1>4. ~Adds(a)'
  BY DEF Overtaking, Adds
<1>5. ASSUME NEW b \in Author, Adds(b)'
      PROVE  b # a /\ Adds(b) /\ adding'[b].record = adding[b].record /\ adding'[b].overtaken = TRUE
  <2>1. b # a /\ adding[b] # NotAdding /\ adding'[b] = [adding[b] EXCEPT !.overtaken = TRUE]
    BY <1>5 DEF Overtaking, Adds
  <2>2. adding[b] \in Adding
    BY <1>1, <2>1
  <2> QED
    BY <2>1, <2>2 DEF Adding, Adds
<1> QED
  BY <1>3, <1>4, <1>5

(* Whoever was overtaken breaks the chain, and nobody else does.            *)
LEMMA WriteNoteStep ==
  ASSUME NotesInv, NEW a \in Author, WriteNote(a)
  PROVE  NotesInv'
<1>1. PICK note, late : note = adding[a].record /\ late = adding[a].overtaken
  OBVIOUS
<1>2. /\ NotesTypes /\ Adds(a) /\ Write(note) /\ Overtaking(a) /\ crossed' = (crossed \/ late)
      /\ begun' = begun /\ added' \in {added, added \cup {note}}
  BY <1>1 DEF NotesInv, WriteNote, Adds
<1>3. note \in Record /\ late \in BOOLEAN
  BY <1>1, <1>2 DEF NotesTypes, Adding, Adds
<1>4. /\ lines' \in Seq(Record \cup {Garbage, Torn})
      /\ Parse(lines)' => Parse(lines) /\ lines' = Append(lines, note)
  BY <1>2, <1>3, NoteWritten
<1>5. /\ adding' \in [Author -> Adding \cup {NotAdding}]
      /\ ~Adds(a)'
      /\ \A b \in Author : Adds(b)' =>
           b # a /\ Adds(b) /\ adding'[b].record = adding[b].record /\ adding'[b].overtaken = TRUE
  BY <1>2, Overtook
<1>6. NotesTypes'
  BY <1>2, <1>3, <1>4, <1>5 DEF NotesTypes
<1>7. \A b \in Author : Adds(b)' => adding'[b].record.id \in 1..begun'
  BY <1>2, <1>5 DEF NotesInv
<1>8. \A b, c \in Author :
        Adds(b)' /\ Adds(c)' /\ adding'[b].record.id = adding'[c].record.id => b = c
  BY <1>5 DEF NotesInv
<1>9. ASSUME Parse(lines)'
      PROVE  (IdsOK /\ PrevOK /\ (Linked <=> ~crossed) /\ AddedOK)'
  <2>1. PICK n : n = Len(lines)
    OBVIOUS
  <2>2. lines' = Append(lines, note) /\ IdsOK /\ PrevOK /\ (Linked <=> ~crossed) /\ AddedOK
    BY <1>4, <1>9 DEF NotesInv
  <2>3. (\A i \in 1..n : lines[i] \in Record) /\ n \in Nat
    BY <1>2, <1>4, <1>9, <2>1, WholeLines
  <2>4. /\ Len(lines') = n + 1 /\ lines'[n + 1] = note
        /\ \A i \in 1..n : lines'[i] = lines[i]
    BY <1>2, <2>1, <2>2 DEF NotesTypes
  <2>5. note.id \in 1..begun /\ \A i \in 1..n : lines[i].id # note.id
    BY <1>1, <1>2, <2>1, <2>2, SMTT(60) DEF IdsOK, NotesInv
  <2>6. IdsOK'
    <3>1. \A i \in 1..(n + 1) : lines'[i].id \in 1..begun'
      BY <1>2, <2>1, <2>2, <2>3, <2>4, <2>5 DEF IdsOK
    <3>2. \A i, j \in 1..(n + 1) : lines'[i].id = lines'[j].id => i = j
      BY <2>1, <2>2, <2>3, <2>4, <2>5 DEF IdsOK
    <3>3. ASSUME NEW b \in Author, NEW i \in 1..(n + 1), Adds(b)'
          PROVE  lines'[i].id # adding'[b].record.id
      <4>1. b # a /\ Adds(b) /\ adding'[b].record = adding[b].record
        BY <1>5, <3>3
      <4>2. adding[b].record.id # note.id
        BY <1>1, <1>2, <4>1 DEF NotesInv
      <4>3. \A j \in 1..n : lines[j].id # adding[b].record.id
        BY <2>1, <2>2, <4>1 DEF IdsOK
      <4> QED
        BY <2>3, <2>4, <4>1, <4>2, <4>3
    <3> QED
      BY <2>4, <3>1, <3>2, <3>3 DEF IdsOK
  <2>7. \A k \in 0..n : HashAt(k)' = HashAt(k)
    BY <2>3, <2>4 DEF HashAt
  <2>8. PrevOK'
    <3> SUFFICES ASSUME NEW b \in Author, Adds(b)'
                 PROVE  \E k \in 0..(Len(lines') - 1) : adding'[b].record.prev = HashAt(k)'
      BY <1>5 DEF PrevOK
    <3>1. Adds(b) /\ adding'[b].record = adding[b].record
      BY <1>5
    <3>2. \E k \in 0..n : adding[b].record.prev = HashAt(k)
      BY <2>1, <2>2, <2>3, <3>1 DEF PrevOK
    <3> QED
      BY <2>3, <2>4, <2>7, <3>1, <3>2
  <2>9. Linked' <=> Linked /\ note.prev = HashAt(n)
    <3>1. Linked' <=> \A i \in 1..(n + 1) : lines'[i].prev = HashAt(i - 1)'
      BY <2>4 DEF Linked
    <3>2. ASSUME NEW i \in 1..n
          PROVE  lines'[i].prev = HashAt(i - 1)' <=> lines[i].prev = HashAt(i - 1)
      <4>1. i - 1 \in 0..n
        BY <2>3
      <4>2. HashAt(i - 1)' = HashAt(i - 1)
        BY <2>7, <4>1
      <4> QED
        BY <2>4, <4>2
    <3>3. lines'[n + 1].prev = HashAt(n)' <=> note.prev = HashAt(n)
      BY <2>3, <2>4, <2>7
    <3>4. (n + 1) - 1 = n /\ 1..(n + 1) = 1..n \cup {n + 1}
      BY <2>3
    <3>5. Linked' <=> /\ \A i \in 1..n : lines'[i].prev = HashAt(i - 1)'
                     /\ lines'[n + 1].prev = HashAt(n)'
      BY <3>1, <3>4
    <3> QED
      BY <2>1, <3>2, <3>3, <3>5 DEF Linked
  <2>10. note.prev = HashAt(n) <=> ~late
    <3>1. CASE ~late
      BY <1>1, <1>2, <2>1, <2>2, <3>1 DEF PrevOK
    <3>2. CASE late
      <4>1. PICK k \in 0..(n - 1) : note.prev = HashAt(k)
        BY <1>1, <1>2, <2>1, <2>2, <3>2 DEF PrevOK
      <4>2. HashAt(k) # HashAt(n)
        BY <1>2, <2>1, <2>2, <2>3, <4>1 DEF HashAt, IdsOK
      <4> QED
        BY <3>2, <4>1, <4>2
    <3> QED
      BY <1>3, <3>1, <3>2
  <2>11. (Linked <=> ~crossed)'
    <3>1. crossed' <=> crossed \/ late
      BY <1>2
    <3> QED
      BY <2>2, <2>9, <2>10, <3>1
  <2>12. AddedOK'
    <3>1. ASSUME NEW r \in added PROVE \E i \in 1..(n + 1) : lines'[i] = r
      BY <2>1, <2>2, <2>3, <2>4 DEF AddedOK
    <3>2. \E i \in 1..(n + 1) : lines'[i] = note
      BY <2>3, <2>4
    <3> QED
      BY <1>2, <2>4, <3>1, <3>2 DEF AddedOK
  <2> QED
    BY <2>6, <2>8, <2>11, <2>12
<1> QED
  BY <1>6, <1>7, <1>8, <1>9 DEF NotesInv

LEMMA StopNoteStep ==
  ASSUME NotesInv, NEW a \in Author, StopNote(a)
  PROVE  NotesInv'
<1>1. NotesTypes /\ UNCHANGED <<begun, added, crossed>>
  BY DEF NotesInv, StopNote
<1>2. CASE UNCHANGED lines /\ adding' = [adding EXCEPT ![a] = NotAdding]
  <2>1. \A b \in Author : Adds(b)' => Adds(b) /\ adding'[b] = adding[b]
    BY <1>1, <1>2 DEF NotesTypes, Adds
  <2>2. NotesTypes'
    BY <1>1, <1>2 DEF NotesTypes
  <2>3. \A k : HashAt(k)' = HashAt(k)
    BY <1>2 DEF HashAt
  <2>4. Parse(lines)' => (IdsOK /\ PrevOK /\ (Linked <=> ~crossed) /\ AddedOK)'
    <3> SUFFICES ASSUME Parse(lines)' PROVE (IdsOK /\ PrevOK /\ (Linked <=> ~crossed) /\ AddedOK)'
      OBVIOUS
    <3>1. IdsOK /\ PrevOK /\ (Linked <=> ~crossed) /\ AddedOK
      BY <1>2 DEF NotesInv
    <3>2. IdsOK'
      BY <1>1, <1>2, <2>1, <3>1 DEF IdsOK
    <3>3. PrevOK'
      BY <1>2, <2>1, <2>3, <3>1 DEF PrevOK
    <3>4. (Linked <=> ~crossed)' /\ AddedOK'
      BY <1>1, <1>2, <2>3, <3>1 DEF Linked, AddedOK
    <3> QED
      BY <3>2, <3>3, <3>4
  <2> QED
    BY <1>1, <2>1, <2>2, <2>4 DEF NotesInv
<1>3. CASE Write(Torn) /\ Overtaking(a)
  <2>1. lines' \in Seq(Record \cup {Garbage, Torn}) /\ ~Parse(lines)'
    BY <1>1, <1>3, NoteWritten
  <2>2. /\ adding' \in [Author -> Adding \cup {NotAdding}]
        /\ \A b \in Author : Adds(b)' => Adds(b) /\ adding'[b].record = adding[b].record
    BY <1>1, <1>3, Overtook
  <2>3. NotesTypes'
    BY <1>1, <2>1, <2>2 DEF NotesTypes
  <2> QED
    BY <1>1, <2>1, <2>2, <2>3 DEF NotesInv
<1> QED
  BY <1>2, <1>3 DEF StopNote

LEMMA NotesBegin == NotesInit => NotesInv
<1> SUFFICES ASSUME NotesInit PROVE NotesInv
  OBVIOUS
<1>1. lines \in Seq(Record \cup {Garbage, Torn}) /\ Len(lines) = 0
  BY EmptySeq, LenProperties DEF NotesInit
<1>2. NotesTypes
  <2>1. adding \in [Author -> Adding \cup {NotAdding}]
    BY DEF NotesInit
  <2>2. begun \in 0..MaxNotes
    BY NotesAssumption DEF NotesInit
  <2>3. added \subseteq Record /\ crossed \in BOOLEAN
    BY DEF NotesInit
  <2> QED
    BY <1>1, <2>1, <2>2, <2>3 DEF NotesTypes
<1>3. \A a \in Author : ~Adds(a)
  BY DEF NotesInit, Adds
<1>4. IdsOK /\ PrevOK /\ Linked /\ ~crossed /\ AddedOK
  BY <1>1, <1>3 DEF NotesInit, IdsOK, PrevOK, Linked, AddedOK
<1> QED
  BY <1>2, <1>3, <1>4 DEF NotesInv

LEMMA NotesInvariant == NotesSpec => []NotesInv
<1>1. NotesInv /\ [NotesNext]_notesVars => NotesInv'
  <2>1. ASSUME NotesInv, UNCHANGED notesVars PROVE NotesInv'
    BY <2>1 DEF notesVars, NotesInv, NotesTypes, Adds, Parse, IdsOK, PrevOK, Linked, AddedOK, HashAt
  <2>2. ASSUME NotesInv, NotesNext PROVE NotesInv'
    BY <2>2, BeginNoteStep, WriteNoteStep, StopNoteStep DEF NotesNext
  <2> QED
    BY <2>1, <2>2
<1> QED
  BY <1>1, NotesBegin, PTL DEF NotesSpec

(* A line stands for each note that was begun, unless it is still to come.  *)
AuthorsAdding == {a \in Author : Adds(a)}
NotesFit ==
  /\ IsFiniteSet(AuthorsAdding) /\ Len(lines) \in Nat
  /\ Len(lines) + Cardinality(AuthorsAdding) <= begun

LEMMA LineLonger ==
  ASSUME NotesTypes, NEW line \in Record \cup {Garbage, Torn}, Write(line)
  PROVE  Len(lines') \in Nat /\ Len(lines') <= Len(lines) + 1
<1>1. lines \in Seq(Record \cup {Garbage, Torn}) /\ Len(lines) \in Nat /\ DOMAIN lines = 1..Len(lines)
  BY LenProperties DEF NotesTypes
<1>2. CASE lines # <<>> /\ lines[Len(lines)] = Torn
  <2>1. PICK rest \in {Garbage, Torn} : lines' = [lines EXCEPT ![Len(lines)] = rest]
    BY <1>2 DEF Write
  <2>2. Len(lines) \in 1..Len(lines)
    BY <1>1, <1>2, EmptySeq
  <2>3. Len(lines') = Len(lines)
    BY <1>1, <2>1, <2>2, ExceptSeq
  <2> QED
    BY <1>1, <2>3
<1>3. CASE ~(lines # <<>> /\ lines[Len(lines)] = Torn)
  <2>1. lines' = Append(lines, line)
    BY <1>3 DEF Write
  <2>2. Len(Append(lines, line)) = Len(lines) + 1
    BY <1>1, AppendProperties
  <2> QED
    BY <1>1, <2>1, <2>2
<1> QED
  BY <1>2, <1>3

LEMMA NotesStayFit == NotesInv /\ NotesFit /\ [NotesNext]_notesVars => NotesFit'
<1> SUFFICES ASSUME NotesInv, NotesFit, [NotesNext]_notesVars PROVE NotesFit'
  OBVIOUS
<1>1. NotesTypes /\ begun \in Nat
  BY NotesAssumption DEF NotesInv, NotesTypes
<1> DEFINE A == AuthorsAdding
<1>2. Cardinality(A) \in Nat
  BY FS_CardinalityType DEF NotesFit
<1>3. CASE UNCHANGED notesVars
  BY <1>3 DEF notesVars, NotesFit, AuthorsAdding, Adds
<1>4. ASSUME NEW a \in Author, BeginNote(a) PROVE NotesFit'
  <2>1. /\ adding[a] = NotAdding /\ begun' = begun + 1 /\ lines' = lines
        /\ \A b \in Author \ {a} : adding'[b] = adding[b]
    BY <1>1, <1>4 DEF BeginNote, NotesTypes
  <2>2. a \notin A /\ A' \subseteq A \cup {a}
    BY <2>1 DEF AuthorsAdding, Adds
  <2>3. IsFiniteSet(A \cup {a}) /\ Cardinality(A \cup {a}) = Cardinality(A) + 1
    BY <2>2, FS_AddElement DEF NotesFit
  <2>4. IsFiniteSet(A') /\ Cardinality(A') <= Cardinality(A \cup {a}) /\ Cardinality(A') \in Nat
    BY <2>2, <2>3, FS_Subset, FS_CardinalityType
  <2> QED
    BY <1>1, <1>2, <2>1, <2>3, <2>4 DEF NotesFit
<1>5. ASSUME NEW a \in Author, Adds(a), A' \subseteq A \ {a},
             Len(lines') \in Nat, Len(lines') <= Len(lines) + 1, begun' = begun
      PROVE  NotesFit'
  <2>1. a \in A
    BY <1>5 DEF AuthorsAdding
  <2>2. IsFiniteSet(A \ {a}) /\ Cardinality(A \ {a}) = Cardinality(A) - 1
    BY <2>1, FS_RemoveElement DEF NotesFit
  <2>3. IsFiniteSet(A') /\ Cardinality(A') <= Cardinality(A \ {a}) /\ Cardinality(A') \in Nat
    BY <1>5, <2>2, FS_Subset, FS_CardinalityType
  <2> QED
    BY <1>1, <1>2, <1>5, <2>2, <2>3 DEF NotesFit
<1>6. ASSUME NEW a \in Author, NEW line \in Record \cup {Garbage, Torn},
             Adds(a), Write(line), Overtaking(a), begun' = begun
      PROVE  NotesFit'
  <2>1. A' \subseteq A \ {a}
    BY <1>1, <1>6, Overtook DEF AuthorsAdding
  <2>2. Len(lines') \in Nat /\ Len(lines') <= Len(lines) + 1
    BY <1>1, <1>6, LineLonger
  <2> QED
    BY <1>5, <1>6, <2>1, <2>2
<1>7. ASSUME NEW a \in Author, WriteNote(a) PROVE NotesFit'
  <2>1. Adds(a) /\ adding[a] \in Adding
    BY <1>1, <1>7 DEF WriteNote, NotesTypes, Adds
  <2>2. adding[a].record \in Record
    BY <2>1 DEF Adding
  <2> QED
    BY <1>6, <1>7, <2>1, <2>2 DEF WriteNote
<1>8. ASSUME NEW a \in Author, StopNote(a) PROVE NotesFit'
  <2>1. Adds(a) /\ begun' = begun
    BY <1>8 DEF StopNote, Adds
  <2>2. CASE Write(Torn) /\ Overtaking(a)
    BY <1>6, <2>1, <2>2
  <2>3. CASE UNCHANGED lines /\ adding' = [adding EXCEPT ![a] = NotAdding]
    <3>1. A' \subseteq A \ {a}
      BY <1>1, <2>3 DEF AuthorsAdding, Adds, NotesTypes
    <3> QED
      BY <1>5, <2>1, <2>3, <3>1 DEF NotesFit
  <2> QED
    BY <1>8, <2>2, <2>3 DEF StopNote
<1> QED
  BY <1>3, <1>4, <1>7, <1>8 DEF NotesNext

LEMMA NotesTypeCorrect == NotesSpec => []NotesTypeOK
<1>1. NotesInit => NotesFit
  <2> SUFFICES ASSUME NotesInit PROVE NotesFit
    OBVIOUS
  <2>1. AuthorsAdding = {} /\ Len(lines) = 0 /\ begun = 0
    BY DEF NotesInit, AuthorsAdding, Adds
  <2>2. IsFiniteSet({}) /\ Cardinality({}) = 0
    BY FS_EmptySet
  <2> QED
    BY <2>1, <2>2 DEF NotesFit
<1>2. NotesInv /\ NotesFit => NotesTypeOK
  <2> SUFFICES ASSUME NotesInv, NotesFit PROVE NotesTypeOK
    OBVIOUS
  <2>1. NotesTypes /\ MaxNotes \in Nat /\ begun <= MaxNotes /\ begun \in Nat
    BY NotesAssumption DEF NotesInv, NotesTypes
  <2>2. Len(lines) <= MaxNotes
    BY <2>1, FS_CardinalityType DEF NotesFit
  <2> QED
    BY <2>1, <2>2 DEF NotesTypes, NotesTypeOK
<1> QED
  BY <1>1, <1>2, NotesStayFit, NotesInvariant, PTL DEF NotesSpec

(* A log of notes verifies just when every line was finished and nobody was *)
(* overtaken between reading the last hash and appending, for any number of *)
(* authors and notes, and has then once what an author was told is added.   *)
THEOREM NotesAlwaysSound == NotesSpec => []NotesSound
<1>1. NotesInv => NotesSound
  <2> SUFFICES ASSUME NotesInv PROVE NotesSound
    OBVIOUS
  <2>1. NotesTypes
    BY DEF NotesInv
  <2>2. Verifies(lines, Author) <=> Parse(lines) /\ ~crossed
    <3>1. CASE ~Parse(lines)
      BY <3>1 DEF Verifies
    <3>2. CASE Parse(lines)
      <4>1. (Chained(lines) <=> Linked) /\ (Linked <=> ~crossed)
        BY <2>1, <3>2, ChainedIsLinked DEF NotesInv
      <4>2. \A i \in DOMAIN lines : lines[i].by \in Author
        BY <2>1, <3>2, WholeLines, LenProperties DEF Record, NotesTypes
      <4> QED
        BY <3>2, <4>1, <4>2 DEF Verifies
    <3> QED
      BY <3>1, <3>2
  <2>3. ASSUME Verifies(lines, Author), NEW r \in added
        PROVE  Cardinality({i \in DOMAIN lines : lines[i] = r}) = 1
    <3>1. IdsOK /\ AddedOK /\ DOMAIN lines = 1..Len(lines)
      BY <2>1, <2>3, LenProperties DEF Verifies, NotesInv, NotesTypes
    <3>2. PICK i \in 1..Len(lines) : lines[i] = r
      BY <3>1 DEF AddedOK
    <3>3. {j \in DOMAIN lines : lines[j] = r} = {i}
      BY <3>1, <3>2 DEF IdsOK
    <3> QED
      BY <3>3, FS_Singleton
  <2> QED
    BY <2>2, <2>3 DEF NotesSound
<1> QED
  BY <1>1, NotesInvariant, PTL

------------------------------------------------------------------------------
(* Packages.                                                                *)

(* There are as many images as there are members just if no two share one.  *)
LEMMA ImagesCounted ==
  ASSUME NEW Z, IsFiniteSet(Z), NEW f, NEW T, T = {f[x] : x \in Z}
  PROVE  /\ IsFiniteSet(T)
         /\ Cardinality(T) = Cardinality(Z) <=> \A x, y \in Z : f[x] = f[y] => x = y
<1> DEFINE g == [x \in Z |-> f[x]]
<1>1. g \in Surjection(Z, T)
  BY DEF Surjection
<1>2. g \in Injection(Z, T) <=> \A x, y \in Z : f[x] = f[y] => x = y
  BY <1>1 DEF Surjection, Injection, IsInjective
<1> HIDE DEF g
<1> QED
  BY <1>1, <1>2, FS_Surjection

(* Rows of a profile.                                                       *)
RowsOK(rows) ==
  /\ IsFiniteSet(rows)
  /\ \A r \in rows : IF "id" \in DOMAIN r THEN r.id # NoContext
                     ELSE r = Relationship(r.parent, r.child, r.type, r.context)

LEMMA RowFacts ==
  ASSUME NEW rows, RowsOK(rows)
  PROVE  /\ IsFiniteSet(Artifacts(rows)) /\ IsFiniteSet(Ids(rows))
         /\ Cardinality(Ids(rows)) \in Nat /\ NoContext \notin Ids(rows)
<1>1. IsFiniteSet(Artifacts(rows))
  BY FS_Subset DEF RowsOK, Artifacts
<1> DEFINE ids == [a \in Artifacts(rows) |-> a.id]
<1>2. Ids(rows) = {ids[a] : a \in Artifacts(rows)}
  BY DEF Ids
<1>3. IsFiniteSet(Ids(rows))
  <2> HIDE DEF ids
  <2> QED
    BY <1>1, <1>2, ImagesCounted
<1>4. NoContext \notin Ids(rows)
  BY DEF Ids, Artifacts, RowsOK
<1> QED
  BY <1>1, <1>3, <1>4, FS_CardinalityType

(* What is reached next has no parent that was not reached.                 *)
LEMMA ReachableFacts ==
  ASSUME NEW rows, RowsOK(rows), NEW reached \in SUBSET Ids(rows)
  PROVE  Reachable(rows, reached) =
           {c \in Ids(rows) : \A a \in Ids(rows) : <<a, c>> \in Edges(rows) => a \in reached}
<1> SUFFICES ASSUME NEW c \in Ids(rows)
             PROVE  Degree(rows, c) = Cardinality({a \in reached : <<a, c>> \in Edges(rows)})
                      <=> \A a \in Ids(rows) : <<a, c>> \in Edges(rows) => a \in reached
  BY DEF Reachable
<1> DEFINE all == {a \in Ids(rows) : <<a, c>> \in Edges(rows)}
           some == {a \in reached : <<a, c>> \in Edges(rows)}
<1>1. IsFiniteSet(all) /\ some \in SUBSET all
  BY RowFacts, FS_Subset
<1>2. Cardinality(all) = Cardinality(some) <=> all = some
  <2> HIDE DEF all, some
  <2> QED
    BY <1>1, FS_Subset
<1>3. all = some <=> \A a \in Ids(rows) : <<a, c>> \in Edges(rows) => a \in reached
  OBVIOUS
<1> QED
  BY <1>2, <1>3 DEF Degree

Round(rows, f, n) == IF n = 0 THEN {} ELSE Reachable(rows, f[n - 1])

LEMMA RoundsExist ==
  ASSUME NEW rows, NEW N \in Nat
  PROVE  \E f : f = [n \in 0..N |-> Round(rows, f, n)]
<1> DEFINE Z == {M \in 0..N : \E f : f = [n \in 0..M |-> Round(rows, f, n)]}
<1>1. 0 \in Z
  <2> DEFINE f == [n \in 0..0 |-> {}]
  <2>1. f = [n \in 0..0 |-> Round(rows, f, n)]
    BY DEF Round
  <2> HIDE DEF f
  <2> QED
    BY <2>1
<1>2. ASSUME NEW M \in 1..N, M - 1 \in Z PROVE M \in Z
  <2>1. PICK f : f = [n \in 0..(M - 1) |-> Round(rows, f, n)]
    BY <1>2
  <2> DEFINE g == [n \in 0..M |-> Round(rows, f, n)]
  <2>2. ASSUME NEW n \in 0..M PROVE g[n] = Round(rows, g, n)
    <3>1. n # 0 => g[n - 1] = f[n - 1]
      <4>1. n # 0 => n - 1 \in 0..(M - 1) /\ n - 1 \in 0..M
        OBVIOUS
      <4> QED
        BY <2>1, <4>1
    <3>2. g[n] = Round(rows, f, n)
      OBVIOUS
    <3> HIDE DEF g
    <3> QED
      BY <3>1, <3>2 DEF Round
  <2>3. g = [n \in 0..M |-> Round(rows, g, n)]
    <3>1. DOMAIN g = 0..M /\ g = [n \in 0..M |-> g[n]]
      OBVIOUS
    <3> HIDE DEF g
    <3> QED
      BY <2>2, <3>1
  <2>4. M \in 0..N
    OBVIOUS
  <2> HIDE DEF g
  <2> QED
    BY <2>3, <2>4, Zenon
<1>3. N \in Z
  <2> HIDE DEF Z
  <2> QED
    BY <1>1, <1>2, Onward
<1> QED
  BY <1>3

LEMMA VisitedUnfolds ==
  ASSUME NEW rows, RowsOK(rows)
  PROVE  \E f : /\ f = [n \in 0..Cardinality(Ids(rows)) |-> Round(rows, f, n)]
                /\ Visited(rows) = f[Cardinality(Ids(rows))]
<1> DEFINE N == Cardinality(Ids(rows))
           f == CHOOSE g : g = [n \in 0..N |-> IF n = 0 THEN {} ELSE Reachable(rows, g[n - 1])]
<1>1. PICK g : g = [n \in 0..N |-> IF n = 0 THEN {} ELSE Reachable(rows, g[n - 1])]
  BY RowFacts, RoundsExist, ZenonT(60) DEF Round
<1>2. f = [n \in 0..N |-> IF n = 0 THEN {} ELSE Reachable(rows, f[n - 1])]
  <2> HIDE DEF f, N
  <2> QED
    BY <1>1, Zenon DEF f
<1>3. Visited(rows) = f[N]
  BY DEF Visited
<1>4. f = [n \in 0..N |-> Round(rows, f, n)]
  <2> HIDE DEF f, N
  <2> QED
    BY <1>2, Zenon DEF Round
<1> HIDE DEF f
<1> QED
  BY <1>3, <1>4

(* Every set of artifacts has one that was derived from no other of it.     *)
Acyclic(rows) ==
  \A Z \in SUBSET Ids(rows) : Z # {} => \E c \in Z : \A a \in Z : <<a, c>> \notin Edges(rows)

(* Each round reaches what the one before it has reached.                   *)
LEMMA RoundsGrow ==
  ASSUME NEW rows, RowsOK(rows), NEW N \in Nat, NEW f, f = [n \in 0..N |-> Round(rows, f, n)]
  PROVE  \A n \in 0..N : f[n] \in SUBSET Ids(rows) /\ (n # 0 => f[n - 1] \subseteq f[n])
<1> DEFINE Z == {n \in 0..N : f[n] \in SUBSET Ids(rows) /\ (n # 0 => f[n - 1] \subseteq f[n])}
<1>0. \A n \in 0..N : f[n] = Round(rows, f, n)
  OBVIOUS
<1>1. 0 \in Z
  BY <1>0 DEF Round
<1>2. ASSUME NEW n \in 1..N, n - 1 \in Z PROVE n \in Z
  <2>1. f[n] = Reachable(rows, f[n - 1]) /\ f[n - 1] \in SUBSET Ids(rows) /\ n \in 0..N /\ n - 1 \in 0..N
    <3>1. n \in 0..N /\ n # 0 /\ n - 1 \in 0..N
      OBVIOUS
    <3>2. f[n] = Reachable(rows, f[n - 1])
      BY <1>0, <3>1 DEF Round
    <3> QED
      BY <1>2, <3>1, <3>2
  <2>2. f[n] \in SUBSET Ids(rows)
    BY <2>1 DEF Reachable
  <2>3. f[n - 1] \subseteq f[n]
    <3>1. CASE n = 1
      BY <1>0, <2>1, <3>1 DEF Round
    <3>2. CASE n # 1
      <4>1. n - 1 # 0 /\ (n - 1) - 1 \in 0..N
        BY <3>2
      <4>2. f[n - 1] = Reachable(rows, f[(n - 1) - 1]) /\ f[(n - 1) - 1] \subseteq f[n - 1]
        BY <1>0, <1>2, <2>1, <4>1 DEF Round
      <4>3. f[(n - 1) - 1] \in SUBSET Ids(rows)
        BY <2>1, <4>2
      <4> QED
        BY <2>1, <4>2, <4>3, ReachableFacts, SMTT(60)
    <3> QED
      BY <3>1, <3>2, SMTT(60)
  <2> QED
    BY <2>1, <2>2, <2>3
<1>3. \A n \in 0..N : n \in Z
  <2> HIDE DEF Z
  <2> QED
    BY <1>1, <1>2, Onward
<1> QED
  BY <1>3

(* All artifacts are visited just if none is derived from itself.           *)
LEMMA VisitedExact ==
  ASSUME NEW rows, RowsOK(rows)
  PROVE  Visited(rows) = Ids(rows) <=> Acyclic(rows)
<1> DEFINE N == Cardinality(Ids(rows))
<1>0. N \in Nat /\ IsFiniteSet(Ids(rows))
  BY RowFacts
<1>1. PICK f : f = [n \in 0..N |-> Round(rows, f, n)] /\ Visited(rows) = f[N]
  BY VisitedUnfolds
<1>2. \A n \in 0..N : f[n] \in SUBSET Ids(rows) /\ (n # 0 => f[n - 1] \subseteq f[n])
  BY <1>0, <1>1, RoundsGrow
<1>3. ASSUME NEW n \in 1..N PROVE f[n] = Reachable(rows, f[n - 1]) /\ n \in 0..N /\ n - 1 \in 0..N
  <2>1. n \in 0..N /\ n # 0 /\ n - 1 \in 0..N
    BY <1>0
  <2>2. f[n] = Round(rows, f, n)
    BY <1>1, <2>1
  <2> QED
    BY <2>1, <2>2 DEF Round
<1>4. f[0] = {}
  <2>1. 0 \in 0..N
    BY <1>0
  <2> QED
    BY <1>1, <2>1 DEF Round
<1> HIDE DEF N
<1>5. ASSUME Acyclic(rows) PROVE f[N] = Ids(rows)
  <2> DEFINE Z == {n \in 0..N : f[n] = Ids(rows) \/ Cardinality(f[n]) >= n}
  <2>1. 0 \in Z
    BY <1>0, <1>4, FS_EmptySet
  <2>2. ASSUME NEW n \in 1..N, n - 1 \in Z PROVE n \in Z
    <3>1. /\ f[n] = Reachable(rows, f[n - 1]) /\ f[n - 1] \in SUBSET Ids(rows)
          /\ f[n] \in SUBSET Ids(rows) /\ f[n - 1] \subseteq f[n] /\ n \in 0..N
      BY <1>2, <1>3
    <3>2. CASE f[n - 1] = Ids(rows)
      BY <3>1, <3>2
    <3>3. CASE f[n - 1] # Ids(rows)
      <4>1. PICK c \in Ids(rows) \ f[n - 1] : \A a \in Ids(rows) \ f[n - 1] : <<a, c>> \notin Edges(rows)
        BY <1>5, <3>1, <3>3, ZenonT(60) DEF Acyclic
      <4>2. c \in f[n]
        BY <3>1, <4>1, ReachableFacts
      <4>3. f[n - 1] \cup {c} \in SUBSET f[n] /\ c \notin f[n - 1]
        BY <3>1, <4>1, <4>2
      <4>4. IsFiniteSet(f[n]) /\ IsFiniteSet(f[n - 1])
        BY <1>0, <3>1, FS_Subset
      <4>5. Cardinality(f[n - 1] \cup {c}) = Cardinality(f[n - 1]) + 1
        BY <4>3, <4>4, FS_AddElement
      <4>6. Cardinality(f[n - 1] \cup {c}) <= Cardinality(f[n])
        BY <4>3, <4>4, FS_Subset
      <4>7. Cardinality(f[n - 1]) \in Nat /\ Cardinality(f[n]) \in Nat
        BY <4>4, FS_CardinalityType
      <4>8. Cardinality(f[n - 1]) >= n - 1
        BY <2>2, <3>3
      <4> QED
        BY <3>1, <4>5, <4>6, <4>7, <4>8
    <3> QED
      BY <3>2, <3>3
  <2>3. N \in Z
    <3> HIDE DEF Z
    <3> QED
      BY <1>0, <2>1, <2>2, Onward
  <2>4. f[N] \in SUBSET Ids(rows) /\ N \in 0..N
    BY <1>0, <1>2
  <2>5. ASSUME Cardinality(f[N]) >= N PROVE f[N] = Ids(rows)
    <3>1. IsFiniteSet(f[N]) /\ Cardinality(f[N]) \in Nat /\ Cardinality(f[N]) <= N
      BY <1>0, <2>4, FS_Subset, FS_CardinalityType DEF N
    <3>2. Cardinality(f[N]) = N
      BY <1>0, <2>5, <3>1
    <3> QED
      BY <1>0, <2>4, <3>2, FS_Subset DEF N
  <2> QED
    BY <2>3, <2>5
<1>6. ASSUME f[N] = Ids(rows) PROVE Acyclic(rows)
  <2>1. SUFFICES ASSUME NEW Z \in SUBSET Ids(rows), Z # {}
                 PROVE  \E c \in Z : \A a \in Z : <<a, c>> \notin Edges(rows)
    BY DEF Acyclic
  <2> DEFINE met == {n \in 0..N : f[n] \cap Z # {}}
  <2>2. met \in SUBSET Nat /\ met # {}
    <3>1. N \in met
      BY <1>0, <1>6, <2>1
    <3> QED
      BY <3>1
  <2>3. PICK n \in met : \A m \in met : n <= m
    <3> HIDE DEF met
    <3> QED
      BY <2>2, FirstLeast
  <2>4. n \in 1..N /\ n - 1 \in 0..N
    BY <1>0, <1>4, <2>3
  <2>5. f[n - 1] \cap Z = {}
    <3>1. n - 1 \notin met
      BY <2>3, <2>4
    <3> QED
      BY <2>4, <3>1
  <2>6. PICK c \in Z : c \in f[n]
    BY <2>3
  <2>7. c \in Reachable(rows, f[n - 1]) /\ f[n - 1] \in SUBSET Ids(rows)
    BY <1>2, <1>3, <2>4, <2>6
  <2>8. \A a \in Ids(rows) : <<a, c>> \in Edges(rows) => a \in f[n - 1]
    BY <2>7, ReachableFacts
  <2> QED
    BY <2>5, <2>6, <2>8
<1> QED
  BY <1>1, <1>5, <1>6

LEMMA ArtifactsExact ==
  ASSUME NEW rows, RowsOK(rows)
  PROVE  (\A a, b \in Artifacts(rows) : (a.id = b.id \/ a.path = b.path) => a = b)
           <=> /\ Cardinality(Artifacts(rows)) = Cardinality(Ids(rows))
               /\ Cardinality({a.path : a \in Artifacts(rows)}) = Cardinality(Ids(rows))
<1> DEFINE A == Artifacts(rows)
           ids == [a \in A |-> a.id]
           paths == [a \in A |-> a.path]
           P == {a.path : a \in A}
<1>1. IsFiniteSet(A)
  BY RowFacts
<1>2. Cardinality(Ids(rows)) = Cardinality(A) <=> \A a, b \in A : ids[a] = ids[b] => a = b
  <2>1. Ids(rows) = {ids[a] : a \in A}
    BY DEF Ids
  <2> HIDE DEF A, ids
  <2> QED
    BY <1>1, <2>1, ImagesCounted
<1>3. Cardinality(P) = Cardinality(A) <=> \A a, b \in A : paths[a] = paths[b] => a = b
  <2>1. P = {paths[a] : a \in A}
    OBVIOUS
  <2> HIDE DEF A, paths, P
  <2> QED
    BY <1>1, <2>1, ImagesCounted
<1> HIDE DEF A, P
<1>4. (\A a, b \in A : (a.id = b.id \/ a.path = b.path) => a = b)
        <=> Cardinality(Ids(rows)) = Cardinality(A) /\ Cardinality(P) = Cardinality(A)
  BY <1>2, <1>3, SMTT(60)
<1> QED
  BY <1>4 DEF A, P

Three(x, y, z) == Cardinality({x, y, z}) = 3

LEMMA ThreeApart ==
  ASSUME NEW x, NEW y, NEW z
  PROVE  Three(x, y, z) <=> x # y /\ x # z /\ y # z
<1>1. IsFiniteSet({x}) /\ Cardinality({x}) = 1
  BY FS_Singleton
<1>2. IsFiniteSet({x} \cup {y}) /\ Cardinality({x} \cup {y}) = IF x = y THEN 1 ELSE 2
  BY <1>1, FS_AddElement
<1>3. Cardinality(({x} \cup {y}) \cup {z}) =
        IF z = x \/ z = y THEN Cardinality({x} \cup {y}) ELSE Cardinality({x} \cup {y}) + 1
  BY <1>2, FS_AddElement
<1>4. ({x} \cup {y}) \cup {z} = {x, y, z}
  OBVIOUS
<1> QED
  BY <1>2, <1>3, <1>4 DEF Three

LEMMA RelationshipsExact ==
  ASSUME NEW rows, RowsOK(rows), NEW r \in Relationships(rows),
         ParentsIn(r) \cup {r.child} \subseteq Ids(rows)
  PROVE  r.child \notin ParentsIn(r) /\ r.parent # r.context
           <=> Cardinality({r.parent, r.child, r.context}) = 3
<1>1. r.parent \in Ids(rows) /\ r.child \in Ids(rows) /\ NoContext \notin Ids(rows)
  BY RowFacts DEF ParentsIn
<1>2. r.child \notin ParentsIn(r) <=> r.child # r.parent /\ r.child # r.context
  BY <1>1 DEF ParentsIn
<1>3. Cardinality({r.parent, r.child, r.context}) = 3
        <=> r.parent # r.child /\ r.parent # r.context /\ r.child # r.context
  <2>1. Three(r.parent, r.child, r.context)
          <=> r.parent # r.child /\ r.parent # r.context /\ r.child # r.context
    BY ThreeApart, Zenon
  <2> QED
    BY <2>1 DEF Three
<1> QED
  BY <1>2, <1>3, Zenon

LEMMA BoundExact ==
  ASSUME NEW rows, IsFiniteSet(rows), NEW ledger, IsLedger(ledger),
         NEW binding, binding = {i \in DOMAIN ledger : ledger[i].record # Note}
  PROVE  Bound(rows, ledger) <=> /\ Cardinality(binding) = Cardinality(rows)
                                 /\ rows = {ledger[i].record : i \in binding}
<1> DEFINE record == [i \in binding |-> ledger[i].record]
<1>1. IsFiniteSet(binding)
  <2>1. binding \in SUBSET (1..Len(ledger)) /\ Len(ledger) \in Nat
    BY DEF IsLedger
  <2>2. IsFiniteSet(1..Len(ledger))
    BY <2>1, FS_Interval
  <2> QED
    BY <2>1, <2>2, FS_Subset
<1>2. \A i \in binding : record[i] = ledger[i].record
  OBVIOUS
<1> HIDE DEF record
<1>3. {record[i] : i \in binding} = {ledger[i].record : i \in binding}
  BY <1>2
<1>5. Bound(rows, ledger) <=> /\ \A i, j \in binding : ledger[i].record = ledger[j].record => i = j
                              /\ rows = {ledger[i].record : i \in binding}
  BY Zenon DEF Bound
<1>6. (\A i, j \in binding : ledger[i].record = ledger[j].record => i = j)
        <=> \A i, j \in binding : record[i] = record[j] => i = j
  BY <1>2
<1>4. ASSUME rows = {record[i] : i \in binding}
      PROVE  Cardinality(rows) = Cardinality(binding) <=> \A i, j \in binding : record[i] = record[j] => i = j
  BY <1>1, <1>4, ImagesCounted, SMTT(60)
<1> QED
  BY <1>3, <1>4, <1>5, <1>6

(* What validation finds of a profile is what it promises.                  *)
LEMMA PromisesExact ==
  ASSUME NEW rows, RowsOK(rows), NEW ledger, IsLedger(ledger), NEW listed
  PROVE  ValidProvenance(rows, ledger, listed) <=> Promised(rows, listed, ledger)
<1> DEFINE binding == {i \in DOMAIN ledger : ledger[i].record # Note}
           Bounded == /\ Cardinality(binding) = Cardinality(rows)
                      /\ rows = {ledger[i].record : i \in binding}
           Present == \A a \in Artifacts(rows) : a.path \in DOMAIN listed /\ listed[a.path] = [text |-> a.sha256]
           Apart == \A r \in Relationships(rows) :
                      /\ ParentsIn(r) \cup {r.child} \subseteq Ids(rows)
                      /\ Cardinality({r.parent, r.child, r.context}) = 3
           Known == \A a, b \in Artifacts(rows) : (a.id = b.id \/ a.path = b.path) => a = b
           AsMany == /\ Cardinality(Artifacts(rows)) = Cardinality(Ids(rows))
                      /\ Cardinality({a.path : a \in Artifacts(rows)}) = Cardinality(Ids(rows))
<1>1. Bound(rows, ledger) <=> Bounded
  <2>1. IsFiniteSet(rows)
    BY DEF RowsOK
  <2> HIDE DEF binding
  <2> QED
    BY <2>1, BoundExact DEF binding
<1>2. LineageHolds(rows) <=> Apart /\ Acyclic(rows)
  BY RelationshipsExact, VisitedExact DEF LineageHolds
<1>3. Known <=> AsMany
  BY ArtifactsExact
<1>4. Present <=> \A a \in Artifacts(rows) : \E n \in DOMAIN listed : n = a.path /\ listed[n] = [text |-> a.sha256]
  OBVIOUS
<1>5. ValidProvenance(rows, ledger, listed) <=> Known /\ Present /\ LineageHolds(rows) /\ Bound(rows, ledger)
  BY DEF ValidProvenance
<1>6. Promised(rows, listed, ledger) <=> AsMany /\ Present /\ Apart /\ Acyclic(rows) /\ Bounded
  BY <1>4 DEF Promised, Acyclic
<1> QED
  BY <1>1, <1>2, <1>3, <1>5, <1>6

(* Files hold what there is of their kind, and inventories are signed ones. *)
HeldAt(n, content, lists) ==
  /\ n \in Path => \E t \in Text : content = [text |-> t]
  /\ n = "ledger" => \E l \in Given : content = [events |-> l]
  /\ n = "provenance" => content \in Profiles
  /\ n = "signed" => content \in SignedCheckpoints
  /\ n = "manifest" => \E g \in lists : content = [files |-> g]
Held(f, lists) ==
  /\ DOMAIN f \subseteq Members /\ f = [n \in DOMAIN f |-> f[n]]
  /\ \A n \in DOMAIN f : HeldAt(n, f[n], lists)

Complete(listed) == Metadata \subseteq DOMAIN listed /\ MetadataHolds(listed)

(* How far an export is.                                                    *)
ExportOK(e, state, lists) ==
  /\ state.at \in {"idle", "copy", "refused", "hash", "sign", "write"}
  /\ state.at = "copy" =>
       /\ Held(state.old, lists) /\ state.ledger \in Given /\ state.include \in BOOLEAN
       /\ state.signed \in SignedCheckpoints /\ state.signed.key \in Trusted
       /\ LedgerVerifies(state.ledger, state.signed.checkpoint)
  /\ state.at = "hash" => e \notin Offline /\ Held(state.old, lists) /\ state.include \in BOOLEAN
  /\ state.at = "refused" => ~state.promised
  /\ state.at = "sign" =>
       Held(state.files, lists) /\ (e \in Offline => state.promised /\ Complete(state.files))
  /\ state.at = "write" =>
       /\ state = [at |-> "write", files |-> state.files, alone |-> state.alone]
       /\ state.files \in lists /\ Held(state.files, lists)
       /\ e \in Offline => Complete(state.files)

PackageOK(p, lists) ==
  /\ p = [whole |-> p.whole, again |-> p.again, alone |-> p.alone, members |-> p.members]
  /\ p.whole => /\ Held(p.members, lists) /\ "manifest" \in DOMAIN p.members
                /\ p.alone /\ ~p.again => Valid(p)

PackagesInv ==
  /\ Held(directory, signedLists) /\ Path \subseteq DOMAIN directory
  /\ changes \in 0..MaxChanges /\ exports \in 0..MaxExports
  /\ exporter = [e \in Exporter |-> exporter[e]]
  /\ \A e \in Exporter : ExportOK(e, exporter[e], signedLists)
  /\ PackageOK(package, signedLists)
  /\ \A listed \in signedLists : Held(listed, signedLists)

LEMMA HeldGrows ==
  ASSUME NEW lists, NEW more, lists \subseteq more
  PROVE  /\ \A f : Held(f, lists) => Held(f, more)
         /\ \A e, state : ExportOK(e, state, lists) => ExportOK(e, state, more)
         /\ \A p : PackageOK(p, lists) => PackageOK(p, more)
<1>1. \A n, x : HeldAt(n, x, lists) => HeldAt(n, x, more)
  BY DEF HeldAt
<1>2. \A f : Held(f, lists) => Held(f, more)
  BY <1>1 DEF Held
<1>3. \A e, state : ExportOK(e, state, lists) => ExportOK(e, state, more)
  BY <1>2 DEF ExportOK
<1> QED
  BY <1>2, <1>3 DEF PackageOK

LEMMA OverHeld ==
  ASSUME NEW lists, NEW f, NEW g, Held(f, lists), Held(g, lists)
  PROVE  Held(Over(f, g), lists)
BY DEF Held, Over

LEMMA OnlyHeld ==
  ASSUME NEW lists, NEW f, Held(f, lists), NEW names
  PROVE  Held(Only(f, names), lists)
BY DEF Held, Only

LEMMA PutHeld ==
  ASSUME NEW lists, NEW f, Held(f, lists), NEW n \in Members, NEW x, HeldAt(n, x, lists)
  PROVE  Held(Put(f, n, x), lists)
<1>1. Held([m \in {n} |-> x], lists)
  BY DEF Held
<1> QED
  BY <1>1, OverHeld DEF Put

LEMMA SelectedHeld ==
  ASSUME NEW lists, NEW f, Held(f, lists), NEW include
  PROVE  Held(Selected(f, include), lists)
BY OnlyHeld DEF Selected

LEMMA ReadingsHeld ==
  ASSUME NEW lists, NEW old, NEW new, Held(old, lists), Held(new, lists),
         NEW read \in Readings(old, new)
  PROVE  Held(read, lists)
<1>1. PICK late : read = Over(Only(new, late), old)
  BY DEF Readings
<1> QED
  BY <1>1, OnlyHeld, OverHeld

(* What does not change is read as it is.                                   *)
LEMMA SameIsRead ==
  ASSUME NEW f, f = [n \in DOMAIN f |-> f[n]], NEW read \in Readings(f, f)
  PROVE  read = f
<1>1. PICK late \in SUBSET {n \in DOMAIN f : n \notin DOMAIN f \/ f[n] # f[n]} :
        read = Over(Only(f, late), f)
  BY DEF Readings
<1>2. late = {}
  OBVIOUS
<1>3. DOMAIN Only(f, late) = {}
  BY <1>2 DEF Only
<1>4. Over(Only(f, late), f) = [n \in DOMAIN f |-> f[n]]
  BY <1>3 DEF Over
<1> QED
  BY <1>1, <1>4

(* The names of metadata.                                                   *)
LEMMA NameFacts ==
  /\ Metadata \subseteq Members /\ "manifest" \in Members /\ "provenance" \in Members
  /\ "manifest" \notin Metadata /\ "provenance" \notin Metadata
  /\ Metadata \cap Path = {} /\ "manifest" \notin Path /\ "provenance" \notin Path
  /\ EvidencePath \subseteq Path
  /\ {"ledger", "checkpoint", "signed", "trust"} \subseteq Metadata
BY CasePackagesAssumption DEF Metadata, Members

(* What a ledger of a profile promises is what validation finds.            *)
LEMMA ProfileRows ==
  ASSUME NEW profile \in Profiles
  PROVE  RowsOK(profile.rows)
<1>1. IsProfile(profile)
  BY CasePackagesAssumption
<1> QED
  BY <1>1 DEF IsProfile, RowsOK

LEMMA EmptyRows == RowsOK({}) /\ Artifacts({}) = {} /\ Relationships({}) = {} /\ Ids({}) = {}
BY FS_EmptySet DEF RowsOK, Artifacts, Relationships, Ids

LEMMA ProvenanceExact ==
  ASSUME NEW lists, NEW listed, Held(listed, lists), NEW ledger \in Given
  PROVE  ProvenanceHolds(listed, ledger) <=> Promised(Rows(listed), listed, ledger)
<1>1. IsLedger(ledger)
  BY CasePackagesAssumption
<1>2. CASE "provenance" \in DOMAIN listed
  <2>1. listed["provenance"] \in Profiles
    BY <1>2 DEF Held, HeldAt
  <2>2. listed["provenance"] # Damaged
    BY <2>1, CasePackagesAssumption DEF IsProfile, Damaged
  <2>3. RowsOK(listed["provenance"].rows)
    BY <2>1, ProfileRows
  <2> QED
    BY <1>1, <1>2, <2>2, <2>3, PromisesExact DEF ProvenanceHolds, Rows
<1>3. CASE "provenance" \notin DOMAIN listed
  <2> DEFINE binding == {i \in DOMAIN ledger : ledger[i].record # Note}
  <2>1. ProvenanceHolds(listed, ledger) <=> binding = {}
    BY <1>3 DEF ProvenanceHolds
  <2>2. Bound({}, ledger) <=> binding = {}
    BY SMTT(60) DEF Bound
  <2>3. ValidProvenance({}, ledger, listed) <=> Bound({}, ledger)
    <3>1. Visited({}) = Ids({})
      <4>1. Acyclic({})
        BY EmptyRows DEF Acyclic
      <4> QED
        BY <4>1, EmptyRows, VisitedExact
    <3> QED
      BY <3>1, EmptyRows DEF ValidProvenance, LineageHolds
  <2>4. ValidProvenance({}, ledger, listed) <=> Promised({}, listed, ledger)
    BY <1>1, EmptyRows, PromisesExact
  <2>5. Rows(listed) = {}
    BY <1>3 DEF Rows
  <2> HIDE DEF binding
  <2> QED
    BY <2>1, <2>2, <2>3, <2>4, <2>5
<1> QED
  BY <1>2, <1>3

LEMMA TriplesAgree ==
  \A x, y, z, u, v, w : <<x, y, z>> = <<u, v, w>> => x = u /\ y = v /\ z = w
OBVIOUS

(* Chains of one length that end in one hash are the same.                  *)
LEMMA ChainsAgree ==
  ASSUME NEW a, NEW b, IsLedger(a), IsLedger(b), ChainHolds(a), ChainHolds(b),
         Len(a) = Len(b), HeadHash(a) = HeadHash(b)
  PROVE  a = b
<1> DEFINE N == Len(a)
           Z == {k \in 0..N : k < N => a[N - k].entry = b[N - k].entry}
<1>1. N \in Nat /\ DOMAIN a = 1..N /\ DOMAIN b = 1..N /\ Len(b) = N
  BY DEF IsLedger
<1> HIDE DEF N
<1>2. ASSUME NEW i \in 1..N, a[i].entry = b[i].entry
      PROVE  a[i].sequence = b[i].sequence /\ a[i].record = b[i].record /\ a[i].previous = b[i].previous
  <2>1. /\ a[i].entry = <<a[i].sequence, a[i].record, a[i].previous>>
        /\ b[i].entry = <<b[i].sequence, b[i].record, b[i].previous>>
    BY <1>1 DEF ChainHolds, HashMaterial
  <2>2. <<a[i].sequence, a[i].record, a[i].previous>> = <<b[i].sequence, b[i].record, b[i].previous>>
    BY <1>2, <2>1
  <2> QED
    BY <2>2, TriplesAgree, Zenon
<1>3. \A i \in 2..N : a[i].previous = a[i - 1].entry /\ b[i].previous = b[i - 1].entry
  BY <1>1 DEF ChainHolds
<1>4. 0 \in Z
  BY <1>1 DEF HeadHash, N
<1>5. ASSUME NEW k \in 1..N, k - 1 \in Z PROVE k \in Z
  <2>1. SUFFICES ASSUME k < N PROVE a[N - k].entry = b[N - k].entry
    OBVIOUS
  <2>2. N - (k - 1) \in 2..N /\ (N - (k - 1)) - 1 = N - k /\ N - (k - 1) \in 1..N /\ k - 1 < N
    BY <1>1, <2>1
  <2>3. a[N - (k - 1)].entry = b[N - (k - 1)].entry
    BY <1>5, <2>2
  <2>4. a[N - (k - 1)].previous = b[N - (k - 1)].previous
    BY <1>2, <2>2, <2>3
  <2> QED
    BY <1>3, <2>2, <2>4, SMTT(60)
<1>6. \A k \in 0..N : k \in Z
  <2> HIDE DEF Z
  <2> QED
    BY <1>1, <1>4, <1>5, Onward
<1>7. ASSUME NEW i \in 1..N PROVE a[i].entry = b[i].entry
  <2>1. N - i \in 0..N /\ N - i < N /\ N - (N - i) = i
    BY <1>1
  <2> QED
    BY <1>6, <2>1
<1>8. /\ a = [i \in 1..N |-> [sequence |-> a[i].sequence, record |-> a[i].record,
                              previous |-> a[i].previous, entry |-> a[i].entry]]
      /\ b = [i \in 1..N |-> [sequence |-> b[i].sequence, record |-> b[i].record,
                              previous |-> b[i].previous, entry |-> b[i].entry]]
  BY <1>1 DEF IsLedger
<1>9. \A i \in 1..N : [sequence |-> a[i].sequence, record |-> a[i].record,
                       previous |-> a[i].previous, entry |-> a[i].entry]
                    = [sequence |-> b[i].sequence, record |-> b[i].record,
                       previous |-> b[i].previous, entry |-> b[i].entry]
  BY <1>2, <1>7
<1> QED
  BY <1>8, <1>9

LEMMA VerifiedIsKept ==
  ASSUME NEW ledger \in Given, NEW signed \in SignedCheckpoints, LedgerVerifies(ledger, signed.checkpoint)
  PROVE  ledger \in Kept
<1>1. PICK l \in Kept : signed.checkpoint = CheckpointOf(l)
  BY DEF SignedCheckpoints
<1>2. IsLedger(l) /\ ChainHolds(l) /\ IsLedger(ledger)
  BY CasePackagesAssumption
<1>3. ChainHolds(ledger) /\ Len(ledger) = Len(l) /\ HeadHash(ledger) = HeadHash(l)
  BY <1>1 DEF LedgerVerifies, CheckpointOf
<1>4. ledger = l
  BY <1>2, <1>3, ChainsAgree
<1> QED
  BY <1>4

(* Metadata that was staged holds if what the profile says does.            *)
LEMMA MetadataStaged ==
  ASSUME NEW given, NEW copied, NEW profile, NEW include \in BOOLEAN, NEW listed,
         listed = Selected(Staged(copied, given, profile), include),
         given.signed.key \in Trusted, LedgerVerifies(given.ledger, given.signed.checkpoint),
         ProvenanceHolds(listed, given.ledger)
  PROVE  Complete(listed)
<1> DEFINE staged == Staged(copied, given, profile)
<1>1. /\ Metadata \subseteq DOMAIN staged
      /\ staged["ledger"] = [events |-> given.ledger] /\ staged["signed"] = given.signed
      /\ staged["checkpoint"] = given.signed.checkpoint /\ staged["trust"] = [keys |-> Trusted]
  BY DEF Staged, MetadataOf, Over, Metadata
<1>2. \A n \in Metadata : n \in DOMAIN listed /\ listed[n] = staged[n]
  <2>1. \A n \in Metadata : n \in Members \ EvidencePath
    BY NameFacts
  <2> HIDE DEF staged
  <2> QED
    BY <1>1, <2>1 DEF Selected, Only, staged
<1> HIDE DEF staged
<1>3. /\ listed["ledger"] = [events |-> given.ledger] /\ listed["signed"] = given.signed
      /\ listed["checkpoint"] = given.signed.checkpoint /\ listed["trust"] = [keys |-> Trusted]
  BY <1>1, <1>2, NameFacts
<1>4. listed["ledger"].events = given.ledger /\ listed["trust"].keys = Trusted
  BY <1>3
<1> QED
  BY <1>2, <1>3, <1>4, SMTT(60) DEF Complete, MetadataHolds

LEMMA StagedHeld ==
  ASSUME NEW lists, NEW given, given.ledger \in Given, given.signed \in SignedCheckpoints,
         NEW copied, Held(copied, lists), NEW profile \in Profiles \cup {NoProfile}
  PROVE  Held(Staged(copied, given, profile), lists)
<1>1. Held(MetadataOf(given), lists)
  <2>1. DOMAIN MetadataOf(given) = Metadata /\ MetadataOf(given) = [n \in Metadata |-> MetadataOf(given)[n]]
    BY DEF MetadataOf, Metadata
  <2>2. MetadataOf(given)["ledger"] = [events |-> given.ledger] /\ MetadataOf(given)["signed"] = given.signed
    BY DEF MetadataOf, Metadata
  <2> QED
    BY <2>1, <2>2, NameFacts DEF Held, HeldAt
<1>2. profile # NoProfile => Held(Put(copied, "provenance", profile), lists)
  <2>1. profile # NoProfile => HeldAt("provenance", profile, lists)
    BY NameFacts DEF HeldAt
  <2> QED
    BY <2>1, NameFacts, PutHeld
<1> QED
  BY <1>1, <1>2, OverHeld DEF Staged

(* An inventory beside the files does not change what they say.             *)
LEMMA CompleteVerifies ==
  ASSUME NEW lists, NEW listed, Held(listed, lists), Complete(listed), "manifest" \notin DOMAIN listed,
         NEW p, p.whole, ~p.again, p.members = Put(listed, "manifest", [files |-> listed])
  PROVE  Valid(p)
<1>1. /\ DOMAIN p.members = DOMAIN listed \cup {"manifest"}
      /\ \A n \in DOMAIN listed : p.members[n] = listed[n]
      /\ p.members["manifest"] = [files |-> listed]
  BY DEF Put, Over
<1>2. Metadata \cup {"manifest"} \subseteq DOMAIN p.members
  BY <1>1 DEF Complete
<1>3. Intact(p.members)
  <2>1. [files |-> listed] # Damaged /\ p.members["manifest"].files = listed
    BY <1>1 DEF Damaged
  <2> QED
    BY <1>1, <2>1 DEF Intact
<1>4. \A n \in Metadata : p.members[n] = listed[n]
  BY <1>1 DEF Complete
<1>5. ASSUME NEW ledger, ProvenanceHolds(listed, ledger) PROVE ProvenanceHolds(p.members, ledger)
  <2>1. "provenance" \in DOMAIN p.members <=> "provenance" \in DOMAIN listed
    BY <1>1
  <2>2. CASE "provenance" \in DOMAIN listed
    <3>1. p.members["provenance"] = listed["provenance"]
      BY <1>1, <2>2
    <3> QED
      BY <1>1, <1>5, <2>1, <2>2, <3>1 DEF ProvenanceHolds, ValidProvenance
  <2> QED
    BY <1>5, <2>1, <2>2 DEF ProvenanceHolds
<1>6. MetadataHolds(p.members)
  BY <1>4, <1>5, NameFacts DEF Complete, MetadataHolds
<1> QED
  BY <1>2, <1>3, <1>6 DEF Valid

(* A package that verifies is that of an inventory that was signed.         *)
LEMMA ValidIsSigned ==
  ASSUME NEW lists, \A listed \in lists : Held(listed, lists),
         NEW p, p.members = [n \in DOMAIN p.members |-> p.members[n]], DOMAIN p.members \subseteq Members,
         "manifest" \in DOMAIN p.members =>
           p.members["manifest"] = Damaged \/ \E g \in lists : p.members["manifest"] = [files |-> g],
         Valid(p),
         NEW listed, listed = Only(p.members, Members \ {"manifest"})
  PROVE  /\ listed \in lists
         /\ listed["ledger"].events \in Kept
         /\ Promised(Rows(listed), listed, listed["ledger"].events)
<1>1. PICK g \in lists : p.members["manifest"] = [files |-> g]
  BY DEF Valid, Intact
<1>2. Held(g, lists) /\ p.members["manifest"].files = g
  BY <1>1
<1>3. DOMAIN g = DOMAIN p.members \ {"manifest"} /\ \A n \in DOMAIN g : p.members[n] = g[n]
  BY <1>2 DEF Valid, Intact
<1>4. listed = [n \in DOMAIN g |-> g[n]]
  <2>1. DOMAIN p.members \cap (Members \ {"manifest"}) = DOMAIN g
    BY <1>3
  <2> QED
    BY <1>3, <2>1 DEF Only
<1>5. listed = g
  BY <1>2, <1>4 DEF Held
<1>6. Metadata \subseteq DOMAIN g /\ \A n \in Metadata : g[n] = p.members[n]
  BY <1>3, NameFacts DEF Valid
<1> DEFINE ledger == g["ledger"].events
<1>7. PICK l \in Given : g["ledger"] = [events |-> l]
  BY <1>2, <1>6, NameFacts DEF Held, HeldAt
<1>8. ledger \in Given
  BY <1>7
<1>9. g["signed"] \in SignedCheckpoints
  BY <1>2, <1>6, NameFacts DEF Held, HeldAt
<1>10. LedgerVerifies(ledger, g["signed"].checkpoint) /\ ProvenanceHolds(p.members, ledger)
  BY <1>6, NameFacts DEF Valid, MetadataHolds
<1> HIDE DEF ledger
<1>11. ledger \in Kept
  BY <1>8, <1>9, <1>10, VerifiedIsKept
<1>12. ProvenanceHolds(g, ledger)
  <2>1. "provenance" \in DOMAIN p.members <=> "provenance" \in DOMAIN g
    BY <1>3
  <2>2. CASE "provenance" \in DOMAIN g
    <3>1. p.members["provenance"] = g["provenance"]
      BY <1>3, <2>2
    <3> DEFINE rows == g["provenance"].rows
    <3>2. g["provenance"] # Damaged /\ ValidProvenance(rows, ledger, p.members)
      BY <1>10, <2>1, <2>2, <3>1 DEF ProvenanceHolds
    <3>3. ASSUME NEW a \in Artifacts(rows) PROVE a.path \in DOMAIN g /\ g[a.path] = [text |-> a.sha256]
      <4>1. a.path \in DOMAIN p.members /\ p.members[a.path] = [text |-> a.sha256]
        BY <3>2 DEF ValidProvenance
      <4>2. [text |-> a.sha256] # [files |-> g]
        OBVIOUS
      <4>3. a.path # "manifest"
        BY <1>1, <4>1, <4>2
      <4> QED
        BY <1>3, <4>1, <4>3
    <3>4. ValidProvenance(rows, ledger, g)
      BY <3>2, <3>3 DEF ValidProvenance
    <3> QED
      BY <2>2, <3>2, <3>4 DEF ProvenanceHolds
  <2>3. CASE "provenance" \notin DOMAIN g
    BY <1>10, <2>1, <2>3 DEF ProvenanceHolds
  <2> QED
    BY <2>2, <2>3
<1>13. Promised(Rows(g), g, ledger)
  BY <1>2, <1>8, <1>12, ProvenanceExact
<1> QED
  BY <1>5, <1>11, <1>13 DEF ledger

(* Whatever befell a package, its inventory was signed or is damaged.       *)
LEMMA ReceivedFacts ==
  ASSUME PackagesInv, package.whole, NEW p \in Received
  PROVE  /\ p.members = [n \in DOMAIN p.members |-> p.members[n]] /\ DOMAIN p.members \subseteq Members
         /\ "manifest" \in DOMAIN p.members =>
              p.members["manifest"] = Damaged \/ \E g \in signedLists : p.members["manifest"] = [files |-> g]
<1> DEFINE now == package.members
           others == (UNION {{<<n, listed[n]>> : n \in DOMAIN listed} : listed \in signedLists})
                       \cup {<<"manifest", [files |-> listed]>> : listed \in signedLists}
           Told(m) == /\ m = [n \in DOMAIN m |-> m[n]] /\ DOMAIN m \subseteq Members
                      /\ "manifest" \in DOMAIN m =>
                           m["manifest"] = Damaged \/ \E g \in signedLists : m["manifest"] = [files |-> g]
<1>1. Told(now)
  BY DEF PackagesInv, PackageOK, Held, HeldAt
<1>2. ASSUME NEW o \in others
      PROVE  /\ o[1] \in Members
             /\ o[1] = "manifest" => \E g \in signedLists : o[2] = [files |-> g]
  <2>1. CASE \E listed \in signedLists : \E n \in DOMAIN listed : o = <<n, listed[n]>>
    <3>1. PICK listed \in signedLists : \E n \in DOMAIN listed : o = <<n, listed[n]>>
      BY <2>1
    <3>2. PICK n \in DOMAIN listed : o = <<n, listed[n]>>
      BY <3>1
    <3>3. n \in Members /\ HeldAt(n, listed[n], signedLists)
      BY <3>1 DEF PackagesInv, Held
    <3> QED
      BY <3>2, <3>3 DEF HeldAt
  <2>2. CASE \E listed \in signedLists : o = <<"manifest", [files |-> listed]>>
    BY <2>2, NameFacts
  <2>3. \/ o \in UNION {{<<n, listed[n]>> : n \in DOMAIN listed} : listed \in signedLists}
        \/ o \in {<<"manifest", [files |-> listed]>> : listed \in signedLists}
    OBVIOUS
  <2> QED
    BY <2>1, <2>2, <2>3
<1>3. ASSUME NEW n \in Members, NEW x,
             n = "manifest" => x = Damaged \/ \E g \in signedLists : x = [files |-> g]
      PROVE  Told(Put(now, n, x))
  <2> HIDE DEF now
  <2>1. /\ DOMAIN Put(now, n, x) = {n} \cup DOMAIN now
        /\ \A m \in DOMAIN Put(now, n, x) : Put(now, n, x)[m] = IF m = n THEN x ELSE now[m]
        /\ Put(now, n, x) = [m \in DOMAIN Put(now, n, x) |-> Put(now, n, x)[m]]
    BY DEF Put, Over
  <2> QED
    BY <1>1, <1>3, <2>1
<1>4. ASSUME NEW n \in Members PROVE Told(Only(now, Members \ {n}))
  <2> HIDE DEF now
  <2> QED
    BY <1>1 DEF Only
<1>5. PICK members \in {now} \cup {Only(now, Members \ {n}) : n \in Members}
                         \cup {Put(now, n, Damaged) : n \in Members}
                         \cup {Put(now, o[1], o[2]) : o \in others} :
        p = [package EXCEPT !.members = members]
  BY SMTT(60) DEF Received
<1>6. Told(members)
  <2> HIDE DEF Told, now, others
  <2>1. \/ members = now
        \/ \E n \in Members : members = Only(now, Members \ {n})
        \/ \E n \in Members : members = Put(now, n, Damaged)
        \/ \E o \in others : members = Put(now, o[1], o[2])
    OBVIOUS
  <2> QED
    BY <1>1, <1>2, <1>3, <1>4, <2>1
<1>7. p.members = members
  BY <1>5 DEF PackagesInv, PackageOK
<1> QED
  BY <1>6, <1>7

LEMMA PackagesTold == PackagesInv => PackagesTypeOK /\ PackagesExact
<1> SUFFICES ASSUME PackagesInv PROVE PackagesTypeOK /\ PackagesExact
  OBVIOUS
<1>1. PackagesTypeOK
  <2>1. ASSUME NEW n \in DOMAIN directory \cap (Path \cup {"ledger", "provenance"})
        PROVE  directory[n] \in Contents(n)
    <3>1. HeldAt(n, directory[n], signedLists)
      BY DEF PackagesInv, Held
    <3> QED
      BY <3>1, NameFacts DEF HeldAt, Contents
  <2>2. package.whole => package.members["manifest"].files \in signedLists
    BY DEF PackagesInv, PackageOK, Held, HeldAt
  <2> QED
    BY <2>1, <2>2 DEF PackagesInv, Held, ExportOK, PackagesTypeOK, Reached
<1>2. ExportsPromised
  BY CasePackagesAssumption DEF PackagesInv, ExportOK, ExportsPromised, Reached
<1>3. ExportsVerify
  BY DEF PackagesInv, PackageOK, ExportsVerify
<1>4. VerifiedIsExported
  <2>1. \A listed \in signedLists : Held(listed, signedLists)
    BY DEF PackagesInv
  <2> QED
    BY <2>1, ReceivedFacts, ValidIsSigned DEF VerifiedIsExported
<1> QED
  BY <1>1, <1>2, <1>3, <1>4 DEF PackagesExact

LEMMA PackagesBegin == PackagesInit => PackagesInv
<1> SUFFICES ASSUME PackagesInit PROVE PackagesInv
  OBVIOUS
<1>1. PICK t \in Text : directory = [p \in Path |-> [text |-> t]]
  BY DEF PackagesInit
<1>2. Held(directory, signedLists) /\ Path \subseteq DOMAIN directory
  BY <1>1, NameFacts DEF Held, HeldAt, Members
<1>3. PackageOK(package, signedLists) /\ signedLists = {}
  BY DEF PackagesInit, NoPackage, PackageOK
<1>4. exporter = [e \in Exporter |-> exporter[e]] /\ \A e \in Exporter : ExportOK(e, exporter[e], signedLists)
  BY DEF PackagesInit, Idle, ExportOK
<1> QED
  BY <1>2, <1>3, <1>4, CasePackagesAssumption DEF PackagesInv, PackagesInit

(* One export goes on, and nothing that others rely on is lost.             *)
LEMMA ExportGoes ==
  ASSUME PackagesInv, NEW e \in Exporter, NEW state, Goes(e, state), ExportOK(e, state, signedLists),
         UNCHANGED signedLists
  PROVE  /\ exporter' = [x \in Exporter |-> exporter'[x]]
         /\ \A x \in Exporter : ExportOK(x, exporter'[x], signedLists')
<1>1. exporter' = [x \in Exporter |-> IF x = e THEN state ELSE exporter[x]]
  BY DEF Goes, PackagesInv
<1> QED
  BY <1>1 DEF PackagesInv

LEMMA ExportStarted ==
  ASSUME PackagesInv, NEW e \in Exporter, NEW include \in BOOLEAN,
         BeginExport(e, include) \/ BeginOldExport(e, include)
  PROVE  PackagesInv'
<1>1. exports' \in 0..MaxExports
  BY CasePackagesAssumption DEF BeginExport, BeginOldExport, Begins, PackagesInv
<1>2. \E state : Goes(e, state) /\ ExportOK(e, state, signedLists)
  <2>1. CASE BeginExport(e, include)
    <3>1. PICK given \in Accepted :
            Goes(e, [at |-> "copy", old |-> directory, ledger |-> given[1], signed |-> given[2],
                     include |-> include])
      BY <2>1 DEF BeginExport
    <3>2. /\ given[1] \in Given /\ given[2] \in SignedCheckpoints /\ given[2].key \in Trusted
          /\ LedgerVerifies(given[1], given[2].checkpoint)
      BY DEF Accepted
    <3>3. ExportOK(e, [at |-> "copy", old |-> directory, ledger |-> given[1], signed |-> given[2],
                       include |-> include], signedLists)
      BY <3>2 DEF ExportOK, PackagesInv
    <3> QED
      BY <3>1, <3>3
  <2>2. CASE BeginOldExport(e, include)
    <3>1. Held(Selected(directory, include), signedLists)
      BY SelectedHeld DEF PackagesInv
    <3>2. ExportOK(e, [at |-> "hash", old |-> Selected(directory, include), include |-> include], signedLists)
      BY <2>2, <3>1 DEF ExportOK, BeginOldExport
    <3> QED
      BY <2>2, <3>2 DEF BeginOldExport
  <2> QED
    BY <2>1, <2>2
<1>3. UNCHANGED <<directory, changes, package, signedLists>>
  BY DEF BeginExport, BeginOldExport
<1> QED
  BY <1>1, <1>2, <1>3, ExportGoes DEF PackagesInv

LEMMA ExportStaged ==
  ASSUME PackagesInv, NEW e \in Exporter, NEW profile \in Profiles \cup {NoProfile}, StageExport(e, profile)
  PROVE  PackagesInv'
<1> DEFINE given == exporter[e]
<1>1. PICK copied \in Readings(given.old, directory) :
        LET listed == Selected(Staged(copied, given, profile), given.include)
            promised == Promised(Rows(listed), listed, given.ledger)
        IN  IF ProvenanceHolds(listed, given.ledger)
            THEN Goes(e, [at |-> "sign", promised |-> promised, files |-> listed])
            ELSE Goes(e, [at |-> "refused", promised |-> promised])
  BY Zenon DEF StageExport, Inventory
<1> DEFINE listed == Selected(Staged(copied, given, profile), given.include)
           promised == Promised(Rows(listed), listed, given.ledger)
<1>2. /\ Held(given.old, signedLists) /\ given.ledger \in Given /\ given.include \in BOOLEAN
      /\ given.signed \in SignedCheckpoints /\ given.signed.key \in Trusted
      /\ LedgerVerifies(given.ledger, given.signed.checkpoint)
  BY DEF StageExport, Reached, PackagesInv, ExportOK
<1>3. Held(copied, signedLists)
  BY <1>2, ReadingsHeld DEF PackagesInv
<1>4. Held(listed, signedLists)
  <2> HIDE DEF given
  <2> QED
    BY <1>2, <1>3, StagedHeld, SelectedHeld
<1>5. ProvenanceHolds(listed, given.ledger) <=> promised
  <2> HIDE DEF given, listed
  <2> QED
    BY <1>2, <1>4, ProvenanceExact
<1>6. ProvenanceHolds(listed, given.ledger) => Complete(listed)
  <2> HIDE DEF given
  <2> QED
    BY <1>2, MetadataStaged
<1>7. \/ /\ ProvenanceHolds(listed, given.ledger)
         /\ Goes(e, [at |-> "sign", promised |-> promised, files |-> listed])
      \/ /\ ~ProvenanceHolds(listed, given.ledger)
         /\ Goes(e, [at |-> "refused", promised |-> promised])
  BY <1>1, Zenon
<1> HIDE DEF listed, promised, given
<1>8. \E state : Goes(e, state) /\ ExportOK(e, state, signedLists)
  <2>1. ASSUME ProvenanceHolds(listed, given.ledger)
        PROVE  ExportOK(e, [at |-> "sign", promised |-> promised, files |-> listed], signedLists)
    BY <1>4, <1>5, <1>6, <2>1, SMTT(60) DEF ExportOK
  <2>2. ASSUME ~ProvenanceHolds(listed, given.ledger)
        PROVE  ExportOK(e, [at |-> "refused", promised |-> promised], signedLists)
    BY <1>5, <2>2 DEF ExportOK
  <2> QED
    BY <1>7, <2>1, <2>2
<1>9. UNCHANGED <<directory, changes, exports, package, signedLists>>
  BY DEF StageExport
<1> QED
  BY <1>8, <1>9, ExportGoes DEF PackagesInv

LEMMA TreeHashed ==
  ASSUME PackagesInv, NEW e \in Exporter, HashTree(e)
  PROVE  PackagesInv'
<1>1. PICK listed \in Readings(exporter[e].old, Selected(directory, exporter[e].include)) :
        Goes(e, [at |-> "sign", files |-> listed])
  BY DEF HashTree
<1>2. Held(exporter[e].old, signedLists) /\ e \notin Offline
  BY DEF HashTree, Reached, PackagesInv, ExportOK
<1>3. Held(listed, signedLists)
  BY <1>2, SelectedHeld, ReadingsHeld DEF PackagesInv
<1>4. ExportOK(e, [at |-> "sign", files |-> listed], signedLists)
  BY <1>2, <1>3 DEF ExportOK
<1>5. UNCHANGED <<directory, changes, exports, package, signedLists>>
  BY DEF HashTree
<1> QED
  BY <1>1, <1>4, <1>5, ExportGoes DEF PackagesInv

LEMMA PackageOpened ==
  ASSUME PackagesInv, NEW e \in Exporter, OpenPackage(e)
  PROVE  PackagesInv'
<1> DEFINE listed == exporter[e].files
           others == {x \in Exporter : Reached(x, "write")}
<1>1. Held(listed, signedLists) /\ (e \in Offline => Complete(listed))
  BY DEF OpenPackage, Reached, PackagesInv, ExportOK
<1>2. signedLists' = signedLists \cup {listed} /\ signedLists \subseteq signedLists' /\ listed \in signedLists'
  BY DEF OpenPackage
<1>3. /\ \A f : Held(f, signedLists) => Held(f, signedLists')
      /\ \A x, state : ExportOK(x, state, signedLists) => ExportOK(x, state, signedLists')
  BY <1>2, HeldGrows
<1>4. exporter' = [x \in Exporter |->
                     IF x = e THEN WritesTo(listed, others = {})
                     ELSE IF x \in others THEN WritesTo(exporter[x].files, FALSE)
                     ELSE exporter[x]]
  BY DEF OpenPackage
<1>5. ASSUME NEW x \in Exporter PROVE ExportOK(x, exporter'[x], signedLists')
  <2>1. CASE x = e
    <3>1. exporter'[x] = [at |-> "write", files |-> listed, alone |-> others = {}]
      BY <1>4, <2>1, SMTT(60) DEF WritesTo
    <3> HIDE DEF listed, others
    <3> QED
      BY <1>1, <1>2, <1>3, <2>1, <3>1 DEF ExportOK
  <2>2. CASE x # e /\ x \in others
    <3>1. /\ exporter[x] = [at |-> "write", files |-> exporter[x].files, alone |-> exporter[x].alone]
          /\ exporter[x].files \in signedLists /\ Held(exporter[x].files, signedLists)
          /\ x \in Offline => Complete(exporter[x].files)
      BY <2>2 DEF PackagesInv, ExportOK, Reached
    <3>2. exporter'[x] = [at |-> "write", files |-> exporter[x].files, alone |-> FALSE]
      BY <1>4, <2>2 DEF WritesTo
    <3> QED
      BY <1>2, <1>3, <3>1, <3>2 DEF ExportOK
  <2>3. CASE x # e /\ x \notin others
    <3>1. exporter'[x] = exporter[x]
      BY <1>4, <2>3
    <3> QED
      BY <1>3, <3>1 DEF PackagesInv
  <2> QED
    BY <2>1, <2>2, <2>3
<1>6. exporter' = [x \in Exporter |-> exporter'[x]]
  BY <1>4
<1>7. PackageOK(package', signedLists')
  BY DEF OpenPackage, NoPackage, PackageOK
<1>8. \A f \in signedLists' : Held(f, signedLists')
  BY <1>1, <1>2, <1>3 DEF PackagesInv
<1>9. UNCHANGED <<directory, changes, exports>>
  BY DEF OpenPackage
<1> QED
  BY <1>3, <1>5, <1>6, <1>7, <1>8, <1>9 DEF PackagesInv

LEMMA PackageClosed ==
  ASSUME PackagesInv, NEW e \in Exporter, ClosePackage(e)
  PROVE  PackagesInv'
<1> DEFINE listed == exporter[e].files
           sources == IF e \in Offline THEN listed ELSE Only(directory, DOMAIN listed)
           WrittenFrom(read) == [whole |-> TRUE, again |-> "manifest" \in DOMAIN listed,
                             alone |-> exporter[e].alone /\ e \in Offline,
                             members |-> Put(read, "manifest", [files |-> listed])]
<1>1. PICK read \in Readings(listed, sources) : package' \in {WrittenFrom(read), NoPackage}
  BY DEF ClosePackage
<1>2. listed \in signedLists /\ Held(listed, signedLists) /\ (e \in Offline => Complete(listed))
  BY DEF ClosePackage, Reached, PackagesInv, ExportOK
<1>3. UNCHANGED <<directory, changes, exports, signedLists>> /\ Goes(e, Idle)
  BY DEF ClosePackage
<1>4. ExportOK(e, Idle, signedLists)
  BY DEF ExportOK, Idle
<1>5. PackageOK(NoPackage, signedLists)
  BY DEF NoPackage, PackageOK
<1>6. PackageOK(WrittenFrom(read), signedLists)
  <2>1. Held(sources, signedLists)
    BY <1>2, OnlyHeld DEF PackagesInv
  <2>2. Held(read, signedLists)
    BY <1>2, <2>1, ReadingsHeld
  <2>3. HeldAt("manifest", [files |-> listed], signedLists)
    BY <1>2, NameFacts DEF HeldAt
  <2>4. Held(Put(read, "manifest", [files |-> listed]), signedLists)
    BY <2>2, <2>3, NameFacts, PutHeld
  <2>5. "manifest" \in DOMAIN Put(read, "manifest", [files |-> listed])
    BY DEF Put, Over
  <2>6. ASSUME WrittenFrom(read).alone, ~WrittenFrom(read).again PROVE Valid(WrittenFrom(read))
    <3>1. e \in Offline /\ "manifest" \notin DOMAIN listed
      BY <2>6
    <3>2. read = listed
      BY <1>2, <3>1, SameIsRead DEF Held
    <3>3. /\ WrittenFrom(read).whole
          /\ WrittenFrom(read).members = Put(listed, "manifest", [files |-> listed])
      BY <3>2
    <3> DEFINE p == WrittenFrom(read)
    <3>4. ~p.again
      BY <2>6
    <3> HIDE DEF listed, p
    <3> QED
      BY <1>2, <3>1, <3>3, <3>4, CompleteVerifies DEF p
  <2>7. WrittenFrom(read).members = Put(read, "manifest", [files |-> listed])
    OBVIOUS
  <2> QED
    BY <2>4, <2>5, <2>6, <2>7 DEF PackageOK
<1> QED
  BY <1>1, <1>3, <1>4, <1>5, <1>6, ExportGoes DEF PackagesInv

LEMMA ExportKilled ==
  ASSUME PackagesInv, NEW e \in Exporter, KillExport(e)
  PROVE  PackagesInv'
<1>1. ExportOK(e, Idle, signedLists)
  BY DEF ExportOK, Idle
<1> QED
  BY <1>1, ExportGoes DEF KillExport, PackagesInv

LEMMA DirectoryChanged ==
  ASSUME PackagesInv,
         \/ \E n \in DOMAIN directory : ChangeFile(n)
         \/ \E names \in {Members, Members \ {"manifest"}} : Unpack(names)
  PROVE  PackagesInv'
<1>1. changes' \in 0..MaxChanges
  BY CasePackagesAssumption DEF ChangeFile, Unpack, PackagesInv
<1>2. Held(directory', signedLists) /\ Path \subseteq DOMAIN directory'
  <2>1. ASSUME NEW n \in DOMAIN directory, ChangeFile(n)
        PROVE  Held(directory', signedLists) /\ Path \subseteq DOMAIN directory'
    <3>1. PICK content \in Contents(n) : directory' = [directory EXCEPT ![n] = content]
      BY <2>1 DEF ChangeFile
    <3>2. HeldAt(n, content, signedLists)
      BY NameFacts DEF Contents, HeldAt
    <3> QED
      BY <3>1, <3>2, ZenonT(60) DEF PackagesInv, Held
  <2>2. ASSUME NEW names, Unpack(names)
        PROVE  Held(directory', signedLists) /\ Path \subseteq DOMAIN directory'
    <3>1. Held(package.members, signedLists) /\ Held(directory, signedLists)
      BY <2>2 DEF Unpack, PackagesInv, PackageOK
    <3>2. Held(Over(Only(package.members, names), directory), signedLists)
      BY <3>1, OnlyHeld, OverHeld
    <3> QED
      BY <2>2, <3>2 DEF Unpack, Over, PackagesInv
  <2> QED
    BY <2>1, <2>2
<1>3. UNCHANGED <<exporter, exports, package, signedLists>>
  BY DEF ChangeFile, Unpack
<1> QED
  BY <1>1, <1>2, <1>3 DEF PackagesInv

LEMMA PackagesGoOn == PackagesInv /\ [PackagesNext]_packageVars => PackagesInv'
<1> SUFFICES ASSUME PackagesInv, [PackagesNext]_packageVars PROVE PackagesInv'
  OBVIOUS
<1>1. ASSUME NEW e \in Exporter, NEW include \in BOOLEAN, BeginExport(e, include) \/ BeginOldExport(e, include)
      PROVE  PackagesInv'
  BY <1>1, ExportStarted
<1>2. ASSUME NEW e \in Exporter, NEW profile \in Profiles \cup {NoProfile}, StageExport(e, profile)
      PROVE  PackagesInv'
  BY <1>2, ExportStaged
<1>3. ASSUME NEW e \in Exporter, HashTree(e) PROVE PackagesInv'
  BY <1>3, TreeHashed
<1>4. ASSUME NEW e \in Exporter, OpenPackage(e) PROVE PackagesInv'
  BY <1>4, PackageOpened
<1>5. ASSUME NEW e \in Exporter, ClosePackage(e) PROVE PackagesInv'
  BY <1>5, PackageClosed
<1>6. ASSUME NEW e \in Exporter, KillExport(e) PROVE PackagesInv'
  BY <1>6, ExportKilled
<1>7. CASE \/ \E n \in DOMAIN directory : ChangeFile(n)
           \/ \E names \in {Members, Members \ {"manifest"}} : Unpack(names)
  BY <1>7, DirectoryChanged
<1>8. CASE UNCHANGED packageVars
  BY <1>8 DEF packageVars, PackagesInv
<1> QED
  BY <1>1, <1>2, <1>3, <1>4, <1>5, <1>6, <1>7, <1>8 DEF PackagesNext

(* An export goes on just when the package will keep what its profile       *)
(* promises, however the directory changes under it; undisturbed, what it   *)
(* writes verifies; and whatever befalls a package, if it verifies it has   *)
(* the files of an inventory that was signed, a ledger as it was kept, and  *)
(* what its profile promises.                                               *)
THEOREM PackagesAlwaysExact == PackagesSpec => [](PackagesTypeOK /\ PackagesExact)
BY PackagesBegin, PackagesGoOn, PackagesTold, PTL DEF PackagesSpec

------------------------------------------------------------------------------
(* All the accounts.                                                        *)

(* Whichever part is at work, each of these goes on by steps of its own.    *)
LEMMA PartsGoOn ==
  ASSUME [Next]_<<part, partVars>>
  PROVE  /\ [RepositoryNext]_repositoryVars /\ [AttestationNext]_attestationVars
         /\ [CapturesNext]_captureVars /\ [NotesNext]_notesVars /\ [LogNext]_logVars
         /\ [HistoryNext]_historyVars /\ [LineageNext]_lineageVars
         /\ [TelemetryNext]_telemetryVars /\ [PackagesNext]_packageVars
<1>1. CASE Next
  <2>1. part # "repository" => UNCHANGED repositoryVars
    BY <1>1 DEF Next, Rests
  <2>2. part # "attestation" => UNCHANGED attestationVars
    BY <1>1 DEF Next, Rests
  <2>3. part # "capture" => UNCHANGED captureVars
    BY <1>1 DEF Next, Rests
  <2>4. part # "notes" => UNCHANGED notesVars
    BY <1>1 DEF Next, Rests
  <2>5. part # "log" => UNCHANGED logVars
    BY <1>1 DEF Next, Rests
  <2>6. part # "history" => UNCHANGED historyVars
    BY <1>1 DEF Next, Rests
  <2>7. part # "lineage" => UNCHANGED lineageVars
    BY <1>1 DEF Next, Rests
  <2>8. part # "telemetry" => UNCHANGED telemetryVars
    BY <1>1 DEF Next, Rests
  <2>9. part # "package" => UNCHANGED packageVars
    BY <1>1 DEF Next, Rests
  <2>10. /\ part = "repository" => RepositoryNext
         /\ part = "log" => LogNext
         /\ part = "history" => HistoryNext
         /\ part = "lineage" => LineageNext
         /\ part = "attestation" => AttestationNext
         /\ part = "capture" => CapturesNext
         /\ part = "notes" => NotesNext
         /\ part = "telemetry" => TelemetryNext
         /\ part = "package" => PackagesNext
    BY <1>1 DEF Next
  <2> QED
    BY <2>1, <2>2, <2>3, <2>4, <2>5, <2>6, <2>7, <2>8, <2>9, <2>10
<1>2. CASE UNCHANGED <<part, partVars>>
  BY <1>2 DEF partVars
<1> QED
  BY <1>1, <1>2

(* Whichever of the parts is at work, and however far: what the repository  *)
(* answered and anchored is on record and its evidence can be read, what    *)
(* attestations told is true of their log, captures of their directories,   *)
(* and analysts of the log of their notes.                                  *)
THEOREM AccountsAlwaysTrue == Spec => []AccountsTrue
<1>1. Init => RepositoryInit /\ AttestationInit /\ CapturesInit /\ NotesInit
  BY DEF Init
<1>2. Spec => RepositorySpec /\ AttestationSpec /\ CapturesSpec /\ NotesSpec
  BY <1>1, PartsGoOn, PTL DEF Spec, RepositorySpec, AttestationSpec, CapturesSpec, NotesSpec
<1>3. AnswersRecorded /\ AnchorsVerify /\ EvidenceReadable /\ AttestationSound
        /\ CapturesSound /\ NotesSound => AccountsTrue
  BY DEF AccountsTrue, Of
<1> QED
  BY <1>2, <1>3, AnswersAlwaysRecorded, AnchorsAlwaysVerify, EvidenceAlwaysReadable,
     AttestationAlwaysSound, CapturesAlwaysSound, NotesAlwaysSound, PTL

(* The same of the private log: its proofs are exact, and nobody is led     *)
(* from one history into another.                                           *)
THEOREM LogsStaySound == Spec => []ProofsExact /\ HistoriesStayApart
<1>1. Init => LogInit
  BY DEF Init, LogRests
<1>2. [Next]_<<part, partVars>> => [LogNext]_logVars
  BY PartsGoOn
<1>3. Spec => LogSpec
  BY <1>1, <1>2, PTL DEF Spec, LogSpec
<1> QED
  BY <1>3, ProofsAlwaysExact, HistoriesAlwaysApart, PTL

(* The same of timestamped decisions: a record is accepted just if every    *)
(* instant at which it may have been stamped decides as it did.             *)
THEOREM DecisionsStayExact == Spec => []AcceptanceExact
<1>1. Init => HistoryInit
  BY DEF Init, HistoryRests
<1>2. [Next]_<<part, partVars>> => [HistoryNext]_historyVars
  BY PartsGoOn
<1>3. Spec => HistorySpec
  BY <1>1, <1>2, PTL DEF Spec, HistorySpec
<1> QED
  BY <1>3, AcceptanceAlwaysExact, PTL

(* The same of lineages, of which an empty one is given while they rest.    *)
LEMMA LineagesGoOn == Spec => [](LineageInv /\ SearchTyped)
<1>1. LineageRests => LineageInv /\ SearchTyped
  <2>1. IsLineage(MCNothing)
    BY DEF IsLineage, MCNothing, MCLineage
  <2> QED
    BY <2>1, SearchBegins DEF LineageRests, Unsearched, LineageInv, PathOK, ExploredOK
<1>2. LineageInit => LineageInv /\ SearchTyped
  BY LineageBegins, SearchBegins DEF LineageInit
<1>3. Init => LineageInv /\ SearchTyped
  BY <1>1, <1>2, SMTT(60) DEF Init
<1>4. [Next]_<<part, partVars>> => [LineageNext]_lineageVars
  BY PartsGoOn
<1> QED
  BY <1>3, <1>4, LineageGoesOn, SearchStaysTyped, PTL DEF Spec

THEOREM LineagesStayExact == Spec => []LineageExact
BY LineagesGoOn, LineageTold, PTL

(* The same of telemetry.                                                   *)
THEOREM TelemetryStaysExact == Spec => []TelemetryExact
<1>1. Init => TelemetryInit
  BY DEF Init
<1>2. [Next]_<<part, partVars>> => [TelemetryNext]_telemetryVars
  BY PartsGoOn
<1>3. Spec => TelemetrySpec
  BY <1>1, <1>2, PTL DEF Spec, TelemetrySpec
<1> QED
  BY <1>3, TelemetryAlwaysExact, PTL

(* The same of case packages.                                               *)
THEOREM PackagesStayExact == Spec => []PackagesExact
<1>1. Init => PackagesInit
  BY DEF Init, PackagesStart
<1>2. [Next]_<<part, partVars>> => [PackagesNext]_packageVars
  BY PartsGoOn
<1>3. Spec => PackagesSpec
  BY <1>1, <1>2, PTL DEF Spec, PackagesSpec
<1> QED
  BY <1>3, PackagesAlwaysExact, PTL
------------------------------------------------------------------------------
(* The types of all parts.                                                  *)

ReplayFiles == {"source", "second", "output"}

RowTyped == row = NoRow \/ row.recorded

ReplaysTyped ==
  /\ DOMAIN job.revisions \subseteq ReplayFiles /\ revisions \in 0..MaxFileChanges
  /\ DOMAIN dossier = ReplayFiles
  /\ RowTyped
  /\ replay.at \in {"not-run", "NOT_REQUESTED", "FAIL", "INCOMPLETE", "PASS", "NOT_APPLICABLE"}

LEMMA ReplaysStayTyped == ReplaysTyped /\ [ReplaysNext]_replayVars => ReplaysTyped'
<1> SUFFICES ASSUME ReplaysTyped, [ReplaysNext]_replayVars PROVE ReplaysTyped'
  OBVIOUS
<1>1. CASE UNCHANGED replayVars
  BY <1>1, ZenonT(60) DEF replayVars, ReplaysTyped, RowTyped
<1>2. CASE Derive
  BY <1>2 DEF Derive, RowTyped, ReplaysTyped
<1>3. CASE PrepareInput
  BY <1>3 DEF PrepareInput, RowTyped, ReplaysTyped
<1>4. CASE RecordRow
  <2>1. row'.recorded = TRUE
    BY <1>4 DEF RecordRow
  <2>2. RowTyped'
    BY <2>1, ZenonT(60) DEF RowTyped
  <2> QED
    BY <1>4, <2>2 DEF RecordRow, ReplaysTyped
<1>5. ASSUME NEW file, NEW content, Edit(file, content) PROVE ReplaysTyped'
  <2>1. revisions' = revisions + 1 /\ revisions < MaxFileChanges /\ UNCHANGED <<job, row, replay>>
    BY <1>5 DEF Edit
  <2>2. DOMAIN dossier' = DOMAIN dossier
    BY <1>5 DEF Edit
  <2>3. revisions' \in 0..MaxFileChanges
    <3>1. revisions \in 0..MaxFileChanges /\ MaxFileChanges \in Nat
      BY ReplaysAssumption DEF ReplaysTyped
    <3> QED
      BY <2>1, <3>1, SMTT(60)
  <2>4. RowTyped'
    BY <2>1, ZenonT(60) DEF RowTyped, ReplaysTyped
  <2> QED
    BY <2>1, <2>2, <2>3, <2>4, ZenonT(60) DEF ReplaysTyped
<1>6. ASSUME NEW requested \in BOOLEAN, NEW others, Reconstruct(requested, others) PROVE ReplaysTyped'
  <2>1. PICK statuses : replay'.at = IF ~requested THEN "NOT_REQUESTED" ELSE Overall(statuses)
    BY <1>6 DEF Reconstruct
  <2>2. Overall(statuses) \in {"FAIL", "INCOMPLETE", "PASS", "NOT_APPLICABLE"}
    BY DEF Overall
  <2> QED
    BY <1>6, <2>1, <2>2, ZenonT(60) DEF Reconstruct, RowTyped, ReplaysTyped
<1> QED
  BY <1>1, <1>2, <1>3, <1>4, <1>5, <1>6 DEF ReplaysNext

(* The replays are typed while they are at work.                           *)
LEMMA ReplaysTypedThere == Spec => [](part = "replay" => ReplaysTyped)
<1>1. ReplaysInit => ReplaysTyped
  <2> SUFFICES ASSUME ReplaysInit PROVE ReplaysTyped
    OBVIOUS
  <2>1. DOMAIN job.revisions \subseteq ReplayFiles
    BY ReplaysAssumption DEF ReplaysInit, ReplayFiles, IsJob
  <2>2. DOMAIN dossier = ReplayFiles /\ row = NoRow /\ revisions = 0 /\ replay.at = "not-run"
    BY DEF ReplaysInit, ReplaysStart, ReplayFiles, NotRun
  <2>3. 0 \in 0..MaxFileChanges
    BY ReplaysAssumption
  <2> QED
    BY <2>1, <2>2, <2>3 DEF ReplaysTyped, RowTyped
<1>2. Init => (part = "replay" => ReplaysTyped)
  BY <1>1 DEF Init
<1>3. (part = "replay" => ReplaysTyped) /\ [Next]_<<part, partVars>> => (part = "replay" => ReplaysTyped)'
  BY ReplaysStayTyped DEF Next, partVars
<1> QED
  BY <1>2, <1>3, PTL DEF Spec

(* Whichever part is at work, and however far, its variables have their     *)
(* types, with the bounds of files, entries, notes and faults.              *)
THEOREM TypesStayCorrect == Spec => []TypeOK
<1>1. Init => /\ RepositoryInit /\ LogInit /\ HistoryInit /\ AttestationInit /\ CapturesInit
              /\ PackagesInit /\ TelemetryInit /\ NotesInit
  BY DEF Init, LogRests, HistoryRests, PackagesStart
<1>2. Spec => /\ RepositorySpec /\ LogSpec /\ HistorySpec /\ AttestationSpec /\ CapturesSpec
              /\ PackagesSpec /\ TelemetrySpec /\ NotesSpec
  BY <1>1, PartsGoOn, PTL DEF Spec, RepositorySpec, LogSpec, HistorySpec, AttestationSpec,
     CapturesSpec, PackagesSpec, TelemetrySpec, NotesSpec
<1>3. /\ RepositoryInv => RepositoryTypeOK
      /\ AttestationInv => AttestationTypeOK
      /\ CapturesInv => CapturesTypeOK
      /\ LineageInv /\ SearchTyped => LineageTypeOK
      /\ ReplaysTyped => ReplaysTypeOK
  BY SearchTold DEF RepositoryInv, AttestationInv, AttestationTypes, CapturesInv, ReplaysTyped,
     ReplayFiles, RowTyped, ReplaysTypeOK
<1>4. /\ RepositoryTypeOK /\ LogTypeOK /\ HistoryTypeOK /\ AttestationTypeOK /\ CapturesTypeOK
      /\ LineageTypeOK /\ PackagesTypeOK /\ TelemetryTypeOK /\ NotesTypeOK
      /\ part = "replay" => ReplaysTypeOK
      => TypeOK
  BY DEF TypeOK, Of
<1> QED
  BY <1>2, <1>3, <1>4, RepositoryInvariant, LogTypeCorrect, AcceptanceAlwaysExact, AttestationHolds,
     CapturesHold, LineagesGoOn, PackagesAlwaysExact, TelemetryAlwaysExact, NotesTypeCorrect,
     ReplaysTypedThere, PTL
------------------------------------------------------------------------------
(* Projections tell the truth of the pages they were made of.               *)

LEMMA ProjectionTold ==
  ASSUME NEW kind, NEW doc, NEW format, NEW rows, NEW more, NEW out,
         out = Projected(kind, doc, format, rows, more)
  PROVE  out.kind = kind /\ out.source = doc /\ out.rows = rows /\ out.complete = Incomplete(more)
BY DEF Projected

LEMMA TrailTrue ==
  ASSUME NEW doc, NEW format, NEW out, out = CloudTrail(doc, format), out # Invalid
  PROVE  out.kind = "cloudtrail" /\ out.source = doc /\ PageTrue(doc, out)
<1> DEFINE lookup == format = "lookup-events"
           rows == [i \in DOMAIN doc.entries |-> TrailEvent(doc.entries[i], i)]
<1>1. /\ "NextToken" \in doc.names => doc.token \in Word
      /\ \A i \in DOMAIN doc.entries :
           /\ lookup <=> doc.entries[i].wrapper # NoWrapper
           /\ lookup => LookupAgrees(doc.entries[i].wrapper, doc.entries[i].event)
      /\ out = Projected("cloudtrail", doc, format, rows, "NextToken" \in doc.names)
  BY Zenon DEF CloudTrail
<1>2. /\ out.kind = "cloudtrail" /\ out.source = doc /\ out.rows = rows
      /\ out.complete = Incomplete("NextToken" \in doc.names)
  <2> HIDE DEF rows
  <2> QED
    BY <1>1, ProjectionTold, SMTT(60)
<1>3. \A i \in DOMAIN doc.entries :
        /\ rows[i].event = doc.entries[i].event /\ rows[i].wrapper = doc.entries[i].wrapper
        /\ rows[i].time = doc.entries[i].event.eventTime
        /\ rows[i].readOnly = Recorded(doc.entries[i].event.readOnly)
  BY DEF TrailEvent
<1>4. DOMAIN rows = DOMAIN doc.entries
  OBVIOUS
<1> HIDE DEF rows
<1>5. [i \in DOMAIN out.rows |-> out.rows[i].event]
        = [i \in DOMAIN doc.entries |-> doc.entries[i].event]
  BY <1>2, <1>3, <1>4, SMTT(60)
<1>6. ASSUME NEW i \in DOMAIN out.rows, out.rows[i].wrapper # NoWrapper
      PROVE  /\ out.rows[i].wrapper.ReadOnly \in {Absent, out.rows[i].readOnly}
             /\ out.rows[i].wrapper.EventTime \in {Absent, out.rows[i].time}
  BY <1>1, <1>2, <1>3, <1>4, <1>6 DEF LookupAgrees, Recorded, Flag, Absent
<1>7. LET next == IF "NextToken" \in doc.names THEN doc.token ELSE Absent
      IN  out.complete = IF next \in Word THEN "false" ELSE Unknown
  BY <1>1, <1>2 DEF Incomplete, Word, Absent
<1> QED
  BY <1>2, <1>5, <1>6, <1>7 DEF PageTrue

LEMMA ActivityTrue ==
  ASSUME NEW doc, NEW format, NEW out, out = AzureActivity(doc, format), out # Invalid
  PROVE  out.kind = "azure" /\ out.source = doc /\ PageTrue(doc, out)
<1> DEFINE rows == [i \in DOMAIN doc.events |-> ActivityEvent(doc.events[i], i)]
<1>1. out = Projected("azure", doc, format, rows, doc.nextLink \in Word)
  BY DEF AzureActivity
<1>2. /\ out.kind = "azure" /\ out.source = doc /\ out.rows = rows
      /\ out.complete = Incomplete(doc.nextLink \in Word)
  <2> HIDE DEF rows
  <2> QED
    BY <1>1, ProjectionTold
<1>3. \A i \in DOMAIN doc.events : rows[i].event = doc.events[i]
  BY DEF ActivityEvent
<1>4. DOMAIN rows = DOMAIN doc.events
  OBVIOUS
<1> HIDE DEF rows
<1>5. [i \in DOMAIN out.rows |-> out.rows[i].event] = [i \in DOMAIN doc.events |-> doc.events[i]]
  BY <1>2, <1>3, <1>4
<1> QED
  BY <1>2, <1>5 DEF PageTrue, Incomplete

AuditEntries(doc) == [i \in DOMAIN doc.entries |-> AuditEntry(doc.entries[i], i)]

AuditPage(doc) == Incomplete(doc.nextPageToken \in Word)

LEMMA AuditTold ==
  ASSUME NEW doc, NEW format, NEW out, out = GoogleAudit(doc, format), out # Invalid
  PROVE  /\ out.kind = "google" /\ out.source = doc /\ out.rows = AuditEntries(doc)
         /\ out.complete = AuditPage(doc)
<1>1. out = Projected("google", doc, format, AuditEntries(doc), doc.nextPageToken \in Word)
  BY DEF GoogleAudit, AuditEntries
<1> QED
  BY <1>1, ProjectionTold DEF AuditPage

(* Also of a page that answers a recorded request.                          *)
LEMMA AuditTrue ==
  ASSUME NEW doc, NEW out, out.kind \in {"google", "google-context"}, out.rows = AuditEntries(doc),
         out.complete = AuditPage(doc)
  PROVE  PageTrue(doc, out)
<1> DEFINE rows == AuditEntries(doc)
<1>1. DOMAIN rows = DOMAIN doc.entries /\ \A i \in DOMAIN doc.entries : rows[i].event = doc.entries[i]
  BY DEF AuditEntry, AuditEntries
<1> HIDE DEF rows
<1>2. [i \in DOMAIN out.rows |-> out.rows[i].event] = [i \in DOMAIN doc.entries |-> doc.entries[i]]
  BY <1>1 DEF rows
<1> QED
  BY <1>2, SMTT(60) DEF PageTrue, AuditPage, Incomplete

(* The text of a query is decoded to what was meant, however it was sent.   *)
LEMMA QueryDecoded ==
  ASSUME NEW doc, NEW context, NEW format, ContextValid(doc, context, format),
         SendsQuery(context.request)
  PROVE  RequestParameters(context.request, format)["query"] = context.request.meant
<1> DEFINE request == context.request
           encoding == EncodingOf(format)
<1>1. CASE request.method = "POST"
  BY <1>1 DEF ContextValid, PostValid, GetValid, SendsQuery, RequestParameters
<1>2. CASE request.method # "POST"
  <2> DEFINE fields == request.fields
  <2>1. request.method = "GET" /\ GetValid(request, encoding)
    <3>1. GetValid(request, encoding)
      BY <1>2, Zenon DEF ContextValid, PostValid
    <3> QED
      BY <3>1, Zenon DEF GetValid
  <2>2. PICK form \in BOOLEAN : \A i \in DOMAIN fields :
          fields[i][1] = "query" => IsWritten(fields[i][2], request.meant, form)
    BY <2>1 DEF SendsQuery
  <2>3. PICK i \in DOMAIN fields : fields[i][1] = "query"
    BY <2>1 DEF GetValid
  <2> DEFINE k == CHOOSE j \in DOMAIN fields : fields[j][1] = "query"
  <2>4. k \in DOMAIN fields /\ fields[k][1] = "query"
    BY <2>3, SMTT(60)
  <2>5. GetParameters(request, encoding)["query"] = Component(fields[k][2], encoding)
    <3>1. "query" \in {fields[j][1] : j \in DOMAIN fields}
      BY <2>3
    <3> QED
      BY <3>1 DEF GetParameters
  <2> HIDE DEF k
  <2>6. IsWritten(fields[k][2], request.meant, form)
    BY <2>2, <2>4
  <2>7. Component(fields[k][2], encoding) = request.meant
    <3> DEFINE text == request.meant
               pieces == fields[k][2]
    <3>1. /\ text \in Seq(Character)
          /\ pieces = [j \in DOMAIN text |-> Encode(text[j], form)]
      BY <2>6 DEF IsWritten
    <3> HIDE DEF text, pieces
    <3>2. ASSUME NEW j \in DOMAIN text PROVE Decode(Encode(text[j], form)) = text[j]
      <4>1. text[j] \in Character
        BY <3>1
      <4> QED
        BY <4>1 DEF Character, Encode, Decode
    <3>3. Component(pieces, encoding) = [j \in DOMAIN text |-> text[j]]
      BY <3>1, <3>2 DEF Component
    <3>4. text = [j \in DOMAIN text |-> text[j]]
      BY <3>1
    <3> QED
      BY <3>3, <3>4 DEF text, pieces
  <2> QED
    BY <1>2, <2>5, <2>7 DEF RequestParameters
<1> QED
  BY <1>1, <1>2

------------------------------------------------------------------------------
(* Tables: sums over sequences, and the number of places of all cells.      *)

Summed(counts, f, n) == IF n = 0 THEN 0 ELSE f[n - 1] + counts[n]

LEMMA SumsExist ==
  ASSUME NEW counts, NEW N \in Nat
  PROVE  \E f : f = [n \in 0..N |-> Summed(counts, f, n)]
<1> DEFINE Z == {M \in 0..N : \E f : f = [n \in 0..M |-> Summed(counts, f, n)]}
<1>1. 0 \in Z
  <2> DEFINE f == [n \in 0..0 |-> 0]
  <2>1. f = [n \in 0..0 |-> Summed(counts, f, n)]
    BY DEF Summed
  <2> HIDE DEF f
  <2> QED
    BY <2>1
<1>2. ASSUME NEW M \in 1..N, M - 1 \in Z PROVE M \in Z
  <2>1. PICK f : f = [n \in 0..(M - 1) |-> Summed(counts, f, n)]
    BY <1>2
  <2> DEFINE g == [n \in 0..M |-> Summed(counts, f, n)]
  <2>2. ASSUME NEW n \in 0..M PROVE g[n] = Summed(counts, g, n)
    <3>1. n # 0 => g[n - 1] = f[n - 1]
      <4>1. n # 0 => n - 1 \in 0..(M - 1) /\ n - 1 \in 0..M
        OBVIOUS
      <4> QED
        BY <2>1, <4>1
    <3>2. g[n] = Summed(counts, f, n)
      OBVIOUS
    <3> HIDE DEF g
    <3> QED
      BY <3>1, <3>2 DEF Summed
  <2>3. g = [n \in 0..M |-> Summed(counts, g, n)]
    <3>1. DOMAIN g = 0..M /\ g = [n \in 0..M |-> g[n]]
      OBVIOUS
    <3> HIDE DEF g
    <3> QED
      BY <2>2, <3>1
  <2>4. M \in 0..N
    OBVIOUS
  <2> HIDE DEF g
  <2> QED
    BY <2>3, <2>4, Zenon
<1>3. N \in Z
  <2> HIDE DEF Z
  <2> QED
    BY <1>1, <1>2, Onward
<1> QED
  BY <1>3

LEMMA TotalUnfolds ==
  ASSUME NEW counts, Len(counts) \in Nat
  PROVE  \E f : /\ f = [n \in 0..Len(counts) |-> Summed(counts, f, n)]
                /\ Total(counts) = f[Len(counts)]
<1> DEFINE N == Len(counts)
           f == CHOOSE g : g = [n \in 0..N |-> IF n = 0 THEN 0 ELSE g[n - 1] + counts[n]]
<1>1. PICK g : g = [n \in 0..N |-> IF n = 0 THEN 0 ELSE g[n - 1] + counts[n]]
  BY SumsExist, Zenon DEF Summed
<1>2. f = [n \in 0..N |-> IF n = 0 THEN 0 ELSE f[n - 1] + counts[n]]
  <2> HIDE DEF N
  <2> QED
    BY <1>1, Zenon
<1>3. Total(counts) = f[N]
  BY Zenon DEF Total
<1> HIDE DEF f
<1> QED
  BY <1>2, <1>3, Zenon DEF Summed

LEMMA SequenceCounted ==
  ASSUME NEW s, IsSequence(s)
  PROVE  Len(s) \in Nat /\ IsFiniteSet(DOMAIN s) /\ Cardinality(DOMAIN s) = Len(s)
<1>1. Len(s) \in Nat /\ DOMAIN s = 1..Len(s)
  BY DEF IsSequence
<1>2. \A n \in Nat : IsFiniteSet(1..n) /\ Cardinality(1..n) = n
  BY FS_Interval
<1> QED
  BY <1>1, <1>2

LEMMA NaturalProduct == \A a, b \in Nat : a * b \in Nat
OBVIOUS

IsSum(f, counts, N) == f = [n \in 0..N |-> Summed(counts, f, n)]
Sized(sets, counts, N) ==
  \A t \in 1..N : IsFiniteSet(sets[t]) /\ Cardinality(sets[t]) = counts[t] /\ counts[t] \in Nat

(* What a sequence of sets holds is at most what the sets hold together.    *)
LEMMA UnionCounted ==
  ASSUME NEW N \in Nat, NEW sets, NEW counts, NEW f, IsSum(f, counts, N), Sized(sets, counts, N),
         NEW whole, whole = UNION {sets[t] : t \in 1..N}
  PROVE  Cardinality(whole) \in Nat /\ f[N] \in Nat /\ Cardinality(whole) <= f[N]
<1> DEFINE upto(n) == UNION {sets[t] : t \in 1..n}
           Z == {n \in 0..N : IsFiniteSet(upto(n)) /\ Cardinality(upto(n)) <= f[n] /\ f[n] \in Nat}
<1>1. 0 \in Z
  <2>1. upto(0) = {}
    OBVIOUS
  <2>2. 0 \in 0..N /\ f[0] = 0
    BY DEF Summed, IsSum
  <2> HIDE DEF upto
  <2> QED
    BY <2>1, <2>2, FS_EmptySet
<1>2. ASSUME NEW n \in 1..N, n - 1 \in Z PROVE n \in Z
  <2>1. upto(n) = upto(n - 1) \cup sets[n]
    <3>1. 1..n = (1..(n - 1)) \cup {n}
      OBVIOUS
    <3> QED
      BY <3>1
  <2> HIDE DEF upto
  <2>2. f[n] = f[n - 1] + counts[n] /\ n \in 0..N
    <3>1. n \in 0..N /\ n # 0
      OBVIOUS
    <3>2. f[n] = Summed(counts, f, n)
      BY <3>1 DEF IsSum
    <3> QED
      BY <3>1, <3>2 DEF Summed
  <2>3. /\ IsFiniteSet(upto(n - 1)) /\ Cardinality(upto(n - 1)) <= f[n - 1] /\ f[n - 1] \in Nat
        /\ IsFiniteSet(sets[n]) /\ Cardinality(sets[n]) = counts[n] /\ counts[n] \in Nat
    BY <1>2 DEF Sized
  <2>4. /\ IsFiniteSet(upto(n))
        /\ Cardinality(upto(n)) = Cardinality(upto(n - 1)) + Cardinality(sets[n])
                                  - Cardinality(upto(n - 1) \cap sets[n])
    <3>1. /\ IsFiniteSet(upto(n - 1) \cup sets[n])
          /\ Cardinality(upto(n - 1) \cup sets[n])
               = Cardinality(upto(n - 1)) + Cardinality(sets[n]) - Cardinality(upto(n - 1) \cap sets[n])
      BY <2>3, FS_Union, Zenon
    <3> QED
      BY <2>1, <3>1, Zenon
  <2>5. Cardinality(upto(n - 1) \cap sets[n]) \in Nat /\ Cardinality(upto(n - 1)) \in Nat
    BY <2>3, FS_Intersection, FS_CardinalityType
  <2> QED
    BY <2>2, <2>3, <2>4, <2>5
<1>3. N \in Z
  <2> HIDE DEF Z
  <2>1. \A n \in 1..N : n - 1 \in Z => n \in Z
    BY <1>2
  <2>2. \A n \in 0..N : n \in Z
    BY <1>1, <2>1, Onward, Zenon
  <2>3. N \in 0..N
    OBVIOUS
  <2> QED
    BY <2>2, <2>3, Zenon
<1>4. whole = upto(N)
  OBVIOUS
<1> HIDE DEF upto
<1> QED
  BY <1>3, <1>4, FS_CardinalityType

LEMMA PairTold ==
  ASSUME NEW R, NEW C, NEW x \in R \X C
  PROVE  x[1] \in R /\ x[2] \in C
OBVIOUS

Slice(t, R, C) == {t} \X (R \X C)

LEMMA SliceCounted ==
  ASSUME NEW t, NEW R, IsFiniteSet(R), NEW C, IsFiniteSet(C)
  PROVE  /\ IsFiniteSet(Slice(t, R, C))
         /\ Cardinality(Slice(t, R, C)) = Cardinality(R) * Cardinality(C)
<1> DEFINE P == R \X C
<1>1. IsFiniteSet(P) /\ Cardinality(P) = Cardinality(R) * Cardinality(C)
  BY FS_Product
<1>2. IsFiniteSet({t}) /\ Cardinality({t}) = 1
  BY FS_Singleton
<1>3. Cardinality(P) \in Nat
  BY <1>1, FS_CardinalityType
<1> HIDE DEF P
<1>4. IsFiniteSet({t} \X P) /\ Cardinality({t} \X P) = 1 * Cardinality(P)
  BY <1>1, <1>2, FS_Product
<1>5. \A n \in Nat : 1 * n = n
  OBVIOUS
<1>6. IsFiniteSet({t} \X P) /\ Cardinality({t} \X P) = Cardinality(R) * Cardinality(C)
  BY <1>1, <1>3, <1>4, <1>5
<1> QED
  BY <1>6 DEF P, Slice

LEMMA PlacesCounted ==
  ASSUME NEW tables, NEW t, IsSequence(tables[t].rows), IsSequence(tables[t].columns)
  PROVE  /\ IsFiniteSet(PlacesIn(tables, t))
         /\ Cardinality(PlacesIn(tables, t)) = Len(tables[t].rows) * Len(tables[t].columns)
         /\ Len(tables[t].rows) * Len(tables[t].columns) \in Nat
<1> DEFINE R == DOMAIN tables[t].rows
           C == DOMAIN tables[t].columns
<1>1. /\ IsFiniteSet(R) /\ Cardinality(R) = Len(tables[t].rows) /\ Len(tables[t].rows) \in Nat
      /\ IsFiniteSet(C) /\ Cardinality(C) = Len(tables[t].columns) /\ Len(tables[t].columns) \in Nat
  BY SequenceCounted
<1>2. PlacesIn(tables, t) = Slice(t, R, C)
  BY DEF PlacesIn, Slice
<1> HIDE DEF R, C
<1>3. /\ IsFiniteSet(Slice(t, R, C))
      /\ Cardinality(Slice(t, R, C)) = Cardinality(R) * Cardinality(C)
  <2>1. IsFiniteSet(R) /\ IsFiniteSet(C)
    BY <1>1
  <2> QED
    BY <2>1, SliceCounted
<1> QED
  BY <1>1, <1>2, <1>3, NaturalProduct

LEMMA CellsCounted ==
  ASSUME NEW tables, IsSequence(tables),
         \A t \in DOMAIN tables : IsSequence(tables[t].columns) /\ IsSequence(tables[t].rows)
  PROVE  /\ Cardinality(Places(tables)) \in Nat /\ CellCount(tables) \in Nat
         /\ Cardinality(Places(tables)) <= CellCount(tables)
<1> DEFINE N == Len(tables)
           sets == [t \in 1..N |-> PlacesIn(tables, t)]
           counts == [t \in 1..N |-> Len(tables[t].rows) * Len(tables[t].columns)]
           cells == Places(tables)
<1>1. N \in Nat /\ DOMAIN tables = 1..N
  BY DEF IsSequence
<1>2. ASSUME NEW t \in 1..N
      PROVE  IsFiniteSet(sets[t]) /\ Cardinality(sets[t]) = counts[t] /\ counts[t] \in Nat
  <2>1. /\ IsSequence(tables[t].rows) /\ IsSequence(tables[t].columns)
        /\ sets[t] = PlacesIn(tables, t)
        /\ counts[t] = Len(tables[t].rows) * Len(tables[t].columns)
    BY <1>1
  <2> HIDE DEF sets, counts
  <2> QED
    BY <2>1, PlacesCounted, Zenon
<1>3. counts \in Seq(Nat) /\ Len(counts) = N
  <2>1. \A t \in 1..N : counts[t] \in Nat
    BY <1>2
  <2>2. DOMAIN counts = 1..N
    OBVIOUS
  <2>3. counts = [t \in 1..N |-> counts[t]]
    OBVIOUS
  <2> HIDE DEF counts
  <2> QED
    BY <1>1, <2>1, <2>2, <2>3
<1>4. CellCount(tables) = Total(counts)
  BY <1>1 DEF CellCount
<1>5. cells = UNION {sets[t] : t \in 1..N}
  BY <1>1 DEF Places
<1> HIDE DEF N, sets, counts, cells
<1>6. Sized(sets, counts, N)
  BY <1>2 DEF Sized
<1>7. PICK f : IsSum(f, counts, N) /\ Total(counts) = f[N]
  BY <1>1, <1>3, TotalUnfolds, Zenon DEF IsSum
<1>8. Cardinality(cells) \in Nat /\ f[N] \in Nat /\ Cardinality(cells) <= f[N]
  BY <1>1, <1>5, <1>6, <1>7, UnionCounted
<1> QED
  BY <1>4, <1>7, <1>8 DEF cells

------------------------------------------------------------------------------
(* What a table tells is true, of both projections.                         *)
LEMMA CellsWithinLimits ==
  ASSUME NEW doc, HasTables(doc), NEW types, TablesValid(doc.tables, types)
  PROVE  Cardinality(Places(doc.tables)) <= MaxCells
<1>1. /\ IsSequence(doc.tables)
      /\ \A t \in DOMAIN doc.tables :
           IsSequence(doc.tables[t].columns) /\ IsSequence(doc.tables[t].rows)
  BY DEF HasTables
<1>2. /\ Cardinality(Places(doc.tables)) \in Nat /\ CellCount(doc.tables) \in Nat
      /\ Cardinality(Places(doc.tables)) <= CellCount(doc.tables)
  BY <1>1, CellsCounted, Zenon
<1>3. CellCount(doc.tables) <= MaxCells
  BY DEF TablesValid
<1> QED
  BY <1>2, <1>3, CloudLogsAssumption

LEMMA NumberTrue ==
  ASSUME NEW token, NEW type \in NumericTypes, LosslessCellValid(token, type),
         LosslessCell(token, type).state = "present"
  PROVE  LET value == LosslessCell(token, type).value
         IN  /\ ReadNumber(value) = ExactNumber(value)
             /\ value \in {token} \cup {"7", "2147483648"}
<1> DEFINE text == IF token \in DOMAIN Quoted THEN Quoted[token] ELSE token
<1>1. token # Null /\ token # Absent
  BY DEF LosslessCell, Marked, Null, Absent
<1>2. NumericText(token, type) # Absent
  BY <1>1 DEF LosslessCellValid
<1>3. LosslessCell(token, type).value = NumericText(token, type)
  <2>1. LosslessCell(token, type).value =
          IF type \in NumericTypes /\ token # Null THEN NumericText(token, type)
          ELSE IF type \in {"bool", "datetime"} THEN token ELSE Null
    BY DEF LosslessCell
  <2> QED
    BY <1>1, <2>1, Zenon
<1>4. NumericText(token, type) = text /\ text \in NumberToken
      /\ (type \in {"int", "long"} => text \in {"7", "2147483648", "9007199254740993"})
      /\ (type \in {"real", "decimal"} => text \notin {"1e400", "1e-400"})
  BY <1>2 DEF NumericText
<1>5. text \in {token} \cup {"7", "2147483648"}
  BY DEF Quoted
<1>6. ReadNumber(text) = ExactNumber(text)
  <2> HIDE DEF text
  <2> QED
    BY <1>4 DEF ReadNumber, ExactNumber, NumericTypes, NumberToken
<1> HIDE DEF text
<1> QED
  BY <1>3, <1>4, <1>5, <1>6

LEMMA TableTold ==
  ASSUME NEW doc, Cardinality(Places(doc.tables)) <= MaxCells,
         NEW out, out.kind # "lossless", out.complete = Incomplete("error" \in doc.names)
  PROVE  TableTrue(doc, out)
BY Zenon DEF TableTrue, Incomplete

LEMMA AnalyticsTold ==
  ASSUME NEW doc, HasTables(doc), NEW format, NEW out, out = LogAnalytics(doc, format), out # Invalid
  PROVE  /\ out.kind = "analytics" /\ out.source = doc
         /\ out.complete = Incomplete("error" \in doc.names)
         /\ Cardinality(Places(doc.tables)) <= MaxCells
<1> DEFINE Row(row_r, columns) == [c \in DOMAIN row_r |-> Cell(row_r[c], columns[c].type)]
           rows == [t \in DOMAIN doc.tables |->
                      [r \in DOMAIN doc.tables[t].rows |-> Row(doc.tables[t].rows[r], doc.tables[t].columns)]]
<1>1. /\ TablesValid(doc.tables, CellTypes)
      /\ out = Projected("analytics", doc, format, rows, "error" \in doc.names)
  BY Zenon DEF LogAnalytics
<1> HIDE DEF rows
<1>2. Cardinality(Places(doc.tables)) <= MaxCells
  BY <1>1, CellsWithinLimits, Zenon
<1> QED
  BY <1>1, <1>2, ProjectionTold

LEMMA LosslessTrue ==
  ASSUME NEW doc, HasTables(doc), NEW format, NEW out, out = LosslessAnalytics(doc, format), out # Invalid
  PROVE  out.kind = "lossless" /\ out.source = doc /\ TableTrue(doc, out)
<1> DEFINE tables == doc.tables
           Row(row_r, columns) == [c \in DOMAIN row_r |-> LosslessCell(row_r[c], columns[c].type)]
           rows == [t \in DOMAIN tables |->
                      [r \in DOMAIN tables[t].rows |-> Row(tables[t].rows[r], tables[t].columns)]]
<1>1. /\ TablesValid(doc.tables, CellTypes \cup {"decimal"})
      /\ \A cell \in Cells(doc.tables) : LosslessCellValid(cell[1], cell[2])
      /\ out = Projected("lossless", doc, format, rows, "error" \in doc.names)
  BY Zenon DEF LosslessAnalytics
<1>2. /\ out.kind = "lossless" /\ out.source = doc /\ out.rows = rows
      /\ out.complete = Incomplete("error" \in doc.names)
  <2> HIDE DEF rows
  <2> QED
    BY <1>1, ProjectionTold
<1>3. Cardinality(Places(doc.tables)) <= MaxCells
  <2> HIDE DEF rows
  <2> QED
    BY <1>1, CellsWithinLimits, ZenonT(60)
<1>4. ASSUME NEW t \in DOMAIN tables, NEW r \in DOMAIN tables[t].rows, NEW c \in DOMAIN tables[t].columns,
             tables[t].columns[c].type \in NumericTypes, out.rows[t][r][c].state = "present"
      PROVE  /\ ReadNumber(out.rows[t][r][c].value) = ExactNumber(out.rows[t][r][c].value)
             /\ out.rows[t][r][c].value \in {tables[t].rows[r][c]} \cup {"7", "2147483648"}
  <2> DEFINE token == tables[t].rows[r][c]
             type == tables[t].columns[c].type
  <2>1. c \in DOMAIN tables[t].rows[r]
    <3>1. Len(tables[t].rows[r]) = Len(tables[t].columns)
      BY <1>1 DEF TablesValid
    <3>2. IsSequence(tables[t].rows[r]) /\ IsSequence(tables[t].columns)
      BY DEF HasTables
    <3> DEFINE cells == tables[t].rows[r]
               columns == tables[t].columns
    <3>3. DOMAIN cells = 1..Len(cells) /\ DOMAIN columns = 1..Len(columns) /\ Len(cells) = Len(columns)
      BY <3>1, <3>2, Zenon DEF IsSequence
    <3>4. c \in DOMAIN columns
      OBVIOUS
    <3> HIDE DEF cells, columns
    <3>5. c \in DOMAIN cells
      BY <3>3, <3>4, Zenon
    <3> QED
      BY <3>5, ZenonT(60) DEF cells
  <2>2. out.rows[t][r][c] = LosslessCell(token, type)
    <3>1. rows[t][r][c] = LosslessCell(token, type)
      <4>1. rows[t][r] = Row(tables[t].rows[r], tables[t].columns)
        BY Zenon
      <4>2. Row(tables[t].rows[r], tables[t].columns)[c] = LosslessCell(token, type)
        BY <2>1, ZenonT(60)
      <4> HIDE DEF rows, Row
      <4> QED
        BY <4>1, <4>2, Zenon
    <3> HIDE DEF rows, token, type
    <3> QED
      BY <1>2, <3>1, Zenon
  <2>3. LosslessCellValid(token, type)
    <3>1. <<token, type>> \in Cells(doc.tables)
      BY DEF Cells
    <3> HIDE DEF token, type
    <3>2. <<token, type>>[1] = token /\ <<token, type>>[2] = type
      OBVIOUS
    <3> QED
      BY <1>1, <3>1, <3>2
  <2> HIDE DEF token, type, rows
  <2>4. type \in NumericTypes /\ LosslessCell(token, type).state = "present"
    BY <1>4, <2>2 DEF type
  <2> QED
    BY <2>2, <2>3, <2>4, NumberTrue DEF token
<1>5. ASSUME NEW x \in Places(tables)
      PROVE  x[1] \in DOMAIN tables /\ x[2][1] \in DOMAIN tables[x[1]].rows
             /\ x[2][2] \in DOMAIN tables[x[1]].columns
  <2>1. PICK t \in DOMAIN tables : x \in PlacesIn(tables, t)
    BY DEF Places
  <2> DEFINE R == DOMAIN tables[t].rows
             C == DOMAIN tables[t].columns
  <2>2. x \in {t} \X (R \X C)
    BY <2>1 DEF PlacesIn
  <2> HIDE DEF R, C
  <2>3. x[1] = t /\ x[2] \in R \X C
    BY <2>2, PairTold
  <2>4. x[2][1] \in R /\ x[2][2] \in C
    BY <2>3, PairTold
  <2> QED
    BY <2>3, <2>4 DEF R, C
<1>6. ASSUME NEW x \in Places(tables),
             tables[x[1]].columns[x[2][2]].type \in NumericTypes,
             out.rows[x[1]][x[2][1]][x[2][2]].state = "present"
      PROVE  /\ ReadNumber(out.rows[x[1]][x[2][1]][x[2][2]].value)
                  = ExactNumber(out.rows[x[1]][x[2][1]][x[2][2]].value)
             /\ out.rows[x[1]][x[2][1]][x[2][2]].value
                  \in {tables[x[1]].rows[x[2][1]][x[2][2]]} \cup {"7", "2147483648"}
  <2> HIDE DEF rows
  <2> QED
    BY <1>4, <1>5, <1>6, Zenon
<1> QED
  <2> HIDE DEF rows
  <2> QED
    BY <1>2, <1>3, <1>6, Zenon DEF TableTrue, Incomplete

------------------------------------------------------------------------------
(* Reports on raw evidence.                                                 *)

LEMMA PresentTold ==
  ASSUME NEW docs, IsSequence(docs), NEW name
  PROVE  /\ IsFiniteSet(PresentIn(docs, name)) /\ Cardinality(PresentIn(docs, name)) \in Nat
         /\ Len(docs) \in Nat
         /\ Len(docs) - Cardinality(PresentIn(docs, name)) = 0
              => \A i \in DOMAIN docs : name \in DOMAIN docs[i]
<1> DEFINE D == DOMAIN docs
           P == PresentIn(docs, name)
<1>1. IsFiniteSet(D) /\ Cardinality(D) = Len(docs) /\ Len(docs) \in Nat
  BY SequenceCounted
<1>2. P \in SUBSET D
  BY DEF PresentIn
<1> HIDE DEF D, P
<1>3. IsFiniteSet(P) /\ Cardinality(P) \in Nat
  BY <1>1, <1>2, FS_Subset, FS_CardinalityType
<1>4. Cardinality(P) = Cardinality(D) => P = D
  BY <1>1, <1>2, FS_Subset
<1>5. Len(docs) - Cardinality(P) = 0 => P = D
  BY <1>1, <1>3, <1>4
<1>6. P = D => \A i \in DOMAIN docs : name \in DOMAIN docs[i]
  BY DEF P, D, PresentIn
<1> QED
  BY <1>1, <1>3, <1>5, <1>6 DEF P

(* Records meet the rules if a report on their fields says so.              *)
LEMMA FieldsTold ==
  ASSUME NEW docs, IsSequence(docs), NEW rules, rules.required \subseteq DOMAIN rules.types,
         Conforms(FieldReport(docs, rules), rules)
  PROVE  \A i \in DOMAIN docs :
           /\ rules.required \subseteq DOMAIN docs[i]
           /\ rules.extra \/ DOMAIN docs[i] \subseteq DOMAIN rules.types
           /\ \A n \in DOMAIN docs[i] \cap DOMAIN rules.types : docs[i][n] \in rules.types[n]
<1> DEFINE names == FieldNames(docs) \cup DOMAIN rules.types
           missing(name) == IF name \in rules.required THEN Len(docs) - Cardinality(PresentIn(docs, name)) ELSE 0
           wrong(name) == {i \in PresentIn(docs, name) : docs[i][name] \notin rules.types[name]}
           mismatches(name) == IF name \in DOMAIN rules.types THEN Cardinality(wrong(name)) ELSE 0
<1>1. ASSUME NEW name \in names
      PROVE  /\ mismatches(name) = 0 /\ missing(name) = 0
             /\ rules.extra \/ ~(name \notin DOMAIN rules.types)
  <2>1. /\ FieldOf(docs, rules, name).mismatches = mismatches(name)
        /\ FieldOf(docs, rules, name).missing = missing(name)
    BY DEF FieldOf
  <2>2. FieldOf(docs, rules, name).unexpected = (name \notin DOMAIN rules.types)
    BY Zenon DEF FieldOf
  <2>3. /\ DOMAIN FieldReport(docs, rules) = names
        /\ FieldReport(docs, rules)[name] = FieldOf(docs, rules, name)
    BY DEF FieldReport
  <2> HIDE DEF names, missing, mismatches
  <2> QED
    BY <2>1, <2>2, <2>3, ZenonT(60) DEF Conforms
<1>2. ASSUME NEW name \in rules.required PROVE \A i \in DOMAIN docs : name \in DOMAIN docs[i]
  <2>1. Len(docs) - Cardinality(PresentIn(docs, name)) = 0
    BY <1>1
  <2> QED
    BY <2>1, PresentTold
<1>3. ASSUME NEW i \in DOMAIN docs, NEW n \in DOMAIN docs[i]
      PROVE  n \in names /\ i \in PresentIn(docs, n)
  BY DEF FieldNames, PresentIn
<1>4. ASSUME NEW n \in DOMAIN rules.types PROVE wrong(n) = {}
  <2>1. Cardinality(wrong(n)) = 0
    BY <1>1
  <2>2. wrong(n) \in SUBSET PresentIn(docs, n)
    OBVIOUS
  <2> HIDE DEF wrong
  <2>3. IsFiniteSet(wrong(n))
    BY <2>2, PresentTold, FS_Subset
  <2> QED
    BY <2>1, <2>3, FS_EmptySet
<1>5. ASSUME NEW i \in DOMAIN docs, NEW n \in DOMAIN docs[i] \cap DOMAIN rules.types
      PROVE  docs[i][n] \in rules.types[n]
  BY <1>3, <1>4
<1>6. ASSUME NEW i \in DOMAIN docs, NEW n \in DOMAIN docs[i]
      PROVE  rules.extra \/ n \in DOMAIN rules.types
  <2> HIDE DEF names, missing, mismatches
  <2> QED
    BY <1>1, <1>3, Zenon
<1> QED
  BY <1>2, <1>5, <1>6, Zenon

LEMMA ReportTold ==
  ASSUME NEW status_r, NEW raw, NEW rules, NEW checks, NEW fields, NEW satisfied, NEW out,
         out = [status |-> status_r, kind |-> "assess", source |-> raw, rules |-> rules, checks |-> checks,
                fields |-> fields, satisfied |-> satisfied]
  PROVE  out.kind = "assess" /\ out.source = raw /\ out.rules = rules /\ out.satisfied = satisfied
OBVIOUS

LEMMA AssessTrue ==
  ASSUME NEW raw, IsSequence(raw.records), NEW rules, NEW pin, NEW out,
         out = Assess(raw, rules, pin), out # Invalid
  PROVE  /\ out.kind = "assess" /\ out.source = raw /\ out.rules = rules
         /\ AssessmentTrue(raw, rules, out)
<1> DEFINE text == rules.format # "binary" /\ raw.text
           json == rules.format \notin {"text", "binary"}
           parsed == (rules.format # "binary" => raw.text) /\ (json => raw.parses)
           fields == IF json /\ parsed THEN FieldReport(raw.records, rules) ELSE [n \in {} |-> 0]
           checks ==
             [digest |-> raw = rules.expected, size |-> raw.size \in rules.sizes, parse |-> parsed,
              records |-> rules.records => json /\ parsed /\ raw.records # <<>>,
              fields |-> json => parsed /\ Conforms(fields, rules),
              words |-> rules.words = {} \/ (text /\ rules.words \subseteq raw.words)]
           satisfied == \A c \in DOMAIN checks : checks[c]
<1>1. /\ RulesValid(rules, pin)
      /\ out = [status |-> "valid", kind |-> "assess", source |-> raw, rules |-> rules, checks |-> checks,
                fields |-> fields, satisfied |-> satisfied]
  BY Zenon DEF Assess
<1>2. satisfied => /\ raw = rules.expected
                   /\ rules.records => json /\ parsed /\ raw.records # <<>>
                   /\ json => parsed /\ Conforms(fields, rules)
  <2>1. DOMAIN checks = {"digest", "size", "parse", "records", "fields", "words"}
    BY Zenon
  <2>2. /\ checks["digest"] = (raw = rules.expected)
        /\ checks["records"] = (rules.records => json /\ parsed /\ raw.records # <<>>)
        /\ checks["fields"] = (json => parsed /\ Conforms(fields, rules))
    BY Zenon
  <2> HIDE DEF checks, fields, parsed, json
  <2> QED
    BY <2>1, <2>2, Zenon
<1> HIDE DEF checks, satisfied, fields, text
<1>3. out.kind = "assess" /\ out.source = raw /\ out.rules = rules /\ out.satisfied = satisfied
  BY <1>1, ReportTold
<1>4. rules.required \subseteq DOMAIN rules.types
  BY <1>1, Zenon DEF RulesValid
<1>5. ASSUME satisfied, json PROVE Conforms(FieldReport(raw.records, rules), rules)
  BY <1>2, <1>5, Zenon DEF fields
<1>6. ~json => DOMAIN rules.types = {} /\ ~rules.records /\ rules.extra
  <2>1. ~json => rules.format \in {"text", "binary"}
    BY Zenon
  <2> QED
    BY <1>1, <2>1, Zenon DEF RulesValid
<1>7. ASSUME satisfied
      PROVE  \A i \in DOMAIN raw.records :
               /\ rules.required \subseteq DOMAIN raw.records[i]
               /\ rules.extra \/ DOMAIN raw.records[i] \subseteq DOMAIN rules.types
               /\ \A n \in DOMAIN raw.records[i] \cap DOMAIN rules.types :
                    raw.records[i][n] \in rules.types[n]
  <2>1. CASE json
    BY <1>4, <1>5, <1>7, <2>1, FieldsTold, Zenon
  <2>2. CASE ~json
    <3>1. rules.required = {} /\ DOMAIN rules.types = {}
      BY <1>4, <1>6, <2>2
    <3> QED
      BY <1>6, <2>2, <3>1, Zenon
  <2> QED
    BY <2>1, <2>2, Zenon
<1>8. AssessmentTrue(raw, rules, out)
  BY <1>2, <1>3, <1>7, Zenon DEF AssessmentTrue
<1> QED
  BY <1>3, <1>8, Zenon

------------------------------------------------------------------------------
(* Comparisons of structures.                                               *)

LEMMA KindsExact ==
  ASSUME NEW docs, NEW p, NEW k
  PROVE  k \in KindsAt(docs, p) <=>
           \E i \in DOMAIN docs : p \in DOMAIN docs[i]
             /\ \E n \in DOMAIN docs[i][p] : docs[i][p][n] = k
BY DEF KindsAt, PresentIn

LEMMA KindsThere ==
  ASSUME NEW doc, HasStructure(doc), NEW p
  PROVE  p \in FieldNames(doc.records) <=> \E kind : kind \in KindsAt(doc.records, p)
<1> DEFINE docs == doc.records
<1>1. ASSUME NEW k \in KindsAt(docs, p) PROVE p \in FieldNames(docs)
  BY KindsExact DEF FieldNames
<1>2. ASSUME p \in FieldNames(docs) PROVE \E kind : kind \in KindsAt(docs, p)
  <2>1. PICK i \in DOMAIN docs : p \in DOMAIN docs[i]
    BY <1>2 DEF FieldNames
  <2>2. IsSequence(docs[i][p]) /\ docs[i][p] # <<>>
    BY <2>1 DEF HasStructure
  <2>3. 1 \in DOMAIN docs[i][p]
    <3> DEFINE s == docs[i][p]
    <3>1. Len(s) \in Nat /\ DOMAIN s = 1..Len(s) /\ s # <<>>
      BY <2>2 DEF IsSequence
    <3> HIDE DEF s
    <3>2. Len(s) # 0
      BY <3>1
    <3> QED
      BY <3>1, <3>2 DEF s
  <2>4. docs[i][p][1] \in KindsAt(docs, p)
    BY <2>1, <2>3, KindsExact
  <2> QED
    BY <2>4
<1> QED
  BY <1>1, <1>2

LEMMA PathKindsTold ==
  ASSUME NEW docs
  PROVE  /\ \A p, k : <<p, k>> \in PathKinds(docs) <=> k \in KindsAt(docs, p)
         /\ \A x \in PathKinds(docs) : x = <<x[1], x[2]>>
<1>1. ASSUME NEW x \in PathKinds(docs)
      PROVE  x = <<x[1], x[2]>> /\ x[2] \in KindsAt(docs, x[1])
  <2>1. PICK i \in DOMAIN docs : \E p \in DOMAIN docs[i] : \E n \in DOMAIN docs[i][p] :
          x = <<p, docs[i][p][n]>>
    BY DEF PathKinds
  <2>2. PICK p \in DOMAIN docs[i] : \E n \in DOMAIN docs[i][p] : x = <<p, docs[i][p][n]>>
    BY <2>1
  <2>3. PICK n \in DOMAIN docs[i][p] : x = <<p, docs[i][p][n]>>
    BY <2>2
  <2>4. x[1] = p /\ x[2] = docs[i][p][n]
    BY <2>3
  <2> QED
    BY <2>3, <2>4, KindsExact
<1>2. ASSUME NEW p, NEW k \in KindsAt(docs, p) PROVE <<p, k>> \in PathKinds(docs)
  <2>1. PICK i \in DOMAIN docs : p \in DOMAIN docs[i]
             /\ \E n \in DOMAIN docs[i][p] : docs[i][p][n] = k
    BY KindsExact
  <2> QED
    BY <2>1 DEF PathKinds
<1>3. ASSUME NEW p, NEW k, <<p, k>> \in PathKinds(docs) PROVE k \in KindsAt(docs, p)
  <2> DEFINE x == <<p, k>>
  <2>1. x[1] = p /\ x[2] = k /\ x \in PathKinds(docs)
    BY <1>3
  <2> HIDE DEF x
  <2> QED
    BY <1>1, <2>1
<1> QED
  BY <1>1, <1>2, <1>3

LEMMA PathKindsSame ==
  ASSUME NEW a, NEW b
  PROVE  PathKinds(a) = PathKinds(b) <=> \A p : KindsAt(a, p) = KindsAt(b, p)
<1>1. ASSUME PathKinds(a) = PathKinds(b), NEW p PROVE KindsAt(a, p) = KindsAt(b, p)
  <2>1. ASSUME NEW k PROVE k \in KindsAt(a, p) <=> k \in KindsAt(b, p)
    <3>1. /\ k \in KindsAt(a, p) <=> <<p, k>> \in PathKinds(a)
          /\ k \in KindsAt(b, p) <=> <<p, k>> \in PathKinds(b)
      BY PathKindsTold
    <3> QED
      BY <1>1, <3>1
  <2> QED
    BY <2>1
<1>2. ASSUME \A p : KindsAt(a, p) = KindsAt(b, p), NEW x PROVE x \in PathKinds(a) <=> x \in PathKinds(b)
  <2>1. x \in PathKinds(a) => x = <<x[1], x[2]>> /\ x[2] \in KindsAt(a, x[1])
    BY PathKindsTold
  <2>2. x \in PathKinds(b) => x = <<x[1], x[2]>> /\ x[2] \in KindsAt(b, x[1])
    BY PathKindsTold
  <2>3. /\ x[2] \in KindsAt(a, x[1]) <=> <<x[1], x[2]>> \in PathKinds(a)
        /\ x[2] \in KindsAt(b, x[1]) <=> <<x[1], x[2]>> \in PathKinds(b)
        /\ KindsAt(a, x[1]) = KindsAt(b, x[1])
    BY <1>2, PathKindsTold
  <2> QED
    BY <2>1, <2>2, <2>3
<1> QED
  BY <1>1, <1>2

(* What is observed at a path.                                              *)
SeenAt(docs, p) ==
  [kinds |-> KindsAt(docs, p), present |-> Cardinality(PresentIn(docs, p)),
   occurrences |-> [k \in KindsAt(docs, p) |-> Cardinality(OccurrencesAt(docs, p, k))]]

LEMMA ObserveTold ==
  ASSUME NEW docs
  PROVE  /\ Observe(docs).count = Len(docs)
         /\ DOMAIN Observe(docs).paths = FieldNames(docs)
         /\ \A p \in FieldNames(docs) :
              Observe(docs).paths[p] = SeenAt(docs, p) /\ SeenAt(docs, p).kinds = KindsAt(docs, p)
BY DEF Observe, SeenAt

LEMMA OccurrencesTold ==
  ASSUME NEW docs, NEW p, NEW k, NEW x
  PROVE  x \in OccurrencesAt(docs, p, k) <=>
           /\ x = <<x[1], x[2]>> /\ x[1] \in DOMAIN docs /\ p \in DOMAIN docs[x[1]]
           /\ x[2] \in DOMAIN docs[x[1]][p] /\ docs[x[1]][p][x[2]] = k
<1>1. ASSUME x \in OccurrencesAt(docs, p, k)
      PROVE  /\ x = <<x[1], x[2]>> /\ x[1] \in DOMAIN docs /\ p \in DOMAIN docs[x[1]]
             /\ x[2] \in DOMAIN docs[x[1]][p] /\ docs[x[1]][p][x[2]] = k
  <2>1. PICK i \in PresentIn(docs, p) :
          \E n \in {m \in DOMAIN docs[i][p] : docs[i][p][m] = k} : x = <<i, n>>
    BY <1>1 DEF OccurrencesAt
  <2>2. PICK n \in {m \in DOMAIN docs[i][p] : docs[i][p][m] = k} : x = <<i, n>>
    BY <2>1
  <2>3. x[1] = i /\ x[2] = n
    BY <2>2
  <2> QED
    BY <2>1, <2>2, <2>3 DEF PresentIn
<1>2. ASSUME x = <<x[1], x[2]>>, x[1] \in DOMAIN docs, p \in DOMAIN docs[x[1]],
             x[2] \in DOMAIN docs[x[1]][p], docs[x[1]][p][x[2]] = k
      PROVE  x \in OccurrencesAt(docs, p, k)
  <2>1. <<x[1], x[2]>> \in OccurrencesAt(docs, p, k)
    BY <1>2 DEF OccurrencesAt, PresentIn
  <2> QED
    BY <1>2, <2>1
<1> QED
  BY <1>1, <1>2

LEMMA OccurrencesFinite ==
  ASSUME NEW doc, HasStructure(doc), NEW p, NEW k
  PROVE  IsFiniteSet(OccurrencesAt(doc.records, p, k))
<1> DEFINE docs == doc.records
           P == PresentIn(docs, p)
           At_p(i) == {n \in DOMAIN docs[i][p] : docs[i][p][n] = k}
           Pairs(i) == {<<i, n>> : n \in At_p(i)}
           h == [i \in P |-> Pairs(i)]
<1>1. IsFiniteSet(P)
  BY PresentTold DEF HasStructure
<1>2. ASSUME NEW i \in P PROVE IsFiniteSet(Pairs(i))
  <2>1. IsSequence(docs[i][p])
    BY DEF HasStructure, PresentIn
  <2>2. IsFiniteSet(DOMAIN docs[i][p])
    BY <2>1, SequenceCounted
  <2>3. IsFiniteSet(At_p(i))
    BY <2>2, FS_Subset
  <2> DEFINE g == [n \in At_p(i) |-> <<i, n>>]
             Z == At_p(i)
             T == Pairs(i)
  <2>4. T = {g[n] : n \in Z}
    OBVIOUS
  <2> HIDE DEF g, Z, T
  <2>5. IsFiniteSet(T)
    BY <2>3, <2>4, ImagesCounted DEF Z
  <2> QED
    BY <2>5 DEF T
<1> DEFINE U == {h[i] : i \in P}
<1>3. \A i \in P : h[i] = Pairs(i)
  OBVIOUS
<1>4. OccurrencesAt(docs, p, k) = UNION U
  BY DEF OccurrencesAt
<1> HIDE DEF P, h, Pairs
<1>5. IsFiniteSet(U)
  BY <1>1, ImagesCounted
<1>6. \A T \in U : IsFiniteSet(T)
  BY <1>2, <1>3
<1> HIDE DEF U
<1>7. IsFiniteSet(UNION U)
  BY <1>5, <1>6, FS_UNION
<1> QED
  BY <1>4, <1>7

(* Another order of records tells the same.                                 *)
Orders(order, a, b) ==
  /\ order \in [DOMAIN a -> DOMAIN a] /\ \A i \in DOMAIN a : \E j \in DOMAIN a : order[j] = i
  /\ DOMAIN b = DOMAIN a /\ \A i \in DOMAIN a : b[i] = a[order[i]]

LEMMA OrderIsInjective ==
  ASSUME NEW a, IsSequence(a), NEW b, NEW order, Orders(order, a, b)
  PROVE  \A i, j \in DOMAIN a : order[i] = order[j] => i = j
<1> DEFINE D == DOMAIN a
<1>1. IsFiniteSet(D)
  BY SequenceCounted
<1>2. order \in Surjection(D, D)
  BY DEF Orders, Surjection
<1> HIDE DEF D
<1>3. order \in Injection(D, D)
  BY <1>1, <1>2, FS_SurjSameCardinalityImpliesInj
<1> QED
  BY <1>3 DEF Injection, IsInjective, D

LEMMA OrderKeepsKinds ==
  ASSUME NEW a, NEW b, NEW order, Orders(order, a, b), NEW p
  PROVE  KindsAt(a, p) = KindsAt(b, p)
<1>1. ASSUME NEW k \in KindsAt(b, p) PROVE k \in KindsAt(a, p)
  <2>1. PICK i \in DOMAIN b : p \in DOMAIN b[i] /\ \E n \in DOMAIN b[i][p] : b[i][p][n] = k
    BY KindsExact
  <2>2. b[i] = a[order[i]] /\ order[i] \in DOMAIN a
    BY <2>1 DEF Orders
  <2> QED
    BY <2>1, <2>2, KindsExact
<1>2. ASSUME NEW k \in KindsAt(a, p) PROVE k \in KindsAt(b, p)
  <2>1. PICK j \in DOMAIN a : p \in DOMAIN a[j] /\ \E n \in DOMAIN a[j][p] : a[j][p][n] = k
    BY KindsExact
  <2>2. PICK i \in DOMAIN a : order[i] = j
    BY DEF Orders
  <2>3. b[i] = a[j] /\ i \in DOMAIN b
    BY <2>2 DEF Orders
  <2> QED
    BY <2>1, <2>3, KindsExact
<1> QED
  BY <1>1, <1>2

LEMMA OrderKeepsPresence ==
  ASSUME NEW a, IsSequence(a), NEW b, IsSequence(b), NEW order, Orders(order, a, b), NEW p
  PROVE  Cardinality(PresentIn(a, p)) = Cardinality(PresentIn(b, p))
<1> DEFINE A == PresentIn(a, p)
           B == PresentIn(b, p)
<1>1. IsFiniteSet(B)
  BY PresentTold
<1>2. A = {order[i] : i \in B}
  <2>1. ASSUME NEW i \in B PROVE order[i] \in A
    BY DEF PresentIn, Orders
  <2>2. ASSUME NEW j \in A PROVE \E i \in B : j = order[i]
    <3>1. PICK i \in DOMAIN a : order[i] = j
      BY DEF PresentIn, Orders
    <3>2. b[i] = a[j] /\ i \in DOMAIN b
      BY <3>1 DEF Orders
    <3> QED
      BY <3>1, <3>2 DEF PresentIn
  <2> HIDE DEF A, B
  <2> QED
    BY <2>1, <2>2
<1>3. \A i, j \in B : order[i] = order[j] => i = j
  BY OrderIsInjective DEF PresentIn, Orders
<1> HIDE DEF A, B
<1>4. Cardinality(A) = Cardinality(B)
  BY <1>1, <1>2, <1>3, ImagesCounted
<1> QED
  BY <1>4 DEF A, B

LEMMA OrderKeepsOccurrences ==
  ASSUME NEW x, HasStructure(x), NEW y, HasStructure(y), NEW order, Orders(order, x.records, y.records),
         NEW p, NEW k
  PROVE  Cardinality(OccurrencesAt(x.records, p, k)) = Cardinality(OccurrencesAt(y.records, p, k))
<1> DEFINE a == x.records
           b == y.records
           A == OccurrencesAt(a, p, k)
           B == OccurrencesAt(b, p, k)
           g == [o \in B |-> <<order[o[1]], o[2]>>]
<1>1. IsFiniteSet(B) /\ IsSequence(a)
  BY OccurrencesFinite DEF HasStructure
<1> HIDE DEF a, b
<1>2. \A i, j \in DOMAIN a : order[i] = order[j] => i = j
  BY <1>1, OrderIsInjective DEF a, b
<1>3. /\ DOMAIN b = DOMAIN a
      /\ \A i \in DOMAIN a : b[i] = a[order[i]] /\ order[i] \in DOMAIN a
      /\ \A i \in DOMAIN a : \E j \in DOMAIN a : order[j] = i
  BY DEF Orders, a, b
<1>4. ASSUME NEW o \in B PROVE g[o] \in A /\ g[o] = <<order[o[1]], o[2]>>
  <2>1. /\ o[1] \in DOMAIN b /\ p \in DOMAIN b[o[1]]
        /\ o[2] \in DOMAIN b[o[1]][p] /\ b[o[1]][p][o[2]] = k
    BY OccurrencesTold
  <2> DEFINE z == <<order[o[1]], o[2]>>
  <2>2. z[1] = order[o[1]] /\ z[2] = o[2] /\ z = <<z[1], z[2]>> /\ g[o] = z
    OBVIOUS
  <2> HIDE DEF z, g, B, A
  <2>3. z \in A
    BY <1>3, <2>1, <2>2, OccurrencesTold DEF A
  <2> QED
    BY <2>2, <2>3 DEF z
<1>5. ASSUME NEW z \in A PROVE \E o \in B : z = g[o]
  <2>1. /\ z = <<z[1], z[2]>> /\ z[1] \in DOMAIN a /\ p \in DOMAIN a[z[1]]
        /\ z[2] \in DOMAIN a[z[1]][p] /\ a[z[1]][p][z[2]] = k
    BY OccurrencesTold
  <2>2. PICK i \in DOMAIN a : order[i] = z[1]
    BY <1>3, <2>1
  <2>3. b[i] = a[z[1]] /\ i \in DOMAIN b
    BY <1>3, <2>2
  <2> DEFINE o == <<i, z[2]>>
  <2>4. o[1] = i /\ o[2] = z[2] /\ o = <<o[1], o[2]>>
    OBVIOUS
  <2> HIDE DEF o, g, A, B
  <2>5. o \in B
    BY <2>1, <2>3, <2>4, OccurrencesTold DEF B
  <2>6. g[o] = <<order[o[1]], o[2]>>
    BY <1>4, <2>5
  <2> QED
    BY <2>1, <2>2, <2>4, <2>5, <2>6
<1>6. ASSUME NEW o \in B, NEW q \in B, g[o] = g[q] PROVE o = q
  <2>1. /\ o = <<o[1], o[2]>> /\ o[1] \in DOMAIN b /\ q = <<q[1], q[2]>> /\ q[1] \in DOMAIN b
    BY OccurrencesTold
  <2>2. <<order[o[1]], o[2]>> = <<order[q[1]], q[2]>>
    BY <1>4, <1>6
  <2>3. order[o[1]] = order[q[1]] /\ o[2] = q[2]
    BY <2>2
  <2>4. o[1] = q[1]
    BY <1>2, <1>3, <2>1, <2>3
  <2> QED
    BY <2>1, <2>3, <2>4
<1> HIDE DEF A, B, g
<1>7. A = {g[o] : o \in B}
  BY <1>4, <1>5
<1>8. Cardinality(A) = Cardinality(B)
  BY <1>1, <1>6, <1>7, ImagesCounted
<1> QED
  BY <1>8 DEF A, B, a, b

LEMMA ComparisonTold ==
  ASSUME NEW status_r, NEW raw, NEW baseline, NEW appeared, NEW removed, NEW changed, NEW shape, NEW counts,
         NEW out,
         out = [status |-> status_r, kind |-> "drift", source |-> raw, baseline |-> baseline,
                added |-> appeared, removed |-> removed, changed |-> changed, shape |-> shape, counts |-> counts]
  PROVE  /\ out.kind = "drift" /\ out.source = raw /\ out.baseline = baseline
         /\ out.shape = shape /\ out.counts = counts
OBVIOUS

LEMMA OrderKeepsStructure ==
  ASSUME NEW x, HasStructure(x), NEW y, HasStructure(y), NEW order, Orders(order, x.records, y.records)
  PROVE  /\ FieldNames(x.records) = FieldNames(y.records)
         /\ \A p : KindsAt(x.records, p) = KindsAt(y.records, p) /\ SeenAt(x.records, p) = SeenAt(y.records, p)
<1>1. ASSUME NEW p PROVE KindsAt(x.records, p) = KindsAt(y.records, p)
  BY OrderKeepsKinds
<1>2. ASSUME NEW p PROVE SeenAt(x.records, p) = SeenAt(y.records, p)
  <2>1. IsSequence(x.records) /\ IsSequence(y.records)
    BY DEF HasStructure
  <2>2. Cardinality(PresentIn(x.records, p)) = Cardinality(PresentIn(y.records, p))
    BY <2>1, OrderKeepsPresence
  <2>3. ASSUME NEW k
        PROVE  Cardinality(OccurrencesAt(x.records, p, k)) = Cardinality(OccurrencesAt(y.records, p, k))
    BY OrderKeepsOccurrences
  <2>4. [k \in KindsAt(x.records, p) |-> Cardinality(OccurrencesAt(x.records, p, k))]
          = [k \in KindsAt(y.records, p) |-> Cardinality(OccurrencesAt(y.records, p, k))]
    BY <1>1, <2>3
  <2> QED
    BY <1>1, <2>2, <2>4 DEF SeenAt
<1>3. ASSUME NEW p PROVE p \in FieldNames(x.records) <=> p \in FieldNames(y.records)
  <2>1. p \in FieldNames(x.records) <=> \E kind : kind \in KindsAt(x.records, p)
    BY KindsThere
  <2>2. p \in FieldNames(y.records) <=> \E kind : kind \in KindsAt(y.records, p)
    BY KindsThere
  <2> QED
    BY <1>1, <2>1, <2>2
<1> QED
  BY <1>1, <1>2, <1>3

LEMMA ComparisonTrue ==
  ASSUME NEW raw, HasStructure(raw), NEW baseline, HasStructure(baseline), NEW pin,
         NEW out, out = Drift(raw, baseline, pin), out # Invalid
  PROVE  /\ out.kind = "drift" /\ out.source = raw /\ out.baseline = baseline
         /\ DriftTrue(raw, baseline, out)
<1> DEFINE before == Observe(baseline.records)
           after == Observe(raw.records)
           common == DOMAIN before.paths \cap DOMAIN after.paths
           changed == {p \in common : before.paths[p].kinds # after.paths[p].kinds}
           appeared == DOMAIN after.paths \ DOMAIN before.paths
           removed == DOMAIN before.paths \ DOMAIN after.paths
           shape == appeared \cup removed \cup changed # {}
           counts == before.count # after.count \/ appeared \cup removed # {}
                       \/ \E p \in common : before.paths[p] # after.paths[p]
<1>1. out = [status |-> "valid", kind |-> "drift", source |-> raw, baseline |-> baseline,
             added |-> appeared, removed |-> removed, changed |-> changed, shape |-> shape, counts |-> counts]
  BY Zenon DEF Drift
<1>2. /\ before.count = Len(baseline.records) /\ after.count = Len(raw.records)
      /\ DOMAIN before.paths = FieldNames(baseline.records) /\ DOMAIN after.paths = FieldNames(raw.records)
      /\ \A p \in DOMAIN before.paths :
           before.paths[p] = SeenAt(baseline.records, p) /\ before.paths[p].kinds = KindsAt(baseline.records, p)
      /\ \A p \in DOMAIN after.paths :
           after.paths[p] = SeenAt(raw.records, p) /\ after.paths[p].kinds = KindsAt(raw.records, p)
  BY ObserveTold, Zenon
<1> HIDE DEF before, after
<1>3. /\ out.kind = "drift" /\ out.source = raw /\ out.baseline = baseline
      /\ out.shape = shape /\ out.counts = counts
  <2> HIDE DEF appeared, removed, changed, shape, counts
  <2> QED
    BY <1>1, ComparisonTold
<1>4. /\ \A p : p \in DOMAIN before.paths <=> \E kind : kind \in KindsAt(baseline.records, p)
      /\ \A p : p \in DOMAIN after.paths <=> \E kind : kind \in KindsAt(raw.records, p)
  BY <1>2, KindsThere, Zenon
<1>5. shape <=> PathKinds(raw.records) # PathKinds(baseline.records)
  <2>1. ASSUME NEW p \in appeared \cup removed \cup changed
        PROVE  KindsAt(raw.records, p) # KindsAt(baseline.records, p)
    BY <1>2, <1>4
  <2>2. ASSUME NEW p, KindsAt(raw.records, p) # KindsAt(baseline.records, p)
        PROVE  p \in appeared \cup removed \cup changed
    <3>1. CASE p \in common
      BY <1>2, <2>2, <3>1
    <3>2. CASE p \notin common
      <4>1. PICK kind : kind \in KindsAt(raw.records, p) \/ kind \in KindsAt(baseline.records, p)
        BY <2>2
      <4>2. p \in DOMAIN after.paths \/ p \in DOMAIN before.paths
        BY <1>4, <4>1
      <4> QED
        BY <3>2, <4>2
    <3> QED
      BY <3>1, <3>2
  <2>3. shape <=> \E p : KindsAt(raw.records, p) # KindsAt(baseline.records, p)
    <3> HIDE DEF appeared, removed, changed
    <3> QED
      BY <2>1, <2>2
  <2> QED
    <3>1. PathKinds(raw.records) = PathKinds(baseline.records)
            <=> \A p : KindsAt(raw.records, p) = KindsAt(baseline.records, p)
      BY PathKindsSame
    <3> HIDE DEF shape
    <3> QED
      BY <2>3, <3>1, Zenon
<1>6. shape => counts
  <2>1. ASSUME NEW p \in changed PROVE counts
    BY Zenon
  <2> QED
    BY <2>1, Zenon
<1>7. ASSUME NEW order, Orders(order, raw.records, baseline.records),
             Len(raw.records) = Len(baseline.records)
      PROVE  ~counts
  <2>1. /\ FieldNames(raw.records) = FieldNames(baseline.records)
        /\ \A p : SeenAt(raw.records, p) = SeenAt(baseline.records, p)
    BY <1>7, OrderKeepsStructure, Zenon
  <2>2. appeared \cup removed = {} /\ before.count = after.count
    BY <1>2, <1>7, <2>1
  <2>3. \A p \in common : before.paths[p] = after.paths[p]
    BY <1>2, <2>1
  <2> HIDE DEF appeared, removed, common
  <2> QED
    BY <2>2, <2>3, Zenon
<1> DEFINE indices == DOMAIN raw.records
           shuffled == \E order \in [indices -> indices] :
                         /\ \A i \in indices : \E j \in indices : order[j] = i
                         /\ [i \in indices |-> raw.records[order[i]]] = baseline.records
<1>8. shuffled => \E order : Orders(order, raw.records, baseline.records)
  BY DEF Orders
<1> HIDE DEF shape, counts
<1>9. Len(raw.records) = Len(baseline.records) /\ shuffled => ~counts
  BY <1>7, <1>8, Zenon
<1>10. DriftTrue(raw, baseline, out)
  <2>1. (out.shape <=> shape) /\ (out.counts <=> counts)
    BY <1>3, Zenon
  <2> QED
    BY <1>5, <1>6, <1>9, <2>1, Zenon DEF DriftTrue
<1> QED
  BY <1>3, <1>10, Zenon

------------------------------------------------------------------------------
(* Results that are bound to the requests that they answer.                 *)

LEMMA AnalyticsContextTrue ==
  ASSUME NEW doc, HasTables(doc), NEW context, SendsQuery(context.request), NEW format,
         NEW out, out = AnalyticsContext(doc, context, format), out # Invalid
  PROVE  /\ out.kind = "analytics-context" /\ out.source = doc /\ out.context = context
         /\ TableTrue(doc, out) /\ QueryTrue(context, out)
<1> DEFINE answer == LogAnalytics(doc, IF ScopeOf(format) = "resource" THEN "resource-tables" ELSE "tables")
           parameters == RequestParameters(context.request, format)
<1>1. /\ ContextValid(doc, context, format) /\ answer # Invalid
      /\ out = InContext("analytics-context", answer, format, context, parameters)
  BY Zenon DEF AnalyticsContext
<1>2. answer.source = doc /\ answer.complete = Incomplete("error" \in doc.names)
      /\ Cardinality(Places(doc.tables)) <= MaxCells
  <2> DEFINE tables == IF ScopeOf(format) = "resource" THEN "resource-tables" ELSE "tables"
  <2>1. answer = LogAnalytics(doc, tables)
    OBVIOUS
  <2> HIDE DEF tables, answer
  <2> QED
    BY <1>1, <2>1, AnalyticsTold
<1> HIDE DEF answer, parameters
<1>3. /\ out.kind = "analytics-context" /\ out.source = doc /\ out.context = context
      /\ out.complete = Incomplete("error" \in doc.names) /\ out.parameters = parameters
  <2>1. /\ out.kind = "analytics-context" /\ out.source = answer.source
        /\ out.complete = answer.complete /\ out.context = context /\ out.parameters = parameters
    BY <1>1 DEF InContext
  <2> QED
    BY <1>2, <2>1
<1>4. out.kind # "lossless"
  BY <1>3
<1>5. TableTrue(doc, out)
  BY <1>2, <1>3, <1>4, TableTold, Zenon
<1>6. parameters["query"] = context.request.meant
  BY <1>1, QueryDecoded DEF parameters
<1>7. QueryTrue(context, out)
  BY <1>3, <1>6, Zenon DEF QueryTrue
<1> QED
  BY <1>3, <1>5, <1>7, Zenon

LEMMA GoogleContextTrue ==
  ASSUME NEW doc, NEW context, NEW format, NEW out, out = GoogleContext(doc, context, format), out # Invalid
  PROVE  /\ out.kind = "google-context" /\ out.source = doc /\ out.context = context
         /\ PageTrue(doc, out)
<1> DEFINE answer == GoogleAudit(doc, "entries")
<1>1. answer # Invalid /\ out = InContext("google-context", answer, format, context, context.request.body)
  BY Zenon DEF GoogleContext
<1>2. /\ answer.source = doc /\ answer.rows = AuditEntries(doc)
      /\ answer.complete = AuditPage(doc)
  BY <1>1, AuditTold
<1> HIDE DEF answer
<1>3. /\ out.kind = "google-context" /\ out.source = doc /\ out.context = context
      /\ out.rows = AuditEntries(doc) /\ out.complete = AuditPage(doc)
  <2>1. /\ out.kind = "google-context" /\ out.source = answer.source /\ out.rows = answer.rows
        /\ out.complete = answer.complete /\ out.context = context
    BY <1>1 DEF InContext
  <2> QED
    BY <1>2, <2>1
<1>4. out.kind \in {"google", "google-context"}
  BY <1>3
<1>5. PageTrue(doc, out)
  BY <1>3, <1>4, AuditTrue
<1> QED
  BY <1>3, <1>5

------------------------------------------------------------------------------
(* What an output tells of its inputs.                                      *)
Tells(out, kind, raw, second) ==
  /\ out.kind = kind /\ out.source = raw
  /\ kind \in {"analytics-context", "google-context"} => out.context = second
  /\ kind = "assess" => out.rules = second
  /\ kind = "drift" => out.baseline = second

(* And that it is true of them.                                             *)
IsTrue(out, raw, second) ==
  CASE out.kind \in {"cloudtrail", "azure", "google", "google-context"} -> PageTrue(raw, out)
    [] out.kind \in {"analytics", "lossless"} -> TableTrue(raw, out)
    [] out.kind = "analytics-context" -> TableTrue(raw, out) /\ QueryTrue(second, out)
    [] out.kind = "assess" -> AssessmentTrue(raw, second, out)
    [] out.kind = "drift" -> DriftTrue(raw, second, out)
    [] OTHER -> TRUE

LEMMA TransformTrue ==
  ASSUME NEW kind \in (OneInput \cup TwoInputs) \ {"custom"}, NEW raw, NEW second, NEW format, NEW pin,
         IsInput(kind, raw, second), NEW out, out = Transform(kind, raw, second, format, pin), out # Invalid
  PROVE  /\ raw.kind # "damaged" /\ second.kind # "damaged"
         /\ Tells(out, kind, raw, second) /\ IsTrue(out, raw, second)
<1>1. raw.kind # "damaged" /\ second.kind # "damaged"
  BY DEF Transform
<1>2. /\ kind \in {"analytics", "lossless", "analytics-context"} => HasTables(raw)
      /\ kind = "analytics-context" => SendsQuery(second.request)
      /\ kind = "assess" => IsSequence(raw.records)
      /\ kind = "drift" => HasStructure(raw) /\ HasStructure(second)
  BY <1>1, Zenon DEF IsInput
<1>3. \/ kind = "cloudtrail" /\ out = CloudTrail(raw, format)
      \/ kind = "azure" /\ out = AzureActivity(raw, format)
      \/ kind = "google" /\ out = GoogleAudit(raw, format)
      \/ kind = "analytics" /\ out = LogAnalytics(raw, format)
      \/ kind = "lossless" /\ out = LosslessAnalytics(raw, format)
      \/ kind = "analytics-context" /\ out = AnalyticsContext(raw, second, format)
      \/ kind = "google-context" /\ out = GoogleContext(raw, second, format)
      \/ kind = "assess" /\ out = Assess(raw, second, pin)
      \/ kind = "drift" /\ out = Drift(raw, second, pin)
  BY <1>1 DEF Transform, OneInput, TwoInputs
<1>4. CASE kind = "cloudtrail" /\ out = CloudTrail(raw, format)
  <2>1. out.kind = "cloudtrail" /\ out.source = raw /\ PageTrue(raw, out)
    BY <1>4, TrailTrue, Zenon
  <2> QED
    BY <1>1, <1>4, <2>1 DEF Tells, IsTrue
<1>5. CASE kind = "azure" /\ out = AzureActivity(raw, format)
  <2>1. out.kind = "azure" /\ out.source = raw /\ PageTrue(raw, out)
    BY <1>5, ActivityTrue, Zenon
  <2> QED
    BY <1>1, <1>5, <2>1 DEF Tells, IsTrue
<1>6. CASE kind = "google" /\ out = GoogleAudit(raw, format)
  <2>1. /\ out.kind = "google" /\ out.source = raw /\ out.rows = AuditEntries(raw)
        /\ out.complete = AuditPage(raw)
    BY <1>6, AuditTold
  <2>2. out.kind \in {"google", "google-context"}
    BY <2>1
  <2>3. PageTrue(raw, out)
    BY <2>1, <2>2, AuditTrue
  <2> QED
    BY <1>1, <1>6, <2>1, <2>3 DEF Tells, IsTrue
<1>7. CASE kind = "analytics" /\ out = LogAnalytics(raw, format)
  <2>1. /\ out.kind = "analytics" /\ out.source = raw
        /\ out.complete = Incomplete("error" \in raw.names)
        /\ Cardinality(Places(raw.tables)) <= MaxCells
    BY <1>2, <1>7, AnalyticsTold
  <2>2. out.kind # "lossless"
    BY <2>1
  <2>3. TableTrue(raw, out)
    BY <2>1, <2>2, TableTold, Zenon
  <2> QED
    BY <1>1, <1>7, <2>1, <2>3 DEF Tells, IsTrue
<1>8. CASE kind = "lossless" /\ out = LosslessAnalytics(raw, format)
  <2>1. out.kind = "lossless" /\ out.source = raw /\ TableTrue(raw, out)
    BY <1>2, <1>8, LosslessTrue
  <2> QED
    BY <1>1, <1>8, <2>1 DEF Tells, IsTrue
<1>9. CASE kind = "analytics-context" /\ out = AnalyticsContext(raw, second, format)
  <2>1. /\ out.kind = "analytics-context" /\ out.source = raw /\ out.context = second
        /\ TableTrue(raw, out) /\ QueryTrue(second, out)
    <3>1. HasTables(raw) /\ SendsQuery(second.request) /\ out = AnalyticsContext(raw, second, format)
      BY <1>2, <1>9
    <3> QED
      BY <3>1, AnalyticsContextTrue
  <2> QED
    BY <1>1, <1>9, <2>1 DEF Tells, IsTrue
<1>10. CASE kind = "google-context" /\ out = GoogleContext(raw, second, format)
  <2>1. out.kind = "google-context" /\ out.source = raw /\ out.context = second /\ PageTrue(raw, out)
    BY <1>10, GoogleContextTrue
  <2> QED
    BY <1>1, <1>10, <2>1 DEF Tells, IsTrue
<1>11. CASE kind = "assess" /\ out = Assess(raw, second, pin)
  <2>1. /\ out.kind = "assess" /\ out.source = raw /\ out.rules = second
        /\ AssessmentTrue(raw, second, out)
    BY <1>2, <1>11, AssessTrue
  <2> QED
    BY <1>1, <1>11, <2>1 DEF Tells, IsTrue
<1>12. CASE kind = "drift" /\ out = Drift(raw, second, pin)
  <2>1. out.kind = "drift" /\ out.source = raw /\ out.baseline = second /\ DriftTrue(raw, second, out)
    BY <1>2, <1>12, ComparisonTrue
  <2> QED
    BY <1>1, <1>12, <2>1 DEF Tells, IsTrue
<1> QED
  BY <1>3, <1>4, <1>5, <1>6, <1>7, <1>8, <1>9, <1>10, <1>11, <1>12, ZenonT(60)

------------------------------------------------------------------------------
(* What a job's input files may be, and what a command wrote of them.       *)
RawFiles(j) == {j.source} \cup Becomes(j, "source")
SecondFiles(j) == {j.second} \cup Becomes(j, "second")
IsDossier(x) == x = [source |-> x.source, second |-> x.second, output |-> x.output]
IsDerived(j, m) ==
  /\ IsDossier(m) /\ m.source \in RawFiles(j) /\ m.second \in SecondFiles(j)
  /\ m.output # Invalid /\ m.output = Transform(j.kind, m.source, m.second, j.format, j.pin)

LEMMA DerivedTrue ==
  ASSUME NEW j, IsJob(j), j.kind \notin {"pack", "custom"}, NEW m, IsDerived(j, m)
  PROVE  /\ m.source.kind # "damaged" /\ m.second.kind # "damaged"
         /\ Tells(m.output, j.kind, m.source, m.second) /\ IsTrue(m.output, m.source, m.second)
<1>1. j.kind \in (OneInput \cup TwoInputs) \ {"custom"}
  BY DEF IsJob
<1>2. IsInput(j.kind, m.source, m.second)
  <2>1. \A raw \in RawFiles(j), second \in SecondFiles(j) : IsInput(j.kind, raw, second)
    BY Zenon DEF IsJob, RawFiles, SecondFiles
  <2> QED
    BY <2>1 DEF IsDerived
<1>3. m.output # Invalid /\ m.output = Transform(j.kind, m.source, m.second, j.format, j.pin)
  BY DEF IsDerived
<1> DEFINE kind == j.kind
           raw == m.source
           second == m.second
           format == j.format
           pin == j.pin
           out == m.output
<1> HIDE DEF kind, raw, second, format, pin, out
<1>4. /\ kind \in (OneInput \cup TwoInputs) \ {"custom"} /\ IsInput(kind, raw, second)
      /\ out = Transform(kind, raw, second, format, pin) /\ out # Invalid
  BY <1>1, <1>2, <1>3 DEF kind, raw, second, format, pin, out
<1>5. raw.kind # "damaged" /\ second.kind # "damaged" /\ Tells(out, kind, raw, second) /\ IsTrue(out, raw, second)
  BY <1>4, TransformTrue
<1> QED
  BY <1>5 DEF kind, raw, second, out

(* An output is written of the inputs that it names and of no others.       *)
LEMMA DerivedOnce ==
  ASSUME NEW j, IsJob(j), j.kind \notin {"pack", "custom"}, NEW m, IsDerived(j, m), NEW x, IsDerived(j, x),
         m.output = x.output
  PROVE  m = x
<1>1. Tells(m.output, j.kind, m.source, m.second) /\ Tells(x.output, j.kind, x.source, x.second)
  BY DerivedTrue
<1>2. m.source = x.source
  BY <1>1 DEF Tells
<1>3. m.second = x.second
  <2>1. CASE j.kind \in OneInput
    BY <2>1 DEF IsJob, IsDerived, SecondFiles
  <2>2. CASE j.kind \in TwoInputs
    BY <1>1, <2>2 DEF Tells, TwoInputs
  <2> QED
    BY <2>1, <2>2 DEF IsJob
<1> QED
  BY <1>2, <1>3, Zenon DEF IsDerived, IsDossier

(* Statuses of replays: all of them pass, or the whole does not.            *)
LEMMA OverallPasses ==
  ASSUME NEW statuses \in SUBSET {"PASS", "FAIL", "UNSUPPORTED"}, statuses # {}
  PROVE  Overall(statuses) = "PASS" <=> statuses \subseteq {"PASS"}
BY DEF Overall

IsSnapshot(x) == PackValid(x.pack) /\ DOMAIN x.quality = x.pack.artifacts
JobRow(j) == [recorded |-> TRUE, transformation |-> j.kind, format |-> j.format, pin |-> j.pin]

DossierOK ==
  /\ IsDossier(dossier) /\ dossier.second \in SecondFiles(job)
  /\ job.kind # "pack" => dossier.source \in RawFiles(job)
  /\ job.kind = "pack" /\ dossier.source # NoFile => IsSnapshot(dossier.source)

(* An output that was not derived is none that could be.                    *)
OutputOK ==
  job.kind # "pack" =>
    \/ dossier.output = NoFile \/ dossier.output \in Becomes(job, "output")
    \/ \E m \in derived : m.output = dossier.output

DerivedOK == \A m \in derived : job.kind # "pack" /\ IsDerived(job, m)
RecordedOK == row # NoRow => row = JobRow(job) /\ dossier.source # NoFile /\ dossier.output # NoFile

ReplaysInv ==
  job \in Retained /\ DossierOK /\ OutputOK /\ DerivedOK /\ RecordedOK /\ ReplayExact

LEMMA OutputsStayTrue == ReplaysInv => OutputsTrue
<1> SUFFICES ASSUME ReplaysInv, NEW m \in derived PROVE IsTrue(m.output, m.source, m.second)
  BY Zenon DEF OutputsTrue, IsTrue
<1>1. IsJob(job) /\ job.kind # "pack" /\ IsDerived(job, m)
  BY ReplaysAssumption DEF ReplaysInv, DerivedOK
<1>2. CASE job.kind = "custom"
  <2>1. m.output = [status |-> "valid", kind |-> "custom"]
    BY <1>1, <1>2 DEF IsDerived, Transform
  <2>2. m.output.kind = "custom"
    BY <2>1
  <2> QED
    BY <2>2 DEF IsTrue
<1>3. CASE job.kind # "custom"
  BY <1>1, <1>3, DerivedTrue
<1> QED
  BY <1>2, <1>3

(* The replay of a recorded relationship.                                   *)
LEMMA PackReplayExact ==
  ASSUME ReplaysInv, row # NoRow, job.kind = "pack"
  PROVE  /\ ReplayRow(row, dossier) \in {"PASS", "FAIL"}
         /\ ReplayRow(row, dossier) = "PASS" <=>
              /\ dossier.source.kind # "damaged" /\ dossier.output.kind # "damaged"
              /\ dossier.source.pack = job.pin /\ dossier.output.quality = dossier.source.quality
              /\ dossier.output.summary = Summary(job.pin, dossier.output.quality)
<1>1. /\ row.transformation = "pack" /\ row.pin = job.pin
      /\ PackValid(dossier.source.pack) /\ DOMAIN dossier.source.quality = dossier.source.pack.artifacts
  BY DEF ReplaysInv, RecordedOK, JobRow, DossierOK, IsSnapshot
<1>2. ReplayRow(row, dossier) =
        IF dossier.source.kind = "damaged" \/ dossier.output.kind = "damaged" THEN "FAIL"
        ELSE PackReplay(dossier.source, dossier.output, job.pin)
  BY <1>1 DEF ReplayRow
<1>3. PackReplay(dossier.source, dossier.output, job.pin) =
        IF /\ dossier.source.pack = job.pin /\ dossier.output.quality = dossier.source.quality
           /\ dossier.output.summary = Summary(dossier.source.pack, dossier.source.quality)
        THEN "PASS" ELSE "FAIL"
  BY <1>1 DEF PackReplay
<1> QED
  BY <1>2, <1>3

LEMMA DerivedReplayExact ==
  ASSUME ReplaysInv, row # NoRow, job.kind # "pack"
  PROVE  /\ ReplayRow(row, dossier) \in {"PASS", "FAIL", "UNSUPPORTED"}
         /\ ReplayRow(row, dossier) = "PASS" <=> dossier \in derived /\ job.kind # "custom"
<1> DEFINE expected == Transform(job.kind, dossier.source, dossier.second, job.format, job.pin)
<1>1. IsJob(job) /\ DossierOK /\ OutputOK /\ DerivedOK
  BY ReplaysAssumption DEF ReplaysInv
<1>2. /\ row.transformation = job.kind /\ row.pin = job.pin /\ row.format = job.format
      /\ dossier.output # NoFile
  BY DEF ReplaysInv, RecordedOK, JobRow
<1>3. ReplayRow(row, dossier) =
        IF job.kind = "custom" THEN "UNSUPPORTED"
        ELSE IF dossier.source.kind = "damaged" \/ dossier.output.kind = "damaged" THEN "FAIL"
        ELSE IF expected # Invalid /\ dossier.output = expected THEN "PASS" ELSE "FAIL"
  BY <1>2 DEF ReplayRow
<1>4. ASSUME job.kind # "custom", dossier \in derived
      PROVE  /\ dossier.source.kind # "damaged" /\ dossier.output.kind # "damaged"
             /\ expected # Invalid /\ dossier.output = expected
  <2>1. IsDerived(job, dossier)
    BY <1>1, <1>4 DEF DerivedOK
  <2>2. dossier.source.kind # "damaged" /\ Tells(dossier.output, job.kind, dossier.source, dossier.second)
    BY <1>1, <1>4, <2>1, DerivedTrue
  <2>3. job.kind # "damaged"
    BY <1>1 DEF IsJob, OneInput, TwoInputs
  <2> QED
    BY <2>1, <2>2, <2>3 DEF IsDerived, Tells
<1>5. ASSUME job.kind # "custom", expected # Invalid, dossier.output = expected
      PROVE  dossier \in derived
  <2>1. IsDerived(job, dossier)
    BY <1>1, <1>5 DEF IsDerived, DossierOK
  <2>2. dossier.output \notin Becomes(job, "output")
    <3>1. \A raw \in RawFiles(job), second \in SecondFiles(job) :
            Transform(job.kind, raw, second, job.format, job.pin) \notin Becomes(job, "output")
      BY <1>1, Zenon DEF IsJob, RawFiles, SecondFiles
    <3> QED
      BY <1>5, <2>1, <3>1 DEF IsDerived
  <2>3. PICK m \in derived : m.output = dossier.output
    BY <1>1, <1>2, <2>2 DEF OutputOK
  <2>4. IsDerived(job, m)
    BY <1>1 DEF DerivedOK
  <2>5. m = dossier
    BY <1>1, <1>5, <2>1, <2>3, <2>4, DerivedOnce
  <2> QED
    BY <2>5
<1> HIDE DEF expected
<1> QED
  BY <1>3, <1>4, <1>5

LEMMA ReconstructStep ==
  ASSUME ReplaysInv, NEW requested \in BOOLEAN, NEW others \in Others, Reconstruct(requested, others)
  PROVE  ReplayExact'
<1> DEFINE true == IF job.kind = "pack"
                   THEN /\ dossier.source.kind # "damaged" /\ dossier.output.kind # "damaged"
                        /\ dossier.source.pack = job.pin /\ dossier.output.quality = dossier.source.quality
                        /\ dossier.output.summary = Summary(job.pin, dossier.output.quality)
                   ELSE dossier \in derived
           status_r == ReplayRow(row, dossier)
           statuses == others \cup {status_r}
<1>1. UNCHANGED <<job, dossier, derived, row>>
  BY DEF Reconstruct
<1>2. replay'.others = others
  BY DEF Reconstruct
<1>3. CASE row # NoRow /\ requested
  <2>1. replay'.at = Overall(statuses)
    BY <1>3 DEF Reconstruct
  <2>2. status_r \in {"PASS", "FAIL", "UNSUPPORTED"} /\ (status_r = "PASS" <=> true /\ job.kind # "custom")
    <3>1. CASE job.kind = "pack"
      BY <1>3, <3>1, PackReplayExact, Zenon
    <3>2. CASE job.kind # "pack"
      BY <1>3, <3>2, DerivedReplayExact, Zenon
    <3> QED
      BY <3>1, <3>2
  <2>3. others \subseteq {"PASS", "FAIL", "UNSUPPORTED"}
    BY ReplaysAssumption
  <2> HIDE DEF status_r, true
  <2>4. /\ statuses \in SUBSET {"PASS", "FAIL", "UNSUPPORTED"} /\ statuses # {}
        /\ statuses \subseteq {"PASS"} <=> status_r = "PASS" /\ others \subseteq {"PASS"}
    BY <2>2, <2>3
  <2> HIDE DEF statuses
  <2>5. replay'.at = "PASS" <=> true /\ job.kind # "custom" /\ others \subseteq {"PASS"}
    BY <2>1, <2>2, <2>4, OverallPasses
  <2> QED
    BY <1>1, <1>2, <2>5, Zenon DEF ReplayExact, true
<1>4. CASE row = NoRow
  BY <1>1, <1>4, Zenon DEF ReplayExact
<1>5. CASE ~requested
  <2>1. replay'.at = "NOT_REQUESTED"
    BY <1>5 DEF Reconstruct
  <2> QED
    BY <2>1 DEF ReplayExact
<1> QED
  BY <1>3, <1>4, <1>5

(* Nothing has been reconstructed yet.                                      *)
LEMMA NothingReplayed == replay = NotRun => ReplayExact
BY DEF NotRun, ReplayExact

LEMMA DeriveStep == ReplaysInv /\ Derive /\ replay = NotRun => ReplaysInv'
<1> SUFFICES ASSUME ReplaysInv, Derive, replay = NotRun PROVE ReplaysInv'
  OBVIOUS
<1> DEFINE output == Transform(job.kind, dossier.source, dossier.second, job.format, job.pin)
           file == [source |-> dossier.source, second |-> dossier.second, output |-> output]
<1>1. /\ job.kind # "pack" /\ dossier.output = NoFile /\ output # Invalid
      /\ dossier' = [dossier EXCEPT !.output = output] /\ derived' = derived \cup {dossier'}
      /\ UNCHANGED <<job, row, revisions, replay>>
  BY DEF Derive
<1>2. IsDossier(dossier) /\ dossier.second \in SecondFiles(job) /\ dossier.source \in RawFiles(job)
  BY <1>1 DEF ReplaysInv, DossierOK
<1> HIDE DEF output
<1>3. dossier' = file
  <2>1. dossier = [source |-> dossier.source, second |-> dossier.second, output |-> dossier.output]
    BY <1>2 DEF IsDossier
  <2> QED
    BY <1>1, <2>1
<1>4. /\ IsDossier(dossier') /\ dossier'.source = dossier.source /\ dossier'.second = dossier.second
      /\ dossier'.output = output
  BY <1>3 DEF IsDossier
<1>5. IsDerived(job, dossier')
  BY <1>1, <1>2, <1>4 DEF IsDerived, output
<1>6. DossierOK'
  BY <1>1, <1>2, <1>4 DEF DossierOK, RawFiles, SecondFiles, Becomes
<1>7. OutputOK'
  BY <1>1 DEF OutputOK
<1>8. DerivedOK'
  BY <1>1, <1>5 DEF ReplaysInv, DerivedOK
<1>9. row = NoRow
  BY <1>1 DEF ReplaysInv, RecordedOK
<1>10. RecordedOK' /\ ReplayExact'
  BY <1>1, <1>9 DEF RecordedOK, ReplayExact, NotRun
<1> QED
  BY <1>1, <1>6, <1>7, <1>8, <1>10 DEF ReplaysInv

LEMMA PrepareInputStep == ReplaysInv /\ PrepareInput /\ replay = NotRun => ReplaysInv'
<1> SUFFICES ASSUME ReplaysInv, PrepareInput, replay = NotRun PROVE ReplaysInv'
  OBVIOUS
<1> DEFINE snapshot == [kind |-> "snapshot", pack |-> dossier.second.pack, quality |-> dossier.output.quality]
           file == [source |-> snapshot, second |-> dossier.second, output |-> dossier.output]
<1>1. /\ job.kind = "pack" /\ dossier.source = NoFile
      /\ PackValid(dossier.second.pack) /\ DOMAIN dossier.output.quality = dossier.second.pack.artifacts
      /\ dossier' = [dossier EXCEPT !.source = snapshot]
      /\ UNCHANGED <<job, derived, row, revisions, replay>>
  BY DEF PrepareInput
<1>2. IsDossier(dossier) /\ dossier.second \in SecondFiles(job)
  BY DEF ReplaysInv, DossierOK
<1>3. IsSnapshot(snapshot)
  BY <1>1 DEF IsSnapshot
<1> HIDE DEF snapshot
<1>4. dossier' = file
  <2>1. dossier = [source |-> dossier.source, second |-> dossier.second, output |-> dossier.output]
    BY <1>2 DEF IsDossier
  <2> QED
    BY <1>1, <2>1
<1>5. /\ IsDossier(dossier') /\ dossier'.source = snapshot /\ dossier'.second = dossier.second
  BY <1>4 DEF IsDossier
<1>6. DossierOK' /\ OutputOK'
  BY <1>1, <1>2, <1>3, <1>5 DEF DossierOK, OutputOK, SecondFiles, Becomes
<1>7. DerivedOK'
  BY <1>1 DEF ReplaysInv, DerivedOK
<1>8. row = NoRow
  BY <1>1 DEF ReplaysInv, RecordedOK
<1>9. RecordedOK' /\ ReplayExact'
  BY <1>1, <1>8 DEF RecordedOK, ReplayExact, NotRun
<1> QED
  BY <1>1, <1>6, <1>7, <1>9 DEF ReplaysInv

LEMMA EditStep ==
  ASSUME ReplaysInv, replay = NotRun, NEW file \in DOMAIN job.revisions,
         NEW content \in job.revisions[file], Edit(file, content)
  PROVE  ReplaysInv'
<1>1. /\ row = NoRow /\ dossier' = [dossier EXCEPT ![file] = content]
      /\ UNCHANGED <<job, derived, row, replay>>
  BY DEF Edit
<1>2. /\ IsDossier(dossier) /\ dossier.second \in SecondFiles(job)
      /\ job.kind # "pack" => dossier.source \in RawFiles(job)
      /\ job.kind = "pack" /\ dossier.source # NoFile => IsSnapshot(dossier.source)
      /\ OutputOK
  BY DEF ReplaysInv, DossierOK
<1>3. content \in Becomes(job, file) /\ file \in {"source", "second", "output"}
      /\ (job.kind = "pack" => Becomes(job, "source") = {})
  BY ReplaysAssumption DEF ReplaysInv, IsJob, Becomes
<1>4. /\ IsDossier(dossier')
      /\ dossier'[file] = content
      /\ \A other \in {"source", "second", "output"} \ {file} : dossier'[other] = dossier[other]
  <2>1. dossier = [source |-> dossier.source, second |-> dossier.second, output |-> dossier.output]
    BY <1>2 DEF IsDossier
  <2>2. CASE file = "source"
    <3>1. dossier' = [source |-> content, second |-> dossier.second, output |-> dossier.output]
      BY <1>1, <2>1, <2>2
    <3> QED
      BY <2>2, <3>1 DEF IsDossier
  <2>3. CASE file = "second"
    <3>1. dossier' = [source |-> dossier.source, second |-> content, output |-> dossier.output]
      BY <1>1, <2>1, <2>3
    <3> QED
      BY <2>3, <3>1 DEF IsDossier
  <2>4. CASE file = "output"
    <3>1. dossier' = [source |-> dossier.source, second |-> dossier.second, output |-> content]
      BY <1>1, <2>1, <2>4
    <3> QED
      BY <2>4, <3>1 DEF IsDossier
  <2> QED
    BY <1>3, <2>2, <2>3, <2>4
<1>5. dossier'.second \in SecondFiles(job)
  BY <1>2, <1>3, <1>4 DEF SecondFiles
<1>6. job.kind # "pack" => dossier'.source \in RawFiles(job)
  BY <1>2, <1>3, <1>4 DEF RawFiles
<1>7. job.kind = "pack" /\ dossier'.source # NoFile => IsSnapshot(dossier'.source)
  BY <1>2, <1>3, <1>4
<1>8. DossierOK'
  BY <1>1, <1>4, <1>5, <1>6, <1>7 DEF DossierOK, SecondFiles, RawFiles, Becomes
<1>9. OutputOK'
  <2>1. CASE file = "output"
    BY <1>1, <1>3, <1>4, <2>1 DEF OutputOK, Becomes
  <2>2. CASE file # "output"
    BY <1>1, <1>2, <1>4, <2>2 DEF OutputOK, Becomes
  <2> QED
    BY <2>1, <2>2
<1>10. DerivedOK'
  BY <1>1 DEF ReplaysInv, DerivedOK
<1>11. RecordedOK' /\ ReplayExact'
  BY <1>1 DEF RecordedOK, ReplayExact, NotRun
<1> QED
  BY <1>1, <1>8, <1>9, <1>10, <1>11 DEF ReplaysInv

LEMMA ReplaysStayExact == ReplaysInv /\ [ReplaysNext]_replayVars => ReplaysInv'
<1> SUFFICES ASSUME ReplaysInv, [ReplaysNext]_replayVars PROVE ReplaysInv'
  OBVIOUS
<1>1. CASE UNCHANGED replayVars
  <2>1. UNCHANGED <<job, dossier, derived, row, replay>>
    BY <1>1 DEF replayVars
  <2> QED
    BY <2>1 DEF ReplaysInv, DossierOK, OutputOK, DerivedOK, RecordedOK, ReplayExact
<1>2. CASE Derive /\ replay = NotRun
  BY <1>2, DeriveStep
<1>3. CASE PrepareInput /\ replay = NotRun
  BY <1>3, PrepareInputStep
<1>4. CASE RecordRow /\ replay = NotRun
  <2>1. /\ dossier.source # NoFile /\ dossier.output # NoFile /\ row' = JobRow(job)
        /\ UNCHANGED <<job, dossier, derived, revisions, replay>>
    BY <1>4 DEF RecordRow, JobRow
  <2>2. DossierOK' /\ OutputOK' /\ DerivedOK'
    BY <2>1 DEF ReplaysInv, DossierOK, OutputOK, DerivedOK
  <2>3. RecordedOK'
    BY <2>1 DEF RecordedOK, JobRow
  <2>4. ReplayExact'
    BY <1>4, <2>1 DEF ReplayExact, NotRun
  <2> QED
    BY <2>1, <2>2, <2>3, <2>4 DEF ReplaysInv
<1>5. ASSUME replay = NotRun, NEW file \in DOMAIN job.revisions, NEW content \in job.revisions[file],
             Edit(file, content)
      PROVE  ReplaysInv'
  BY <1>5, EditStep
<1>6. ASSUME NEW requested \in BOOLEAN, NEW others \in Others, Reconstruct(requested, others)
      PROVE  ReplaysInv'
  <2>1. ReplayExact'
    BY <1>6, ReconstructStep
  <2>2. UNCHANGED <<job, dossier, derived, row>>
    BY <1>6 DEF Reconstruct
  <2> QED
    BY <2>1, <2>2 DEF ReplaysInv, DossierOK, OutputOK, DerivedOK, RecordedOK
<1> QED
  BY <1>1, <1>2, <1>3, <1>4, <1>5, <1>6 DEF ReplaysNext

(* The replays are exact while they are at work.                            *)
LEMMA ReplaysExactThere == Spec => [](part = "replay" => ReplaysInv)
<1>1. ReplaysInit => ReplaysInv
  <2> SUFFICES ASSUME ReplaysInit PROVE ReplaysInv
    OBVIOUS
  <2>1. /\ job \in Retained /\ derived = {} /\ row = NoRow /\ replay = NotRun
        /\ dossier = [source |-> job.source, second |-> job.second, output |-> job.output]
    BY DEF ReplaysInit, ReplaysStart
  <2>2. IsJob(job)
    BY <2>1, ReplaysAssumption
  <2>3. /\ IsDossier(dossier) /\ dossier.source = job.source /\ dossier.second = job.second
        /\ dossier.output = job.output
    BY <2>1 DEF IsDossier
  <2>4. DossierOK
    BY <2>2, <2>3 DEF DossierOK, RawFiles, SecondFiles, IsJob
  <2>5. OutputOK
    BY <2>2, <2>3 DEF OutputOK, IsJob
  <2>6. DerivedOK /\ RecordedOK /\ ReplayExact
    BY <2>1, NothingReplayed DEF DerivedOK, RecordedOK
  <2> QED
    BY <2>1, <2>4, <2>5, <2>6 DEF ReplaysInv
<1>2. Init => (part = "replay" => ReplaysInv)
  BY <1>1 DEF Init
<1>3. (part = "replay" => ReplaysInv) /\ [Next]_<<part, partVars>> => (part = "replay" => ReplaysInv)'
  BY ReplaysStayExact DEF Next, partVars
<1> QED
  BY <1>2, <1>3, PTL DEF Spec

(* What is concluded from recorded evidence is what the evidence says: of   *)
(* key decisions, delegations, packages and telemetry, and of derived       *)
(* evidence, whose replay passes exactly if it was written of the very files*)
(* that were recorded with it.                                              *)
THEOREM ConclusionsAlwaysExact == Spec => []ConclusionsExact
<1>1. ReplaysInv => ReplaysSound
  BY OutputsStayTrue DEF ReplaysInv, ReplaysSound
<1>2. AcceptanceExact /\ LineageExact /\ PackagesExact /\ TelemetryExact /\ (part = "replay" => ReplaysInv)
        => ConclusionsExact
  BY <1>1 DEF ConclusionsExact, Of
<1> QED
  BY <1>2, DecisionsStayExact, LineagesStayExact, PackagesStayExact, TelemetryStaysExact,
     ReplaysExactThere, PTL
==============================================================================

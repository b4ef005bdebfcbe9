------------------------- MODULE EvidenceRepository -------------------------
(***************************************************************************)
(* The enterprise evidence repository (evidence_repository.py), its anchors *)
(* (evidence_anchor.py, repository_checkpoint.py) and the case database     *)
(* (enterprise_case.py), used at once by the threads of the API             *)
(* (enterprise_api.py) and by ingest and materialization commands.  A       *)
(* request runs in steps, each one file operation or SQLite statement:      *)
(* a SELECT opens no transaction in this use of sqlite3, so what it read    *)
(* may be old by the time of the write.  Every process has the master key,  *)
(* or none has.                                                             *)
(*                                                                          *)
(* Requests are numbered; the number stands for the random identifiers and  *)
(* the time stamps in what the request writes, so it is the hash of the     *)
(* audit event the request appends (0 is the hash of no event).             *)
(***************************************************************************)
EXTENDS Naturals, Sequences, FiniteSets

CONSTANTS
  Worker,       \* threads and processes
  Digest,       \* contents of evidence files
  Class,        \* classifications in use, by CLASS_RANK
  NoObject,     \* no row in objects
  MaxRequests   \* bound on requests

ASSUME RepositoryAssumption ==
  /\ Class \subseteq 0..4
  /\ NoObject \notin Class
  /\ MaxRequests \in Nat

VARIABLES
  files,      \* what is under objects/sha256 for each digest
  objects,    \* storage classification in the row of each object
  evidence,   \* rows of evidence: what request ingested which digest, and as what
  holds,      \* released_utc of each hold, by the request that created it
  audit,      \* lines of repository_audit.jsonl
  torn,       \* the audit ends in an incomplete line
  status,     \* of the case
  events,     \* case_events
  anchors,    \* anchors kept elsewhere
  worker,     \* the request each worker is at, and how far
  requests,   \* how many requests there were
  returned    \* history: requests that were answered with success

repositoryVars == <<files, objects, evidence, holds, audit, torn, status, events,
                    anchors, worker, requests, returned>>

Status == {"OPEN", "TRIAGE", "INVESTIGATING", "CONTAINED", "RECOVERING", "CLOSED", "ARCHIVED"}
Transitions ==
  [ OPEN |-> {"TRIAGE", "INVESTIGATING", "CLOSED"},
    TRIAGE |-> {"INVESTIGATING", "CLOSED"},
    INVESTIGATING |-> {"CONTAINED", "RECOVERING", "CLOSED"},
    CONTAINED |-> {"INVESTIGATING", "RECOVERING"},
    RECOVERING |-> {"INVESTIGATING", "CLOSED"},
    CLOSED |-> {"INVESTIGATING", "ARCHIVED"},
    ARCHIVED |-> {} ]

(* A hold covers the whole case here; a request to release one names it.    *)
Request ==
  [op : {"ingest"}, digest : Digest, class : Class]
    \cup [op : {"extract", "release"}, of : Nat]
    \cup [op : {"hold", "anchor"}]
    \cup [op : {"transition"}, to : Status]

Line == [event : Nat \ {0}, prev : Nat]
LastHash(lines) == IF lines = <<>> THEN 0 ELSE lines[Len(lines)].event
Hashes(lines) == {lines[i].event : i \in DOMAIN lines}

Ready == [at |-> "ready"]
Busy == [at : {"asked", "absent", "stored", "linked", "unreleased", "recorded"}, n : Nat, request : Request]
          \cup [at : {"present"}, n : Nat, request : Request, class : Class]
          \cup [at : {"audited"}, n : Nat, request : Request, prev : Nat]
          \cup [at : {"allowed"}, n : Nat, request : Request, from : Status]
          \cup [at : {"anchoring"}, n : Nat, request : Request, lines : Seq(Line)]

RepositoryTypeOK ==
  /\ files \in [Digest -> {"none", "whole", "partial"}]
  /\ objects \in [Digest -> Class \cup {NoObject}]
  /\ DOMAIN evidence \subseteq 1..requests
  /\ \A e \in DOMAIN evidence :
       evidence[e] \in [digest : Digest, class : Class] /\ objects[evidence[e].digest] # NoObject
  /\ DOMAIN holds \subseteq 1..requests /\ \A h \in DOMAIN holds : holds[h] \in BOOLEAN
  /\ audit \in Seq(Line) /\ torn \in BOOLEAN
  /\ status \in Status /\ events \in Seq([event : Nat, from : Status, to : Status])
  /\ worker \in [Worker -> Busy \cup {Ready}]
  /\ requests \in 0..MaxRequests /\ returned \subseteq [n : 1..requests, request : Request]

RepositoryInit ==
  /\ files = [d \in Digest |-> "none"]
  /\ objects = [d \in Digest |-> NoObject]
  /\ evidence = <<>> /\ holds = <<>>
  /\ audit = <<>> /\ torn = FALSE
  /\ status = "OPEN" /\ events = <<>>
  /\ anchors = {}
  /\ worker = [w \in Worker |-> Ready]
  /\ requests = 0 /\ returned = {}

At(w, step) == worker[w].at = step
Op(w) == worker[w].request.op
Go(w, state) == worker' = [worker EXCEPT ![w] = state]
Step(w, step) == Go(w, [at |-> step, n |-> worker[w].n, request |-> worker[w].request])
Raise(w) == Go(w, Ready)
Return(w) == Go(w, Ready) /\ returned' = returned \cup {[n |-> worker[w].n, request |-> worker[w].request]}
With(f, n, value) == [x \in DOMAIN f \cup {n} |-> IF x = n THEN value ELSE f[x]]

caseVars == <<status, events>>
auditVars == <<audit, torn>>
rowVars == <<files, objects, evidence, holds>>

-----------------------------------------------------------------------------
(* A request of an API client or a command; what it names exists.           *)
Ask(w, request) ==
  /\ At(w, "ready")
  /\ requests < MaxRequests
  /\ request.op = "extract" => request.of \in DOMAIN evidence
  /\ request.op = "release" => request.of \in DOMAIN holds
  /\ requests' = requests + 1
  /\ Go(w, [at |-> "asked", n |-> requests + 1, request |-> request])
  /\ UNCHANGED <<rowVars, auditVars, caseVars, anchors, returned>>

(* add_file looks the digest up; the classification of an object that is    *)
(* there is read by another SELECT, but the row is there to stay.           *)
Lookup(w) ==
  /\ At(w, "asked") /\ Op(w) = "ingest"
  /\ LET class == objects[worker[w].request.digest]
     IN  IF class = NoObject THEN Step(w, "absent")
         ELSE Go(w, [at |-> "present", n |-> worker[w].n, request |-> worker[w].request,
                     class |-> class])
  /\ UNCHANGED <<rowVars, auditVars, caseVars, anchors, requests, returned>>

(* Mutant: the object is written in place.                                  *)
StoreObjectInPlace(w) ==
  /\ At(w, "absent")
  /\ \E left \in {"whole", "partial"} :
       /\ files' = [files EXCEPT ![worker[w].request.digest] = left]
       /\ IF left = "whole" THEN Step(w, "stored") ELSE Raise(w)
  /\ UNCHANGED <<objects, evidence, holds, auditVars, caseVars, anchors, requests, returned>>

(* The content goes to a temporary file, which then replaces the object.    *)
StoreObject(w) ==
  /\ At(w, "absent")
  /\ files' = [files EXCEPT ![worker[w].request.digest] = "whole"]
  /\ Step(w, "stored")
  /\ UNCHANGED <<objects, evidence, holds, auditVars, caseVars, anchors, requests, returned>>

(* Another ingest of the same content may have inserted the row first.      *)
InsertObject(w) ==
  /\ At(w, "stored")
  /\ LET d == worker[w].request.digest
     IN  IF objects[d] # NoObject
         THEN Raise(w) /\ UNCHANGED objects
         ELSE /\ objects' = [objects EXCEPT ![d] = worker[w].request.class]
              /\ Step(w, "linked")
  /\ UNCHANGED <<files, evidence, holds, auditVars, caseVars, anchors, requests, returned>>

(* _upgrade_object_classification, judged by what was read before.          *)
UpgradeObject(w) ==
  /\ At(w, "present")
  /\ LET d == worker[w].request.digest
         class == worker[w].request.class
     IN  objects' = [objects EXCEPT ![d] = IF class > worker[w].class THEN class ELSE @]
  /\ Step(w, "linked")
  /\ UNCHANGED <<files, evidence, holds, auditVars, caseVars, anchors, requests, returned>>

InsertEvidence(w) ==
  /\ At(w, "linked")
  /\ evidence' = With(evidence, worker[w].n, [digest |-> worker[w].request.digest,
                                              class |-> worker[w].request.class])
  /\ Step(w, "recorded")
  /\ UNCHANGED <<files, objects, holds, auditVars, caseVars, anchors, requests, returned>>

(* The content is checked against its digest while it is copied.            *)
Extract(w) ==
  /\ At(w, "asked") /\ Op(w) = "extract"
  /\ IF files[evidence[worker[w].request.of].digest] = "whole" THEN Step(w, "recorded") ELSE Raise(w)
  /\ UNCHANGED <<rowVars, auditVars, caseVars, anchors, requests, returned>>

CreateHold(w) ==
  /\ At(w, "asked") /\ Op(w) = "hold"
  /\ holds' = With(holds, worker[w].n, FALSE)
  /\ Step(w, "recorded")
  /\ UNCHANGED <<files, objects, evidence, auditVars, caseVars, anchors, requests, returned>>

(* A hold that is released already is left alone.                           *)
CheckHold(w) ==
  /\ At(w, "asked") /\ Op(w) = "release"
  /\ IF holds[worker[w].request.of]
     THEN Return(w)
     ELSE Step(w, "unreleased") /\ UNCHANGED returned
  /\ UNCHANGED <<rowVars, auditVars, caseVars, anchors, requests>>

ReleaseHold(w) ==
  /\ At(w, "unreleased")
  /\ holds' = [holds EXCEPT ![worker[w].request.of] = TRUE]
  /\ Step(w, "recorded")
  /\ UNCHANGED <<files, objects, evidence, auditVars, caseVars, anchors, requests, returned>>

-----------------------------------------------------------------------------
(* _audit: the last hash is read, without a lock, and a line appended.  An  *)
(* incomplete line makes every reader of the file raise.                    *)

ReadHead(w) ==
  /\ At(w, "recorded")
  /\ IF torn THEN Raise(w)
     ELSE Go(w, [at |-> "audited", n |-> worker[w].n, request |-> worker[w].request,
                 prev |-> LastHash(audit)])
  /\ UNCHANGED <<rowVars, auditVars, caseVars, anchors, requests, returned>>

(* Mutant: the file is rewritten up to the line that was read last.         *)
AppendLineRewrites(w) ==
  /\ At(w, "audited")
  /\ LET kept == CHOOSE i \in 0..Len(audit) : LastHash(SubSeq(audit, 1, i)) = worker[w].prev
     IN  audit' = Append(SubSeq(audit, 1, kept), [event |-> worker[w].n, prev |-> worker[w].prev])
  /\ Return(w)
  /\ UNCHANGED <<rowVars, torn, caseVars, anchors, requests>>

(* A line that follows an incomplete one is lost in it.                     *)
AppendLine(w) ==
  /\ At(w, "audited")
  /\ audit' = IF torn THEN audit
              ELSE Append(audit, [event |-> worker[w].n, prev |-> worker[w].prev])
  /\ Return(w)
  /\ UNCHANGED <<rowVars, torn, caseVars, anchors, requests>>

-----------------------------------------------------------------------------
(* CaseDB.transition.                                                       *)

CheckTransition(w) ==
  /\ At(w, "asked") /\ Op(w) = "transition"
  /\ IF worker[w].request.to \in Transitions[status]
     THEN Go(w, [at |-> "allowed", n |-> worker[w].n, request |-> worker[w].request,
                 from |-> status])
     ELSE Raise(w)
  /\ UNCHANGED <<rowVars, auditVars, caseVars, anchors, requests, returned>>

(* The row and the event, in one transaction.                               *)
WriteTransition(w) ==
  /\ At(w, "allowed")
  /\ status' = worker[w].request.to
  /\ events' = Append(events, [event |-> worker[w].n, from |-> worker[w].from,
                             to |-> worker[w].request.to])
  /\ Return(w)
  /\ UNCHANGED <<rowVars, auditVars, anchors, requests>>

-----------------------------------------------------------------------------
(* evidence_anchor.create reads the audit, and then the objects.            *)

ReadAudit(w) ==
  /\ At(w, "asked") /\ Op(w) = "anchor"
  /\ IF torn THEN Raise(w)
     ELSE Go(w, [at |-> "anchoring", n |-> worker[w].n, request |-> worker[w].request,
                 lines |-> audit])
  /\ UNCHANGED <<rowVars, auditVars, caseVars, anchors, requests, returned>>

ObjectDigests == {d \in Digest : objects[d] # NoObject}

(* merkle_hex: the leaves are distinct and sorted before they are hashed.   *)
MerkleRoot(hashes, digests) == [audit |-> hashes, object |-> digests]

(* Mutant: the anchored objects are the files that were found.              *)
SignAnchorOfFiles(w) ==
  /\ At(w, "anchoring")
  /\ LET found == {d \in Digest : files[d] # "none"}
     IN  anchors' = anchors \cup {[count |-> Len(worker[w].lines), head |-> LastHash(worker[w].lines),
                                   digests |-> found,
                                   root |-> MerkleRoot(Hashes(worker[w].lines), found)]}
  /\ Return(w)
  /\ UNCHANGED <<rowVars, auditVars, caseVars, requests>>

SignAnchor(w) ==
  /\ At(w, "anchoring")
  /\ anchors' = anchors \cup
       {[count |-> Len(worker[w].lines), head |-> LastHash(worker[w].lines),
         digests |-> ObjectDigests,
         root |-> MerkleRoot(Hashes(worker[w].lines), ObjectDigests)]}
  /\ Return(w)
  /\ UNCHANGED <<rowVars, auditVars, caseVars, requests>>

(* evidence_anchor.verify, with the repository at hand and its audit        *)
(* readable, has no finding.                                                *)
AnchorVerifies(anchor) ==
  LET lines == SubSeq(audit, 1, IF anchor.count < Len(audit) THEN anchor.count ELSE Len(audit))
  IN  /\ Len(lines) = anchor.count
      /\ LastHash(lines) = anchor.head
      /\ anchor.digests \subseteq ObjectDigests
      /\ MerkleRoot(Hashes(lines), anchor.digests) = anchor.root

-----------------------------------------------------------------------------
(* A process is killed, or the machine fails: a line that is being appended *)
(* may be left incomplete.                                                  *)
Die(w) ==
  /\ ~At(w, "ready")
  /\ torn' \in {torn, torn \/ At(w, "audited")}
  /\ Raise(w)
  /\ UNCHANGED <<rowVars, audit, caseVars, anchors, requests, returned>>

RepositoryNext ==
  \E w \in Worker :
    \/ \E request \in [op : {"ingest"}, digest : Digest, class : Class]
                        \cup [op : {"extract", "release"}, of : 1..requests]
                        \cup [op : {"hold", "anchor"}]
                        \cup [op : {"transition"}, to : Status] : Ask(w, request)
    \/ Lookup(w) \/ StoreObject(w) \/ InsertObject(w) \/ UpgradeObject(w) \/ InsertEvidence(w)
    \/ Extract(w)
    \/ CreateHold(w) \/ CheckHold(w) \/ ReleaseHold(w)
    \/ ReadHead(w) \/ AppendLine(w)
    \/ CheckTransition(w) \/ WriteTransition(w)
    \/ ReadAudit(w) \/ SignAnchor(w)
    \/ Die(w)

RepositorySpec == RepositoryInit /\ [][RepositoryNext]_repositoryVars

-----------------------------------------------------------------------------
(* Properties.                                                              *)

(* Of every content that evidence refers to there is a whole object,        *)
(* although ingests of the same content overlap and die: it can be          *)
(* extracted.                                                               *)
EvidenceReadable ==
  \A e \in DOMAIN evidence :
    /\ objects[evidence[e].digest] # NoObject
    /\ files[evidence[e].digest] = "whole"

(* The status of a case is where its last event led, and every event is an  *)
(* allowed transition.  (That it starts where the one before it ended is    *)
(* not so when requests overlap.)                                           *)
CaseFollowsEvents ==
  /\ status = IF events = <<>> THEN "OPEN" ELSE events[Len(events)].to
  /\ \A i \in DOMAIN events : events[i].to \in Transitions[events[i].from]

(* What was answered with success has left its rows, and its event in the   *)
(* audit as long as that has no incomplete line, although requests overlap  *)
(* and die: appending without a lock forks the chain of hashes, but loses   *)
(* no event.  The same for the events of the case, which its status follows.*)
AnswersRecorded ==
  /\ \A r \in returned :
       /\ r.request.op = "ingest" => r.n \in DOMAIN evidence
       /\ r.request.op = "hold" => r.n \in DOMAIN holds
       /\ r.request.op = "release" => holds[r.request.of]
       /\ r.request.op = "transition" => \E i \in DOMAIN events : events[i].event = r.n
       /\ r.request.op \in {"ingest", "hold", "extract"} /\ ~torn => r.n \in Hashes(audit)
  /\ CaseFollowsEvents

(* An anchor that was taken once, between whatever steps of others, and is  *)
(* kept elsewhere verifies for ever, as long as the audit can be read.      *)
AnchorsVerify == ~torn => \A anchor \in anchors : AnchorVerifies(anchor)
=============================================================================

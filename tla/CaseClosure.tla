------------------------------ MODULE CaseClosure ------------------------------
(***************************************************************************)
(* What a case workspace must hold before the case may be closed            *)
(* (closure_gate.py, case_model.py): evidence of enough quality             *)
(* (evidence_quality.py), for which tasks are made (evidence_tasks.py), no  *)
(* open consequence (consequence_reconciler.py), reviewed conclusions       *)
(* (peer_review_gate.py) and a containment that is over.  Files are         *)
(* acquired, damaged and disputed, and agents go on acting, between the     *)
(* commands and while they run.                                             *)
(*                                                                          *)
(* A hash is the content it is of.  Formats, required fields, times and     *)
(* attribution are kept as whether they are met.  The other analyses that   *)
(* block a closure by saying so are one report.                             *)
(***************************************************************************)
EXTENDS Naturals, Integers, FiniteSets, Sequences, SequencesExt

CONSTANTS
  Artifact, Mandatory,  \* of the selected evidence packs
  Matches,              \* the files that an artifact's patterns match
  File, NameOf,         \* paths in the order of a listing, and their last part
  Gates,                \* conclusions: what they require, of which quality
  Acquisitions,         \* entries that acquisitions may add
  Analyst,              \* whoever runs evidence_tasks
  Act, EffectOf,        \* consequences in the trace, and the content of each
  Conclusion, Reviewer, AuthorOf, Required,
  MaxChanges            \* bound on what happens to the workspace

VARIABLES
  files,      \* content at each path
  manifest,   \* entries of ACQUISITION_MANIFEST.json
  trust,      \* ACQUISITION_TRUST.json
  tasks,      \* table evidence_tasks: status by artifact
  analyst,    \* assessments that are about to be inserted
  trace,      \* events of the agents' trace
  reconciler, \* what a reconciler has read of it
  open,       \* open_consequences.json
  reviews, review,  \* reviews, and peer_review_gate.json
  report,     \* what other analyses say
  mode,       \* of the control file
  changes,
  verdict     \* closure readiness, of the workspace as it is

closureVars == <<files, manifest, trust, tasks, analyst, trace, reconciler, open, reviews, review,
          report, mode, changes, verdict>>
evidenceVars == <<files, manifest, trust>>
taskVars == <<tasks, analyst>>
traceVars == <<trace, reconciler, open>>
reviewVars == <<reviews, review>>
otherVars == <<report, mode>>

Content == {"first", "second", "cut"}   \* the last does not parse
Flags == {"conflicting", "stale", "incomplete"}
Rank == {"validated", "corroborated", "authoritative"}
Quality == {"missing", "unvalidated"} \cup Rank \cup Flags
Entry == [file : File, hash : Content, rank : Rank, flag : Flags \cup {"none"}, fits : BOOLEAN]

ASSUME ClosureAssumption ==
  /\ Mandatory \subseteq Artifact /\ File \subseteq Nat
  /\ Matches \in [Artifact -> SUBSET File]
  /\ \A g \in Gates : \A need \in g.requires : need \subseteq Artifact
  /\ Acquisitions \subseteq Entry
  /\ Required \in [Conclusion -> Nat] /\ MaxChanges \in Nat

Resting == [at |-> "idle"]
Unknown == [at |-> "unknown"]

ClosureTypeOK ==
  /\ files \in [File -> Content \cup {"none"}] /\ manifest \subseteq Entry
  /\ trust \in {"none", "valid", "invalid"}
  /\ \A a \in DOMAIN tasks : a \in Artifact /\ tasks[a] \in {"REQUESTED", "VALIDATION_REQUIRED", "COLLECTED"}
  /\ trace \in Seq([kind : {"consequence", "closed", "contentClosed"}, act : Act])
  /\ changes \in 0..MaxChanges

(* What was acquired before.                                                *)
ClosureInit ==
  /\ manifest \in {{}} \cup {{e} : e \in Acquisitions}
  /\ files = [f \in File |-> IF \E e \in manifest : e.file = f
                            THEN (CHOOSE e \in manifest : TRUE).hash ELSE "none"]
  /\ trust = "none"
  /\ tasks = <<>> /\ analyst = [w \in Analyst |-> Resting]
  /\ trace = <<>> /\ reconciler = Resting /\ open = Unknown
  /\ reviews = <<>> /\ review = Unknown
  /\ report = "none" /\ mode = "none"
  /\ changes = 0 /\ verdict = Unknown

-----------------------------------------------------------------------------
(* Quality.                                                                 *)
Score(q) ==
  CASE q = "missing" -> 0 [] q = "unvalidated" -> 1 [] q = "validated" -> 2
    [] q = "corroborated" -> 3 [] q = "authoritative" -> 4 [] OTHER -> -1

Satisfies(q, needed) == q \notin Flags /\ Score(q) >= Score(needed)

(* Mutant: what is disputed is passed over.                                 *)
EntriesOfUndisputed(f, entries) ==
  LET exact == {e \in entries : e.file = f /\ e.flag = "none"}
  IN  IF exact # {} THEN exact ELSE {e \in entries : NameOf[e.file] = NameOf[f]}

(* The entries of a path, or else those of its last part.  Several of them  *)
(* bind nothing, and say nothing.                                           *)
EntriesOf(f, entries) ==
  LET exact == {e \in entries : e.file = f}
  IN  IF exact # {} THEN exact ELSE {e \in entries : NameOf[e.file] = NameOf[f]}

(* Mutant: of several entries any will do.                                  *)
UnalteredSomewhere(f, a, entries) ==
  \/ EntriesOf(f, entries) = {} /\ a \notin Mandatory
  \/ \E e \in EntriesOf(f, entries) : e.hash = files[f]

Unaltered(f, a, entries) ==
  LET found == EntriesOf(f, entries)
  IN  \/ found = {} /\ a \notin Mandatory
      \/ Cardinality(found) = 1 /\ \A e \in found : e.hash = files[f]

QualityOfMatch(f, a, entries) ==
  LET found == EntriesOf(f, entries)
      one == Cardinality(found) = 1
      e == CHOOSE e \in found : TRUE
  IN  IF one /\ e.flag # "none" THEN e.flag
      ELSE IF files[f] = "cut" \/ ~Unaltered(f, a, entries) \/ (one /\ ~e.fits) THEN "unvalidated"
      ELSE IF one /\ trust = "valid" THEN e.rank ELSE "validated"

Present(a) == {f \in Matches[a] : files[f] # "none"}

(* The best of what is not flagged, or else the first that is there.        *)
QualityOf(a, entries) ==
  LET found == {QualityOfMatch(f, a, entries) : f \in Present(a)} \ Flags
  IN  IF Present(a) = {} THEN "missing"
      ELSE IF found # {} THEN CHOOSE q \in found : \A p \in found : Score(q) >= Score(p)
      ELSE QualityOfMatch(Min(Present(a)), a, entries)

(* Each requirement is an artifact or one of its aliases.                   *)
Concludes(g, entries) ==
  LET met(need) == \E a \in need : Satisfies(QualityOf(a, entries), g.quality)
  IN  IF g.any THEN \E need \in g.requires : met(need) ELSE \A need \in g.requires : met(need)

Insufficient(entries) == {a \in Mandatory : ~Satisfies(QualityOf(a, entries), "validated")}

-----------------------------------------------------------------------------
(* What happens to the workspace.                                           *)
Happens == changes < MaxChanges /\ changes' = changes + 1 /\ verdict' = Unknown

Acquire(e) ==
  /\ Happens /\ files' = [files EXCEPT ![e.file] = e.hash] /\ manifest' = manifest \cup {e}
  /\ UNCHANGED <<trust, taskVars, traceVars, reviewVars, otherVars>>

Damage(f, c) ==
  /\ Happens /\ files[f] # c
  /\ files' = [files EXCEPT ![f] = c]
  /\ UNCHANGED <<manifest, trust, taskVars, traceVars, reviewVars, otherVars>>

Flag(e, flag) ==
  /\ Happens /\ e.flag = "none"
  /\ manifest' = (manifest \ {e}) \cup {[e EXCEPT !.flag = flag]}
  /\ UNCHANGED <<files, trust, taskVars, traceVars, reviewVars, otherVars>>

VerifyManifest(valid) ==
  /\ Happens /\ trust' = (IF valid THEN "valid" ELSE "invalid") /\ trust' # trust
  /\ UNCHANGED <<files, manifest, taskVars, traceVars, reviewVars, otherVars>>

Trace(kind, act) ==
  /\ Happens /\ trace' = Append(trace, [kind |-> kind, act |-> act])
  /\ UNCHANGED <<evidenceVars, taskVars, reconciler, open, reviewVars, otherVars>>

Review(c, r, approves) ==
  /\ Happens /\ reviews' = Append(reviews, [of |-> c, by |-> r, approves |-> approves])
  /\ UNCHANGED <<evidenceVars, taskVars, traceVars, review, otherVars>>

Others ==
  /\ Happens
  /\ \E says \in {"clean", "critical"}, m \in {"quarantine", "released"} :
       report' = says /\ mode' = m /\ <<report, mode>> # <<says, m>>
  /\ UNCHANGED <<evidenceVars, taskVars, traceVars, reviewVars>>

-----------------------------------------------------------------------------
(* Commands.                                                                *)
Command == verdict' = Unknown /\ UNCHANGED changes

(* create_from_pack: the assessment precedes the transaction.               *)
AssessForTasks(w) ==
  /\ analyst[w] = Resting /\ Command
  /\ LET wanted == {a \in Artifact : ~Satisfies(QualityOf(a, manifest), "validated")}
     IN  analyst' = [analyst EXCEPT ![w] =
           [at |-> "assessed", wants |-> [a \in wanted |->
              IF Present(a) = {} THEN "REQUESTED" ELSE "VALIDATION_REQUIRED"]]]
  /\ UNCHANGED <<evidenceVars, tasks, traceVars, reviewVars, otherVars>>

(* A request for an artifact that has a task is ignored.                    *)
InsertTasks(w) ==
  /\ analyst[w].at = "assessed" /\ Command
  /\ LET wants == analyst[w].wants
     IN  tasks' = [a \in DOMAIN tasks \cup DOMAIN wants |->
                     IF a \in DOMAIN tasks THEN tasks[a] ELSE wants[a]]
  /\ analyst' = [analyst EXCEPT ![w] = Resting]
  /\ UNCHANGED <<evidenceVars, traceVars, reviewVars, otherVars>>

(* Any of the states, also an earlier one; the last stands for the others.  *)
UpdateTask(a, s) ==
  /\ a \in DOMAIN tasks /\ Command
  /\ tasks' = [tasks EXCEPT ![a] = s]
  /\ UNCHANGED <<evidenceVars, analyst, traceVars, reviewVars, otherVars>>

(* Mutant: an event is closed with every other one of its content.          *)
OpenInByContent(events) ==
  LET of(kind) == {e.act : e \in {e \in ToSet(events) : e.kind = kind}}
      closed == of("contentClosed") \cup of("closed")
  IN  {a \in of("consequence") : \A b \in closed : EffectOf[a] # EffectOf[b]}

(* consequence_reconciler: a consequence is closed by its event's           *)
(* identifier or by its content, wherever in the trace.                     *)
OpenIn(events) ==
  LET of(kind) == {e.act : e \in {e \in ToSet(events) : e.kind = kind}}
      closed == of("contentClosed")
  IN  {a \in of("consequence") : a \notin of("closed") /\ \A b \in closed : EffectOf[a] # EffectOf[b]}

ReadTrace ==
  /\ reconciler = Resting /\ trace # <<>> /\ Command
  /\ reconciler' = [at |-> "read", events |-> trace]
  /\ UNCHANGED <<evidenceVars, taskVars, trace, open, reviewVars, otherVars>>

WriteOpen ==
  /\ reconciler.at = "read" /\ Command
  /\ reconciler' = Resting
  /\ open' = [at |-> "reported", of |-> Len(reconciler.events), acts |-> OpenIn(reconciler.events)]
  /\ UNCHANGED <<evidenceVars, taskVars, trace, reviewVars, otherVars>>

(* Mutant: every approval counts.                                           *)
ApprovalsOfAll(c) == Cardinality({i \in DOMAIN reviews : reviews[i].of = c /\ reviews[i].approves})

(* The author's review does not count, and nobody's counts twice.           *)
Approvals(c) ==
  Cardinality({v.by : v \in {v \in ToSet(reviews) : v.of = c /\ v.approves /\ v.by # AuthorOf[c]}})

PeerReview ==
  /\ Command
  /\ review' = [at |-> "gate", of |-> reviews, ready |-> \A c \in Conclusion : Approvals(c) >= Required[c]]
  /\ UNCHANGED <<evidenceVars, taskVars, traceVars, reviews, otherVars>>

(* closure_gate: a report that is missing does not block.                   *)
Ready(repository) ==
  /\ Insufficient(manifest) = {}
  /\ \A a \in Mandatory : QualityOf(a, manifest) # "conflicting"
  /\ trust # "invalid"
  /\ open.at = "reported" => open.acts = {}
  /\ review.at = "gate" => review.ready
  /\ report # "critical" /\ mode # "quarantine" /\ repository # "invalid"

AssessClosure(repository) ==
  /\ verdict' = [at |-> "assessed", ready |-> Ready(repository), repository |-> repository]
  /\ UNCHANGED <<evidenceVars, taskVars, traceVars, reviewVars, otherVars, changes>>

EvidenceStep ==
  \/ \E e \in Acquisitions : Acquire(e)
  \/ \E f \in File, c \in Content : Damage(f, c)
  \/ \E e \in manifest, flag \in Flags : Flag(e, flag)
  \/ \E valid \in BOOLEAN : VerifyManifest(valid)

TaskStep ==
  \/ \E w \in Analyst : AssessForTasks(w) \/ InsertTasks(w)
  \/ \E a \in Artifact, s \in {"REQUESTED", "VALIDATION_REQUIRED", "COLLECTED"} : UpdateTask(a, s)

ActivityStep ==
  \/ \E kind \in {"consequence", "closed", "contentClosed"}, act \in Act : Trace(kind, act)
  \/ ReadTrace \/ WriteOpen
  \/ \E c \in Conclusion, r \in Reviewer, approves \in BOOLEAN : Review(c, r, approves)
  \/ PeerReview \/ Others

Assessment == \E repository \in {"not asked", "valid", "invalid"} : AssessClosure(repository)

ClosureNext == EvidenceStep \/ TaskStep \/ ActivityStep \/ Assessment

ClosureSpec == ClosureInit /\ [][ClosureNext]_closureVars

-----------------------------------------------------------------------------
(* Properties.                                                              *)

(* A case is ready only with a file for each mandatory artifact that has    *)
(* the bytes some acquisition of that name hashed, undisputed, and nothing  *)
(* else was acquired at its path; and as far as the trace was reconciled    *)
(* and reviews were judged, each consequence was closed and each conclusion *)
(* approved by enough others than its author.                               *)
Bound(a) ==
  \E f \in Matches[a], e \in manifest :
    /\ files[f] = e.hash /\ e.hash # "cut" /\ NameOf[e.file] = NameOf[f]
    /\ e.flag = "none" /\ e.fits /\ \A d \in manifest : d.file = f => d = e

Closed(i) ==
  \E j \in 1..open.of :
    \/ trace[j].kind = "closed" /\ trace[j].act = trace[i].act
    \/ trace[j].kind = "contentClosed" /\ EffectOf[trace[j].act] = EffectOf[trace[i].act]

Approved(c) ==
  \E S \in SUBSET (Reviewer \ {AuthorOf[c]}) :
    /\ Cardinality(S) = Required[c]
    /\ \A r \in S : \E i \in DOMAIN review.of : review.of[i] = [of |-> c, by |-> r, approves |-> TRUE]

ReadyIsSupported ==
  verdict.at = "assessed" /\ verdict.ready =>
    /\ \A a \in Mandatory : Bound(a)
    /\ open.at = "reported" => \A i \in 1..open.of : trace[i].kind = "consequence" => Closed(i)
    /\ review.at = "gate" => \A c \in Conclusion : Approved(c)
    /\ mode # "quarantine" /\ verdict.repository # "invalid"

(* To dispute evidence never makes a conclusion supported or a mandatory    *)
(* artifact sufficient that was not ("CONFLICTING, STALE, and INCOMPLETE    *)
(* never satisfy conclusion gates").                                        *)
DisputesNeverHelp ==
  \A e \in manifest :
    LET undisputed == (manifest \ {e}) \cup {[e EXCEPT !.flag = "none"]}
    IN  /\ \A g \in Gates : Concludes(g, manifest) => Concludes(g, undisputed)
        /\ Insufficient(undisputed) \subseteq Insufficient(manifest)

ClosureSound == ReadyIsSupported /\ DisputesNeverHelp

(* "v1.1 blocks closure when: ... mandatory evidence conflicts"             *)
(* (V1.1_RUNBOOK.md).                                                       *)
ConflictsBlock ==
  verdict.at = "assessed" /\ verdict.ready =>
    \A a \in Mandatory, f \in File :
      f \in Present(a) => QualityOfMatch(f, a, manifest) # "conflicting"
=============================================================================

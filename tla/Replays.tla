-------------------------------- MODULE Replays --------------------------------
(***************************************************************************)
(* Derived evidence, and its replay when a signed case is reconstructed     *)
(* (v17_reconstruction.py): projections of cloud logs (CloudLogs), reports  *)
(* on raw evidence under pinned rules (v17_evidence_validation.py),         *)
(* comparisons of structures with a pinned baseline (v17_schema_drift.py)   *)
(* and gates of evidence packs (v17_pack_replay.py).                        *)
(*                                                                          *)
(* An analyst retains an input and, for some transformations, a second one; *)
(* a command writes a new output file; the files may change until they are  *)
(* recorded with the relationship between them, after which a package with  *)
(* other bytes does not verify.  A pin is chosen when the inputs are        *)
(* retained.  JSON values that differ in presentation only are one document.*)
(***************************************************************************)
EXTENDS CloudLogs, TLC

CONSTANTS
  Retained,  \* what analysts retain: a transformation, its inputs, format and pin, and
             \* what may become of each input
  Others,    \* statuses that replays of a case's other relationships may give
  MaxFileChanges   \* bound on changes of files

VARIABLES
  job,     \* what was retained
  dossier,   \* input, second input and output as they are
  derived,    \* all that commands wrote, and from what
  row,     \* the recorded relationship
  revisions,
  replay   \* status of a reconstruction

replayVars == <<job, dossier, derived, row, revisions, replay>>

NoFile == [kind |-> "no-file"]
NoRow == [recorded |-> FALSE]
NotRun == [at |-> "not-run"]

-----------------------------------------------------------------------------
(* Raw evidence.  Records map the names of fields to the kinds of values.   *)
FieldNames(records) == UNION {DOMAIN records[i] : i \in DOMAIN records}
PresentIn(records, name) == {i \in DOMAIN records : name \in DOMAIN records[i]}

(* Mutant: a field is missing if no record has it.                          *)
FieldOfAny(records, rules, name) ==
  [types |-> {records[i][name] : i \in PresentIn(records, name)},
   present |-> Cardinality(PresentIn(records, name)),
   mismatches |-> IF name \in DOMAIN rules.types
                  THEN Cardinality({i \in PresentIn(records, name) : records[i][name] \notin rules.types[name]})
                  ELSE 0,
   missing |-> IF name \in rules.required /\ PresentIn(records, name) = {} THEN Len(records) ELSE 0,
   unexpected |-> name \notin DOMAIN rules.types]

FieldOf(records, rules, name) ==
  [types |-> {records[i][name] : i \in PresentIn(records, name)},
   present |-> Cardinality(PresentIn(records, name)),
   mismatches |-> IF name \in DOMAIN rules.types
                  THEN Cardinality({i \in PresentIn(records, name) : records[i][name] \notin rules.types[name]})
                  ELSE 0,
   missing |-> IF name \in rules.required THEN Len(records) - Cardinality(PresentIn(records, name)) ELSE 0,
   unexpected |-> name \notin DOMAIN rules.types]

FieldReport(records, rules) ==
  [name \in FieldNames(records) \cup DOMAIN rules.types |-> FieldOf(records, rules, name)]

Conforms(fields, rules) ==
  \A name \in DOMAIN fields :
    /\ fields[name].mismatches = 0 /\ fields[name].missing = 0
    /\ rules.extra \/ ~fields[name].unexpected

RulesValid(rules, pin) ==
  /\ rules = pin
  /\ rules.required \subseteq DOMAIN rules.types
  /\ \A name \in DOMAIN rules.types : rules.types[name] # {}
  /\ rules.format \in {"text", "binary"} =>
       DOMAIN rules.types = {} /\ ~rules.records /\ rules.extra
  /\ rules.format = "binary" => rules.words = {}

Assess(raw, rules, pin) ==
  LET text == rules.format # "binary" /\ raw.text
      json == rules.format \notin {"text", "binary"}
      parsed == (rules.format # "binary" => raw.text) /\ (json => raw.parses)
      fields == IF json /\ parsed THEN FieldReport(raw.records, rules) ELSE [n \in {} |-> 0]
      checks ==
        [digest |-> raw = rules.expected, size |-> raw.size \in rules.sizes, parse |-> parsed,
         records |-> rules.records => json /\ parsed /\ raw.records # <<>>,
         fields |-> json => parsed /\ Conforms(fields, rules),
         words |-> rules.words = {} \/ (text /\ rules.words \subseteq raw.words)]
  IN  IF RulesValid(rules, pin)
      THEN [status |-> "valid", kind |-> "assess", source |-> raw, rules |-> rules, checks |-> checks,
            fields |-> fields, satisfied |-> \A c \in DOMAIN checks : checks[c]]
      ELSE Invalid

-----------------------------------------------------------------------------
(* Structures.  A record maps paths to the kinds that occur there, several  *)
(* for the items of an array.                                               *)
KindsAt(records, path) ==
  UNION {{records[i][path][k] : k \in DOMAIN records[i][path]} : i \in PresentIn(records, path)}

OccurrencesAt(records, path, kind) ==
  UNION {{<<i, k>> : k \in {k \in DOMAIN records[i][path] : records[i][path][k] = kind}} :
           i \in PresentIn(records, path)}

(* Mutant: one record is observed.                                          *)
ObserveFirst(records) ==
  LET first == IF records = <<>> THEN <<>> ELSE <<records[1]>>
  IN  [count |-> Len(records),
       paths |-> [p \in FieldNames(first) |->
                    [kinds |-> KindsAt(first, p), present |-> Cardinality(PresentIn(first, p)),
                     occurrences |-> [k \in KindsAt(first, p) |-> Cardinality(OccurrencesAt(first, p, k))]]]]

Observe(records) ==
  [count |-> Len(records),
   paths |-> [p \in FieldNames(records) |->
                [kinds |-> KindsAt(records, p), present |-> Cardinality(PresentIn(records, p)),
                 occurrences |-> [k \in KindsAt(records, p) |-> Cardinality(OccurrencesAt(records, p, k))]]]]

Drift(raw, baseline, pin) ==
  LET before == Observe(baseline.records)
      after == Observe(raw.records)
      common == DOMAIN before.paths \cap DOMAIN after.paths
      changed == {p \in common : before.paths[p].kinds # after.paths[p].kinds}
      added == DOMAIN after.paths \ DOMAIN before.paths
      removed == DOMAIN before.paths \ DOMAIN after.paths
  IN  IF baseline = pin /\ raw.parses /\ baseline.parses
      THEN [status |-> "valid", kind |-> "drift", source |-> raw, baseline |-> baseline,
            added |-> added, removed |-> removed, changed |-> changed,
            shape |-> added \cup removed \cup changed # {},
            counts |-> before.count # after.count \/ added \cup removed # {}
                         \/ \E p \in common : before.paths[p] # after.paths[p]]
      ELSE Invalid

-----------------------------------------------------------------------------
(* Gates of evidence packs, from recorded qualities.                        *)
Qualities == <<"MISSING", "PRESENT_UNVALIDATED", "VALIDATED">>
AtLeast(quality, needed) ==
  \E i, j \in DOMAIN Qualities : Qualities[i] = needed /\ Qualities[j] = quality /\ j >= i

Candidates(gate, need) == {need} \cup (IF need \in DOMAIN gate.aliases THEN gate.aliases[need] ELSE {})

GateOf(gate, quality) ==
  LET known(need) == Candidates(gate, need) \cap DOMAIN quality
      hit == {need \in gate.requires : \E c \in known(need) : AtLeast(quality[c], gate.quality)}
      low == {need \in gate.requires \ hit : \E c \in known(need) : quality[c] # "MISSING"}
  IN  [supported |-> IF gate.any THEN hit # {} ELSE hit = gate.requires,
       missing |-> gate.requires \ (hit \cup low), insufficient |-> low]

Summary(pack, quality) ==
  [qualified |-> Cardinality({a \in pack.mandatory : AtLeast(quality[a], "VALIDATED")}),
   total |-> Cardinality(pack.mandatory),
   gates |-> [g \in DOMAIN pack.gates |-> GateOf(pack.gates[g], quality)]]

PackValid(pack) ==
  \A g \in DOMAIN pack.gates :
    pack.gates[g].requires # {} /\ DOMAIN pack.gates[g].aliases \subseteq pack.gates[g].requires

(* Mutant: the qualities that the assessment was made of are not compared.  *)
PackReplayOfSnapshot(snapshot, assessment, pin) ==
  IF snapshot.pack = pin /\ PackValid(snapshot.pack) /\ DOMAIN snapshot.quality = snapshot.pack.artifacts
     /\ DOMAIN assessment.quality = snapshot.pack.artifacts
  THEN IF assessment.summary = Summary(snapshot.pack, snapshot.quality) THEN "PASS" ELSE "FAIL"
  ELSE "FAIL"

PackReplay(snapshot, assessment, pin) ==
  IF snapshot.pack = pin /\ PackValid(snapshot.pack) /\ DOMAIN snapshot.quality = snapshot.pack.artifacts
     /\ assessment.quality = snapshot.quality
  THEN IF assessment.summary = Summary(snapshot.pack, snapshot.quality) THEN "PASS" ELSE "FAIL"
  ELSE "FAIL"

-----------------------------------------------------------------------------
(* Commands.                                                                *)
Transform(kind, raw, second, format, pin) ==
  IF raw.kind = "damaged" \/ second.kind = "damaged" THEN Invalid
  ELSE CASE kind = "cloudtrail" -> CloudTrail(raw, format)
         [] kind = "azure" -> AzureActivity(raw, format)
         [] kind = "google" -> GoogleAudit(raw, format)
         [] kind = "analytics" -> LogAnalytics(raw, format)
         [] kind = "lossless" -> LosslessAnalytics(raw, format)
         [] kind = "analytics-context" -> AnalyticsContext(raw, second, format)
         [] kind = "google-context" -> GoogleContext(raw, second, format)
         [] kind = "assess" -> Assess(raw, second, pin)
         [] kind = "drift" -> Drift(raw, second, pin)
         [] OTHER -> [status |-> "valid", kind |-> "custom"]

(* What a job may be given: inputs that are damaged, or documents as parsers*)
(* read them; and files that nobody makes by hand just as a command would.  *)
OneInput == {"cloudtrail", "azure", "google", "analytics", "lossless", "custom"}
TwoInputs == {"analytics-context", "google-context", "assess", "drift"}

HasStructure(doc) ==
  /\ IsSequence(doc.records)
  /\ \A i \in DOMAIN doc.records : \A path \in DOMAIN doc.records[i] :
       IsSequence(doc.records[i][path]) /\ doc.records[i][path] # <<>>

IsInput(kind, raw, second) ==
  \/ raw.kind = "damaged" \/ second.kind = "damaged"
  \/ /\ kind \in {"analytics", "lossless", "analytics-context"} => HasTables(raw)
     /\ kind = "analytics-context" => SendsQuery(second.request)
     /\ kind = "assess" => IsSequence(raw.records)
     /\ kind = "drift" => HasStructure(raw) /\ HasStructure(second)

Becomes(j, file) == IF file \in DOMAIN j.revisions THEN j.revisions[file] ELSE {}

IsJob(j) ==
  /\ j.kind \in OneInput \cup TwoInputs \cup {"pack"}
  /\ DOMAIN j.revisions \subseteq {"source", "second", "output"}
  /\ j.kind \in OneInput => j.second = NoFile /\ Becomes(j, "second") = {}
  /\ j.kind = "pack" => j.source = NoFile /\ Becomes(j, "source") = {}
  /\ j.kind # "pack" =>
       /\ j.output = NoFile
       /\ \A raw \in {j.source} \cup Becomes(j, "source"), second \in {j.second} \cup Becomes(j, "second") :
            /\ IsInput(j.kind, raw, second)
            /\ Transform(j.kind, raw, second, j.format, j.pin) \notin Becomes(j, "output")

ASSUME ReplaysAssumption ==
  /\ MaxFileChanges \in Nat
  /\ \A j \in Retained : IsJob(j)
  /\ \A others \in Others : others \subseteq {"PASS", "FAIL", "UNSUPPORTED"}

ReplaysStart ==
  /\ dossier = [source |-> job.source, second |-> job.second, output |-> job.output]
  /\ derived = {} /\ row = NoRow /\ revisions = 0 /\ replay = NotRun

ReplaysInit == job \in Retained /\ ReplaysStart

(* The output is a new file, and nothing is written for inputs that are     *)
(* refused.                                                                 *)
Derive ==
  /\ job.kind # "pack" /\ dossier.output = NoFile
  /\ LET output == Transform(job.kind, dossier.source, dossier.second, job.format, job.pin)
     IN  /\ output # Invalid
         /\ dossier' = [dossier EXCEPT !.output = output]
         /\ derived' = derived \cup {[dossier EXCEPT !.output = output]}
  /\ UNCHANGED <<job, row, revisions, replay>>

(* For a pack, the assessment is there before, and the input is captured    *)
(* from it, whether its summary is right or not.                            *)
PrepareInput ==
  /\ job.kind = "pack" /\ dossier.source = NoFile
  /\ dossier.second.kind # "damaged" /\ dossier.output.kind # "damaged"
  /\ PackValid(dossier.second.pack) /\ DOMAIN dossier.output.quality = dossier.second.pack.artifacts
  /\ LET snapshot == [kind |-> "snapshot", pack |-> dossier.second.pack, quality |-> dossier.output.quality]
     IN  dossier' = [dossier EXCEPT !.source = snapshot]
  /\ UNCHANGED <<job, derived, row, revisions, replay>>

Edit(file, content) ==
  /\ revisions < MaxFileChanges /\ revisions' = revisions + 1
  /\ row = NoRow /\ dossier[file] # NoFile /\ dossier[file] # content
  /\ dossier' = [dossier EXCEPT ![file] = content]
  /\ UNCHANGED <<job, derived, row, replay>>

(* The files are bound to the ledger, with the relationship.                *)
RecordRow ==
  /\ row = NoRow /\ dossier.source # NoFile /\ dossier.output # NoFile
  /\ row' = [recorded |-> TRUE, transformation |-> job.kind, format |-> job.format, pin |-> job.pin]
  /\ UNCHANGED <<job, dossier, derived, revisions, replay>>

(* Mutant: an output that was made by the transformation is not compared.   *)
ReplayRowOfKind(r, f) ==
  LET expected == Transform(r.transformation, f.source, f.second, r.format, r.pin)
  IN  IF r.transformation = "custom" THEN "UNSUPPORTED"
      ELSE IF f.source.kind = "damaged" \/ f.output.kind = "damaged" THEN "FAIL"
      ELSE IF r.transformation = "pack" THEN PackReplay(f.source, f.output, r.pin)
      ELSE IF expected # Invalid /\ f.output.kind = expected.kind THEN "PASS" ELSE "FAIL"

ReplayRow(r, f) ==
  LET expected == Transform(r.transformation, f.source, f.second, r.format, r.pin)
  IN  IF r.transformation = "custom" THEN "UNSUPPORTED"
      ELSE IF f.source.kind = "damaged" \/ f.output.kind = "damaged" THEN "FAIL"
      ELSE IF r.transformation = "pack" THEN PackReplay(f.source, f.output, r.pin)
      ELSE IF expected # Invalid /\ f.output = expected THEN "PASS" ELSE "FAIL"

Overall(statuses) ==
  IF "FAIL" \in statuses THEN "FAIL"
  ELSE IF "UNSUPPORTED" \in statuses THEN "INCOMPLETE"
  ELSE IF statuses # {} THEN "PASS" ELSE "NOT_APPLICABLE"

Reconstruct(requested, others) ==
  /\ replay' = [at |-> IF ~requested THEN "NOT_REQUESTED"
                       ELSE Overall(others \cup (IF row = NoRow THEN {} ELSE {ReplayRow(row, dossier)})),
                others |-> others]
  /\ UNCHANGED <<job, dossier, derived, row, revisions>>

(* A behaviour ends with a reconstruction.                                  *)
ReplaysNext ==
  /\ replay = NotRun
  /\ \/ Derive \/ PrepareInput \/ RecordRow
     \/ \E file \in DOMAIN job.revisions : \E content \in job.revisions[file] : Edit(file, content)
     \/ \E requested \in BOOLEAN, others \in Others : Reconstruct(requested, others)

-----------------------------------------------------------------------------
(* Files and results are of their kinds.                                    *)
ReplaysTypeOK ==
  /\ DOMAIN job.revisions \subseteq DOMAIN dossier /\ revisions \in 0..MaxFileChanges
  /\ DOMAIN dossier = {"source", "second", "output"}
  /\ row = NoRow \/ row.recorded
  /\ replay.at \in {"not-run", "NOT_REQUESTED", "FAIL", "INCOMPLETE", "PASS", "NOT_APPLICABLE"}

(* A replay passes exactly if each recorded output is what the recorded     *)
(* transformation wrote of the very files that were recorded with it, or,   *)
(* for a pack, if the assessment's summary is that of its own qualities.    *)
(* (v17_reconstruction.py reconstruct, compare_replay of each projection)   *)
ReplayExact ==
  replay.at \in {"FAIL", "INCOMPLETE", "PASS"} /\ row # NoRow =>
    LET true == IF job.kind = "pack"
                THEN /\ dossier.source.kind # "damaged" /\ dossier.output.kind # "damaged"
                     /\ dossier.source.pack = job.pin /\ dossier.output.quality = dossier.source.quality
                     /\ dossier.output.summary = Summary(job.pin, dossier.output.quality)
                ELSE dossier \in derived
    IN  replay.at = "PASS" <=> true /\ job.kind # "custom" /\ replay.others \subseteq {"PASS"}

(* A page says that the collection is incomplete exactly if the source named*)
(* a next page, and otherwise nothing; its events are all there, in order;  *)
(* and what a lookup says of an event agrees with it.                       *)
PageTrue(doc, out) ==
  LET events == IF out.kind = "azure" THEN doc.events ELSE doc.entries
      next == CASE out.kind = "azure" -> doc.nextLink
                [] out.kind \in {"google", "google-context"} -> doc.nextPageToken
                [] OTHER -> IF "NextToken" \in doc.names THEN doc.token ELSE Absent
  IN  /\ out.complete = IF next \in Word THEN "false" ELSE Unknown
      /\ [i \in DOMAIN out.rows |-> out.rows[i].event]
           = [i \in DOMAIN events |-> IF out.kind = "cloudtrail" THEN events[i].event ELSE events[i]]
      /\ out.kind = "cloudtrail" => \A i \in DOMAIN out.rows :
           LET row_i == out.rows[i]
           IN  row_i.wrapper # NoWrapper =>
                 /\ row_i.wrapper.ReadOnly \in {Absent, row_i.readOnly}
                 /\ row_i.wrapper.EventTime \in {Absent, row_i.time}

(* A table keeps every cell within the limits of a whole result, a lossless *)
(* number is in the range of its type and none is changed by reading it,    *)
(* and a partial result says so.                                            *)
ExactNumber(token) == IF token = "7.0" THEN "7" ELSE token
PlacesIn(tables, t) == {t} \X ((DOMAIN tables[t].rows) \X (DOMAIN tables[t].columns))
Places(tables) == UNION {PlacesIn(tables, t) : t \in DOMAIN tables}
TableTrue(doc, out) ==
  LET cells == Places(doc.tables)
      kept(x) == out.rows[x[1]][x[2][1]][x[2][2]]
      type(x) == doc.tables[x[1]].columns[x[2][2]].type
  IN  /\ Cardinality(cells) <= MaxCells
      /\ out.complete = IF "error" \in doc.names THEN "false" ELSE Unknown
      /\ out.kind = "lossless" => \A x \in cells :
           type(x) \in NumericTypes /\ kept(x).state = "present" =>
             /\ ReadNumber(kept(x).value) = ExactNumber(kept(x).value)
             /\ kept(x).value \in {doc.tables[x[1]].rows[x[2][1]][x[2][2]]} \cup {"7", "2147483648"}

(* The text of a query is the one that was sent, however it was encoded.    *)
QueryTrue(context, out) ==
  context.request.meant # <<>> => out.parameters["query"] = context.request.meant

(* Every record meets the rules exactly if the report says so.              *)
AssessmentTrue(raw, rules, out) ==
  LET conforming ==
        \A i \in DOMAIN raw.records :
          /\ rules.required \subseteq DOMAIN raw.records[i]
          /\ rules.extra \/ DOMAIN raw.records[i] \subseteq DOMAIN rules.types
          /\ \A n \in DOMAIN raw.records[i] \cap DOMAIN rules.types :
               raw.records[i][n] \in rules.types[n]
  IN  out.satisfied =>
        /\ raw = rules.expected /\ conforming
        /\ rules.records => raw.records # <<>>

(* The shape is unchanged exactly if the same kinds occur at the same paths,*)
(* whatever the order of records; what is counted tells populations apart.  *)
PathKinds(records) ==
  UNION {UNION {{<<p, records[i][p][k]>> : k \in DOMAIN records[i][p]} : p \in DOMAIN records[i]} :
           i \in DOMAIN records}
DriftTrue(raw, baseline, out) ==
  LET indices == DOMAIN raw.records
      shuffled == \E order \in [indices -> indices] :
                    /\ \A i \in indices : \E j \in indices : order[j] = i
                    /\ [i \in indices |-> raw.records[order[i]]] = baseline.records
  IN  /\ out.shape <=> PathKinds(raw.records) # PathKinds(baseline.records)
      /\ out.shape => out.counts
      /\ Len(raw.records) = Len(baseline.records) /\ shuffled => ~out.counts

(* What was written is true of what it was written from.                    *)
(* (normalize, assess and compare of the projections)                       *)
OutputsTrue ==
  \A m \in derived :
    LET out == m.output
    IN  CASE out.kind \in {"cloudtrail", "azure", "google", "google-context"} -> PageTrue(m.source, out)
          [] out.kind \in {"analytics", "lossless"} -> TableTrue(m.source, out)
          [] out.kind = "analytics-context" -> TableTrue(m.source, out) /\ QueryTrue(m.second, out)
          [] out.kind = "assess" -> AssessmentTrue(m.source, m.second, out)
          [] out.kind = "drift" -> DriftTrue(m.source, m.second, out)
          [] OTHER -> TRUE

ReplaysSound == ReplayExact /\ OutputsTrue
=============================================================================

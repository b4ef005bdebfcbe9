------------------------------ MODULE MCRecords ------------------------------
(***************************************************************************)
(* The ten parts that keep records for others to verify later, or conclude  *)
(* from them: the enterprise repository, a private log, timestamped key     *)
(* decisions, the log of live attestation, published captures, lineages of  *)
(* credentials, case packages, telemetry graphs, analysts' notes and        *)
(* replays of derived evidence.  They share no state, so that one of them   *)
(* is at work in a behaviour, and the others rest at a beginning of theirs. *)
(*                                                                          *)
(* Two workers ingest one content as internal or secret; two witnesses      *)
(* keep logs of up to six entries, of which at most two are different; one  *)
(* key is valid in a window of one instant, or of several, or for ever; two *)
(* runs of one probe attest at once or one after the other; two captures    *)
(* are given one directory; up to four hops connect three credentials in    *)
(* any way, or acyclic ones with any scopes; an offline export and an older *)
(* one write one package of a case of three files, whose profile links its  *)
(* artifacts once, twice, in a circle, or with a context; whole and broken  *)
(* traces of up to three spans are rebuilt, edited and linked to logs; two  *)
(* analysts write four notes; for each transformation, documents that it    *)
(* takes and that it refuses are derived from, one file changed, recorded   *)
(* and replayed.                                                            *)
(***************************************************************************)
EXTENDS EvidenceRepository, PrivateLog, KeyTrustHistory, LiveAttestation,
        Captures, CredentialLineage, CasePackages, MCTelemetry, AnalystNotes, MCReplays

S == INSTANCE SequencesExt

VARIABLE part   \* at work

MCFounded == {[i \in 1..n |-> IF i = odd THEN "y" ELSE "x"] : n \in {0, 2, 3, 5}, odd \in {1, 3, 5, 7}}

W(a, b) == [from |-> a, until |-> b]
MCCheckpoints == {[key |-> "k", created |-> c, signed |-> s] : c \in {0, 2}, s \in {1, 3}}
MCRow(state, w) == [k \in {"k"} |-> [state |-> state, valid |-> w]]
MCPolicy(until, keys) == [valid |-> W(0, until), keys |-> keys]
MCPolicies ==
  {<<MCPolicy(u, MCRow("active", w)), MCPolicy(9, MCRow("revoked", w))>> :
      u \in {4, 8}, w \in {W(0, 9), W(2, 3), W(1, 4), W(3, 8)}}
    \cup {<<MCPolicy(8, <<>>)>>}
MCRoots == {W(0, 7), W(1, 9)}
MCSkews == {-1, 0, 1}

MCHops(pairs, target, scopes) ==
  {[from |-> e[1], to |-> e[2], source |-> "p", target |-> target, scopes |-> scopes] : e \in pairs}
MCLineage(hops, credentials, principals, shown, tokens) ==
  [hops |-> hops, credentials |-> credentials, principals |-> principals, shown |-> shown,
   tokens |-> tokens]
MCNothing == MCLineage({}, {}, {}, {}, <<>>)
MCLineages ==
  {MCLineage(MCHops(pairs, "q", {}), credentials, principals, {[credential |-> 2, presenter |-> "q"]}, <<>>) :
      pairs \in {E \in SUBSET ((1..3) \X (1..3)) : Cardinality(E) <= 4},
      credentials \in {{}, {1, 3}}, principals \in {{}, {"p"}}}
    \cup {MCLineage(MCHops(pairs, "p", scopes), 1..3, {"p"}, {}, tokens) :
      pairs \in SUBSET {<<1, 2>>, <<2, 3>>, <<1, 3>>}, scopes \in {{}, {"s"}},
      tokens \in UNION {[D -> SUBSET {"s", "t"}] : D \in SUBSET (1..3)}}
    \cup {MCNothing}

MCA == Artifact("A", "a", "1")
MCRows ==
  LET c == Artifact("C", "02_checkpoint/c", "1")
      linked == <<MCA, Artifact("B", "b", "1"), c, Relationship("A", "B", "x", "C")>>
  IN  {<<MCA, c>>, Append(linked, Relationship("A", "B", "y", NoContext)),
       Append(linked, Relationship("B", "C", "x", NoContext))}
MCLedger(rows) == S!FoldLeft(AppendRecord, <<>>, <<Note>> \o rows)
MCKept == {MCLedger(rows) : rows \in MCRows \cup {<<>>}}
MCProfiles == {[rows |-> S!Range(rows)] : rows \in MCRows}
MCGiven ==
  LET whole == MCLedger(<<MCA, Artifact("C", "02_checkpoint/c", "1")>>)
  IN  MCKept \cup {MCLedger(<<Note, Note>>), SubSeq(whole, 1, 2), S!Reverse(whole),
                   [whole EXCEPT ![3].record = Note]}

LogRests ==
  LET empty == [entries |-> <<>>, issued |-> 0, signers |-> Witness]
  IN  heads = {empty} /\ LogInit

HistoryRests ==
  /\ skew = 0 /\ approved = <<MCPolicy(8, <<>>)>> /\ rootValid = W(0, 7)
  /\ HistoryInit

LineageRests == lineage = MCNothing /\ Unsearched

ReplaysRest == job \in MCCustomJobs /\ ReplaysStart

PackagesStart == directory = [p \in Path |-> [text |-> "1"]] /\ PackagesInit

Init ==
  /\ RepositoryInit /\ AttestationInit /\ CapturesInit /\ PackagesStart /\ TelemetryInit /\ NotesInit
  /\ \/ /\ part \in {"repository", "attestation", "capture", "package", "telemetry", "notes"}
        /\ LogRests /\ HistoryRests /\ LineageRests /\ ReplaysRest
     \/ part = "log" /\ LogInit /\ HistoryRests /\ LineageRests /\ ReplaysRest
     \/ part = "history" /\ LogRests /\ HistoryInit /\ LineageRests /\ ReplaysRest
     \/ part = "lineage" /\ LogRests /\ HistoryRests /\ LineageInit /\ ReplaysRest
     \/ part = "replay" /\ LogRests /\ HistoryRests /\ LineageRests /\ ReplaysInit

(* The parts that are not at work rest.                                     *)
Rests ==
  /\ part # "repository" => UNCHANGED repositoryVars
  /\ part # "log" => UNCHANGED logVars
  /\ part # "history" => UNCHANGED historyVars
  /\ part # "attestation" => UNCHANGED attestationVars
  /\ part # "capture" => UNCHANGED captureVars
  /\ part # "lineage" => UNCHANGED lineageVars
  /\ part # "package" => UNCHANGED packageVars
  /\ part # "telemetry" => UNCHANGED telemetryVars
  /\ part # "notes" => UNCHANGED notesVars
  /\ part # "replay" => UNCHANGED replayVars

Next ==
  /\ UNCHANGED part
  /\ \/ part = "repository" /\ RepositoryNext
     \/ part = "log" /\ LogNext
     \/ part = "history" /\ HistoryNext
     \/ part = "attestation" /\ AttestationNext
     \/ part = "capture" /\ CapturesNext
     \/ part = "lineage" /\ LineageNext
     \/ part = "package" /\ PackagesNext
     \/ part = "telemetry" /\ TelemetryNext
     \/ part = "notes" /\ NotesNext
     \/ part = "replay" /\ ReplaysNext
  /\ Rests

partVars ==
  <<repositoryVars, logVars, historyVars, attestationVars, captureVars, lineageVars, packageVars,
    telemetryVars, notesVars, replayVars>>

Spec == Init /\ [][Next]_<<part, partVars>>

(* A property of a part is evaluated while the part is at work.             *)
Of(p, property) == part = p => property

(* Every part's variables have their types.                                 *)
TypeOK ==
  /\ Of("repository", RepositoryTypeOK) /\ Of("log", LogTypeOK) /\ Of("history", HistoryTypeOK)
  /\ Of("attestation", AttestationTypeOK) /\ Of("capture", CapturesTypeOK)
  /\ Of("lineage", LineageTypeOK) /\ Of("package", PackagesTypeOK)
  /\ Of("telemetry", TelemetryTypeOK) /\ Of("notes", NotesTypeOK)
  /\ Of("replay", ReplaysTypeOK)

(* What a process tells about its own work is true, whatever fails, dies or *)
(* overlaps: the answers and anchors of the repository, whose evidence can  *)
(* be read, the events and heads of an attestation log, the receipts and    *)
(* reports of captures, and the notes of analysts.                          *)
AccountsTrue ==
  /\ Of("repository", AnswersRecorded /\ AnchorsVerify /\ EvidenceReadable)
  /\ Of("attestation", AttestationSound) /\ Of("capture", CapturesSound)
  /\ Of("notes", NotesSound)

(* What is concluded from recorded evidence is what the evidence says, of   *)
(* key decisions within the accuracy of a stamp, of chains of delegations   *)
(* however they join, part and close, of case packages whatever changed     *)
(* while they were written or happened to them since, and of the traces     *)
(* that envelopes of telemetry hold.                                        *)
ConclusionsExact ==
  /\ Of("history", AcceptanceExact) /\ Of("lineage", LineageExact)
  /\ Of("package", PackagesExact) /\ Of("telemetry", TelemetryExact)
  /\ Of("replay", ReplaysSound)
=============================================================================

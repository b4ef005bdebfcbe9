------------------------------ MODULE CasePackages ------------------------------
(***************************************************************************)
(* Signed case packages: the investigation ledger and its checkpoints       *)
(* (v17_integrity.py, v17_signing.py), provenance profiles bound to it      *)
(* (v17_provenance.py), export (case_export_v17.py, case_export_v15.py) and *)
(* offline verification.  Exports read a case directory that analysts       *)
(* change meanwhile, and write one file in place; packages are damaged or   *)
(* mixed up on their way, unpacked and exported again.                      *)
(*                                                                          *)
(* A digest is what it digests.  Of a profile its artifacts and their       *)
(* lineage are modelled; other records are bound and referenced in the same *)
(* way.  External policies, timestamps and histories of keys are the        *)
(* subject of KeyTrustHistory, and there is one case of one tenant.  While  *)
(* a directory is read, each file is read as it was at the beginning or as  *)
(* it is at the end.                                                        *)
(***************************************************************************)
EXTENDS Naturals, Sequences, FiniteSets

CONSTANTS
  Exporter,     \* running export commands
  Offline,      \* those that run case_export_v17.py
  Path,         \* files of a case
  EvidencePath, \* those that are left out unless include_evidence is given
  Text,         \* contents of files
  Kept,         \* ledgers, as they were kept
  Given,        \* ledgers, as they are given to an export
  Profiles,     \* provenance profiles
  SigningKey,   \* of checkpoints
  Trusted,      \* keys that exporters declare as trusted
  MaxChanges,   \* bound on changes of the case directory
  MaxExports    \* bound on exports

VARIABLES
  directory,  \* the case directory: what each file holds
  changes,    \* how often it changed
  exporter,   \* how far each export is
  exports,    \* how many began
  package,    \* the file they write
  signedLists \* the inventories that were signed

packageVars == <<directory, changes, exporter, exports, package, signedLists>>

-----------------------------------------------------------------------------
(* The ledger.  The hash of an event is what it digests: the hash of the    *)
(* previous one, and its own sequence number and record.                    *)
NoHash == <<>>
HashMaterial(n, record, previous) == <<n, record, previous>>
HeadHash(ledger) == IF Len(ledger) = 0 THEN NoHash ELSE ledger[Len(ledger)].entry
AppendRecord(ledger, record) ==
  LET n == Len(ledger) + 1
      previous == HeadHash(ledger)
  IN  Append(ledger, [sequence |-> n, record |-> record, previous |-> previous,
                      entry |-> HashMaterial(n, record, previous)])

(* A sequence of what is taken for events.                                  *)
IsLedger(ledger) ==
  /\ Len(ledger) \in Nat /\ DOMAIN ledger = 1..Len(ledger)
  /\ ledger = [i \in DOMAIN ledger |->
                 [sequence |-> ledger[i].sequence, record |-> ledger[i].record,
                  previous |-> ledger[i].previous, entry |-> ledger[i].entry]]

CheckpointOf(ledger) == [count |-> Len(ledger), head |-> HeadHash(ledger)]
SignedCheckpoints == {[checkpoint |-> CheckpointOf(l), key |-> k] : l \in Kept, k \in SigningKey}

ChainHolds(ledger) ==
  \A i \in DOMAIN ledger :
    /\ ledger[i].sequence = i
    /\ ledger[i].previous = IF i = 1 THEN NoHash ELSE ledger[i - 1].entry
    /\ ledger[i].entry = HashMaterial(ledger[i].sequence, ledger[i].record, ledger[i].previous)

(* Mutant: the head is not compared.                                        *)
LedgerVerifiesByCount(ledger, checkpoint) ==
  ChainHolds(ledger) /\ checkpoint.count = Len(ledger)

LedgerVerifies(ledger, checkpoint) ==
  ChainHolds(ledger) /\ checkpoint.count = Len(ledger) /\ checkpoint.head = HeadHash(ledger)

-----------------------------------------------------------------------------
(* Provenance: rows of artifacts and of relationships, which may name a     *)
(* second artifact that the child is derived from.                          *)
Note == [note |-> TRUE]
Damaged == [damaged |-> TRUE]
NoContext == "none"
Artifact(id, path, text) == [id |-> id, path |-> path, sha256 |-> text]
Relationship(parent, child, type, context) ==
  [parent |-> parent, child |-> child, type |-> type, context |-> context]

IsProfile(profile) ==
  /\ profile = [rows |-> profile.rows] /\ IsFiniteSet(profile.rows)
  /\ \A row \in profile.rows :
       IF "id" \in DOMAIN row
       THEN row = Artifact(row.id, row.path, row.sha256) /\ row.id # NoContext
       ELSE row = Relationship(row.parent, row.child, row.type, row.context)

Artifacts(rows) == {r \in rows : "id" \in DOMAIN r}
Relationships(rows) == rows \ Artifacts(rows)
Ids(rows) == {a.id : a \in Artifacts(rows)}
ParentsIn(r) == {r.parent} \cup ({r.context} \ {NoContext})
Edges(rows) ==
  UNION {{<<parent, r.child>> : parent \in ParentsIn(r)} : r \in Relationships(rows)}

(* Mutant: every relationship counts, also between the same artifacts.      *)
DegreeOfRows(rows, child) ==
  Cardinality({e \in Relationships(rows) \X Ids(rows) :
                 e[1].child = child /\ e[2] \in ParentsIn(e[1])})

Degree(rows, child) == Cardinality({a \in Ids(rows) : <<a, child>> \in Edges(rows)})

(* The artifacts all of whose parents were reached.                         *)
Reachable(rows, reached) ==
  {c \in Ids(rows) : Degree(rows, c) = Cardinality({a \in reached : <<a, c>> \in Edges(rows)})}

(* The artifacts that are reached when those whose parents all were reached *)
(* are, one round after another.                                            *)
Visited(rows) ==
  LET visited[n \in 0..Cardinality(Ids(rows))] ==
        IF n = 0 THEN {} ELSE Reachable(rows, visited[n - 1])
  IN  visited[Cardinality(Ids(rows))]

LineageHolds(rows) ==
  /\ \A r \in Relationships(rows) :
       /\ ParentsIn(r) \cup {r.child} \subseteq Ids(rows)
       /\ r.child \notin ParentsIn(r) /\ r.parent # r.context
  /\ Visited(rows) = Ids(rows)

(* Every row is committed by one event of the ledger, and only rows are.    *)
Bound(rows, ledger) ==
  LET binding == {i \in DOMAIN ledger : ledger[i].record # Note}
  IN  /\ \A i, j \in binding : ledger[i].record = ledger[j].record => i = j
      /\ {ledger[i].record : i \in binding} = rows

ValidProvenance(rows, ledger, files) ==
  /\ \A a, b \in Artifacts(rows) : (a.id = b.id \/ a.path = b.path) => a = b
  /\ \A a \in Artifacts(rows) : a.path \in DOMAIN files /\ files[a.path] = [text |-> a.sha256]
  /\ LineageHolds(rows)
  /\ Bound(rows, ledger)

ProvenanceHolds(files, ledger) ==
  IF "provenance" \in DOMAIN files
  THEN files["provenance"] # Damaged /\ ValidProvenance(files["provenance"].rows, ledger, files)
  ELSE \A i \in DOMAIN ledger : ledger[i].record = Note

-----------------------------------------------------------------------------
(* Verification of a package.                                               *)
Metadata == {"ledger", "checkpoint", "signed", "trust"}
Members == Path \cup Metadata \cup {"provenance", "manifest"}

ASSUME CasePackagesAssumption ==
  /\ Offline \subseteq Exporter /\ EvidencePath \subseteq Path
  /\ Path \cap (Metadata \cup {"provenance", "manifest"}) = {}
  /\ \A l \in Given \cup Kept : IsLedger(l)
  /\ \A l \in Kept : ChainHolds(l)
  /\ \A profile \in Profiles : IsProfile(profile)
  /\ Trusted \subseteq SigningKey
  /\ MaxChanges \in Nat /\ MaxExports \in Nat

(* Mutant: files that the manifest does not list are accepted.              *)
IntactIfListed(members) ==
  /\ members["manifest"] # Damaged
  /\ LET files == members["manifest"].files
     IN  \A n \in DOMAIN files : n \in DOMAIN members /\ members[n] = files[n]

Intact(members) ==
  /\ members["manifest"] # Damaged
  /\ LET files == members["manifest"].files
     IN  /\ DOMAIN files = DOMAIN members \ {"manifest"}
         /\ \A n \in DOMAIN files : members[n] = files[n]

(* The ledger, the keys that the exporter trusts, and the profile.          *)
MetadataHolds(members) ==
  LET ledger == members["ledger"].events
      signed == members["signed"]
  IN  /\ LedgerVerifies(ledger, signed.checkpoint)
      /\ signed.key \in members["trust"].keys
      /\ members["checkpoint"] = signed.checkpoint
      /\ ProvenanceHolds(members, ledger)

Valid(p) ==
  /\ p.whole /\ ~p.again
  /\ Metadata \cup {"manifest"} \subseteq DOMAIN p.members
  /\ Intact(p.members) /\ MetadataHolds(p.members)

-----------------------------------------------------------------------------
(* What a profile promises: its artifacts are in the package with the       *)
(* content they are recorded with, every set of them has a member that was  *)
(* derived from no other member of it, and its rows are those of the ledger.*)
Promised(rows, files, ledger) ==
  /\ Cardinality(Artifacts(rows)) = Cardinality(Ids(rows))
  /\ Cardinality({a.path : a \in Artifacts(rows)}) = Cardinality(Ids(rows))
  /\ \A a \in Artifacts(rows) : \E n \in DOMAIN files : n = a.path /\ files[n] = [text |-> a.sha256]
  /\ \A r \in Relationships(rows) :
       /\ ParentsIn(r) \cup {r.child} \subseteq Ids(rows)
       /\ Cardinality({r.parent, r.child, r.context}) = 3
  /\ \A S \in SUBSET Ids(rows) : S # {} => \E c \in S : \A a \in S : <<a, c>> \notin Edges(rows)
  /\ LET binding == {i \in DOMAIN ledger : ledger[i].record # Note}
     IN  Cardinality(binding) = Cardinality(rows) /\ rows = {ledger[i].record : i \in binding}

Rows(files) == IF "provenance" \in DOMAIN files THEN files["provenance"].rows ELSE {}

-----------------------------------------------------------------------------
(* Exports.                                                                 *)
Idle == [at |-> "idle"]
NoPackage == [whole |-> FALSE, again |-> FALSE, alone |-> FALSE, members |-> [n \in {} |-> Damaged]]
NoProfile == [rows |-> {Note}]

Reached(e, step) == exporter[e].at = step
Goes(e, state) == exporter' = [exporter EXCEPT ![e] = state]
Begins(e) ==
  /\ exporter[e].at \in {"idle", "refused"} /\ exports < MaxExports
  /\ exports' = exports + 1

Over(f, g) == [n \in DOMAIN f \cup DOMAIN g |-> IF n \in DOMAIN f THEN f[n] ELSE g[n]]
Put(f, name, content) == Over([n \in {name} |-> content], f)
Only(f, names) == [n \in DOMAIN f \cap names |-> f[n]]
Selected(files, include) == IF include THEN files ELSE Only(files, Members \ EvidencePath)

(* What is read of a directory that changes from old to new meanwhile.      *)
Readings(old, new) ==
  {Over(Only(new, late), old) :
     late \in SUBSET {n \in DOMAIN new : n \notin DOMAIN old \/ old[n] # new[n]}}

PackagesInit ==
  /\ \E t \in Text : directory = [p \in Path |-> [text |-> t]]
  /\ changes = 0 /\ exports = 0
  /\ exporter = [e \in Exporter |-> Idle]
  /\ package = NoPackage /\ signedLists = {}

(* An offline export is given a ledger, its signed checkpoint and the keys  *)
(* to trust.                                                                *)
Accepted ==
  {given \in Given \X SignedCheckpoints :
     given[2].key \in Trusted /\ LedgerVerifies(given[1], given[2].checkpoint)}

BeginExport(e, include) ==
  /\ e \in Offline /\ Begins(e)
  /\ \E given \in Accepted :
       Goes(e, [at |-> "copy", old |-> directory, ledger |-> given[1], signed |-> given[2],
                include |-> include])
  /\ UNCHANGED <<directory, changes, package, signedLists>>

MetadataOf(given) ==
  [ledger |-> [events |-> given.ledger], signed |-> given.signed,
   checkpoint |-> given.signed.checkpoint, trust |-> [keys |-> Trusted]]
Staged(copied, given, profile) ==
  Over(MetadataOf(given), IF profile = NoProfile THEN copied ELSE Put(copied, "provenance", profile))

(* Mutant: evidence that the package leaves out counts as present.          *)
InventoryOfAll(staged, include) == staged

Inventory(staged, include) == Selected(staged, include)

(* The directory is copied, and the copy gets the metadata, and the profile *)
(* if one is given.  What it promises is recorded for ExportsPromised.      *)
StageExport(e, profile) ==
  /\ Reached(e, "copy")
  /\ \E copied \in Readings(exporter[e].old, directory) :
       LET given == exporter[e]
           staged == Staged(copied, given, profile)
           files == Selected(staged, given.include)
           promised == Promised(Rows(files), files, given.ledger)
       IN  IF ProvenanceHolds(Inventory(staged, given.include), given.ledger)
           THEN Goes(e, [at |-> "sign", promised |-> promised, files |-> files])
           ELSE Goes(e, [at |-> "refused", promised |-> promised])
  /\ UNCHANGED <<directory, changes, exports, package, signedLists>>

(* The older export hashes the case directory itself.                       *)
BeginOldExport(e, include) ==
  /\ e \notin Offline /\ Begins(e)
  /\ Goes(e, [at |-> "hash", old |-> Selected(directory, include), include |-> include])
  /\ UNCHANGED <<directory, changes, package, signedLists>>

HashTree(e) ==
  /\ Reached(e, "hash")
  /\ \E files \in Readings(exporter[e].old, Selected(directory, exporter[e].include)) :
       Goes(e, [at |-> "sign", files |-> files])
  /\ UNCHANGED <<directory, changes, exports, package, signedLists>>

WritesTo(files, alone) == [at |-> "write", files |-> files, alone |-> alone]

(* The inventory is signed, and the output file opened, which empties it,   *)
(* under another export that still writes to it.                            *)
OpenPackage(e) ==
  /\ Reached(e, "sign")
  /\ LET others == {x \in Exporter : Reached(x, "write")}
     IN  exporter' = [x \in Exporter |->
                        IF x = e THEN WritesTo(exporter[e].files, others = {})
                        ELSE IF x \in others THEN WritesTo(exporter[x].files, FALSE)
                        ELSE exporter[x]]
  /\ signedLists' = signedLists \cup {exporter[e].files}
  /\ package' = NoPackage
  /\ UNCHANGED <<directory, changes, exports>>

(* The files are read again, the older export's from the case directory.    *)
ClosePackage(e) ==
  /\ Reached(e, "write")
  /\ LET files == exporter[e].files
         sources == IF e \in Offline THEN files ELSE Only(directory, DOMAIN files)
     IN  \E read \in Readings(files, sources) :
           package' \in
             {[whole |-> TRUE, again |-> "manifest" \in DOMAIN files,
               alone |-> exporter[e].alone /\ e \in Offline,
               members |-> Put(read, "manifest", [files |-> files])]}
             \cup (IF exporter[e].alone THEN {} ELSE {NoPackage})
  /\ Goes(e, Idle)
  /\ UNCHANGED <<directory, changes, exports, signedLists>>

(* The process dies, or fails to write: the file has no inventory, if any   *)
(* directory at all.                                                        *)
KillExport(e) ==
  /\ exporter[e].at \in {"copy", "hash", "sign", "write"} /\ Goes(e, Idle)
  /\ UNCHANGED <<directory, changes, exports, package, signedLists>>

-----------------------------------------------------------------------------
(* The case directory.                                                      *)
Contents(n) ==
  CASE n \in Path -> {[text |-> t] : t \in Text}
    [] n = "ledger" -> {[events |-> l] : l \in Given}
    [] n = "provenance" -> Profiles
    [] OTHER -> {}

ChangeFile(n) ==
  /\ changes < MaxChanges /\ changes' = changes + 1
  /\ \E content \in Contents(n) \ {directory[n]} : directory' = [directory EXCEPT ![n] = content]
  /\ UNCHANGED <<exporter, exports, package, signedLists>>

(* A package is unpacked there, with its inventory or without.              *)
Unpack(names) ==
  /\ package.whole /\ changes < MaxChanges /\ changes' = changes + 1
  /\ directory' = Over(Only(package.members, names), directory)
  /\ UNCHANGED <<exporter, exports, package, signedLists>>

PackagesNext ==
  \/ \E n \in DOMAIN directory : ChangeFile(n)
  \/ \E names \in {Members, Members \ {"manifest"}} : Unpack(names)
  \/ \E e \in Exporter :
       \/ \E include \in BOOLEAN : BeginExport(e, include) \/ BeginOldExport(e, include)
       \/ \E profile \in Profiles \cup {NoProfile} : StageExport(e, profile)
       \/ HashTree(e) \/ OpenPackage(e) \/ ClosePackage(e) \/ KillExport(e)

PackagesSpec == PackagesInit /\ [][PackagesNext]_packageVars

-----------------------------------------------------------------------------
(* Files have contents of their kind, and writers the lists they signed.    *)
PackagesTypeOK ==
  /\ Path \subseteq DOMAIN directory /\ DOMAIN directory \subseteq Members
  /\ \A n \in DOMAIN directory \cap (Path \cup {"ledger", "provenance"}) : directory[n] \in Contents(n)
  /\ changes \in 0..MaxChanges /\ exports \in 0..MaxExports
  /\ \A e \in Exporter :
       /\ exporter[e].at \in {"idle", "copy", "refused", "hash", "sign", "write"}
       /\ Reached(e, "write") => exporter[e].files \in signedLists
  /\ package.whole => package.members["manifest"].files \in signedLists

(* An export goes on exactly if the package will keep the promises of its   *)
(* profile, whatever it leaves out and whatever changed while it copied.    *)
(* (case_export_v17.py export_case, v17_provenance.py _validate)            *)
ExportsPromised ==
  \A e \in Offline : exporter[e].at \in {"sign", "refused"} =>
    (Reached(e, "sign") <=> exporter[e].promised)

(* An undisturbed offline export verifies, unless an inventory that was     *)
(* unpacked into the case is in it.                                         *)
(* (case_export_v17.py export_case, verify_case)                            *)
ExportsVerify == package.whole /\ package.alone /\ ~package.again => Valid(package)

(* The package, damaged or mixed up with others.                            *)
Received ==
  LET others == (UNION {{<<n, files[n]>> : n \in DOMAIN files} : files \in signedLists})
        \cup {<<"manifest", [files |-> files]>> : files \in signedLists}
      now == package.members
  IN  {[package EXCEPT !.members = members] :
         members \in {now} \cup {Only(now, Members \ {n}) : n \in Members}
                       \cup {Put(now, n, Damaged) : n \in Members}
                       \cup {Put(now, o[1], o[2]) : o \in others}}

(* A package that verifies has the files of one signed inventory, all of    *)
(* them and no other, a ledger as it was kept when its checkpoint was taken,*)
(* and what the profile promises.                                           *)
(* (case_export_v17.py verify_case, v17_integrity.py verify)                *)
VerifiedIsExported ==
  package.whole /\ (\A e \in Exporter : exporter[e].at \in {"idle", "refused"}) =>
    \A p \in Received : Valid(p) =>
      LET files == Only(p.members, Members \ {"manifest"})
          ledger == files["ledger"].events
      IN  /\ files \in signedLists
          /\ ledger \in Kept
          /\ Promised(Rows(files), files, ledger)

PackagesExact == ExportsPromised /\ ExportsVerify /\ VerifiedIsExported
=============================================================================

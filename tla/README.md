# AI-DFIR: specifications, model checking and proofs

TLA+ modules for the stateful parts of AI-DFIR, the TLC configurations that
check them on small instances, and proofs, checked by the TLA+ proof system, of
what holds for every instance. File names without a directory are files of the
repository's root. `PROJECT.json` lists components, runs, hazards, findings and
theorems, and maps every definition to the lines it stands for.

    tlc -workers 2 -config MCContainment.cfg MCContainment      # a run
    tlapm PolicyGovernanceProofs.tla                            # the proofs of a module

## 1. Inventory

AI-DFIR is a collection of Python programs, nearly 300 files with their
self-tests, around forensic cases of AI systems. Most are functions of their input: parsers, analyzers, report and
package builders, one-shot verifiers. Their difficulty is in data. The programs
below keep state that several processes share, and run for a long time, crash,
retry or overtake one another; they are where interleavings decide.

| Component (programs) | State | Operations | Talks to | What is hard | Correct means |
|---|---|---|---|---|---|
| Verifier policy store (`v17_policy_distribution.py`, `v17_policy_governance.py`, `v17_policy_quorum.py`) | one SQLite file: accepted checkpoint-key policy, chain of root rotations, times of acceptance | create, update (with or without a rotation), migrate plain to governed, accept a delivered chain, load | called by the sync scheduler, by commands and by case verifiers | several updaters and readers; two rows in one transaction, failures and kills inside it; expiry while waiting for the lock; retries; competing successors; restored backups | a committed store is always one its readers accept; revisions and root versions never go back; what was accepted together is read together; a restored store catches up |
| Fleet attestation (`fleet_agent.py`, `fleet_collector.py`, `fleet_policy.py`, `fleet_registry.py`) | agent's state file, collector's tables `node_state` and `heartbeats`, registry file | post, verify, ingest, save state, enable, re-key | HTTP; its alerts feed the responder | lost, delayed, replayed requests, lost answers, crashes on both sides, a registry that is read before the lock | one gapless chain per node, exact recovery hysteresis, a node in order keeps attesting |
| Distributed acquisition (`distributed_acquisition_v15.py`, `collector_worker_v15.py`, `enterprise_metadata_store.py`) | tables `acquisition_tasks`, `collector_nodes`, `audit_events`, receipt files | enqueue, claim, execute, sign, complete, audit, register | workers share the database | leases that run out while their holder works; PostgreSQL locks rows, SQLite reads outside the writing transaction; crashes between completion and audit | one execution per lease, one final outcome, signed by the lessee; no task is lost |
| Legal holds and ingest (`legal_hold_v15.py`, `legal_hold_apply_v15.py`, `object_store_v15.py`, `enterprise_evidence_ingest_v15.py`) | hold and release records, table `legal_holds`, a flag per object | create, release, apply, put an object, list | two stores without a common transaction | runs that overlap or die between a row and its objects; a record applied again; two holds on a case | a reported hold stays enforced until it is released |
| Policy delivery and sync (`v17_policy_delivery.py`, `v17_policy_sync.py`) | per job a deadline and a count of failures; the job's policy store | round, preflight, fetch, accept, skip | HTTPS publisher; writes the policy store | slow or failing jobs in one thread, stale answers, other updaters, restarts | no rollback, no retry storm, every healthy job catches up |
| Containment (`auto_responder.py`, `execute_containment.py`, `preservation_engine.py`, `containment_control.py`, `recovery_gate.py`, `containment_plan.py`) | responder's state file, plans, preservation directories, the control file, release requests and approvals | poll, process an alert, execute a plan, request, approve and execute a release | reads the collector; workers obey the control file | at-least-once execution, two executors, crashes while preserving, checks before unlocked writes | evidence first; a plan takes effect once and a spent release request never again; every alert is handled |
| Containment guard (`containment_guard.py`) | control cached per worker process, shared by threads | check | control file | one branch assigns outside the lock | a decision is never older than the control when the call began |
| Evidence repository (`evidence_repository.py`, `evidence_anchor.py`, `repository_checkpoint.py`, `enterprise_case.py`, `enterprise_ingest.py`) | object files, rows in SQLite, an audit file with chained hashes, anchors, cases | ingest, extract, hold, release a hold, change a case's status, anchor | threads of the API and commands on one directory | a request is several files and statements without a common transaction; reads precede the transaction that writes; nothing locks the audit file | evidence can be extracted; what was answered is on record; an anchor verifies for ever. The audit chain may fork, but loses no event |
| Private evidence logs (`v17_merkle.py`, `v17_private_transparency.py`, `private_transparency_v17.py`) | none: files, each written once | append, cosign, receipt, verify | log, witnesses and keepers exchange files | histories fork when one head is appended to twice; proofs have another shape at each size | proofs verify exactly for what they state; nobody who keeps heads is led from one history to another |
| Key policy and trust history (`v17_key_policy.py`, `v17_key_trust_history.py`, `v17_timestamp.py`, `checkpoint_history_v17.py`) | none: records, requests, stamps | capture a decision, prepare, stamp, reproduce | policy store, time stamp authority | keys begin and expire within the accuracy of a stamp; wrong local clocks | an accepted decision is the one the policy gave when it was stamped |
| Live attestation (`live_attestation.py`, `verify_attestation_log.py`) | a hash-chained log and its head | run probes, append, write the head, verify | runs resume each other's log | nothing locks the file; a write fails, or a death cuts it, at any byte; errors of the log reach the handler of the model's errors | what is missing shows, one outcome per request, an orderly log is not refused |
| Captures (`v17_log_analytics_capture.py`, `v17_gcp_logging_capture.py`, `v17_pdf_render.py`, `v17_png_ocr.py`) | a directory of files with a receipt, a container | query or render, publish, clean up | container daemon, cloud endpoint | each step fails, or the command dies, alone; two captures are given one directory | a receipt stands beside a whole set; reports do not deny what happened |
| Credential lineage (`v18_credential_lineage.py`, `v18_agent_execution_record.py`) | none | build, project into a record | consumers of the record | chains that join, part and close | cycles are refused and nothing else; authority follows hops only; added scopes are told |
| Case ledger, checkpoints and packages (`v17_integrity.py`, `v17_signing.py`, `v17_provenance.py`, `case_export_v17.py`, `case_export_v15.py`) | the case directory, an output file written in place | bind a record, checkpoint, export (two ways), verify | analysts who edit the directory, operators who unpack packages into it | files change while they are copied or between hashing and writing; two exports of one output; deaths; evidence that is left out | a package verifies only as it was signed, and keeps what its profile promises; an undisturbed export verifies |
| Releases (`scripts/package_release.py`, `scripts/verify_release_candidate_v17.py`, `scripts/release_check.py`, `.github/workflows/release.yml`) | a build directory, the assets of a tag's release | build, check what was packaged, upload, download, verify | GitHub | nothing serializes two runs for one tag; uploads replace assets one by one and may stop anywhere; HEAD may move under a build; demands grow with each profile | what verifies is one checked build; an undisturbed run repairs a release; older packages still verify |
| Agent telemetry (`v18_otlp_envelope.py`, `v18_otel_genai.py`, `v18_runtime_reconstruction.py`) | none: imports of envelopes, with what was derived from them | import, validate, reconstruct a trace, correlate logs | analysts who hold an import and may change it | what was derived is kept beside what it was derived from; spans without identifiers, parents that come late, never or in a circle | a valid import is what its envelope leads to; a graph has every span; a link is told only when it is there |
| Case closure and tasks (`evidence_quality.py`, `evidence_tasks.py`, `consequence_reconciler.py`, `peer_review_gate.py`, `closure_gate.py`, `case_model.py`) | the acquisition manifest and its trust, table `evidence_tasks`, open consequences, reviews | assess, make tasks, update a task, reconcile, review, decide | agents that go on acting, the recovery gate's control file | every report is of some earlier moment; two commands assess the same case; files are damaged, replaced or disputed afterwards | a case is ready only if its evidence, reviews and containment are, as far as they were read |
| Analysts' notes (`analyst_annotations.py`, `analyst_action_audit.py`) | two chained logs | add, verify | authors on one file system | the last hash is read before the line is appended, and nothing locks the file; a line is cut | a log verifies exactly when nothing was crossed or cut, and then has what was added |
| Cloud logs, derived evidence and its replay (`v17_cloudtrail.py`, `v17_azure_activity.py`, `v17_gcp_audit.py`, `v17_log_analytics.py`, `v17_log_analytics_lossless.py`, `v17_log_analytics_context.py`, `v17_gcp_logging_context.py`, `v17_evidence_validation.py`, `v17_schema_drift.py`, `v17_pack_replay.py`, `v17_reconstruction.py`) | files of a case, and the recorded relationship between them | project, assess, compare, prepare an input, record, replay | the case ledger, packages | absent, null and false are different things and formats differ in which they allow; what is derived is derived again months later; files change before they are recorded | a replay passes just when the output is what its recorded inputs give; what is written says what was in the input |
| Everything else: delivery identity, time lines and recorded comparisons, gateway and portal, encryption and recovery, provider collectors, case tools, content intake, agent, MCP and A2A analyzers, other v1.8 records, representation analyzers, evidence packs, assurance checks, other scripts | none, or one file written by one command | transform or check | | data only | not a question of interleaving |

Interactions that carry guarantees from one component to another:

* sync scheduler → delivery → `accept_governed_chain` on the policy store, beside
  updates by hand and case verifiers that load it;
* agent → collector → alert → responder → executor → control file → guard;
  the recovery gate replaces the same control file;
* acquisition, holds and ingest meet in the metadata store; each uses tables of
  its own, so they are specified separately;
* policy store → key policy decisions → trust history and case packages, which
  take an authentic policy as given.

## 2. Modules

| Module | Stands for | Composes with |
|---|---|---|
| `PolicyRegister` | abstract: what a policy store promises, a register with monotone entries and readers | refined by `PolicyGovernance` |
| `PolicyGovernance` | plain and governed stores, all operations, transactions, failures, kills, readers | `ImplementsRegister` |
| `PolicyRestore` | the same on a host whose operator puts backups back | extends `PolicyGovernance`; `MCAssurance` |
| `FleetHeartbeat` | agent, network, collector, registry, operator | |
| `AcquisitionTasks` | requests, workers and the tables, parameterised by the backend | |
| `LegalHold` | records, the command, both stores, ingest | `MCAssurance` |
| `PolicySync` | the scheduler with its deadlines, and delivery | a policy with its chain is a revision here |
| `Containment` | responder, executors, control file, recovery gate | takes the collector's alerts as its environment |
| `ContainmentGuard` | the threads of a worker and the control they cache | takes writers of the control file as its environment; `MCAssurance` |
| `CaseClosure` | evidence, tasks, consequences, reviews, the gate | takes acting agents and the control's mode as its environment; `MCAssurance` |
| `EvidenceRepository` | requests on the repository and its cases, anchors | `MCRecords` |
| `MerkleHistory`, `PrivateLog` | history trees and their proofs; logs, witnesses, keepers | `PrivateLog` extends `MerkleHistory`; `MCRecords` |
| `KeyTrustHistory` | decisions, captured, stamped and reproduced | takes accepted policies as `PolicyGovernance` leaves them; `MCRecords` |
| `LiveAttestation` | probe runs on one log | `MCRecords` |
| `Captures` | queries and rendered pages, their containers and directories | `MCRecords` |
| `CredentialLineage` | search, report, projection | `MCRecords` |
| `CasePackages` | ledger, profile, two exports, verification | `MCRecords` |
| `ReleasePackages` | builds, the release workflow, the verifier | takes GitHub's assets as its environment; `MCAssurance` |
| `Telemetry` | imports, their validation, graphs, links | `MCRecords` |
| `CloudLogs`, `Replays` | projections of cloud logs; derived files, their recording and replay | `Replays` extends `CloudLogs`; `MCRecords` |
| `AnalystNotes` | authors who append to one log, and its verification | `MCRecords` |
| `PolicyGovernanceProofs` | theorems on `PolicyGovernance`, `PolicyRegister` and `PolicyRestore` | extends `PolicyRestore` |
| `ContainmentProofs`, `FleetProofs`, `AcquisitionProofs`, `PolicySyncProofs` | theorems | each extends the module it is about |
| `AssuranceProofs` | theorems on `LegalHold`, `ContainmentGuard`, `CaseClosure` and `ReleasePackages`, and the composition `MCAssurance` | extends `MCAssurance` and `PolicyGovernanceProofs` |
| `LogProofs` | theorems on `LiveAttestation`, `Captures`, `PrivateLog`, with the lemmas on history trees, `KeyTrustHistory`, `CredentialLineage` and `Telemetry` | extends the six |
| `RecordsProofs` | theorems on `EvidenceRepository`, `AnalystNotes`, `CasePackages`, `CloudLogs`, `Replays`, and on `MCRecords`: its types, accounts, logs and conclusions | extends `MCRecords` and `LogProofs` |
| `MC*` | finite instances for TLC | |

### How state and actions correspond to the code

*Policy store.* `store` is the committed content of the file, `image` the
uncommitted pages of the one process that has the write lock (`BEGIN
IMMEDIATE`), `stage` its progress and `request` its arguments. `CreateStore`
reserves the file with `O_EXCL`, `FillStore` opens its transaction;
`UpdatePlain`, `UpdateGoverned`, `DeliverChain` and `Migrate` begin one and run
to the policy row, `WriteRoot` (which checks the chain limit last, as
`_write_root` does) and `Commit` end it; `Fail` is an exception, `Crash` a kill,
at any stage. A reader takes its `snapshot` in `ReadState` and judges it in
`Report`, after the connection is closed. `committed` and `view` are history.
A transaction reads the clock once, under the lock. The minimums that a caller
may give to a load or a delivery (`_floor`) are compared with what is about to be
reported and change nothing else; they are left out here, and those of a sync job
are in `PolicySync`. `PolicyRestore` adds the operator who copies the file
(`TakeBackup`) and puts the copy back (`Restore`); `lost`, what the file held
before, is history.

*Fleet.* `Post` is `run_once` up to the request, `SaveState` the end of it,
`GiveUp` the exception that `main` swallows. `Verify` is the work of the
handler before the lock (registry, signature, policy), `Ingest` the critical
section with its checks and both tables. The environment loses requests and
answers, replays an accepted one, kills the agent or makes it time out, and
restarts the collector.

*Acquisition.* `claim_task` is `Poll` (registry), `Select` and `Lease`;
`complete_task` is `Check` and `Complete`; then `Audit`. A row read for update
stays in `locks` until the transaction ends on PostgreSQL; on SQLite nothing is
locked between a read and the write that follows it. A query that finds
nothing ends its transaction in the same step.

*Legal hold.* `Start`, `LookUp`, `PutLegalHold`, one `SetLegalHold` per object,
`Finish` and `Abort` are the steps of `apply`; `PutEvidence` and `Put` are the
two writes of an ingest. `stale` remembers that a run began when the release of
its hold had already been applied.

*Sync.* A round goes through the jobs in order: `Skip`, `Preflight`, `Fetch`
or `FetchFails`, `Accept`; `EndAttempt` sets the deadline. A deadline is kept as
the time left to it.

*Containment.* `Poll`, `ProcessAlert`, `Executed` and `SaveState` are
`run_once`. `MakeDirectory`, `Seal`, `FailPreserve`, `PreservationFailed`,
`CreateControl` and `Finish` are `execute`, run by the responder's child or by
an operator. `CheckRelease` and `WriteRelease` are the two halves of
`execute_release`, and `EndRelease` an execution that stops between them. The
gate takes no lock: each operator's shell (`Releaser`) has its own place in
`release`, so that several executions may be between the check and the write, of
one request too, which may then release several times. `controls` is every content the control file has had: a
control is known by its position, which is what a digest of the file tells
apart. Only the automation mode `auto` acts without a person and is modelled.

*Guard.* `check` is split where threads can overtake one another: the look at
the file, the unlocked assignment when it is missing, the refresh under the
lock, and the reads of the cache after it.

*Repository.* A request is one action per file operation or statement: `Lookup`,
`StoreObject`, `InsertObject` or `UpgradeObject`, `InsertEvidence`, then
`ReadHead` and `AppendLine`; `ReadAudit`, `ObjectDigests` and `SignAnchor` are
an anchor. `Die` ends a request anywhere, and may leave an incomplete line.

*Private log.* `heads` is the set of all head files that exist, since none is
ever replaced; `kept` is the head each keeper retains. Proofs are the recursive
functions of the code over a hash that is what it hashes; a subtree is the `n`
leaves after the first `lo`, so that `lo = 0` is the code's `known`, and
`MaxLeaves` and `MaxProofNodes` are its limits.

*Trust history.* `Capture`, `Prepare`, `Stamp` and `AcceptPolicy` run in any
order against the true time and a local clock that may be wrong; `Reproduces`
tries the instants that `_replay_interval` tries.

*Live attestation.* `LineReachesFile` and `AfterAppend` separate what is in the
file from what the logger remembers; `FailAppend` and `CutLine` are writes that
fail after nothing, a part or all of the line; `ModelRaises` and `PrintRaises`
reach one handler, as in the code.

*Captures.* One action per request to the daemon and per file: created, opened
exclusively, filled, linked, unlinked. A `docker rm` that reports failure may
have removed the container. `Dies` leaves everything as it is; `Discard` is an
operator who clears a directory and the containers of captures that ended.

*Credential lineage.* `VisitRoot`, `VisitTarget` and `LeaveCredential` are the
recursion of `_find_cycle` with its path and its finished credentials;
`BuildReport` and `Project` are functions of what was observed. That one comes from
one credential to another along the hops is said by sets that are closed under them
(`Reaches`), which needs no path.

*Case packages.* `BeginExport`, `StageExport`, `OpenPackage` and `ClosePackage`
are `export_case` of version 1.7 with the older one inside it; for the older one
alone `BeginOldExport` and `HashTree` precede the last two, and files are read
again in `ClosePackage`. `Valid` is `verify_case`, which has no state.
`signedLists` is history, and so is `promised` in the state of an export.

*Releases.* `BeginBuild`, `CheckSource`, `StageTree` and `CheckExtracted` are
`main` of the packager, `AddProvenance` to `Conclude` the jobs of the workflow.
`gh release upload --clobber` lists what exists (`ListExisting`) and then deletes
and uploads each asset in any order; a download is a list (`ListRelease`) and
assets that may be gone by the time they are fetched (`MissAsset`). A working
tree is a commit too, as only its files and scripts matter. `alone` is history.

*Telemetry.* `ImportTraceEnvelope` and `ImportLogEnvelope` derive entries from
the items of an envelope. `EditTraces` and `EditLogs` are whoever holds an
import: an entry is changed, dropped, repeated or given another context, with
hashes that fit what it says or what it should say. `ReconstructTrace` and
`CorrelateTraceLogs` validate first, as the commands do.

*Case closure.* `Acquire`, `Flag`, `VerifyManifest`, `Review`, `PeerReview`,
`UpdateTask` and `AssessClosure` are commands; `AssessForTasks` and
`InsertTasks`, `ReadTrace` and `WriteOpen` are the halves of two that read
before they write. `Damage`, `Trace` and `Others` are what happens to files,
what agents do, and what other analyses and the control file come to say. A
verdict is of the workspace as it is: it is forgotten when anything changes.

*Derived evidence.* `Transform` is what a command computes from its inputs, one
operator per program; `Derive` is the command, which writes a new file or, for
inputs it refuses, nothing. `Edit` is whoever changes a file before `RecordRow`
binds it to the ledger, with the relationship. `ReplayRow` is a pass of the loop
of `reconstruct`, and `Overall` what it says of the case. A document is flattened
into fields, and one field stands for all that a program treats alike. `IsJob` says
what an analyst may retain: inputs that are damaged or have the lists that a parser
gives, requests whose client encodes what it means (`SendsQuery`), and no output made
by hand that is just what the command would write of some of the inputs, since
nothing could tell it from one that was written.

*Notes.* `BeginNote` reads every line for the last hash, `WriteNote` appends, and
`StopNote` is an author who fails or dies with nothing or a part of the line
written. What follows a line that was cut becomes part of it. `crossed` is
history.

*MCRecords* and *MCAssurance* put several modules together in one run each. The
modules share no variable: `part`, chosen at the start, says which of them
moves, so that the run is the disjoint union of its parts.

### Abstractions common to all modules

A digest stands for what it digests, and a valid signature for its key;
documents that fail are inputs where the code has to reject them (forged,
under-signed, out of scope, skipping a version). Wording, logging, JSON limits,
paths and command lines are left out. Time is a bounded counter, or a time left.

## 3. Runs

"Mutant" below: for every property of a passing run, `PROJECT.json` names a
variant of one definition, written beside it, that changes it as a plausible bug
would (a dropped guard, a check moved, a missing reset) and makes the run fail.

| Run | Instance | States | What it shows |
|---|---|---|---|
| `governance` | 4 keys, 2 scopes, an anchor and 4 roots, 6 rotations (two compete, one under-signed, one skips a version, one beyond the limit of 2), good and bad policies, one reader, time 0..3 | 116 000 | `StoreIntact`, `AcceptedWhileCurrent`, `RetryUnchanged`, `ChainOnlyGrows`, `MigrationKeepsPolicy`; `ImplementsRegister`: the store refines `PolicyRegister` |
| `fleet` | one node, 4 heartbeats, recovery after 2, one fault, one change of the registry | 176 000 | `OneChain`, `AgentNotAhead`, `StateFollowsHistory`, `AttestsUnlessOrphaned` (liveness) |
| `fleet_wedge` | two heartbeats, one lost answer | | finding 1 |
| `acquisition` | PostgreSQL with 2 tasks of different types, or SQLite with one; 2 workers and collectors, one crash, one change of enrolment, time 0..1 with a lease of the shortest length | 569 000 | `OneRunPerLease` (with row locks), `OneLateLease`, `CompletionsAgree`, `OutcomeIsFinal`, `EventuallyDone` (liveness) |
| `legal_hold_shared` | two holds on one case | | finding 2 |
| `policy_sync` | a job that always fails before one with a floor, and a disabled one; 3 revisions, backoff up to 3 intervals with jitter, 2 faults | 758 000 | `NoRollback`, `NoRetryStorm`, `CatchesUp` (liveness) |
| `containment` | 3 alerts (one only observed, one a failover without backend), an incident by hand that waives evidence, one failing preservation, one crash, one execution by hand, one release request that two shells may execute | 543 000 | `EvidenceFirst`, `ContainedOnce`, `SpentOnceReleased`, `EveryAlertHandled` (liveness) |
| `containment_release` | the same with two release requests and one shell | | finding 3 |
| `telemetry_logs` | one envelope of logs, one change | | finding 4 |
| `case_closure` | two files that match one mandatory artifact | | finding 5 |
| `records` | see below | 944 000 | `ProofsExact`, `HistoriesStayApart` (private log); `ConclusionsExact` (trust history, lineage, packages, telemetry, replays); `AccountsTrue` (repository, attestation, captures, notes) |
| `assurance` | see below | 1 295 000 | `HoldsSound`, `HeldOnRecord`; `ClosureSound`; `ReleasesSound`; `RestoreRecovers`; `DecidedByCurrentControl` |

The parts of `records`, and their share of its states:

| Part | Instance | States | In the properties |
|---|---|---|---|
| repository | two threads or processes, one content as internal or secret, 3 requests of any kind, deaths at every step | 120 000 | no evidence without a whole object; an answer implies rows and event; anchors verify ever after |
| log | two witnesses who also verify receipts, threshold 2, two approved histories of 0, 2, 3 or 5 entries, of which one may differ at the first, third or fifth place, and one more append | 12 000 | proofs verify just when they should, for all pairs of histories; keepers never change histories; what is blocked by a fork stays blocked |
| history | one key, windows of one instant, several or all, two roots, clocks off by one, stamps accurate to 0 or 2, 6 instants | 252 000 | accepted just when the decision held at every instant of the stamp's interval |
| attestation | two runs of one probe at once or in turn, two mishaps | 272 000 | a log that verifies lacks nothing that was appended; one outcome per request; orderly runs are not refused |
| capture | two captures of any kind, one directory, two faults | 73 000 | a receipt beside a whole set of its own; no denial of a rendering or of a container that is left |
| lineage | 3 credentials, every set of at most 4 hops, and every acyclic one with all scopes | 22 000 | cycles found and nothing else refused; authority along hops only; added scopes told |
| package | a case of 3 files, one of them evidence; 2 exports, each of either version, 2 changes of the directory or unpackings; profiles that are linked twice, with a context, in a circle; ledgers cut, reordered, edited, rebuilt | 95 000 | an export goes on just when it can keep its profile's promises; undisturbed it verifies; what verifies is what was signed, whatever was lost, damaged or mixed up |
| telemetry | envelopes of up to 3 items in two resources, with equal, missing and circular identifiers; one change of an import | 18 000 | a valid import of spans is what its envelope leads to; a graph has each span and parent, and is refused only for twins and circles; links are told just when they are there |
| replay | for each of the transformations, some documents that it takes and some that it refuses; two changes of files, before they are recorded | 74 000 | a replay passes just when the recorded output is what the recorded inputs give; an output says of its input what is there, and no more |
| notes | two authors, up to 4 records, appends that fail or are cut | 7 000 | a log verifies just when every line was finished and no author overtaken; then what an author was told is added is there, once |

The parts of `assurance`, whose two workflow runs (and two runs of the hold command)
are interchangeable:

| Part | Instance | States | In the properties |
|---|---|---|---|
| hold | 2 holds on cases of their own, 3 pieces of evidence, 2 runs at a time, 3 in all | 631 000 | a reported hold is enforced until it is released; an old record that is applied again changes nothing of another; objects are held on record only |
| evidence | two artifacts, one mandatory, 3 files, a case that begins without evidence or with one file, 3 changes of any kind | 23 000 | ready only with a file for each mandatory artifact that has the bytes an undisputed acquisition hashed; a dispute never makes evidence better |
| tasks | the same, two analysts who assess at once, one change | 7 700 | types, and that disputes do not help while tasks are made; commands that make tasks and their transactions are steps, but no property is about them: one `INSERT OR IGNORE` settles each overlap |
| activity | a case with its evidence; two consequences, a conclusion, two reviewers of whom one may be its author | 194 000 | ready only if the conclusion has enough other reviewers and no consequence that was read is open |
| release | two runs of the workflow for a tag that may be moved between them, commits without profiles and with some | 267 000 | what verifies is one checked build; a run that is alone repairs what others left |
| build | an operator's builds, commits before, with some and with all of five profiles, two changes of the repository | 800 | what is built verifies, also of older profiles |
| restore | two rotations, of which the first leads to a root that expires early, 5 envelopes, a backup that may be made and put back at any time | 14 000 | `RestoreRecovers`: whatever was put back, one delivery of the chain and policy that were lost is accepted |
| guard, lone guard | two threads whose control file is there and replaced twice; one thread with any beginning | 158 000 | a decision is never older than the control when the call began |

The properties of both runs that are called `Exact`, `True` or `Sound` are
conjunctions of what each module states under a name of its own:
`AccountsTrue` of `AnswersRecorded`, `AnchorsVerify`, `EvidenceReadable` and those
of the other logs, `HoldsSound` of `HoldsEnforced` and `StaleHoldIsInert`,
`ReleasesSound` of `PublishedIsOneBuild`, `AloneIsPublished` and `BuildsVerify`,
`ClosureSound` of `ReadyIsSupported` and `DisputesNeverHelp`.

Deadlock is looked for in `governance`, where readers always go on. The other
models stop when the heartbeats, runs, executions or requests that their bounds
allow are used up, so their configurations say `CHECK_DEADLOCK FALSE`; that nobody waits for ever before that is what the
liveness properties of fleet, acquisition, sync and containment say. The parts
of `records` and `assurance` wait for nothing that another process holds, but
for the guard's lock, which its holder lets go in its next steps, and a
transaction of a restored store, which ends in any case.

### Why the bounds are enough

Counters bound how often the environment interferes, not what the program does.
One fault meets every step of every process, because TLC places it everywhere.
`fleet` needs four heartbeats: one that opens an incident, two that end it and
one that returns to NORMAL, each of which can be delayed past the next.
`acquisition` needs a second worker to take over a lease that ran out while its
holder executes, signs or completes; the shortest lease makes that possible at
every step. In `policy_sync` the backoff doubles twice before it is capped.
`governance` has chains one longer than its limit. In `records`, two processes
and one or two faults are what an overlap with a restart takes; histories of
0, 2, 3 and 5 entries, with one more, pass the powers of two 1, 2 and 4, where the shape of a proof
changes, and forks need one entry that differs; windows of one instant inside an
interval of up to five are what an instant that is not tried could hide; three
credentials make shared descendants, self-loops and cycles of three; an export,
its unpacking, a change and another export are four events, which two changes
and two exports allow. Four notes make a crossing, a cut and two that follow them.
In `assurance`, a second run of a workflow meets everything that a first one
leaves, as it may begin before, while or after the first fails or ends; of three
changes of a workspace one can make a case ready, one spoil it and one mend it;
a guard's cache can be two controls behind. What two of anything cannot show (a third worker, a third hold) adds no new kind of conflict here: rows,
objects and jobs are independent, and every conflict is between two processes
over one of them.

Two more bounds show in properties. A lease that ends after the last instant of
`acquisition` never runs out, so `EventuallyDone` excepts it (`OutlastsModel`).
`EveryAlertHandled` is checked with bursts that fit the collector's window of
100 alerts (`Window` = 3 for three alerts) and with every node configured;
both conditions matter to the code and are listed as hazards: outside them the
responder misses alerts or repeats a batch for ever. In particular, the property
says nothing of a burst that is larger than the window.

Two limits of the programs are left out, so that `ConclusionsExact` is exact below
them only: a reconstructed trace has at most 10,000 spans
(`v18_runtime_reconstruction.py:95`, larger ones are refused), and the depth of a
delegation that `_find_cycle` searches is bounded by Python's recursion limit.
`PolicyRestore` shows a catch-up over two rotations, one of which leads through an
expired root; the theorem has chains of any length.

### Fairness

* *Fleet* (`FairSpec`): the agent's loop never ends (`main` catches everything),
  so an agent takes its step again and again; a request that arrived is verified
  and ingested, since each has a thread; an operator who rotated a key installs
  it. Nothing is assumed of losses, replays or crashes.
* *Acquisition*: workers are run again and again. The worker command handles at
  most one task, so this is an assumption about whoever starts it, not
  something the code ensures. Time passes.
* *Sync*: the watch loop takes steps, as connecting and reading have deadlines,
  and time passes.
* *Containment*: the responder polls for ever and its systemd unit restarts it
  (`Restart=on-failure`); an execution it started ends, as it consists of
  copies and commands of its own. Operators may stop at any point.

### Findings

1. `fleet_wedge`, `ContinuouslyAttests`: when the answer to an accepted
   heartbeat is lost, the agent numbers the next one the same; the collector
   rejects it and all that follow. `V0.5_RUNBOOK.md:7` says workers "can
   continuously attest". `AttestsUnlessOrphaned` shows it is the only way to
   get stuck.
2. `legal_hold_shared`, `HoldsEnforced`: objects have one flag for all holds of
   a case, so releasing one hold frees objects another is reported to enforce
   (`docs/analyst/CLOSURE_CRITERIA.md:13`).
3. `containment_release`, `ReleaseReplacesRequested`: the gate checks the control
   it releases and replaces the file later, without a lock; a containment that
   arrives in between is lifted (`V0.6_RUNBOOK.md:584`). In the same way two
   executions of one approved request may both pass the check and release, which
   is why `SpentOnceReleased` speaks of executions that are checked after a
   release, and not of all.
4. `telemetry_logs`, `LogsReplay`: the validation of a log import compares the
   replayed record's hash with the stored hash and nothing else, so that an entry
   may say something else than its retained bytes
   (`docs/reference/OTLP_ENVELOPE_INTAKE_V1.8.md`, "verifies that the resulting
   record matches the import"; `v18_otlp_envelope.py:543`).
5. `case_closure`, `ConflictsBlock`: of several files that match an artifact the
   conflicting ones are dropped before the best is taken, so that a mandatory
   artifact with conflicting evidence does not block
   (`V1.1_RUNBOOK.md:783`, `evidence_quality.py:256`, `closure_gate.py:88`).

The models also led to these observations, which no run of their own states:

* *Guard*: the branch for a missing file assigns the shared cache outside the
  lock, so that a thread that found no file undoes the first containment for
  another that has just read it (`containment_guard.py:4` and `:36`; the part
  `guard` of `assurance` therefore begins with a file, and one with a missing
  file has one thread).
* *Releases*: the packager names its source before the checks and archives HEAD
  after them (`scripts/package_release.py:652`): a commit or checkout in between
  makes the manifest name another source than
  `docs/reference/RELEASE_ASSURANCE_V1.7.md:81` says.
* *Repository*: the audit chain forks when requests overlap, so that `verify`
  reports a mismatch nobody caused; two overlapping ingests may leave the lower
  of two classifications; a status may be left from where another request had
  already moved on.
* *Acquisition*: a task of a collector disabled meanwhile is leased once more.
* *Packages*: one that was unpacked with its manifest and is exported again has
  a member twice, which verification refuses; `verify_case` on a path hashes the
  file before it opens it, so that the digest it reports may be of a package
  replaced since.
* *Case closure*: `create_from_pack` returns identifiers of tasks that it ignored
  as duplicates; a task that exists is never set back to VALIDATION_REQUIRED
  (`docs/reference/EVIDENCE_QUALITY_MODEL_V1.1.md:83`); a trace with consequences
  that nobody reconciled gives no count and so no blocker; an additional pack
  that cannot be loaded is dropped; the trust file is not bound to the manifest.
* *Notes*: after a line that was cut every later addition is refused, and one
  that was under way is swallowed by it.

## 4. Proofs

`tlapm` proves the following for all values of the constants, from the `ASSUME`s
of the modules alone (types and ranges of the constants, distinctness of the
sentinels). Seldom is a property inductive as it stands: it speaks of what was
reported, committed or decided, and the reason it holds is in who may still do
what. The invariants below say that, and TLC confirms each of them on the
instance of the run.

**`PolicyGovernanceProofs`**, with two invariants.

* `TypeCorrect`, `StoreAlwaysIntact`, `ChainAlwaysGrows`: a commit publishes what
  was written some steps before. `IInv` adds what is known of the uncommitted
  image at each stage: while a file is only reserved, the request is judged by
  the trust of the anchor (`CreatedOK`); after the policy row, the request's
  chain is linked, extends the committed one and ends in a root whose quorum
  signed the policy, though it may still exceed the limit (`PolicyWrittenOK`);
  after the root row, the image is intact as it stands and extends the committed
  chain (`WrittenOK`).
* `AlwaysAcceptedWhileCurrent`, `RetriesAlwaysUnchanged`, `MigrationAlwaysKeeps`
  and the refinement `StoreIsRegister`: `HInv` adds when it was written
  (`TimesOK`: policy and root were both current at the time that is noted, and
  that time is not in the future), that what is about to be committed is newer
  than the committed store or is the same policy under governance (`NewerOK`),
  and that a reader was told, has read and could read, in this order, entries
  that do not get older (`ReadersOK`). Under it, `Commit` and the reservation of
  a file are steps of `PolicyRegister`, `Report` is one of its reads, and all else
  stutters.
* `RestoredIsIntact`, `RestoreAlwaysRecovers`: with `Restore`, the file may be an
  older one at any time, and what `HInv` says of readers and of times is false. What
  remains (`RestoreInv`) is that a backup was intact when it was made, and that what
  was lost descends from the file that was put back (`LineageOK`): its chain extends
  the older one and its revision is higher (`Newer`). That is a transitive relation (`NewerIsTransitive`) which each commit
  goes on along (`StepIsNewer`), so a delivery of what was lost meets each condition
  of `accept_governed_chain`, whose prefix check does not ask that roots in between
  be current.

**`ContainmentProofs`**: `TypeCorrect`, `EvidenceAlwaysFirst`,
`ContainedAtMostOnce`, `SpentRequestsNeverRelease`. `OwnerOK` says that of all
executions of a plan at most one is between making the preservation directory
and writing the control, that the directory is as far as that execution is, and
that the control is not yet written; `UntouchedOK`, that a case without a
directory has none. So the second execution fails at the directory, whether the
first has ended, died or is still at work. For releases, `SpentOK` says that
the number of controls when a release was checked is the position of the control
its request names, and below that of the release; `GateOK`, that the first is
true of every execution that has passed the check and not yet written. Since the
newest control never is an older one again, nobody passes the check with a request
that has released. `BatchOK` (a batch holds alerts that were raised) is needed for
types only.

**`FleetProofs`**: `TypeCorrect`, `OneChainAlways`, `AgentNeverAhead`,
`StateAlwaysFollows`. A heartbeat is judged by the collector's row and extends the
collector's table, so the two have to agree (`TablesOK`); an agent's saved state
is recorded and lags by at most one (`SavedOK`), because requests that are in
flight, replayed or verified are never numbered beyond its next heartbeat
(`NumberedOK`) and a receipt exists only for what is recorded (`ReceiptsOK`). The
hysteresis is a fold over a history without bound; instead of induction over it,
`DriftOK` names the last finding and counts from there.

**`AcquisitionProofs`**: `TypeCorrect`, `OneWorkerPerLease`,
`CompletionsTellOneStory`, `AtMostOneLateLease`, `OutcomesAreFinal`. On both
backends an owner is the last lessee (`OwnerOK`) and whoever executes a task has
leased it and signs for itself (`RunsOK`, `SignerOK`). On PostgreSQL a worker
between reading a row and committing holds its lock and the row is as it was
read (`LockOK`); hence attempts only grow (`AttemptOK`), what is done was done by
its last lessee (`FinalOK`), and one worker is about to record each completion
(`TrailOK`). The theorems about leases and outcomes have the backend in their
statement, as the properties do: on SQLite, `claim_task` reads before it locks.

**`PolicySyncProofs`**: `TypeCorrect`, `NeverRolledBack`, `NeverAStorm`. `WaitOK`
relates a job's wait to its failures in a row: quiet time and time left to wait
together are at least the back-off, to which jitter only adds.
`NeverRolledBack` needs that revisions begin at 1 (`MaxRevision` is positive:
the publisher has published when the scheduler begins).

**`AssuranceProofs`**, about the parts of `assurance`.

* `HoldTypeCorrect`, `OnlyHeldOnRecord`, `HoldsAlwaysSound`: a run works on the
  objects listed for its hold's case, holds them only when there is a row and no
  earlier release (`RunsOK`), and what it has marked stays held while its hold is
  not released (`MarkedOK`). The last is false when two holds are on one case, and
  so `HoldsAlwaysSound` assumes `OneHoldPerCase`; the run `legal_hold_shared`
  (finding 2) shows what happens without. `StaleHoldIsInert` and
  `OnlyHeldOnRecord` need no such assumption.

* `DecisionsNeverStale`: for any number of threads, if the file is there at the
  beginning or the worker has one thread. `GuardCache` says that the cached
  payload is never older than the cached signature of the file and that only
  the holder of the lock is about to replace it; `Fresh`, what each call may
  rely on, line by line of `_refresh` and `check`. The hypothesis is needed:
  without it the branch for a missing file, which takes no lock, empties the
  cache of a thread that has just filled it (TLC shows it with two threads).
* `ClosureAlwaysSound`: a ready case has each mandatory artifact bound to one
  undisputed acquisition of the bytes that are there, no consequence that was
  read is open, and every conclusion has enough approvals by others; and a
  dispute never helps. `ClosureInv` relates what a report was told to how much
  of a trace that only grows it had read (`ReconcilerOK`, `OpenOK`), and what
  the review gate said to reviews that only grow (`GateOK`). That disputes do
  not help is a lemma about `QualityOf` for every manifest (`UndisputedQuality`),
  since the best of several matches is taken after the disputed are dropped.
* `ReleasesAlwaysSound`: every asset of a release is one of a directory that its
  uploader built, of a package that passed its own checks (`Uploads`, `Genuine`),
  and each of the contents says whose it is, so that checksums that hold are of one
  build (`SumsTell`, `UploadsOfOneBuild`). As long as a run is alone, what it listed
  and has not yet deleted is all that can be in its way, and what it uploaded is
  there (`Replacing`); so a download has all it built (`Verifying`), and a directory
  verifies with its provenance as it did without (`ProvenanceApart`). That builds
  verify (`BuildVerifies`) needs that scripts which know a profile know what it
  needs, which `ReleaseAssumption` says: `required_v17_paths` is one list that
  each profile was added to, after those it needs.
* `PartsKeepPromises`: a behaviour of `MCAssurance` is one of each of its parts
  (`EachBegins`, `EachGoesOn`), so that the theorems that assume nothing hold of the
  composition, with the types of all five. `HoldsAlwaysSound` and
  `DecisionsNeverStale` have hypotheses, on the constants and on the beginning, and
  are not among them.

**`LogProofs`**

* `AttestationAlwaysSound`. Numbers are given once, so that an event is known by
  its number. As long as the log is linked, each run at work has counted up to
  the event it remembers, and so has the head (`PlaceOK`); whoever appends behind
  an older event than the last breaks the links for good. Orderly means one run at work at most,
  which remembers the last event (`OrderOK`). That a request has one outcome
  although an error of the log reaches the handler of the model's error:
  a run's current request has none as long as it is fresh, and requests only go
  up (`PastOK`).
* `CapturesAlwaysSound`. Who works in a directory made it, so that nobody else
  writes there (`DirectoriesOK`); what a capture has published is a beginning of
  its list of files, in order, and the receipt is the last (`ProgressOK`); a
  container that is gone does not come back and one that never ran has not
  (`ContainerOK`). `Discard` takes whole directories of captures that have ended.
* `ProofsAlwaysExact`, for histories of any length up to `MAX_ENTRIES`. The trees
  are recursive functions on `1..MAX_LEAVES`, so that there is a function of each
  kind (`RootsExist`, `PathExists`, ...) and what it is at n follows from what it
  is below; an induction over the size of a tree is one over a set of numbers
  (`TreeInduction`, from the least element of a set). `SameRoot`: trees of one size
  with one root have the same leaves. `InclusionSound` and `ConsistencySound` hold
  of any sequence that is given as a proof, not only of those the log makes:
  what is rebuilt on the way down can only be the roots of the subtrees, and the
  older tree is cut where the newer is as soon as it reaches into its right half
  (`SplitSame`). `InclusionComplete` and `ConsistencyComplete`: the proof that is
  made leads to the roots, and has no more nodes than `MAX_PROOF_NODES` allows,
  however large the tree (`SplitHalves`): an inclusion proof always leaves one to
  spare, a consistency proof none.
* `HistoriesAlwaysApart`. Whoever verifies a receipt has a head that extends its
  own (`VerifyGoesOn`, from `VerifiedIsPrefix`); a witness who signs was already
  counted, since it compares the root of the first entries with its own
  (`CosignCounted`, from `RootTellsPrefix`), and what a keeper retains next extends
  what it retained. So the set of witnesses who have signed a draft or still may only shrinks
  (`CountedShrinks`). It takes that the history without entries, of which no root
  is compared, was signed by every witness when the log was founded
  (`FoundedIsSigned`).

* `AcceptanceAlwaysExact`. What a policy finds depends only on which boundaries (of
  the policy, of the key, of the signature) are past (`SameSideSameDecision`).
  So any instant of the interval decides like the last boundary up to it, or like
  the interval's begin if there is none, and these are the instants that are tried
  (`TriedStandsForAll`). The invariant adds that a record is the decision of its
  policy when it was recorded, and that the true time lies in the interval of the
  stamp.

* `LineageAlwaysExact`, for every finite set of credentials, whatever hops connect
  them. The path of the search follows hops and meets nobody twice, and where its
  members lead is explored, or next on the path, or still left (`PathOK`); nothing
  leads out of what is explored, and every nonempty set in it has a member that
  delegates to none of the set (`ExploredOK`). A credential that is left leads only
  into what is explored, so a set that has it and a member of the explored has its
  witness there, and else is that credential alone (`ExploredGrows`). "Has a member
  that delegates to none of it" is what being acyclic means to a prover that has no
  induction: no length of a cycle occurs. That authority flows along the hops
  follows in the same way, from what is closed under the hops and under the edges of
  the record (`FlowFollowsHops`); a credential and a principal of one name are
  different nodes, and one that is missing from the evidence is a node all the same.

* `TelemetryAlwaysExact`, for any envelopes of finitely many items and any sequence
  of changes. Each entry of a valid import is bound to an item and its context, each
  item is bound once and there are as many entries as items; so entries and items
  correspond one to one, although entries may have been repeated, dropped or have
  exchanged their contexts (`ValidIsLaidOut`). What is derived is then what the
  items lead to, since the hash of a record is compared with that of a new one
  (`TracesAreReplayed`). A trace is refused for a circle when one can follow parents
  for more steps than there are spans with parents: two of these steps leave the same
  span, by counting (`LongWalksReturn`), and the span is then in every set that is
  closed under parents and that its own parent is in, which is how the property says
  that it is its own ancestor; conversely, whoever is its own ancestor is in a set of
  spans whose parents are in it again, where a walk never ends (`AncestorsStay`,
  `WalksExist`). Spans with identifiers and spans that are known by their hash are
  different nodes (`NamesApart`), hence as many as there are items (`BasesCounted`).

**`RecordsProofs`**

* `EvidenceAlwaysReadable`, `AnswersAlwaysRecorded`, `AnchorsAlwaysVerify`. The row
  of an object follows its file and evidence follows the row, also for the one
  request that upgrades while another ingests; nothing is ever taken back
  (`Grows`: rows, the two logs, what was answered and anchored), and so what a
  request had left by some stage (`RunOK`) is still there when it answers. What an
  anchor read is a beginning of an audit that only grows.
* `NotesAlwaysSound`. An author who was overtaken names a record that is not the
  last, and one who was not names the last (`PrevOK`); so the log is linked just as
  long as nobody wrote who had been overtaken. A line that was cut makes one that
  does not parse, for good.
* `PackagesAlwaysExact`, for any ledgers, profiles, files and exports. The files of
  the directory, of every export and of every inventory hold values of their kinds,
  and an inventory that lies beside files is a signed one (`Held`); an offline export
  that is about to sign or to write has metadata that holds (`Complete`). Three facts
  about the operators carry the rest. The verifier's rounds, which reach an artifact
  when all its parents were reached, reach all of them just if every set of artifacts
  has a member that was derived from no other of the set (`VisitedExact`): each round
  of a profile without circles reaches another one, so that as many rounds as
  artifacts are enough. Counts of identifiers, paths and rows are equal just if no
  two artifacts share one (`ImagesCounted`). And chains of one length and one head
  are one chain, back from the head, a hash being what it digests (`ChainsAgree`):
  so a ledger that verifies is the one that was kept.
* `AccountsAlwaysTrue`: the property of the run `records`. A behaviour of `MCRecords`
  is one of each of its parts (`PartsGoOn`), so that the theorems of the four parts
  give the theorem of the composition, for whatever part is at work.
  `LogsStaySound` is the same of the private log, `DecisionsStayExact` of timestamped
  decisions, `LineagesStayExact` of lineages, `TelemetryStaysExact` of telemetry and
  `PackagesStayExact` of packages.
* `ConclusionsAlwaysExact`: these four and the replays. That an output tells the
  truth (`TransformTrue`) is a lemma for each transformation, of any document. The
  limit on cells holds for the places of all tables, since the sum that the
  projection checks is at least their number (`CellsCounted`, by induction along the
  tables); a comparison finds another shape just if some path has other kinds, and no
  other counts in records of another order (`OrderKeepsOccurrences`, by the bijection
  of what occurs). Every output names its inputs, so that two jobs with one output had
  one dossier (`DerivedOnce`); with `ReplaysInv`, that a recorded file is an edited
  one or an output that was written, a replay passes just for what was written of the
  very files beside it.
* `TypesStayCorrect`: the type invariant of the run `records`, from those of the
  parts. Two are not inductive as they stand. That a log of notes has no more lines
  than may be begun needs that each line, and each author who is still to write,
  stands for a note of its own (`NotesFit`); that the search for a cycle stays among
  credentials needs what it has left on its path (`SearchTyped`, with `LineageInv`).

### Model-checked only

* All liveness (`AttestsUnlessOrphaned`, `EventuallyDone`, `CatchesUp`,
  `EveryAlertHandled`): fairness and `ENABLED` are out of the prover's reach.
* The runs that expect a violation, each of which shows a finding.

Every invariant and every action property of the passing runs is a theorem.

## 5. Not modelled

The table in section 1 and the notes in `PROJECT.json` give the reason for each
part; most of what is left is one function of one document, where a state space
adds nothing to a test. In the modelled components these are left out:

* *Policy store*: signing of quorum packages before they circulate.
* *Fleet*: what a heartbeat measures beyond its severest finding, the STALE view.
* *Holds*: evidence that is ingested after a hold listed a case's items, which it
  does not reach; retention dates, encryption and reading of objects, and a metadata
  file torn by a crash of the local store.
* *Containment*: plan approvals, the modes dry-run and approval, the audit log;
  the failover precheck, which is one-shot. A
  repeated execution overwrites the case's result, and the approval is checked
  against the plan file read again.
* *Repository*: encryption, creation and assignment of cases, requests that only
  read, the checkpoint command beyond the head it signs.
* *Private log*: validity of signatures, changes of the trust document. That a
  keeper retains the head of every receipt it accepts is up to the keeper.
* *Time stamps*: OpenSSL's verification, the tolerance for clocks in the future.
* *Attestation*: measurements of hooks; a verifier that reads while a line is
  being written sees an invalid log.
* *Captures*: what responses and pages say. A `docker create` that times out may
  reach the daemon after the removal, which one ordered daemon excludes. A
  capture may still raise after its report is whole, and a rendering whose pages
  fail validation later reports like one that failed.
* *Lineage*: audiences, issuers and times, digests, references to evidence.
* *Releases*: versions before 1.7, licenses, SBOM, the archives' members, modes
  and names, the upload bundle; the content of the provenance, which the verifier
  does not judge either, so that it may be of another run than the assets.
* *Telemetry*: attribute decoding, sizes, times, versions; validation of finished
  bundles and reports, which is by hash.
* *Case closure*: the other reports that may block a closure are one; what
  `case_model.py` derives for display; times and attribution of an acquisition.
* *Derived evidence*: limits on bytes, depth and names, formats of times, endpoints
  and headers; canonical JSON; time lines, comparisons that were recorded, and
  events of providers; qualities that never satisfy, and all but three others.
* *Notes*: texts, times, signatures.
* *Packages*: references among AI, tool and decision records of a profile, limits
  of size, count and compression, which verification has and export has not,
  names of members, key policies and time stamps given to an export, and the
  older verification command. A file is read whole.

## 6. Plan

Done: the modules of section 2 and the proofs of section 4, in which every safety
property of the runs is a theorem. What is left is to model more.

Of the programs that are left, the task rules of `v18_a2a_forensics.py` and the
references of AI and tool records in `v17_provenance.py` would be next to model.

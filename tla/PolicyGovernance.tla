-------------------------- MODULE PolicyGovernance --------------------------
(***************************************************************************)
(* The verifier-owned policy store (v17_policy_distribution.py, plain      *)
(* stores; v17_policy_governance.py, stores governed by a rotation chain;  *)
(* v17_policy_quorum.py, co-signatures).  Any number of processes update   *)
(* one SQLite file and any number of case verifiers read it; any of them   *)
(* may be killed between two steps.                                        *)
(*                                                                         *)
(* A SHA-256 digest of an object is modelled by the object (no collisions) *)
(* and a signature that verifies by the key that made it.  Callers present *)
(* any document of Envelopes and Rotations, in any order and repeatedly.   *)
(* BEGIN IMMEDIATE admits one writer at a time, so one uncommitted image   *)
(* is all that writers keep; a caller that waits for the lock holds only   *)
(* its (immutable) arguments, which are therefore chosen when it gets it.  *)
(***************************************************************************)
EXTENDS Naturals, Sequences, FiniteSets

CONSTANTS
  Key,            \* Ed25519 keys, of policy issuers and of checkpoint signers
  Scope,          \* (tenant_id, policy_id) pairs
  Reader,         \* processes that load the policy to verify a case
  Trusts,         \* issuer trust documents that callers of plain stores have
  Anchor,         \* the independently approved starting root
  Envelopes,      \* signed policies in circulation
  Rotations,      \* signed root rotations in circulation
  NoTrust, NoRotation, NoEnvelope, \* None in the code
  MaxRotations,   \* MAX_ROTATIONS
  MaxTime         \* bound of the clock

VARIABLES
  now,        \* system UTC clock
  store,      \* the committed content of the store file
  stage,      \* progress of the one process that creates or writes the file
  request,    \* what that process was asked to do
  image,      \* its uncommitted pages
  snapshot,   \* what each reader has read and not yet reported on
  view,       \* what each reader was told last
  committed   \* history: every entry ever committed

vars == <<now, store, stage, request, image, snapshot, view, committed>>

-----------------------------------------------------------------------------
(* Documents that pass the structural validation of the code.              *)

Trust == {t \in [profile : {"single", "quorum"}, scope : Scope,
                 threshold : Nat, keys : SUBSET Key] :
             t.profile = "quorum" => t.threshold \in 1..Cardinality(t.keys)}

Root == {r \in [version : Nat \ {0}, issued : Nat, expires : Nat, trust : Trust] :
            r.issued < r.expires /\ r.trust.profile = "quorum"}

Policy == {p \in [scope : Scope, revision : Nat \ {0}, issued : Nat,
                  expires : Nat, keys : SUBSET Key] : p.issued < p.expires}

(* boundTo is the trust whose digest the co-signers bound, or NoTrust in a  *)
(* single-issuer package; forged tells of a signature that does not verify. *)
Envelope == {e \in [boundTo : Trust \cup {NoTrust}, policy : Policy,
                     signers : SUBSET Key, forged : BOOLEAN] :
                /\ e.signers # {} /\ e.signers \cap e.policy.keys = {}
                /\ e.boundTo = NoTrust => Cardinality(e.signers) = 1}

Rotation == [predecessor : Root, root : Root, previous : SUBSET Key,
             replacement : SUBSET Key, forged : BOOLEAN]

ASSUME DocumentsAssumption ==
  /\ Anchor \in Root
  /\ Trusts \subseteq Trust
  /\ Envelopes \subseteq Envelope
  /\ Rotations \subseteq Rotation

ASSUME SentinelsAssumption ==
  /\ NoTrust \notin Trust
  /\ NoRotation \notin Rotation
  /\ NoEnvelope \notin Envelope

ASSUME BoundsAssumption == MaxRotations \in Nat /\ MaxTime \in Nat

-----------------------------------------------------------------------------
(* Verification of documents.                                              *)

Current(doc) == doc.issued <= now /\ now < doc.expires

QuorumSigned(e, t) ==
  /\ t.profile = "quorum"
  /\ e.boundTo = t
  /\ e.policy.scope = t.scope
  /\ e.policy.keys \cap t.keys = {}
  /\ ~e.forged /\ e.signers \subseteq t.keys
  /\ Cardinality(e.signers) >= t.threshold

SingleSigned(e, t) ==
  /\ t.profile = "single"
  /\ e.boundTo = NoTrust
  /\ e.policy.scope = t.scope
  /\ ~e.forged /\ e.signers \subseteq t.keys

Authenticates(e, t) ==
  /\ IF e.boundTo = NoTrust THEN SingleSigned(e, t) ELSE QuorumSigned(e, t)
  /\ Current(e.policy)

Continues(previous, r) ==
  /\ r.predecessor = previous
  /\ r.root.version = previous.version + 1
  /\ r.root.trust.scope = previous.trust.scope
  /\ r.root.issued >= previous.issued

ApprovedByBoth(previous, r) ==
  /\ ~r.forged
  /\ r.previous \subseteq previous.trust.keys
  /\ r.replacement \subseteq r.root.trust.keys
  /\ Cardinality(r.previous) >= previous.trust.threshold
  /\ Cardinality(r.replacement) >= r.root.trust.threshold

ValidRotation(previous, r) == Continues(previous, r) /\ ApprovedByBoth(previous, r)

RootAfter(chain, i) == IF i = 0 THEN Anchor ELSE chain[i].root
ActiveRoot(chain) == RootAfter(chain, Len(chain))

ValidChain(chain) ==
  /\ Len(chain) <= MaxRotations
  /\ \A i \in 1..Len(chain) : ValidRotation(RootAfter(chain, i - 1), chain[i])

(* Mutant: a delivery has to bring a rotation.                             *)
ExtendsStrictly(chain, kept) ==
  /\ Len(chain) > Len(kept)
  /\ \A i \in 1..Len(kept) : chain[i] = kept[i]

(* chain retains every rotation of kept, in place.                         *)
Extends(chain, kept) ==
  /\ Len(chain) >= Len(kept)
  /\ \A i \in 1..Len(kept) : chain[i] = kept[i]

-----------------------------------------------------------------------------
(* The store file: one policy row and, when governed, one governance row.  *)

Formats == {"absent", "empty", "plain", "governed"}
Store == [format : Formats, envelope : Envelope \cup {NoEnvelope},
          chain : Seq(Rotation), acceptedAt : Nat, rootAcceptedAt : Nat]

NoRows(format) == [format |-> format, envelope |-> NoEnvelope, chain |-> <<>>,
                   acceptedAt |-> 0, rootAcceptedAt |-> 0]
Absent == NoRows("absent")
Empty == NoRows("empty")
Live(s) == s.format \in {"plain", "governed"}

(* What every transaction and every reader demands of what it has read.     *)
Intact(s) ==
  s.format = "governed" =>
    /\ ValidChain(s.chain)
    /\ QuorumSigned(s.envelope, ActiveRoot(s.chain).trust)

Revision(s) == s.envelope.policy.revision

Request == [format : {"plain", "governed"}, envelope : Envelope,
            trust : Trust, chain : Seq(Rotation)]
NoRequest == [format |-> "absent"]

(* The register entry that a store stands for.                              *)
EntryOf(s) ==
  [revision |-> IF Live(s) THEN Revision(s) ELSE 0,
   version  |-> IF s.format = "governed" THEN ActiveRoot(s.chain).version ELSE 0,
   content  |-> <<s.envelope, s.chain>>]

TypeOK ==
  /\ now \in 0..MaxTime
  /\ store \in Store
  /\ Live(store) => store.envelope \in Envelope
  /\ stage \in {"idle", "created", "policyWritten", "written"}
  /\ request \in Request \cup {NoRequest}
  /\ stage = "created" => store = Empty
  /\ image \in Store
  /\ snapshot \in [Reader -> Store]
  /\ DOMAIN view = Reader

-----------------------------------------------------------------------------
Init ==
  /\ now = 0
  /\ store = Absent
  /\ stage = "idle"
  /\ request = NoRequest
  /\ image = Absent
  /\ snapshot = [r \in Reader |-> Absent]
  /\ view = [r \in Reader |-> EntryOf(Absent)]
  /\ committed = {}

Tick ==
  /\ now < MaxTime
  /\ now' = now + 1
  /\ UNCHANGED <<store, stage, request, image, snapshot, view, committed>>

(* Mutant: the path is not reserved before the lock is taken.               *)
CreateNoFile(format, e, t) ==
  /\ stage = "idle" /\ store.format = "absent"
  /\ format = "governed" => t = Anchor.trust /\ Current(Anchor)
  /\ Authenticates(e, t)
  /\ stage' = "created"
  /\ request' = [format |-> format, envelope |-> e, trust |-> t, chain |-> <<>>]
  /\ UNCHANGED <<now, store, image, snapshot, view, committed>>

(* initialize=True, before the lock: the package is authenticated and the   *)
(* file is created, which fails when the path exists.                       *)
CreateStore(format, e, t) ==
  /\ stage = "idle"
  /\ format = "governed" => t = Anchor.trust /\ Current(Anchor)
  /\ Authenticates(e, t)
  /\ store.format = "absent"
  /\ store' = Empty
  /\ stage' = "created"
  /\ request' = [format |-> format, envelope |-> e, trust |-> t, chain |-> <<>>]
  /\ UNCHANGED <<now, image, snapshot, view, committed>>

(* Mutant: expiry is not checked again under the lock.                      *)
FillUnchecked ==
  /\ stage = "created"
  /\ image' = [format |-> request.format, envelope |-> request.envelope,
               chain |-> <<>>, acceptedAt |-> now,
               rootAcceptedAt |-> IF request.format = "governed" THEN now ELSE 0]
  /\ stage' = "written"
  /\ UNCHANGED <<now, store, request, snapshot, view, committed>>

(* Under the lock everything that depends on the clock is checked again.    *)
FillStore ==
  /\ stage = "created"
  /\ Authenticates(request.envelope, request.trust)
  /\ request.format = "governed" => Current(Anchor)
  /\ image' = [format |-> request.format, envelope |-> request.envelope,
               chain |-> <<>>, acceptedAt |-> now,
               rootAcceptedAt |-> IF request.format = "governed" THEN now ELSE 0]
  /\ stage' = "written"
  /\ UNCHANGED <<now, store, request, snapshot, view, committed>>

(* accept_policy_update on a plain store.                                   *)
UpdatePlain(e, t) ==
  /\ stage = "idle"
  /\ Authenticates(e, t)
  /\ store.format = "plain"
  /\ e.policy.scope = store.envelope.policy.scope
  /\ e.policy.revision > Revision(store)
  /\ image' = [store EXCEPT !.envelope = e, !.acceptedAt = now]
  /\ stage' = "written"
  /\ UNCHANGED <<now, store, request, snapshot, view, committed>>

(* Mutant: migration records a new acceptance of the policy.                *)
MigrateRestamps ==
  /\ stage = "idle" /\ store.format = "plain"
  /\ Authenticates(store.envelope, Anchor.trust) /\ Current(Anchor)
  /\ image' = [store EXCEPT !.format = "governed", !.acceptedAt = now, !.rootAcceptedAt = now]
  /\ stage' = "written"
  /\ UNCHANGED <<now, store, request, snapshot, view, committed>>

(* migrate_governed_store: the stored policy stays, with its acceptance.    *)
Migrate ==
  /\ stage = "idle"
  /\ store.format = "plain"
  /\ Authenticates(store.envelope, Anchor.trust)
  /\ Current(Anchor)
  /\ image' = [store EXCEPT !.format = "governed", !.chain = <<>>, !.rootAcceptedAt = now]
  /\ stage' = "written"
  /\ UNCHANGED <<now, store, request, snapshot, view, committed>>

(* Mutant: a repeated rotation is taken for a new one.                      *)
IsRetryNever(r) == FALSE

(* A rotation that is the last one retained is a retry of it.               *)
IsRetry(r) ==
  r # NoRotation /\ store.chain # <<>> /\ r = store.chain[Len(store.chain)]

ChainWith(r) ==
  IF r = NoRotation \/ IsRetry(r) THEN store.chain ELSE Append(store.chain, r)

(* The answer accept_governed_update gives to a policy and a rotation.      *)
UpdateAnswer(e, r) ==
  LET chain == ChainWith(r)
      root  == ActiveRoot(chain)
      acceptable ==
        /\ store.format = "governed" /\ Intact(store)
        /\ r = NoRotation \/ IsRetry(r) \/ ValidRotation(ActiveRoot(store.chain), r)
        /\ Authenticates(e, root.trust)
        /\ Current(root)
  IN  IF acceptable /\ e.policy.revision > Revision(store) /\ ~IsRetry(r)
        THEN "ACCEPTED"
      ELSE IF acceptable /\ e = store.envelope /\ chain = store.chain
        THEN "UNCHANGED"
      ELSE "REJECTED"

(* The answer accept_governed_chain gives to a policy and a whole chain.    *)
DeliveryAnswer(e, chain) ==
  LET acceptable ==
        /\ ValidChain(chain)
        /\ store.format = "governed" /\ Intact(store)
        /\ Extends(chain, store.chain)
        /\ Authenticates(e, ActiveRoot(chain).trust)
        /\ Current(ActiveRoot(chain))
  IN  IF acceptable /\ e.policy.revision > Revision(store)
        THEN "ACCEPTED"
      ELSE IF acceptable /\ e = store.envelope /\ chain = store.chain
        THEN "UNCHANGED"
      ELSE "REJECTED"

(* Mutant: the governance row is never written.                             *)
WritePolicyOnly(e, chain) ==
  /\ image' = [store EXCEPT !.envelope = e, !.acceptedAt = now]
  /\ request' = [format |-> "governed", envelope |-> e,
                 trust |-> ActiveRoot(chain).trust, chain |-> chain]
  /\ stage' = "written"
  /\ UNCHANGED <<now, store, snapshot, view, committed>>

(* The policy row is written first; the governance row only if the chain    *)
(* has grown.                                                               *)
WritePolicy(e, chain) ==
  /\ image' = [store EXCEPT !.envelope = e, !.acceptedAt = now]
  /\ request' = [format |-> "governed", envelope |-> e,
                 trust |-> ActiveRoot(chain).trust, chain |-> chain]
  /\ stage' = IF chain = store.chain THEN "written" ELSE "policyWritten"
  /\ UNCHANGED <<now, store, snapshot, view, committed>>

UpdateGoverned(e, r) ==
  /\ stage = "idle"
  /\ UpdateAnswer(e, r) = "ACCEPTED"
  /\ WritePolicy(e, ChainWith(r))

DeliverChain(e, chain) ==
  /\ stage = "idle"
  /\ DeliveryAnswer(e, chain) = "ACCEPTED"
  /\ WritePolicy(e, chain)

(* Mutant: the row holds only the newest rotation.                          *)
WriteLastRotation ==
  /\ stage = "policyWritten"
  /\ image' = [image EXCEPT !.chain = <<request.chain[Len(request.chain)]>>,
                            !.rootAcceptedAt = image.acceptedAt]
  /\ stage' = "written"
  /\ UNCHANGED <<now, store, request, snapshot, view, committed>>

(* The chain limit is enforced here, after the policy row was written.      *)
WriteRoot ==
  /\ stage = "policyWritten"
  /\ Len(request.chain) <= MaxRotations
  /\ image' = [image EXCEPT !.chain = request.chain, !.rootAcceptedAt = image.acceptedAt]
  /\ stage' = "written"
  /\ UNCHANGED <<now, store, request, snapshot, view, committed>>

EndTransaction ==
  /\ stage' = "idle"
  /\ request' = NoRequest
  /\ image' = Absent
  /\ UNCHANGED <<now, snapshot, view>>

Commit ==
  /\ stage = "written"
  /\ store' = image
  /\ committed' = committed \cup {EntryOf(image)}
  /\ EndTransaction

(* An exception after the file was created or the lock was taken (expiry    *)
(* seen by the recheck, chain limit, SQLite error, lock timeout): the       *)
(* transaction rolls back and a file this call created is unlinked.         *)
Fail ==
  /\ stage # "idle"
  /\ store' = IF store.format = "empty" THEN Absent ELSE store
  /\ UNCHANGED committed
  /\ EndTransaction

(* The process is killed: SQLite rolls back, nothing is unlinked.           *)
Crash ==
  /\ stage # "idle"
  /\ UNCHANGED <<store, committed>>
  /\ EndTransaction

(* The file left by a killed initialization is cleared by an operator.      *)
ClearLeftover ==
  /\ stage = "idle"
  /\ store.format = "empty"
  /\ store' = Absent
  /\ UNCHANGED <<now, stage, request, image, snapshot, view, committed>>

(* A reader takes one snapshot, closes the store, and only then checks what *)
(* it has read against the clock.                                           *)
ReadState(r) ==
  /\ Live(store) /\ Intact(store)
  /\ snapshot' = [snapshot EXCEPT ![r] = store]
  /\ UNCHANGED <<now, store, stage, request, image, view, committed>>

(* Mutant: policy and chain are read in two transactions.                   *)
ReportTwoReads(r) ==
  /\ snapshot[r].format = "governed"
  /\ Authenticates(snapshot[r].envelope, ActiveRoot(snapshot[r].chain).trust)
  /\ view' = [view EXCEPT ![r] = EntryOf([snapshot[r] EXCEPT !.chain = store.chain])]
  /\ snapshot' = [snapshot EXCEPT ![r] = Absent]
  /\ UNCHANGED <<now, store, stage, request, image, committed>>

Report(r) ==
  /\ \/ /\ snapshot[r].format = "plain"
        /\ \E t \in Trusts : Authenticates(snapshot[r].envelope, t)
     \/ /\ snapshot[r].format = "governed"
        /\ Authenticates(snapshot[r].envelope, ActiveRoot(snapshot[r].chain).trust)
        /\ Current(ActiveRoot(snapshot[r].chain))
  /\ view' = [view EXCEPT ![r] = EntryOf(snapshot[r])]
  /\ snapshot' = [snapshot EXCEPT ![r] = Absent]
  /\ UNCHANGED <<now, store, stage, request, image, committed>>

(* A chain that does not verify is answered REJECTED before the store is    *)
(* opened, so only the others are enumerated.                               *)
Chains == UNION {[1..n -> Rotations] : n \in 0..MaxRotations}
ValidChains == {chain \in Chains : ValidChain(chain)}

Next ==
  \/ Tick
  \/ \E f \in {"plain", "governed"}, e \in Envelopes, t \in Trusts : CreateStore(f, e, t)
  \/ FillStore
  \/ \E e \in Envelopes, t \in Trusts : UpdatePlain(e, t)
  \/ Migrate
  \/ \E e \in Envelopes, r \in Rotations \cup {NoRotation} : UpdateGoverned(e, r)
  \/ \E e \in Envelopes, chain \in ValidChains : DeliverChain(e, chain)
  \/ WriteRoot
  \/ Commit
  \/ Fail
  \/ Crash
  \/ ClearLeftover
  \/ \E r \in Reader : ReadState(r) \/ Report(r)

Spec == Init /\ [][Next]_vars

-----------------------------------------------------------------------------
(* Properties.                                                             *)

(* What is committed is what the code agrees to read again: every rotation  *)
(* continues the one before it with the approval of both quorums, and the   *)
(* policy was co-signed by a quorum of the very root the chain ends in -    *)
(* never a new policy beside an old root, whatever step a writer dies at.   *)
StoreIntact == Live(store) => Intact(store)

LastActivation(s) ==
  IF s.acceptedAt >= s.rootAcceptedAt THEN s.acceptedAt ELSE s.rootAcceptedAt

(* A policy and a root come into force only within their validity, however  *)
(* long the caller waited for the lock: the recorded times of acceptance    *)
(* lie within it, and so does the last activation in the root's, also when  *)
(* only the policy was replaced.                                            *)
AcceptedWhileCurrent ==
  Live(store) =>
    LET policy == store.envelope.policy
        root   == ActiveRoot(store.chain)
    IN  /\ store.acceptedAt >= policy.issued /\ store.acceptedAt < policy.expires
        /\ store.format = "governed" =>
             /\ store.rootAcceptedAt >= root.issued
             /\ LastActivation(store) < root.expires

(* A caller that lost the answer to an update may repeat it: as long as     *)
(* nothing newer was accepted and nothing expired, the policy in force is   *)
(* answered UNCHANGED alone, with the rotation it came with, and as the     *)
(* delivery of the whole retained chain.                                    *)
RetryUnchanged ==
  (/\ store.format = "governed"
   /\ Current(store.envelope.policy) /\ Current(ActiveRoot(store.chain))) =>
     /\ UpdateAnswer(store.envelope, NoRotation) = "UNCHANGED"
     /\ store.chain # <<>> =>
          UpdateAnswer(store.envelope, store.chain[Len(store.chain)]) = "UNCHANGED"
     /\ DeliveryAnswer(store.envelope, store.chain) = "UNCHANGED"

(* No operation takes back an accepted rotation, replaces one by another    *)
(* successor of the same root, or returns a governed store to a plain one;  *)
(* and governance is never dropped with the file.                           *)
ChainOnlyGrows ==
  [][store.format = "governed" =>
       /\ store'.format = "governed"
       /\ Len(store'.chain) >= Len(store.chain)
       /\ SubSeq(store'.chain, 1, Len(store.chain)) = store.chain]_store

(* Migration keeps the accepted policy and the time it was accepted at.     *)
MigrationKeepsPolicy ==
  [][store.format = "plain" /\ store'.format = "governed" =>
       /\ store'.envelope = store.envelope
       /\ store'.acceptedAt = store.acceptedAt]_store

(* The store implements the register: revisions and root versions only go   *)
(* up, one revision never stands for two contents, and readers are given    *)
(* whole accepted entries in order.                                         *)
Register ==
  INSTANCE PolicyRegister WITH
    Content   <- (Envelope \cup {NoEnvelope}) \X Seq(Rotation),
    NoContent <- EntryOf(Absent).content,
    register  <- EntryOf(store),
    accepted  <- committed,
    seen      <- view

ImplementsRegister == Register!RegisterSpec
=============================================================================

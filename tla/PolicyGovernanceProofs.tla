----------------------- MODULE PolicyGovernanceProofs -----------------------
(***************************************************************************)
(* Theorems about the governed policy store, for every set of documents,   *)
(* keys and readers, every rotation limit and every clock bound.           *)
(***************************************************************************)
EXTENDS PolicyRestore, SequenceTheorems, WellFoundedInduction, TLAPS

USE DEF Live, Formats, NoRows

(* The links of a chain are valid, whatever its length: the chain limit is  *)
(* only enforced once the policy row has been written.                      *)
Linked(chain) ==
  \A i \in 1..Len(chain) : ValidRotation(RootAfter(chain, i - 1), chain[i])

CreatedOK == stage = "created" =>
  request \in Request /\ (request.format = "governed" => request.trust = Anchor.trust)

PolicyWrittenOK == stage = "policyWritten" =>
  /\ request \in Request
  /\ store.format = "governed" /\ image.format = "governed"
  /\ image.envelope = request.envelope
  /\ Linked(request.chain)
  /\ Extends(request.chain, store.chain)
  /\ QuorumSigned(request.envelope, ActiveRoot(request.chain).trust)

WrittenOK == stage = "written" =>
  /\ Live(image) /\ Intact(image)
  /\ image.envelope \in Envelope
  /\ store.format = "governed" => image.format = "governed" /\ Extends(image.chain, store.chain)

(* Why a commit is safe: what a writer still has to write completes a store *)
(* that is intact and extends the committed one.                            *)
IInv == TypeOK /\ StoreIntact /\ CreatedOK /\ PolicyWrittenOK /\ WrittenOK

-----------------------------------------------------------------------------
LEMMA ChainsAreSequences == Chains \subseteq Seq(Rotation)
<1> SUFFICES ASSUME NEW n \in Nat, NEW chain \in [1..n -> Rotations]
             PROVE  chain \in Seq(Rotation)
  BY BoundsAssumption DEF Chains
<1> QED
  BY DocumentsAssumption

LEMMA ActiveRootIsRoot ==
  ASSUME NEW chain \in Seq(Rotation)
  PROVE  ActiveRoot(chain) \in Root
<1>1. CASE Len(chain) = 0
  BY <1>1, DocumentsAssumption DEF ActiveRoot, RootAfter
<1>2. CASE Len(chain) # 0
  <2>1. Len(chain) \in 1..Len(chain)
    BY <1>2, LenProperties
  <2>2. chain[Len(chain)] \in Rotation
    BY <2>1, ElementOfSeq
  <2> QED
    BY <1>2, <2>2 DEF ActiveRoot, RootAfter, Rotation
<1> QED
  BY <1>1, <1>2

LEMMA TrustOfRoot ==
  ASSUME NEW root \in Root
  PROVE  root.trust \in Trust
BY DEF Root

(* A valid rotation appended to linked rotations leaves them linked.        *)
LEMMA AppendLinks ==
  ASSUME NEW chain \in Seq(Rotation), NEW r \in Rotation,
         Linked(chain), ValidRotation(ActiveRoot(chain), r)
  PROVE  /\ Append(chain, r) \in Seq(Rotation)
         /\ Linked(Append(chain, r))
         /\ Extends(Append(chain, r), chain)
<1> DEFINE longer == Append(chain, r)
<1>1. /\ longer \in Seq(Rotation)
      /\ Len(longer) = Len(chain) + 1
      /\ \A i \in 1..Len(chain) : longer[i] = chain[i]
      /\ longer[Len(chain) + 1] = r
      /\ Len(chain) \in Nat
  BY AppendProperties, LenProperties
<1> HIDE DEF longer
<1>2. ASSUME NEW i \in 1..Len(longer)
      PROVE  ValidRotation(RootAfter(longer, i - 1), longer[i])
  <2>1. CASE i <= Len(chain)
    <3>1. RootAfter(longer, i - 1) = RootAfter(chain, i - 1)
      BY <1>1, <2>1 DEF RootAfter
    <3>2. longer[i] = chain[i] /\ i \in 1..Len(chain)
      BY <1>1, <2>1
    <3> QED
      BY <3>1, <3>2 DEF Linked
  <2>2. CASE i = Len(chain) + 1
    <3>1. RootAfter(longer, i - 1) = ActiveRoot(chain)
      BY <1>1, <2>2 DEF RootAfter, ActiveRoot
    <3> QED
      BY <1>1, <2>2, <3>1
  <2> QED
    BY <1>1, <2>1, <2>2
<1>3. Extends(longer, chain)
  BY <1>1 DEF Extends
<1> QED
  BY <1>1, <1>2, <1>3 DEF Linked, longer

LEMMA ExtendsItself ==
  ASSUME NEW chain \in Seq(Rotation)
  PROVE  Extends(chain, chain)
BY LenProperties DEF Extends

-----------------------------------------------------------------------------
(* The steps, one lemma each.                                               *)

LEMMA InitHolds == Init => IInv
<1> SUFFICES ASSUME Init PROVE IInv
  OBVIOUS
<1>1. Absent \in Store
  BY DEF Absent, Store
<1>2. TypeOK
  BY <1>1, BoundsAssumption DEF Init, TypeOK, Absent
<1> QED
  BY <1>2 DEF Init, IInv, StoreIntact, CreatedOK, PolicyWrittenOK, WrittenOK, Absent

LEMMA CreateStoreHolds ==
  ASSUME IInv, NEW f \in {"plain", "governed"}, NEW e \in Envelopes, NEW t \in Trusts,
         CreateStore(f, e, t)
  PROVE  IInv'
<1>1. request' \in Request
  BY DocumentsAssumption DEF CreateStore, Request
<1>2. Empty \in Store
  BY DEF Empty, Absent, Store
<1>3. TypeOK'
  BY <1>1, <1>2 DEF IInv, TypeOK, CreateStore, Empty, Absent
<1>4. StoreIntact'
  BY DEF CreateStore, StoreIntact, Empty, Absent
<1>5. CreatedOK' /\ PolicyWrittenOK' /\ WrittenOK'
  BY <1>1 DEF CreateStore, CreatedOK, PolicyWrittenOK, WrittenOK
<1> QED
  BY <1>3, <1>4, <1>5 DEF IInv

LEMMA FillStoreHolds ==
  ASSUME IInv, FillStore
  PROVE  IInv'
<1> USE DEF IInv, FillStore
<1>1. /\ request \in Request
      /\ request.envelope \in Envelope
      /\ request.format = "governed" => request.trust = Anchor.trust
  BY DEF CreatedOK, Request
<1>2. image' \in Store
  BY <1>1, BoundsAssumption DEF TypeOK, Store, Request
<1>3. TypeOK'
  BY <1>2 DEF TypeOK
<1>4. ASSUME request.format = "governed"
      PROVE  QuorumSigned(image'.envelope, ActiveRoot(image'.chain).trust)
  <2>1. ActiveRoot(image'.chain) = Anchor
    BY DEF ActiveRoot, RootAfter
  <2>2. Anchor.trust.profile = "quorum"
    BY DocumentsAssumption DEF Root
  <2>3. request.trust = Anchor.trust
    BY <1>1, <1>4
  <2>4. request.envelope.boundTo # NoTrust
    BY <2>2, <2>3 DEF Authenticates, SingleSigned
  <2> QED
    BY <2>1, <2>3, <2>4 DEF Authenticates
<1>5. Intact(image')
  <2>1. ValidChain(<<>>)
    BY BoundsAssumption DEF ValidChain
  <2> QED
    BY <1>4, <2>1 DEF Intact
<1>6. StoreIntact'
  BY DEF StoreIntact, Intact
<1>7. store.format = "empty"
  BY DEF TypeOK, Empty, Absent
<1>8. WrittenOK'
  BY <1>1, <1>5, <1>7 DEF WrittenOK, Request
<1> QED
  BY <1>3, <1>6, <1>8 DEF CreatedOK, PolicyWrittenOK

LEMMA UpdatePlainHolds ==
  ASSUME IInv, NEW e \in Envelopes, NEW t \in Trusts, UpdatePlain(e, t)
  PROVE  IInv'
<1> USE DEF IInv, UpdatePlain
<1>0. e \in Envelope /\ now \in Nat /\ store \in Store
  BY DocumentsAssumption, BoundsAssumption DEF TypeOK
<1>1. image' \in Store /\ image'.format = "plain" /\ image'.envelope = e
  BY <1>0 DEF Store
<1>2. TypeOK'
  BY <1>1 DEF TypeOK
<1>3. StoreIntact' /\ WrittenOK'
  BY <1>0, <1>1 DEF StoreIntact, WrittenOK, Intact
<1> QED
  BY <1>2, <1>3 DEF CreatedOK, PolicyWrittenOK

LEMMA MigrateHolds ==
  ASSUME IInv, Migrate
  PROVE  IInv'
<1> USE DEF IInv, Migrate
<1>0. now \in Nat /\ store \in Store
  BY BoundsAssumption DEF TypeOK
<1>1. /\ image' \in Store /\ image'.format = "governed"
      /\ image'.envelope = store.envelope /\ image'.chain = <<>>
  <2>1. image' = [format |-> "governed", envelope |-> store.envelope, chain |-> <<>>,
                  acceptedAt |-> store.acceptedAt, rootAcceptedAt |-> now]
    BY <1>0 DEF Store
  <2>2. /\ store.envelope \in Envelope \cup {NoEnvelope}
        /\ store.acceptedAt \in Nat
        /\ <<>> \in Seq(Rotation)
    BY <1>0, EmptySeq DEF Store
  <2> HIDE DEF Migrate
  <2> QED
    BY <1>0, <2>1, <2>2 DEF Store
<1>2. TypeOK'
  BY <1>1 DEF TypeOK
<1>3. ActiveRoot(<<>>) = Anchor /\ ValidChain(<<>>)
  BY BoundsAssumption DEF ActiveRoot, RootAfter, ValidChain
<1>4. QuorumSigned(store.envelope, Anchor.trust)
  BY DocumentsAssumption DEF Authenticates, SingleSigned, Root
<1>5. StoreIntact' /\ WrittenOK'
  BY <1>1, <1>3, <1>4 DEF StoreIntact, WrittenOK, Intact, TypeOK
<1> QED
  BY <1>2, <1>5 DEF CreatedOK, PolicyWrittenOK

(* Both kinds of governed update stage the same thing.                      *)
LEMMA WritePolicyHolds ==
  ASSUME IInv, stage = "idle", store.format = "governed",
         NEW e \in Envelopes, NEW chain \in Seq(Rotation),
         WritePolicy(e, chain), Linked(chain), Extends(chain, store.chain),
         Authenticates(e, ActiveRoot(chain).trust)
  PROVE  IInv'
<1> USE DEF IInv, WritePolicy
<1>0. e \in Envelope /\ now \in Nat /\ store \in Store
  BY DocumentsAssumption, BoundsAssumption DEF TypeOK
<1>1. /\ image' \in Store /\ image'.format = "governed"
      /\ image'.envelope = e /\ image'.chain = store.chain
  BY <1>0 DEF Store
<1>2. ActiveRoot(chain).trust \in Trust /\ ActiveRoot(chain).trust.profile = "quorum"
  BY ActiveRootIsRoot, TrustOfRoot DEF Root
<1>3. request' \in Request /\ request'.envelope = e /\ request'.chain = chain
  BY <1>0, <1>2 DEF Request
<1>4. QuorumSigned(e, ActiveRoot(chain).trust)
  BY <1>2 DEF Authenticates, SingleSigned
<1>5. TypeOK'
  BY <1>1, <1>3 DEF TypeOK
<1>6. StoreIntact' /\ CreatedOK'
  BY DEF StoreIntact, CreatedOK
<1>7. PolicyWrittenOK'
  BY <1>0, <1>1, <1>3, <1>4 DEF PolicyWrittenOK
<1>8. ASSUME chain = store.chain
      PROVE  Intact(image') /\ Extends(image'.chain, store.chain)
  <2>1. ValidChain(store.chain)
    BY DEF StoreIntact, Intact
  <2> QED
    BY <1>1, <1>4, <1>8, <2>1 DEF Intact
<1>9. WrittenOK'
  BY <1>0, <1>1, <1>8 DEF WrittenOK
<1> QED
  BY <1>5, <1>6, <1>7, <1>9

LEMMA UpdateGovernedHolds ==
  ASSUME IInv, NEW e \in Envelopes, NEW r \in Rotations \cup {NoRotation},
         UpdateGoverned(e, r)
  PROVE  IInv'
<1> DEFINE chain == ChainWith(r)
<1>1. /\ stage = "idle" /\ store.format = "governed" /\ Intact(store)
      /\ WritePolicy(e, chain)
      /\ Authenticates(e, ActiveRoot(chain).trust)
      /\ r = NoRotation \/ IsRetry(r) \/ ValidRotation(ActiveRoot(store.chain), r)
  BY DEF UpdateGoverned, UpdateAnswer
<1>2. store.chain \in Seq(Rotation) /\ Linked(store.chain)
  BY <1>1 DEF IInv, TypeOK, Store, Intact, ValidChain, Linked
<1>3. chain \in Seq(Rotation) /\ Linked(chain) /\ Extends(chain, store.chain)
  <2>1. CASE r = NoRotation \/ IsRetry(r)
    BY <1>2, <2>1, ExtendsItself DEF ChainWith
  <2>2. CASE ~(r = NoRotation \/ IsRetry(r))
    <3>1. r \in Rotation /\ ValidRotation(ActiveRoot(store.chain), r)
      BY <1>1, <2>2, DocumentsAssumption
    <3>2. chain = Append(store.chain, r)
      BY <2>2 DEF ChainWith
    <3> QED
      BY <1>2, <3>1, <3>2, AppendLinks
  <2> QED
    BY <2>1, <2>2
<1> HIDE DEF chain
<1> QED
  BY <1>1, <1>3, WritePolicyHolds

LEMMA DeliverChainHolds ==
  ASSUME IInv, NEW e \in Envelopes, NEW chain \in ValidChains, DeliverChain(e, chain)
  PROVE  IInv'
<1>1. chain \in Seq(Rotation) /\ Linked(chain)
  BY ChainsAreSequences DEF ValidChains, ValidChain, Linked
<1>2. /\ stage = "idle" /\ store.format = "governed"
      /\ WritePolicy(e, chain)
      /\ Extends(chain, store.chain)
      /\ Authenticates(e, ActiveRoot(chain).trust)
  BY DEF DeliverChain, DeliveryAnswer
<1> QED
  BY <1>1, <1>2, WritePolicyHolds

LEMMA WriteRootHolds ==
  ASSUME IInv, WriteRoot
  PROVE  IInv'
<1> USE DEF IInv, WriteRoot
<1>1. /\ request \in Request /\ request.chain \in Seq(Rotation)
      /\ store.format = "governed"
  BY DEF PolicyWrittenOK, Request
<1>2. /\ image' \in Store /\ image'.format = "governed"
      /\ image'.envelope = image.envelope /\ image'.chain = request.chain
  BY <1>1 DEF TypeOK, Store, PolicyWrittenOK
<1>3. TypeOK'
  BY <1>2 DEF TypeOK
<1>4. image.envelope = request.envelope /\ image.envelope \in Envelope
  BY <1>1 DEF PolicyWrittenOK, Request
<1>5. Intact(image')
  <2>1. ValidChain(request.chain)
    BY DEF PolicyWrittenOK, ValidChain, Linked
  <2> QED
    BY <1>2, <1>4, <2>1 DEF Intact, PolicyWrittenOK
<1>6. WrittenOK'
  BY <1>2, <1>4, <1>5 DEF WrittenOK, PolicyWrittenOK
<1> QED
  BY <1>3, <1>6 DEF StoreIntact, CreatedOK, PolicyWrittenOK

LEMMA EndHolds ==
  ASSUME IInv, EndTransaction, store' \in Store,
         Live(store') => store'.envelope \in Envelope /\ Intact(store')
  PROVE  IInv'
<1>1. Absent \in Store
  BY DEF Absent, Store
<1>2. TypeOK'
  BY <1>1 DEF IInv, TypeOK, EndTransaction
<1> QED
  BY <1>2 DEF IInv, EndTransaction, StoreIntact, CreatedOK, PolicyWrittenOK, WrittenOK

LEMMA EndingHolds ==
  ASSUME IInv, Commit \/ Fail \/ Crash
  PROVE  IInv'
<1>1. Absent \in Store /\ ~Live(Absent)
  BY DEF Absent, Store
<1>2. CASE Commit
  BY <1>2, EndHolds DEF Commit, IInv, TypeOK, WrittenOK
<1>3. CASE Fail
  BY <1>1, <1>3, EndHolds DEF Fail, IInv, TypeOK, StoreIntact
<1>4. CASE Crash
  BY <1>4, EndHolds DEF Crash, IInv, TypeOK, StoreIntact
<1> QED
  BY <1>2, <1>3, <1>4

LEMMA ClearLeftoverHolds ==
  ASSUME IInv, ClearLeftover
  PROVE  IInv'
<1>1. Absent \in Store /\ ~Live(Absent)
  BY DEF Absent, Store
<1>2. TypeOK'
  BY <1>1 DEF IInv, TypeOK, ClearLeftover
<1> QED
  BY <1>1, <1>2 DEF IInv, ClearLeftover, StoreIntact, CreatedOK, PolicyWrittenOK, WrittenOK

(* Readers and the clock leave the store and its writer alone.              *)
LEMMA OthersHold ==
  ASSUME IInv, Tick \/ (\E r \in Reader : ReadState(r) \/ Report(r)) \/ UNCHANGED vars
  PROVE  IInv'
<1>1. UNCHANGED <<store, stage, request, image>>
  BY DEF Tick, ReadState, Report, vars
<1>2. TypeOK'
  <2>1. now' \in 0..MaxTime
    BY BoundsAssumption DEF IInv, TypeOK, Tick, ReadState, Report, vars
  <2>2. snapshot' \in [Reader -> Store]
    <3>1. Absent \in Store
      BY DEF Absent, Store
    <3> QED
      BY <3>1 DEF IInv, TypeOK, Tick, ReadState, Report, vars
  <2>3. DOMAIN view' = Reader
    BY DEF IInv, TypeOK, Tick, ReadState, Report, vars
  <2> QED
    BY <1>1, <2>1, <2>2, <2>3 DEF IInv, TypeOK
<1> QED
  BY <1>1, <1>2 DEF IInv, StoreIntact, CreatedOK, PolicyWrittenOK, WrittenOK

LEMMA NextHolds == IInv /\ [Next]_vars => IInv'
<1> SUFFICES ASSUME IInv, [Next]_vars PROVE IInv'
  OBVIOUS
<1>1. CASE \E f \in {"plain", "governed"}, e \in Envelopes, t \in Trusts : CreateStore(f, e, t)
  BY <1>1, CreateStoreHolds
<1>2. CASE \E e \in Envelopes, t \in Trusts : UpdatePlain(e, t)
  BY <1>2, UpdatePlainHolds
<1>3. CASE \E e \in Envelopes, r \in Rotations \cup {NoRotation} : UpdateGoverned(e, r)
  BY <1>3, UpdateGovernedHolds
<1>4. CASE \E e \in Envelopes, chain \in ValidChains : DeliverChain(e, chain)
  BY <1>4, DeliverChainHolds
<1>5. CASE FillStore \/ Migrate \/ WriteRoot \/ ClearLeftover
  BY <1>5, FillStoreHolds, MigrateHolds, WriteRootHolds, ClearLeftoverHolds
<1>6. CASE Commit \/ Fail \/ Crash
  BY <1>6, EndingHolds
<1>7. CASE Tick \/ (\E r \in Reader : ReadState(r) \/ Report(r)) \/ UNCHANGED vars
  BY <1>7, OthersHold
<1> QED
  BY <1>1, <1>2, <1>3, <1>4, <1>5, <1>6, <1>7 DEF Next

-----------------------------------------------------------------------------
(* Whatever callers present, in whatever order, and wherever a process is   *)
(* killed, the store and what a writer holds are of the expected form.      *)
THEOREM TypeCorrect == Spec => []TypeOK
<1>1. IInv => TypeOK
  BY DEF IInv
<1> QED
  BY InitHolds, NextHolds, <1>1, PTL DEF Spec

(* The committed policy is always co-signed by a quorum of the root that    *)
(* the committed chain derives from the anchor, and every link of that      *)
(* chain has both approvals: a root and a policy never come apart.          *)
THEOREM StoreAlwaysIntact == Spec => []StoreIntact
<1>1. IInv => StoreIntact
  BY DEF IInv
<1> QED
  BY InitHolds, NextHolds, <1>1, PTL DEF Spec

LEMMA ExtendsIsPrefix ==
  ASSUME NEW chain \in Seq(Rotation), NEW kept \in Seq(Rotation), Extends(chain, kept)
  PROVE  Len(chain) >= Len(kept) /\ SubSeq(chain, 1, Len(kept)) = kept
<1> DEFINE head == SubSeq(chain, 1, Len(kept))
<1>1. Len(chain) \in Nat /\ Len(kept) \in Nat
  BY LenProperties
<1>2. \A i \in 1..Len(kept) : chain[i] \in Rotation
  BY <1>1, ElementOfSeq DEF Extends
<1>3. /\ head \in Seq(Rotation)
      /\ Len(head) = Len(kept)
      /\ \A i \in 1..Len(kept) : head[i] = chain[i]
  BY <1>1, <1>2, SubSeqProperties
<1> HIDE DEF head
<1>4. head = kept
  BY <1>3, SeqEqual DEF Extends
<1> QED
  BY <1>4 DEF Extends, head

(* One step never shortens or rewrites the chain of a governed store.       *)
LEMMA StepExtends ==
  ASSUME IInv, [Next]_vars, store.format = "governed"
  PROVE  store'.format = "governed" /\ Extends(store'.chain, store.chain)
<1>1. store.chain \in Seq(Rotation)
  BY DEF IInv, TypeOK, Store
<1>2. CASE Commit
  BY <1>2 DEF Commit, IInv, WrittenOK
<1>3. ASSUME ~Commit
      PROVE  store' = store
  BY <1>3 DEF Next, Tick, CreateStore, FillStore, UpdatePlain, Migrate, UpdateGoverned,
              DeliverChain, WritePolicy, WriteRoot, Fail, Crash, ClearLeftover,
              ReadState, Report, vars
<1> QED
  BY <1>1, <1>2, <1>3, ExtendsItself

(* The chain of accepted rotations only grows: neither an update, nor a     *)
(* delivery, nor a crash takes back or replaces a root transition.          *)
THEOREM ChainAlwaysGrows == Spec => ChainOnlyGrows
<1>1. ASSUME IInv, IInv', [Next]_vars, store.format = "governed"
      PROVE  /\ store'.format = "governed"
             /\ Len(store'.chain) >= Len(store.chain)
             /\ SubSeq(store'.chain, 1, Len(store.chain)) = store.chain
  <2>1. store.chain \in Seq(Rotation) /\ store'.chain \in Seq(Rotation)
    BY <1>1 DEF IInv, TypeOK, Store
  <2> QED
    BY <1>1, <2>1, StepExtends, ExtendsIsPrefix
<1>2. IInv /\ IInv' /\ [Next]_vars =>
        [store.format = "governed" =>
           /\ store'.format = "governed"
           /\ Len(store'.chain) >= Len(store.chain)
           /\ SubSeq(store'.chain, 1, Len(store.chain)) = store.chain]_store
  BY <1>1
<1> QED
  BY InitHolds, NextHolds, <1>2, PTL DEF Spec, ChainOnlyGrows

-----------------------------------------------------------------------------
(* What the times of acceptance, the readers and the register need beyond   *)
(* that: a second inductive invariant on top of the first.                  *)

InForce(doc, t) == doc.issued <= t /\ t < doc.expires

TimedAt(s, t) ==
  Live(s) =>
    /\ s.acceptedAt <= t /\ s.rootAcceptedAt <= t
    /\ InForce(s.envelope.policy, s.acceptedAt)
    /\ s.format = "governed" =>
         /\ ActiveRoot(s.chain).issued <= s.rootAcceptedAt
         /\ LastActivation(s) < ActiveRoot(s.chain).expires

(* The policy row is written at a time at which both it and the root that   *)
(* is still to be written are current.                                      *)
TimesOK ==
  /\ TimedAt(store, now)
  /\ stage = "policyWritten" =>
       /\ image.acceptedAt <= now
       /\ InForce(image.envelope.policy, image.acceptedAt)
       /\ InForce(ActiveRoot(request.chain), image.acceptedAt)
  /\ stage = "written" => TimedAt(image, now)

(* A file without rows is as it was created.                                *)
ShapeOK ==
  /\ store.format = "absent" => store = Absent
  /\ store.format = "empty" => store = Empty

(* What is about to be committed replaces the committed by something newer, *)
(* or is the same policy under governance.                                  *)
NewerOK ==
  /\ stage = "policyWritten" => request.envelope.policy.revision > Revision(store)
  /\ stage = "written" =>
       /\ Register!Supersedes(EntryOf(image), EntryOf(store))
       /\ store.format = "plain" /\ image.format = "governed" =>
            image.envelope = store.envelope /\ image.acceptedAt = store.acceptedAt

(* What a reader was told is not newer than what it has read, and that not  *)
(* newer than the store; all of it was committed as a whole.                *)
ReadersOK ==
  /\ committed \subseteq Register!Entry
  /\ Live(store) => EntryOf(store) \in committed
  /\ \A r \in Reader :
       /\ view[r] \in Register!Entry
       /\ Register!NotOlder(EntryOf(store), view[r])
       /\ Live(snapshot[r]) =>
            /\ EntryOf(snapshot[r]) \in committed
            /\ Register!NotOlder(EntryOf(snapshot[r]), view[r])
            /\ Register!NotOlder(EntryOf(store), EntryOf(snapshot[r]))

HInv == IInv /\ TimesOK /\ ShapeOK /\ NewerOK /\ ReadersOK

-----------------------------------------------------------------------------
(* Times of acceptance.                                                     *)

LEMMA TimedLater ==
  ASSUME NEW s \in Store, NEW t \in Nat, NEW u \in Nat, t <= u, TimedAt(s, t)
  PROVE  TimedAt(s, u)
BY DEF TimedAt, Store

LEMMA PolicyTimes ==
  ASSUME NEW e \in Envelope
  PROVE  e.policy.issued \in Nat /\ e.policy.expires \in Nat /\ e.policy.revision \in Nat \ {0}
BY DEF Envelope, Policy

LEMMA RootTimes ==
  ASSUME NEW root \in Root
  PROVE  root.issued \in Nat /\ root.expires \in Nat /\ root.version \in Nat \ {0}
BY DEF Root

(* What is recorded now, of documents that are current, is in time.         *)
LEMMA FillStoreTimes ==
  ASSUME IInv, TimesOK, FillStore
  PROVE  TimesOK'
<1> USE DEF FillStore
<1>1. store.format = "empty" /\ store' = store /\ now' = now /\ now \in Nat
  BY BoundsAssumption DEF IInv, TypeOK, Empty
<1>2. InForce(request.envelope.policy, now)
  BY DEF Authenticates, Current, InForce
<1>3. request.format = "governed" => InForce(Anchor, now)
  BY DEF Current, InForce
<1>4. /\ image'.acceptedAt = now /\ image'.envelope = request.envelope
      /\ image'.format = request.format /\ ActiveRoot(image'.chain) = Anchor
      /\ request.format = "governed" => image'.rootAcceptedAt = now
      /\ image'.rootAcceptedAt <= now
  BY <1>1 DEF ActiveRoot, RootAfter
<1>5. TimedAt(image', now)
  BY <1>1, <1>2, <1>3, <1>4 DEF TimedAt, InForce, LastActivation
<1> QED
  BY <1>1, <1>5 DEF TimesOK, TimedAt

LEMMA UpdatePlainTimes ==
  ASSUME IInv, TimesOK, NEW e \in Envelopes, NEW t \in Trusts, UpdatePlain(e, t)
  PROVE  TimesOK'
<1> USE DEF UpdatePlain
<1>1. store \in Store /\ store.format = "plain" /\ now \in Nat /\ now' = now /\ store' = store
  BY BoundsAssumption DEF IInv, TypeOK
<1>2. InForce(e.policy, now)
  BY DEF Authenticates, Current, InForce
<1>3. /\ image'.acceptedAt = now /\ image'.envelope = e /\ image'.format = "plain"
      /\ image'.rootAcceptedAt = store.rootAcceptedAt
  BY <1>1 DEF Store
<1>4. TimedAt(image', now)
  BY <1>1, <1>2, <1>3 DEF TimedAt, TimesOK
<1> QED
  BY <1>1, <1>4 DEF TimesOK

LEMMA MigrateTimes ==
  ASSUME IInv, TimesOK, Migrate
  PROVE  TimesOK'
<1> USE DEF Migrate
<1>1. store \in Store /\ store.format = "plain" /\ now \in Nat /\ now' = now /\ store' = store
  BY BoundsAssumption DEF IInv, TypeOK
<1>2. InForce(Anchor, now)
  BY DEF Current, InForce
<1>3. /\ image'.acceptedAt = store.acceptedAt /\ image'.envelope = store.envelope
      /\ image'.rootAcceptedAt = now /\ image'.chain = <<>>
  BY <1>1 DEF Store
<1>4. ActiveRoot(image'.chain) = Anchor
  BY <1>3 DEF ActiveRoot, RootAfter
<1>5. store.acceptedAt \in Nat /\ store.acceptedAt <= now /\ InForce(store.envelope.policy, store.acceptedAt)
  BY <1>1 DEF TimesOK, TimedAt, Store
<1>6. LastActivation(image') = now
  BY <1>1, <1>3, <1>5 DEF LastActivation
<1>7. TimedAt(image', now)
  BY <1>1, <1>2, <1>3, <1>4, <1>5, <1>6 DEF TimedAt, InForce
<1> QED
  BY <1>1, <1>7 DEF TimesOK

LEMMA WritePolicyTimes ==
  ASSUME IInv, TimesOK, store.format = "governed",
         NEW e, NEW chain, WritePolicy(e, chain), Current(e.policy), Current(ActiveRoot(chain))
  PROVE  TimesOK'
<1> USE DEF WritePolicy
<1>1. store \in Store /\ now \in Nat /\ now' = now /\ store' = store
  BY BoundsAssumption DEF IInv, TypeOK
<1>2. InForce(e.policy, now) /\ InForce(ActiveRoot(chain), now)
  BY DEF Current, InForce
<1>3. /\ image'.acceptedAt = now /\ image'.envelope = e /\ image'.format = "governed"
      /\ image'.rootAcceptedAt = store.rootAcceptedAt /\ image'.chain = store.chain
      /\ request'.chain = chain
  BY <1>1 DEF Store
<1>4. /\ store.rootAcceptedAt \in Nat /\ store.rootAcceptedAt <= now
      /\ ActiveRoot(store.chain).issued <= store.rootAcceptedAt
  BY <1>1 DEF TimesOK, TimedAt, Store
<1>5. LastActivation(image') = now
  BY <1>1, <1>3, <1>4 DEF LastActivation
<1>6. ASSUME chain = store.chain PROVE TimedAt(image', now)
  BY <1>1, <1>2, <1>3, <1>4, <1>5, <1>6 DEF TimedAt, InForce
<1>7. now <= now
  BY <1>1
<1> QED
  BY <1>1, <1>2, <1>3, <1>6, <1>7 DEF TimesOK

LEMMA WriteRootTimes ==
  ASSUME IInv, TimesOK, WriteRoot
  PROVE  TimesOK'
<1> USE DEF WriteRoot
<1>1. image \in Store /\ now' = now /\ store' = store
  BY DEF IInv, TypeOK
<1>2. /\ image'.acceptedAt = image.acceptedAt /\ image'.rootAcceptedAt = image.acceptedAt
      /\ image'.envelope = image.envelope /\ image'.chain = request.chain
  BY <1>1 DEF Store
<1>3. LastActivation(image') = image.acceptedAt
  BY <1>2 DEF LastActivation
<1>4. TimedAt(image', now)
  BY <1>2, <1>3 DEF TimesOK, TimedAt, InForce
<1> QED
  BY <1>1, <1>4 DEF TimesOK

LEMMA TimesHold == ASSUME IInv, TimesOK, [Next]_vars PROVE TimesOK'
<1>0. TimedAt(Absent, now)
  BY DEF TimedAt, Absent
<1>1. CASE Tick
  <2>1. now \in Nat /\ now' \in Nat /\ now <= now' /\ store \in Store /\ image \in Store
    BY <1>1, BoundsAssumption DEF Tick, IInv, TypeOK
  <2>2. TimedAt(store, now')
    BY <2>1, TimedLater DEF TimesOK
  <2>3. stage = "written" => TimedAt(image, now')
    BY <2>1, TimedLater DEF TimesOK
  <2>4. image.acceptedAt \in Nat
    BY <2>1 DEF Store
  <2> QED
    BY <1>1, <2>1, <2>2, <2>3, <2>4 DEF Tick, TimesOK
<1>2. ASSUME NEW f \in {"plain", "governed"}, NEW e \in Envelopes, NEW t \in Trusts, CreateStore(f, e, t)
      PROVE  TimesOK'
  BY <1>2 DEF CreateStore, TimesOK, TimedAt, Empty
<1>3. ASSUME NEW e \in Envelopes, NEW r \in Rotations \cup {NoRotation}, UpdateGoverned(e, r) PROVE TimesOK'
  BY <1>3, WritePolicyTimes DEF UpdateGoverned, UpdateAnswer, Authenticates
<1>4. ASSUME NEW e \in Envelopes, NEW chain \in ValidChains, DeliverChain(e, chain) PROVE TimesOK'
  BY <1>4, WritePolicyTimes DEF DeliverChain, DeliveryAnswer, Authenticates
<1>5. CASE Commit
  BY <1>5 DEF Commit, EndTransaction, TimesOK
<1>6. CASE Fail \/ Crash
  BY <1>0, <1>6 DEF Fail, Crash, EndTransaction, TimesOK
<1>7. CASE ClearLeftover
  BY <1>0, <1>7 DEF ClearLeftover, TimesOK
<1>8. CASE (\E r \in Reader : ReadState(r) \/ Report(r)) \/ UNCHANGED vars
  BY <1>8 DEF ReadState, Report, vars, TimesOK
<1> QED
  BY <1>1, <1>2, <1>3, <1>4, <1>5, <1>6, <1>7, <1>8, FillStoreTimes, UpdatePlainTimes,
     MigrateTimes, WriteRootTimes DEF Next

-----------------------------------------------------------------------------
(* The register.                                                            *)

LEMMA LeastNumber ==
  ASSUME NEW S \in SUBSET Nat, S # {}
  PROVE  \E i \in S : \A j \in S : i <= j
<1> DEFINE R == OpToRel(<, Nat)
<1>1. IsWellFoundedOn(R, Nat)
  BY NatLessThanWellFounded
<1>2. PICK i \in S : \A j \in S : ~(<<j, i>> \in R)
  BY <1>1, WFMin, Zenon
<1>3. \A j \in S : ~(j < i)
  BY <1>2 DEF OpToRel
<1> QED
  BY <1>3

(* Along linked rotations each root has the next version: there is no first *)
(* position at which this fails.                                            *)
LEMMA VersionsCount ==
  ASSUME NEW chain \in Seq(Rotation), Linked(chain)
  PROVE  \A i \in 0..Len(chain) : RootAfter(chain, i).version = Anchor.version + i
<1> DEFINE wrong == {i \in 0..Len(chain) : RootAfter(chain, i).version # Anchor.version + i}
<1>1. Len(chain) \in Nat /\ Anchor.version \in Nat
  BY LenProperties, RootTimes, DocumentsAssumption
<1>2. ASSUME wrong # {} PROVE FALSE
  <2>1. PICK i \in wrong : \A j \in wrong : i <= j
    <3>1. wrong \in SUBSET Nat
      BY <1>1
    <3> HIDE DEF wrong
    <3> QED
      BY <1>2, <3>1, LeastNumber
  <2>2. i # 0
    BY <1>1, <2>1 DEF RootAfter
  <2>3. i - 1 \in 0..Len(chain) /\ i \in 1..Len(chain) /\ i - 1 \notin wrong
    BY <1>1, <2>1, <2>2
  <2>4. RootAfter(chain, i - 1).version = Anchor.version + (i - 1)
    BY <2>3
  <2>5. chain[i].root.version = RootAfter(chain, i - 1).version + 1
    BY <2>3 DEF Linked, ValidRotation, Continues
  <2>6. RootAfter(chain, i) = chain[i].root
    BY <2>2 DEF RootAfter
  <2>7. RootAfter(chain, i).version = Anchor.version + i
    BY <1>1, <2>3, <2>4, <2>5, <2>6
  <2> QED
    BY <2>1, <2>7
<1> QED
  BY <1>2

(* A chain that retains another ends in no lower version.                   *)
LEMMA VersionsGrow ==
  ASSUME NEW chain \in Seq(Rotation), NEW kept \in Seq(Rotation),
         Linked(chain), Extends(chain, kept)
  PROVE  ActiveRoot(chain).version >= ActiveRoot(kept).version
<1>1. Len(chain) \in Nat /\ Len(kept) \in Nat /\ Anchor.version \in Nat
  BY LenProperties, RootTimes, DocumentsAssumption
<1>2. Len(kept) \in 0..Len(chain) /\ Len(chain) \in 0..Len(chain) /\ Len(chain) >= Len(kept)
  BY <1>1 DEF Extends
<1>3. RootAfter(kept, Len(kept)) = RootAfter(chain, Len(kept))
  BY <1>1 DEF RootAfter, Extends
<1>4. RootAfter(chain, Len(kept)).version = Anchor.version + Len(kept)
  BY <1>2, VersionsCount
<1>5. RootAfter(chain, Len(chain)).version = Anchor.version + Len(chain)
  BY <1>2, VersionsCount
<1> QED
  BY <1>1, <1>2, <1>3, <1>4, <1>5 DEF ActiveRoot

LEMMA EntryTyped ==
  ASSUME NEW s \in Store, Live(s) => s.envelope \in Envelope
  PROVE  /\ EntryOf(s) \in Register!Entry
         /\ EntryOf(s).revision = IF Live(s) THEN Revision(s) ELSE 0
         /\ EntryOf(s).version = IF s.format = "governed" THEN ActiveRoot(s.chain).version ELSE 0
         /\ s.format = "governed" => EntryOf(s).version \in Nat \ {0}
         /\ Live(s) => EntryOf(s).revision \in Nat \ {0}
<1>1. s.chain \in Seq(Rotation) /\ s.envelope \in Envelope \cup {NoEnvelope}
  BY DEF Store
<1>2. ActiveRoot(s.chain).version \in Nat \ {0}
  BY <1>1, ActiveRootIsRoot, RootTimes
<1>3. Live(s) => Revision(s) \in Nat \ {0}
  BY PolicyTimes DEF Revision
<1>4. <<s.envelope, s.chain>> \in (Envelope \cup {NoEnvelope}) \X Seq(Rotation)
  BY <1>1
<1>5. /\ EntryOf(s).revision = IF Live(s) THEN Revision(s) ELSE 0
      /\ EntryOf(s).version = IF s.format = "governed" THEN ActiveRoot(s.chain).version ELSE 0
  BY DEF EntryOf
<1>6. EntryOf(s) \in Register!Entry
  BY <1>2, <1>3, <1>4 DEF EntryOf, Register!Entry
<1> QED
  BY <1>2, <1>3, <1>5, <1>6

LEMMA NothingHeld ==
  EntryOf(Empty) = EntryOf(Absent) /\ EntryOf(Absent) = Register!NoEntry
BY DEF EntryOf, Empty, Absent, Register!NoEntry

LEMMA OrderIsTransitive ==
  ASSUME NEW a \in Register!Entry, NEW b \in Register!Entry, NEW c \in Register!Entry,
         Register!NotOlder(a, b), Register!NotOlder(b, c)
  PROVE  Register!NotOlder(a, c)
BY DEF Register!Entry, Register!NotOlder

LEMMA SupersedingIsNotOlder ==
  ASSUME NEW a \in Register!Entry, NEW b \in Register!Entry, Register!Supersedes(a, b)
  PROVE  Register!NotOlder(a, b)
BY DEF Register!Entry, Register!Supersedes, Register!NotOlder

LEMMA OrderIsReflexive ==
  ASSUME NEW a \in Register!Entry
  PROVE  Register!NotOlder(a, a)
BY DEF Register!Entry, Register!NotOlder

-----------------------------------------------------------------------------
(* Every commit replaces an entry by a newer one.                           *)

LEMMA FillStoreNewer ==
  ASSUME IInv, IInv', ShapeOK, FillStore
  PROVE  NewerOK'
<1> USE DEF FillStore
<1>1. store = Empty /\ store' = store
  BY DEF IInv, TypeOK
<1>2. image' \in Store /\ image'.envelope \in Envelope /\ Live(image')
  BY DEF IInv, TypeOK, WrittenOK
<1>3. EntryOf(store).revision = 0 /\ EntryOf(store).version = 0
  BY <1>1 DEF EntryOf, Empty
<1>4. EntryOf(image').revision \in Nat \ {0} /\ EntryOf(image').version \in Nat
  BY <1>2, EntryTyped DEF Register!Entry
<1>5. Register!Supersedes(EntryOf(image'), EntryOf(store'))
  BY <1>1, <1>3, <1>4 DEF Register!Supersedes
<1> QED
  BY <1>1, <1>5 DEF NewerOK, Empty

LEMMA UpdatePlainNewer ==
  ASSUME IInv, NEW e \in Envelopes, NEW t \in Trusts, UpdatePlain(e, t)
  PROVE  NewerOK'
<1> USE DEF UpdatePlain
<1>1. store \in Store /\ store' = store /\ store.format = "plain"
  BY DEF IInv, TypeOK
<1>2. image'.format = "plain" /\ image'.envelope = e
  BY <1>1 DEF Store
<1>3. EntryOf(image').version = 0 /\ EntryOf(image').revision = e.policy.revision
  BY <1>2 DEF EntryOf, Revision
<1>4. EntryOf(store).version = 0 /\ EntryOf(store).revision = Revision(store)
  BY <1>1 DEF EntryOf
<1>5. Register!Supersedes(EntryOf(image'), EntryOf(store'))
  BY <1>1, <1>3, <1>4 DEF Register!Supersedes
<1> QED
  BY <1>2, <1>5 DEF NewerOK

LEMMA MigrateNewer ==
  ASSUME IInv, IInv', Migrate
  PROVE  NewerOK'
<1> USE DEF Migrate
<1>1. store \in Store /\ store' = store /\ store.format = "plain" /\ store.envelope \in Envelope
  BY DEF IInv, TypeOK
<1>2. image'.format = "governed" /\ image'.envelope = store.envelope /\ image'.acceptedAt = store.acceptedAt
  BY <1>1 DEF Store
<1>3. image' \in Store
  BY DEF IInv, TypeOK
<1>4. EntryOf(image').version \in Nat \ {0} /\ EntryOf(image').revision = Revision(store)
  BY <1>1, <1>2, <1>3, EntryTyped DEF Revision
<1>5. EntryOf(store).version = 0 /\ EntryOf(store).revision = Revision(store)
  BY <1>1 DEF EntryOf
<1>6. Register!Supersedes(EntryOf(image'), EntryOf(store'))
  BY <1>1, <1>4, <1>5 DEF Register!Supersedes
<1> QED
  BY <1>1, <1>2, <1>6 DEF NewerOK

LEMMA WritePolicyNewer ==
  ASSUME IInv, stage = "idle", store.format = "governed",
         NEW e \in Envelopes, NEW chain, WritePolicy(e, chain), e.policy.revision > Revision(store)
  PROVE  NewerOK'
<1> USE DEF WritePolicy
<1>1. store \in Store /\ store' = store /\ store.envelope \in Envelope
  BY DEF IInv, TypeOK
<1>2. image'.format = "governed" /\ image'.envelope = e /\ image'.chain = store.chain
  BY <1>1 DEF Store
<1>3. request'.envelope.policy.revision > Revision(store')
  BY <1>1
<1>4. EntryOf(image').version = EntryOf(store).version /\ EntryOf(image').revision = e.policy.revision
  BY <1>2 DEF EntryOf, Revision
<1>5. EntryOf(store).revision = Revision(store) /\ EntryOf(store).version \in Nat
  BY <1>1, EntryTyped DEF Register!Entry
<1>6. Register!Supersedes(EntryOf(image'), EntryOf(store'))
  BY <1>1, <1>4, <1>5 DEF Register!Supersedes
<1> QED
  BY <1>1, <1>3, <1>6 DEF NewerOK

LEMMA WriteRootNewer ==
  ASSUME IInv, NewerOK, WriteRoot
  PROVE  NewerOK'
<1> USE DEF WriteRoot
<1>1. /\ store \in Store /\ store' = store /\ image \in Store
      /\ store.format = "governed" /\ image.format = "governed"
      /\ request \in Request /\ image.envelope = request.envelope
      /\ Linked(request.chain) /\ Extends(request.chain, store.chain)
      /\ store.envelope \in Envelope
  BY DEF IInv, TypeOK, PolicyWrittenOK
<1>2. image'.format = "governed" /\ image'.envelope = request.envelope /\ image'.chain = request.chain
  BY <1>1 DEF Store
<1>3. ActiveRoot(request.chain).version >= ActiveRoot(store.chain).version
  BY <1>1, VersionsGrow DEF Store, Request
<1>4. /\ EntryOf(image').version = ActiveRoot(request.chain).version
      /\ EntryOf(image').revision = request.envelope.policy.revision
  BY <1>2 DEF EntryOf, Revision
<1>5. EntryOf(store).revision = Revision(store) /\ EntryOf(store).version = ActiveRoot(store.chain).version
  BY <1>1 DEF EntryOf
<1>6. Register!Supersedes(EntryOf(image'), EntryOf(store'))
  BY <1>1, <1>3, <1>4, <1>5 DEF Register!Supersedes, NewerOK
<1> QED
  BY <1>1, <1>6 DEF NewerOK

LEMMA NewerHold == ASSUME IInv, IInv', ShapeOK, NewerOK, [Next]_vars PROVE NewerOK'
<1>1. CASE Tick \/ (\E r \in Reader : ReadState(r) \/ Report(r)) \/ UNCHANGED vars
  BY <1>1 DEF Tick, ReadState, Report, vars, NewerOK
<1>2. ASSUME NEW f \in {"plain", "governed"}, NEW e \in Envelopes, NEW t \in Trusts, CreateStore(f, e, t)
      PROVE  NewerOK'
  BY <1>2 DEF CreateStore, NewerOK
<1>3. ASSUME NEW e \in Envelopes, NEW r \in Rotations \cup {NoRotation}, UpdateGoverned(e, r) PROVE NewerOK'
  BY <1>3, WritePolicyNewer DEF UpdateGoverned, UpdateAnswer
<1>4. ASSUME NEW e \in Envelopes, NEW chain \in ValidChains, DeliverChain(e, chain) PROVE NewerOK'
  BY <1>4, WritePolicyNewer DEF DeliverChain, DeliveryAnswer
<1>5. CASE Commit \/ Fail \/ Crash
  BY <1>5 DEF Commit, Fail, Crash, EndTransaction, NewerOK
<1>6. CASE ClearLeftover
  BY <1>6 DEF ClearLeftover, NewerOK
<1> QED
  BY <1>1, <1>2, <1>3, <1>4, <1>5, <1>6, FillStoreNewer, UpdatePlainNewer, MigrateNewer,
     WriteRootNewer DEF Next

LEMMA ShapeHold == ASSUME IInv, ShapeOK, [Next]_vars PROVE ShapeOK'
<1>1. CASE Commit
  BY <1>1 DEF Commit, IInv, WrittenOK, ShapeOK
<1>2. CASE Fail \/ Crash \/ ClearLeftover
  BY <1>2 DEF Fail, Crash, ClearLeftover, ShapeOK, Absent
<1>3. ASSUME NEW f \in {"plain", "governed"}, NEW e \in Envelopes, NEW t \in Trusts, CreateStore(f, e, t)
      PROVE  ShapeOK'
  BY <1>3 DEF CreateStore, ShapeOK, Empty
<1>4. ASSUME store' = store PROVE ShapeOK'
  BY <1>4 DEF ShapeOK
<1> QED
  BY <1>1, <1>2, <1>3, <1>4 DEF Next, Tick, FillStore, UpdatePlain, Migrate, UpdateGoverned,
     DeliverChain, WritePolicy, WriteRoot, ReadState, Report, vars

-----------------------------------------------------------------------------
(* The steps as the register sees them.                                     *)

LEMMA CommitAccepts ==
  ASSUME IInv, NewerOK, Commit
  PROVE  /\ EntryOf(store') \in Register!Entry /\ Live(store')
         /\ Register!Accept(EntryOf(store'))
<1>1. image \in Store /\ image.envelope \in Envelope /\ Live(image)
  BY DEF Commit, IInv, TypeOK, WrittenOK
<1>2. EntryOf(image) \in Register!Entry
  BY <1>1, EntryTyped
<1>3. store' = image /\ committed' = committed \cup {EntryOf(image)} /\ view' = view
  BY DEF Commit, EndTransaction
<1>4. Register!Supersedes(EntryOf(image), EntryOf(store))
  BY DEF Commit, NewerOK
<1> QED
  BY <1>1, <1>2, <1>3, <1>4 DEF Register!Accept

(* Creating a file, losing it again and everything a writer does before it  *)
(* commits leaves the entry alone.                                          *)
LEMMA OthersStutter ==
  ASSUME ShapeOK, [Next]_vars, ~Commit
  PROVE  /\ EntryOf(store') = EntryOf(store) /\ committed' = committed
         /\ Live(store') => Live(store)
<1>1. CASE Fail \/ Crash \/ ClearLeftover
  <2>1. store' = store \/ (store = Empty /\ store' = Absent)
    BY <1>1 DEF Fail, Crash, ClearLeftover, ShapeOK
  <2> QED
    BY <1>1, <2>1, NothingHeld DEF Fail, Crash, ClearLeftover, Absent
<1>2. ASSUME NEW f \in {"plain", "governed"}, NEW e \in Envelopes, NEW t \in Trusts, CreateStore(f, e, t)
      PROVE  EntryOf(store') = EntryOf(store) /\ committed' = committed /\ (Live(store') => Live(store))
  BY <1>2, NothingHeld DEF CreateStore, ShapeOK, Empty
<1>3. CASE store' = store /\ committed' = committed
  BY <1>3
<1> QED
  BY <1>1, <1>2, <1>3 DEF Next, Tick, FillStore, UpdatePlain, Migrate, UpdateGoverned,
     DeliverChain, WritePolicy, WriteRoot, ReadState, Report, vars

LEMMA ReportReads ==
  ASSUME IInv, ReadersOK, NEW r \in Reader, Report(r)
  PROVE  /\ Register!Read(r, view'[r]) /\ view'[r] = EntryOf(snapshot[r])
         /\ view'[r] \in Register!Entry /\ Live(snapshot[r])
<1>1. Live(snapshot[r])
  BY DEF Report
<1>2. view' = [view EXCEPT ![r] = EntryOf(snapshot[r])] /\ DOMAIN view = Reader
  BY DEF Report, IInv, TypeOK
<1>3. view'[r] = EntryOf(snapshot[r])
  BY <1>2
<1>4. EntryOf(snapshot[r]) \in committed /\ Register!NotOlder(EntryOf(snapshot[r]), view[r])
  BY <1>1 DEF ReadersOK
<1>5. store' = store /\ committed' = committed
  BY DEF Report
<1> QED
  BY <1>1, <1>2, <1>3, <1>4, <1>5 DEF Register!Read, ReadersOK

LEMMA ReadersHold == ASSUME IInv, ShapeOK, NewerOK, ReadersOK, [Next]_vars PROVE ReadersOK'
<1>0. EntryOf(store) \in Register!Entry
  BY EntryTyped DEF IInv, TypeOK
<1>1. CASE Commit
  <2>1. /\ EntryOf(store') \in Register!Entry /\ committed' = committed \cup {EntryOf(store')}
        /\ Register!Supersedes(EntryOf(store'), EntryOf(store))
    BY <1>1, CommitAccepts DEF Register!Accept
  <2>2. Register!NotOlder(EntryOf(store'), EntryOf(store))
    BY <1>0, <2>1, SupersedingIsNotOlder
  <2>3. \A e \in Register!Entry : Register!NotOlder(EntryOf(store), e) => Register!NotOlder(EntryOf(store'), e)
    BY <1>0, <2>1, <2>2, OrderIsTransitive
  <2>4. view' = view /\ snapshot' = snapshot
    BY <1>1 DEF Commit, EndTransaction
  <2> QED
    BY <2>1, <2>3, <2>4 DEF ReadersOK
<1>2. ASSUME NEW r \in Reader, ReadState(r) PROVE ReadersOK'
  <2>1. store' = store /\ committed' = committed /\ view' = view /\ Live(store)
    BY <1>2 DEF ReadState
  <2>2. /\ snapshot'[r] = store
        /\ \A q \in Reader : q # r => snapshot'[q] = snapshot[q]
    BY <1>2 DEF ReadState, IInv, TypeOK
  <2>3. Register!NotOlder(EntryOf(store), EntryOf(store))
    BY <1>0, OrderIsReflexive
  <2>4. ASSUME NEW q \in Reader, Live(snapshot'[q])
        PROVE  /\ EntryOf(snapshot'[q]) \in committed
               /\ Register!NotOlder(EntryOf(snapshot'[q]), view[q])
               /\ Register!NotOlder(EntryOf(store), EntryOf(snapshot'[q]))
    <3>1. CASE q = r
      BY <2>1, <2>2, <2>3, <3>1 DEF ReadersOK
    <3>2. CASE q # r
      BY <2>2, <2>4, <3>2 DEF ReadersOK
    <3> QED
      BY <3>1, <3>2
  <2> QED
    BY <2>1, <2>4 DEF ReadersOK
<1>3. ASSUME NEW r \in Reader, Report(r) PROVE ReadersOK'
  <2>1. store' = store /\ committed' = committed
    BY <1>3 DEF Report
  <2>2. /\ snapshot'[r] = Absent /\ ~Live(Absent)
        /\ \A q \in Reader : q # r => snapshot'[q] = snapshot[q] /\ view'[q] = view[q]
    BY <1>3 DEF Report, IInv, TypeOK, Absent
  <2>3. view'[r] = EntryOf(snapshot[r]) /\ view'[r] \in Register!Entry /\ Live(snapshot[r])
    BY <1>3, ReportReads
  <2>4. Register!NotOlder(EntryOf(store), view'[r])
    BY <2>3 DEF ReadersOK
  <2>5. \A q \in Reader : view'[q] \in Register!Entry /\ Register!NotOlder(EntryOf(store), view'[q])
    BY <2>2, <2>3, <2>4 DEF ReadersOK
  <2>6. ASSUME NEW q \in Reader, Live(snapshot'[q])
        PROVE  /\ EntryOf(snapshot'[q]) \in committed
               /\ Register!NotOlder(EntryOf(snapshot'[q]), view'[q])
               /\ Register!NotOlder(EntryOf(store), EntryOf(snapshot'[q]))
    <3>1. q # r
      BY <2>2, <2>6
    <3> QED
      BY <2>2, <2>6, <3>1 DEF ReadersOK
  <2> QED
    BY <2>1, <2>5, <2>6 DEF ReadersOK
<1>4. ASSUME ~Commit, view' = view, snapshot' = snapshot PROVE ReadersOK'
  BY <1>4, OthersStutter DEF ReadersOK
<1> QED
  BY <1>1, <1>2, <1>3, <1>4 DEF Next, Tick, CreateStore, FillStore, UpdatePlain, Migrate,
     UpdateGoverned, DeliverChain, WritePolicy, WriteRoot, Fail, Crash, EndTransaction,
     ClearLeftover, vars

LEMMA HInit == Init => HInv
<1> SUFFICES ASSUME Init PROVE HInv
  OBVIOUS
<1>1. IInv
  BY InitHolds
<1>2. TimesOK /\ ShapeOK /\ NewerOK
  BY DEF Init, TimesOK, TimedAt, ShapeOK, NewerOK, Absent
<1>3. EntryOf(Absent) \in Register!Entry
  <2>1. Absent \in Store /\ ~Live(Absent)
    BY DEF Absent, Store
  <2> QED
    BY <2>1, EntryTyped
<1>4. Register!NotOlder(EntryOf(Absent), EntryOf(Absent))
  BY <1>3, OrderIsReflexive
<1>5. ~Live(Absent)
  BY DEF Absent
<1>6. ReadersOK
  BY <1>3, <1>4, <1>5 DEF Init, ReadersOK
<1> QED
  BY <1>1, <1>2, <1>6 DEF HInv

LEMMA HNext == HInv /\ [Next]_vars => HInv'
BY NextHolds, TimesHold, ShapeHold, NewerHold, ReadersHold DEF HInv

(* A policy and a root come into force only while both are valid, however   *)
(* long a caller waits between its checks and the lock, and whichever of    *)
(* the two rows is written.                                                 *)
THEOREM AlwaysAcceptedWhileCurrent == Spec => []AcceptedWhileCurrent
<1>1. ASSUME HInv PROVE AcceptedWhileCurrent
  <2>1. ASSUME Live(store)
        PROVE  store.acceptedAt \in Nat /\ store.envelope.policy.issued \in Nat
    BY <1>1, <2>1, PolicyTimes DEF HInv, IInv, TypeOK, Store
  <2>2. ASSUME store.format = "governed"
        PROVE  store.rootAcceptedAt \in Nat /\ ActiveRoot(store.chain).issued \in Nat
    BY <1>1, <2>2, ActiveRootIsRoot, RootTimes DEF HInv, IInv, TypeOK, Store
  <2> QED
    BY <1>1, <2>1, <2>2 DEF HInv, TimesOK, TimedAt, InForce, AcceptedWhileCurrent
<1> QED
  BY HInit, HNext, <1>1, PTL DEF Spec

(* A caller that repeats what is in force is told UNCHANGED, in each of the *)
(* three ways it can be repeated.                                           *)
THEOREM RetriesAlwaysUnchanged == Spec => []RetryUnchanged
<1>1. ASSUME IInv PROVE RetryUnchanged
  <2> SUFFICES ASSUME store.format = "governed",
                      Current(store.envelope.policy), Current(ActiveRoot(store.chain))
               PROVE  /\ UpdateAnswer(store.envelope, NoRotation) = "UNCHANGED"
                      /\ store.chain # <<>> =>
                           UpdateAnswer(store.envelope, store.chain[Len(store.chain)]) = "UNCHANGED"
                      /\ DeliveryAnswer(store.envelope, store.chain) = "UNCHANGED"
    BY DEF RetryUnchanged
  <2>1. store.chain \in Seq(Rotation) /\ store.envelope \in Envelope /\ Intact(store)
    BY <1>1 DEF IInv, TypeOK, Store, StoreIntact
  <2>2. ActiveRoot(store.chain).trust \in Trust
    BY <2>1, ActiveRootIsRoot, TrustOfRoot
  <2>3. Authenticates(store.envelope, ActiveRoot(store.chain).trust)
    BY <2>1, <2>2, SentinelsAssumption DEF Authenticates, Intact, QuorumSigned
  <2>4. ~(store.envelope.policy.revision > Revision(store))
    BY <2>1, PolicyTimes DEF Revision
  <2>5. UpdateAnswer(store.envelope, NoRotation) = "UNCHANGED"
    BY <2>1, <2>3, <2>4 DEF UpdateAnswer, ChainWith
  <2>6. ASSUME store.chain # <<>>
        PROVE  UpdateAnswer(store.envelope, store.chain[Len(store.chain)]) = "UNCHANGED"
    <3> DEFINE r == store.chain[Len(store.chain)]
    <3>1. r \in Rotation
      BY <2>1, <2>6, LenProperties, EmptySeq, ElementOfSeq
    <3>2. IsRetry(r)
      BY <2>6, <3>1, SentinelsAssumption DEF IsRetry
    <3> HIDE DEF r
    <3>3. ChainWith(r) = store.chain
      BY <3>2 DEF ChainWith
    <3>4. UpdateAnswer(store.envelope, r) = "UNCHANGED"
      BY <2>1, <2>3, <2>4, <3>2, <3>3 DEF UpdateAnswer
    <3> QED
      BY <3>4 DEF r
  <2>7. DeliveryAnswer(store.envelope, store.chain) = "UNCHANGED"
    BY <2>1, <2>3, <2>4, ExtendsItself DEF DeliveryAnswer, Intact
  <2> QED
    BY <2>5, <2>6, <2>7
<1> QED
  BY InitHolds, NextHolds, <1>1, PTL DEF Spec

(* Putting a store under governance does not count as accepting its policy  *)
(* anew, also if the process that does it is not the one that filled it.    *)
THEOREM MigrationAlwaysKeeps == Spec => MigrationKeepsPolicy
<1>1. ASSUME HInv, [Next]_vars
      PROVE  [store.format = "plain" /\ store'.format = "governed" =>
                /\ store'.envelope = store.envelope
                /\ store'.acceptedAt = store.acceptedAt]_store
  <2>1. CASE Commit
    BY <1>1, <2>1 DEF Commit, HInv, NewerOK
  <2>2. CASE ~Commit
    BY <1>1, <2>2 DEF Next, Tick, CreateStore, FillStore, UpdatePlain, Migrate, UpdateGoverned,
              DeliverChain, WritePolicy, WriteRoot, Fail, Crash, ClearLeftover,
              ReadState, Report, vars, Absent
  <2> QED
    BY <2>1, <2>2
<1> QED
  BY HInit, HNext, <1>1, PTL DEF Spec, MigrationKeepsPolicy

(* The store is a register: commits are accepted entries that supersede the *)
(* one before them, reports are reads of accepted entries in order, and     *)
(* nothing else, crashes and lost files included, is visible in it.         *)
THEOREM StoreIsRegister == Spec => ImplementsRegister
<1>1. Init => Register!RegisterInit
  BY NothingHeld DEF Init, Register!RegisterInit
<1>2. ASSUME HInv, [Next]_vars PROVE [Register!RegisterNext]_(Register!registerVars)
  <2>1. CASE Commit
    <3>1. EntryOf(store') \in Register!Entry /\ Register!Accept(EntryOf(store'))
      BY <1>2, <2>1, CommitAccepts DEF HInv
    <3> QED
      BY <3>1 DEF Register!RegisterNext
  <2>2. ASSUME NEW r \in Reader, Report(r) PROVE [Register!RegisterNext]_(Register!registerVars)
    BY <1>2, <2>2, ReportReads DEF HInv, Register!RegisterNext
  <2>3. ASSUME ~Commit, view' = view PROVE UNCHANGED Register!registerVars
    BY <1>2, <2>3, OthersStutter DEF HInv, Register!registerVars
  <2> QED
    BY <1>2, <2>1, <2>2, <2>3 DEF Next, Tick, CreateStore, FillStore, UpdatePlain, Migrate,
       UpdateGoverned, DeliverChain, WritePolicy, WriteRoot, Fail, Crash, EndTransaction,
       ClearLeftover, ReadState, vars
<1> QED
  BY HInit, HNext, <1>1, <1>2, PTL DEF Spec, ImplementsRegister, Register!RegisterSpec

-----------------------------------------------------------------------------
(* The store on a host where an older database may be put back.             *)

(* A governed store that came after another one.                            *)
Newer(s, b) ==
  /\ s.format = "governed"
  /\ Extends(s.chain, b.chain)
  /\ Revision(b) < Revision(s)

(* An older database is one that was intact.                                *)
BackupOK == backup \in Store /\ (Live(backup) => backup.envelope \in Envelope /\ Intact(backup))

(* The store goes on from the backup, wherever it has got to; what was lost *)
(* went on from the store that was put back.                                *)
LineageOK ==
  /\ lost \in Store /\ (Live(lost) => lost.envelope \in Envelope /\ Intact(lost))
  /\ backup.format = "governed" => store = backup \/ Newer(store, backup)
  /\ lost.format = "governed" /\ store.format = "governed" => Newer(lost, store)

RestoreInv == IInv /\ ShapeOK /\ NewerOK /\ BackupOK /\ LineageOK

LEMMA RestoreBegins == RestoreInit => RestoreInv
<1> SUFFICES ASSUME RestoreInit PROVE RestoreInv
  OBVIOUS
<1>1. IInv
  BY InitHolds DEF RestoreInit
<1>2. Absent \in Store /\ ~Live(Absent)
  BY DEF Absent, Store
<1>3. ShapeOK /\ NewerOK
  BY DEF RestoreInit, Init, ShapeOK, NewerOK, Absent
<1> QED
  BY <1>1, <1>2, <1>3 DEF RestoreInv, RestoreInit, BackupOK, LineageOK

LEMMA NewerIsTransitive ==
  ASSUME NEW a \in Store, NEW b \in Store, NEW c \in Store,
         a.envelope \in Envelope, b.envelope \in Envelope, c.envelope \in Envelope,
         Newer(a, b), Newer(b, c)
  PROVE  Newer(a, c)
<1>1. /\ Len(a.chain) \in Nat /\ Len(b.chain) \in Nat /\ Len(c.chain) \in Nat
      /\ Revision(a) \in Nat /\ Revision(b) \in Nat /\ Revision(c) \in Nat
  BY LenProperties, PolicyTimes DEF Store, Revision
<1>2. Extends(a.chain, c.chain)
  BY <1>1 DEF Newer, Extends
<1> QED
  BY <1>1, <1>2 DEF Newer

(* One step of the program leaves a governed store as it is or makes it     *)
(* newer.                                                                   *)
LEMMA StepIsNewer ==
  ASSUME IInv, IInv', NewerOK, [Next]_vars, store.format = "governed", store' # store
  PROVE  Newer(store', store)
<1>1. Commit
  BY DEF Next, Tick, CreateStore, FillStore, UpdatePlain, Migrate, UpdateGoverned,
         DeliverChain, WritePolicy, WriteRoot, Fail, Crash, ClearLeftover,
         ReadState, Report, vars
<1>2. store' = image /\ Register!Supersedes(EntryOf(image), EntryOf(store))
  BY <1>1 DEF Commit, NewerOK
<1>3. store'.format = "governed" /\ Extends(store'.chain, store.chain)
  BY StepExtends
<1>4. /\ store \in Store /\ store' \in Store
      /\ store.envelope \in Envelope /\ store'.envelope \in Envelope
  BY <1>3 DEF IInv, TypeOK
<1>5. /\ EntryOf(store).version \in Nat \ {0}
      /\ EntryOf(store).revision = Revision(store) /\ EntryOf(store).revision \in Nat
      /\ EntryOf(store').revision = Revision(store') /\ EntryOf(store').revision \in Nat
  BY <1>3, <1>4, EntryTyped
<1>6. Revision(store) < Revision(store')
  BY <1>2, <1>5 DEF Register!Supersedes
<1> QED
  BY <1>3, <1>6 DEF Newer

LEMMA ProgramKeepsLineage ==
  ASSUME RestoreInv, IInv', [Next]_vars, UNCHANGED backup,
         lost' = IF store' = store THEN lost ELSE Absent
  PROVE  BackupOK' /\ LineageOK'
<1>1. BackupOK'
  BY DEF RestoreInv, BackupOK
<1>2. Absent \in Store /\ ~Live(Absent)
  BY DEF Absent, Store
<1>3. CASE store' = store
  BY <1>1, <1>3 DEF RestoreInv, LineageOK
<1>4. CASE store' # store
  <2>1. ASSUME backup.format = "governed" PROVE Newer(store', backup)
    <3>1. store = backup \/ Newer(store, backup)
      BY <2>1 DEF RestoreInv, LineageOK
    <3>2. store.format = "governed" /\ Newer(store', store)
      BY <1>4, <2>1, <3>1, StepIsNewer DEF RestoreInv, Newer
    <3>3. /\ backup \in Store /\ store \in Store /\ store' \in Store
          /\ backup.envelope \in Envelope /\ store.envelope \in Envelope
          /\ store'.envelope \in Envelope
      BY <2>1, <3>2 DEF RestoreInv, BackupOK, IInv, TypeOK, Newer
    <3> QED
      BY <3>1, <3>2, <3>3, NewerIsTransitive
  <2> QED
    BY <1>1, <1>2, <1>4, <2>1 DEF LineageOK
<1> QED
  BY <1>3, <1>4

LEMMA RestoreHolds == RestoreInv /\ [RestoreNext]_restoreVars => RestoreInv'
<1> SUFFICES ASSUME RestoreInv, [RestoreNext]_restoreVars PROVE RestoreInv'
  OBVIOUS
<1>1. ASSUME [Next]_vars PROVE IInv' /\ ShapeOK' /\ NewerOK'
  BY <1>1, NextHolds, ShapeHold, NewerHold DEF RestoreInv
<1>2. CASE Accepting
  BY <1>1, <1>2, ProgramKeepsLineage DEF Accepting, RestoreInv
<1>3. CASE UNCHANGED restoreVars
  <2>1. UNCHANGED vars /\ UNCHANGED <<backup, lost>> /\ store' = store
    BY <1>3 DEF restoreVars, vars
  <2> QED
    BY <1>1, <2>1, ProgramKeepsLineage DEF RestoreInv
<1>4. CASE TakeBackup
  <2>1. UNCHANGED vars /\ lost' = lost /\ store' = store /\ backup' = store
    BY <1>4 DEF TakeBackup, vars
  <2>2. BackupOK' /\ LineageOK'
    BY <2>1 DEF RestoreInv, BackupOK, LineageOK, IInv, TypeOK, StoreIntact
  <2> QED
    BY <1>1, <2>1, <2>2 DEF RestoreInv
<1>5. CASE Restore
  <2>1. /\ stage' = "idle" /\ store' = backup /\ lost' = store /\ backup' = backup
        /\ store # backup /\ Live(backup)
    BY <1>5 DEF Restore
  <2>2. TypeOK' /\ StoreIntact'
    BY <1>5 DEF Restore, RestoreInv, BackupOK, IInv, TypeOK, StoreIntact
  <2>3. CreatedOK' /\ PolicyWrittenOK' /\ WrittenOK' /\ NewerOK'
    BY <2>1 DEF CreatedOK, PolicyWrittenOK, WrittenOK, NewerOK
  <2>4. ShapeOK'
    BY <2>1 DEF ShapeOK
  <2>5. BackupOK' /\ LineageOK'
    BY <2>1 DEF RestoreInv, BackupOK, LineageOK, IInv, TypeOK, StoreIntact
  <2> QED
    BY <2>2, <2>3, <2>4, <2>5 DEF RestoreInv, IInv
<1> QED
  BY <1>2, <1>3, <1>4, <1>5 DEF RestoreNext

(* An older database that is put back is intact, so that nothing in it      *)
(* tells a reader that it is old: the checks of a store cannot replace the  *)
(* minimums that load_governed_store may be given.                          *)
THEOREM RestoredIsIntact == RestoreSpec => []StoreIntact
<1>1. RestoreInv => StoreIntact
  BY DEF RestoreInv, IInv
<1> QED
  BY RestoreBegins, RestoreHolds, <1>1, PTL DEF RestoreSpec

(* Whatever an older database is put back, one delivery of what was lost    *)
(* with the newer one is accepted, for every number of rotations: the store *)
(* that is put back is one that the lost one went on from (LineageOK).      *)
THEOREM RestoreAlwaysRecovers == RestoreSpec => []RestoreRecovers
<1>1. ASSUME RestoreInv PROVE RestoreRecovers
  <2> SUFFICES ASSUME lost.format = "governed", store.format = "governed",
                      Current(lost.envelope.policy), Current(ActiveRoot(lost.chain))
               PROVE  DeliveryAnswer(lost.envelope, lost.chain) = "ACCEPTED"
    BY DEF RestoreRecovers
  <2>1. /\ lost.chain \in Seq(Rotation) /\ lost.envelope \in Envelope
        /\ Intact(lost) /\ Intact(store) /\ Newer(lost, store) /\ store.envelope \in Envelope
    BY <1>1 DEF RestoreInv, LineageOK, IInv, TypeOK, StoreIntact, Store
  <2>2. ActiveRoot(lost.chain).trust \in Trust
    BY <2>1, ActiveRootIsRoot, TrustOfRoot
  <2>3. Authenticates(lost.envelope, ActiveRoot(lost.chain).trust)
    BY <2>1, <2>2, SentinelsAssumption DEF Authenticates, Intact, QuorumSigned
  <2>4. Revision(store) \in Nat /\ Revision(lost) \in Nat
    BY <2>1, PolicyTimes DEF Revision
  <2>5. lost.envelope.policy.revision > Revision(store)
    BY <2>1, <2>4 DEF Newer, Revision
  <2> QED
    BY <2>1, <2>3, <2>5 DEF DeliveryAnswer, Intact, Newer
<1> QED
  BY RestoreBegins, RestoreHolds, <1>1, PTL DEF RestoreSpec
=============================================================================

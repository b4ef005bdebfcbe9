SPECIFICATION Spec
CONSTANTS
  k1 = k1
  k2 = k2
  k3 = k3
  ck = ck
  s1 = s1
  s2 = s2
  r1 = r1
  NoTrust = NoTrust
  NoRotation = NoRotation
  NoEnvelope = NoEnvelope
  Key <- MCKey
  Scope <- MCScope
  Trusts <- MCTrusts
  Anchor <- MCAnchor
  Rotations <- MCRotations
  Envelopes <- MCEnvelopes
  Reader = {r1}
  MaxRotations = 2
  MaxTime = 3
INVARIANTS TypeOK StoreIntact AcceptedWhileCurrent RetryUnchanged
PROPERTIES ChainOnlyGrows MigrationKeepsPolicy ImplementsRegister

\* Parts that have said something are still right, whatever happens since.
SPECIFICATION AssuranceSpec
CONSTANTS
  h1 = h1
  e1 = e1
  e2 = e2
  case1 = case1
  case2 = case2
  Case = {case1, case2}
  Hold = {h1, h2}
  CaseOf <- MCCaseOf
  Evidence = {e1, e2, e3}
  Home <- MCHome
  Run = {u1, u2}
  MaxRuns = 3
  Artifact = {"m", "o"}
  Mandatory = {"m"}
  Matches <- MCMatches
  File = {1, 2, 3}
  NameOf <- MCNameOf
  Gates <- MCGates
  Acquisitions <- MCAcquisitions
  Analyst = {"w1", "w2"}
  Act = {"b1", "b2"}
  EffectOf <- MCEffectOf
  Conclusion = {"c"}
  Reviewer = {"r1", "r2"}
  AuthorOf <- MCAuthorOf
  Required <- MCRequired
  MaxChanges = 3
  o1 = o1
  Workflow = {u1, u2}
  Operator = {o1}
  Profile <- MCProfile
  Requires <- MCRequires
  Commits <- MCCommits
  MaxMoves = 2
  k1 = k1
  k2 = k2
  ck = ck
  s1 = s1
  NoTrust = NoTrust
  NoRotation = NoRotation
  NoEnvelope = NoEnvelope
  Key <- MCKey
  Scope <- MCScope
  Trusts <- MCTrusts
  Anchor <- MCAnchor
  Rotations <- MCRotations
  Envelopes <- MCEnvelopes
  Reader = {}
  MaxRotations = 2
  MaxTime = 1
  Thread = {"t1", "t2"}
  NoThread = NoThread
  Control <- MCControl
  FailClosed = TRUE
  MaxControls = 2
SYMMETRY WorkflowSymmetry
INVARIANTS AssuranceTypeOK HoldsSound ReleasesSound ClosureSound DecidedByCurrentControl RestoreRecovers
PROPERTIES HeldOnRecord
CHECK_DEADLOCK FALSE

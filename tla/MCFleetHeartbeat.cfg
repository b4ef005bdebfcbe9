SPECIFICATION FairSpec
CONSTANTS
  Node = {n1}
  Key = {k1, k2}
  FirstKey = k1
  RecoveryRequired = 2
  Findings = {"clean", "medium", "critical"}
  Stamps <- MCStamps
  MaxSeq = 4
  MaxFaults = 1
  MaxChanges = 1
INVARIANTS TypeOK OneChain AgentNotAhead StateFollowsHistory
PROPERTIES AttestsUnlessOrphaned
CHECK_DEADLOCK FALSE

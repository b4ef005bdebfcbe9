SPECIFICATION FairSpec
CONSTANTS
  Node = {n1}
  Key = {k1, k2}
  FirstKey = k1
  RecoveryRequired = 2
  Findings = {"clean"}
  Stamps <- MCStamps
  MaxSeq = 2
  MaxFaults = 1
  MaxChanges = 1
PROPERTIES ContinuouslyAttests
CHECK_DEADLOCK FALSE

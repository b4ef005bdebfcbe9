SPECIFICATION FairSpec
CONSTANTS
  broken = broken
  good = good
  off = off
  Jobs <- MCJobs
  Disabled = {off}
  Misconfigured = {broken}
  MinRevision <- MCMinRevision
  Interval = 1
  MaxBackoff = 3
  Jitter = 1
  FailureCap = 3
  MaxRevision = 3
  MaxFaults = 2
INVARIANTS TypeOK
PROPERTIES NoRollback NoRetryStorm CatchesUp

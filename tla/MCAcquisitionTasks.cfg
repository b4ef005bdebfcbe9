SPECIFICATION FairSpec
CONSTANTS
  t1 = t1
  t2 = t2
  w1 = w1
  w2 = w2
  c1 = c1
  c2 = c2
  Task = {t1, t2}
  Type = {"a", "b"}
  TypeOf <- MCTypeOf
  Expires <- MCExpires
  Worker = {w1, w2}
  Collector = {c1, c2}
  CollectorOf <- MCCollectorOf
  Capabilities <- MCCapabilities
  EnrolledWith <- MCEnrolledWith
  Requests <- MCRequests
  LeaseTime = 0
  Results = {"COMPLETE", "FAILED"}
  NoOne = NoOne
  MaxClock = 1
  MaxCrashes = 1
  MaxChanges = 1
INVARIANTS TypeOK OneRunPerLease CompletionsAgree OneLateLease
PROPERTIES OutcomeIsFinal EventuallyDone
CHECK_DEADLOCK FALSE

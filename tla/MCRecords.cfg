SPECIFICATION Spec
CONSTANTS
  Worker = {w1, w2}
  Digest = {d1}
  Class = {1, 4}
  NoObject = NoObject
  MaxRequests = 3
  Witness = {"w1", "w2"}
  Keeper = {"w1", "w2"}
  Threshold = 2
  Subject = {"x", "y"}
  Founded <- MCFounded
  MaxEntries = 6
  MaxAppends = 1
  Key = {"k"}
  Checkpoints <- MCCheckpoints
  Policies <- MCPolicies
  Roots <- MCRoots
  Skews <- MCSkews
  Accuracies = {0, 2}
  MaxInstant = 6
  Process = {p1, p2}
  MaxRuns = 2
  Probes = 1
  MaxMishaps = 2
  Capturer = {k1, k2}
  Directory = {d}
  MaxFaults = 2
  Credential = {1, 2, 3}
  Principal = {"p", "q"}
  Scope = {"s", "t"}
  Lineages <- MCLineages
  Exporter = {e1, e2}
  Offline = {e1}
  Path = {"a", "b", "02_checkpoint/c"}
  EvidencePath = {"02_checkpoint/c"}
  Text = {"1", "2"}
  Kept <- MCKept
  Given <- MCGiven
  Profiles <- MCProfiles
  SigningKey = {"k", "l"}
  Trusted = {"k"}
  MaxChanges = 2
  MaxExports = 2
  t1 = t1
  t2 = t2
  s1 = s1
  s2 = s2
  s3 = s3
  Trace = {t1, t2}
  Span = {s1, s2, s3}
  None = None
  Envelopes <- MCEnvelopes
  MaxItems = 3
  MaxEdits = 1
  Author = {"a", "b"}
  MaxNotes = 4
  MaxRows = 3
  MaxCells = 5
  Retained <- MCRetained
  Others <- MCOthers
  MaxFileChanges = 2
INVARIANTS TypeOK ProofsExact ConclusionsExact AccountsTrue
PROPERTIES HistoriesStayApart
CHECK_DEADLOCK FALSE

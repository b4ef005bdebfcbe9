SPECIFICATION TelemetrySpec
CONSTANTS
  t1 = t1
  t2 = t2
  s1 = s1
  s2 = s2
  s3 = s3
  Trace = {t1, t2}
  Span = {s1, s2, s3}
  None = None
  Envelopes <- MCEnvelopes
  MaxItems = 3
  MaxEdits = 1
INVARIANT LogsReplay

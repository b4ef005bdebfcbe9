SPECIFICATION Spec
CONSTANTS
  Alert <- MCAlert
  Observed <- MCObserved
  Configured <- MCAlert
  ByHand <- MCByHand
  Unroutable <- MCUnroutable
  Anyway <- MCByHand
  Window = 3
  Releaser <- MCOneReleaser
  MaxFaults = 1
  MaxCrashes = 1
  MaxHand = 1
  MaxRequests = 2
INVARIANTS ReleaseReplacesRequested
CHECK_DEADLOCK FALSE

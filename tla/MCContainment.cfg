SPECIFICATION Spec
CONSTANTS
  Alert <- MCAlert
  Observed <- MCObserved
  Configured <- MCAlert
  ByHand <- MCByHand
  Unroutable <- MCUnroutable
  Anyway <- MCByHand
  Window = 3
  Releaser <- MCReleaser
  MaxFaults = 1
  MaxCrashes = 1
  MaxHand = 1
  MaxRequests = 1
INVARIANTS TypeOK EvidenceFirst ContainedOnce SpentOnceReleased
PROPERTIES EveryAlertHandled
CHECK_DEADLOCK FALSE

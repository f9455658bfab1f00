\* One job, live threads keep their heartbeat: crashes, restarts, requests and other people's pushes.
SPECIFICATION Spec
CONSTANTS
  Jobs = {j1}
  Workers = {w1, w2}
  Recovery = rec
  None = none
  AutoRetryMax = 2
  RetryBound = 2
  CrashBound = 1
  Stalls = FALSE
  TornWrites = TRUE
  Outsiders = TRUE
SYMMETRY Symmetry
INVARIANTS LeftoverIsRecorded
PROPERTIES NoPushAfterDisconnect DisconnectedOnlyCloses ManualWaitsForHuman ApprovedStaysRetryable ImplementsLifecycle

\* A crash in the disconnect handler leaves a job of the disconnected connection open.
SPECIFICATION Spec
CONSTANTS
  Jobs = {j1}
  Workers = {w1, w2}
  Recovery = rec
  None = none
  AutoRetryMax = 1
  RetryBound = 1
  CrashBound = 1
  Stalls = FALSE
  TornWrites = TRUE
  Outsiders = FALSE
SYMMETRY Symmetry
INVARIANTS DisconnectCancelsAll

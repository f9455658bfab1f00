\* The repair of a job whose thread is alive lets a disconnect in before its push.
SPECIFICATION Spec
CONSTANTS
  Jobs = {j1}
  Workers = {w1, w2}
  Recovery = rec
  None = none
  AutoRetryMax = 1
  RetryBound = 1
  CrashBound = 0
  Stalls = TRUE
  TornWrites = FALSE
  Outsiders = FALSE
SYMMETRY Symmetry
PROPERTIES NoPushAfterDisconnect

\* A verify request in flight reconnects a connection disconnected meanwhile.
SPECIFICATION Spec
CONSTANTS
  Jobs = {j1}
  Workers = {w1, w2}
  Recovery = rec
  None = none
  AutoRetryMax = 1
  RetryBound = 1
  CrashBound = 0
  Stalls = FALSE
  TornWrites = FALSE
  Outsiders = FALSE
SYMMETRY Symmetry
PROPERTIES DisconnectIsFinal

\* Two jobs compete for the connection lock; first publish attempts only.
SPECIFICATION LiveSpec
CONSTANTS
  Jobs = {j1, j2}
  Workers = {w1, w2}
  Recovery = rec
  None = none
  AutoRetryMax = 0
  RetryBound = 0
  CrashBound = 0
  Stalls = FALSE
  TornWrites = FALSE
  Outsiders = FALSE
INVARIANTS DisconnectCancelsAll
PROPERTIES InFlightComesToRest

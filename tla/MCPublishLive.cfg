\* One job: whatever crashes, a job in flight comes to rest.
SPECIFICATION LiveSpec
CONSTANTS
  Jobs = {j1}
  Workers = {w1}
  Recovery = rec
  None = none
  AutoRetryMax = 1
  RetryBound = 1
  CrashBound = 1
  Stalls = FALSE
  TornWrites = FALSE
  Outsiders = TRUE
PROPERTIES InFlightComesToRest

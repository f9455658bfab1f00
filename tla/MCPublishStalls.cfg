\* One job whose live threads may be taken for dead by the recovery worker.
SPECIFICATION Spec
CONSTANTS
  Jobs = {j1}
  Workers = {w1, w2}
  Recovery = rec
  None = none
  AutoRetryMax = 1
  RetryBound = 1
  CrashBound = 1
  Stalls = TRUE
  TornWrites = FALSE
  Outsiders = TRUE
SYMMETRY Symmetry
INVARIANTS TypeOK PushedWasApproved PushedIsRecorded AtMostOnePullRequest CompletedIsPublished
PROPERTIES TerminalIsFinal

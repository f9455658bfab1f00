\* Two builds with a retry, a cancellation and a crash; two answers with a restart.
SPECIFICATION MCSpec
CONSTANTS
  StepOrder <- ScanOrder
  StepDepends <- ScanDepends
  Stored <- ScanStored
  Torn = {"symbol_index"}
  Chunks = {c1}
  Workers = {w1, w2, w3}
  Silence = FALSE
  MaxBuilds = 2
  MaxRetries = 1
  MaxCancels = 1
  MaxCrashes = 1
  MaxFailures = 1
  MaxAttempts = 2
  MaxTogether = 3
  MaxApart = 1
  Threads = {t1, t2}
  Answers = {a1, a2}
  Manual = manual
  None = none
  Kinds = {"intent_update", "qa_answer"}
  MaxManual = 1
  MaxConfirms = 1
SYMMETRY Symmetry
INVARIANTS BuildInv RefreshInv
PROPERTIES BuildKeeps RefreshKeeps
CHECK_DEADLOCK FALSE

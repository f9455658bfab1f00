\* Two callers: a queue of two and a breaker that opens after two failures; or one call each while the policy changes.
SPECIFICATION MCSpec
CONSTANTS
  Callers = {c1, c2}
  Worker = worker
  QueueMax = 2
  Threshold = 2
  MaxEvents = 5
  LateDrain = FALSE
  Ttl = 1
  MaxClock = 1
  MaxPolicy = 2
  MaxCalls = 1
INVARIANTS TransportInv CallsInv
PROPERTIES TrialDecides FlushReturns

\* One turn scheduled twice and an event; two resyncs and a request; a sandboxed call. Nothing dies in the spool.
SPECIFICATION MCSpec
CONSTANTS
  Workers = {w1, w2}
  Events = {e1}
  Batch = 2
  MaxTurns = 1
  MaxSchedules = 2
  MaxSlow = 1
  MaxCrashes = 1
  MaxChanges = 1
  Manual = {"create", "index"}
  MaxJobs = 2
  MaxManual = 1
  MaxCommits = 2
  MaxFailures = 1
  Calls = {j1}
  Sandboxes = {s1, s2}
  None = none
  Crashes = FALSE
  GivesUp = FALSE
INVARIANTS DiscussionInv ResyncInv
PROPERTIES EndedStays JobsEnd EveryEventIsDelivered EveryCallIsAnswered

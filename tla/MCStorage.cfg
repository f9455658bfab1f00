\* Two tokens and a limiter of one key; one job and two workers; two backups and one restore with losses of power.
SPECIFICATION MCSpec
CONSTANTS
  id1 = id1
  id2 = id2
  id3 = id3
  Tokens = {k1, k2}
  Threads = {t1, t2, t3}
  Traces = {id1, id2, id3}
  Sizes = {1, 2}
  Legacy <- OneLegacy
  Limit = 1
  MaxKeys = 1
  MaxRows = 2
  MaxBytes = 3
  MaxWindow = 2
  MaxCalls = 4
  MaxRescans = 1
  Jobs = {j1}
  Workers = {w1, w2}
  Nobody = nobody
  Crashes = TRUE
  GivesUp = TRUE
  Tools = {p1, p2}
  Overwrites = {TRUE, FALSE}
  MaxCommits = 2
  MaxBackups = 2
  MaxRestores = 1
  MaxStops = 1
  MaxPowerLosses = 1
SYMMETRY Symmetry
INVARIANTS LimitsInv SpoolInv FilesInv
CHECK_DEADLOCK FALSE

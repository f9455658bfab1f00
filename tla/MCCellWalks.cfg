\* Two tasks of one process and one of two requests; four Cells; three samples and four audits.
SPECIFICATION MCSpec
CONSTANTS
  Processes = {p1}
  TwoProcesses = {p1, p2}
  Keys = {k1, k2}
  RetryLimit = 2
  MaxTasks = 2
  MaxEscalations = 1
  MaxRetries = 3
  OneKey = {k1}
  Cells = {a, b, c, d}
  FewCells = {a, b, c}
  MaxRoster = 2
  MaxDepth = 3
  Samples = {s1, s2, s3}
  Auditors = {a1}
  FloorWindow = 2
  MinCount = 2
  FloorPart = 1
  FloorWhole = 3
  Budgets = {1, 2}
  MayDie = TRUE
  MaxAudits = 4
  MaxEdits = 1
  MaxReports = 1
SYMMETRY Symmetry
INVARIANTS TasksInv CellsInv
PROPERTIES StatusIsEarned
CHECK_DEADLOCK FALSE

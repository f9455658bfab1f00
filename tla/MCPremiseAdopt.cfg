\* A session whose head has moved on adopts the new one and promotes what it reasoned on the old one.
SPECIFICATION MCSpec
CONSTANTS
  Parts = {"premise"}
  Improvements = {i1, i2}
  Drafts = {}
  Cards = {1, 2}
  Rubric <- TwoRubrics
  Refs = {e1}
  Replays = {}
  Kinds = {"role_card"}
  Threshold = 2
  MayDie = TRUE
  MaxShadows = 0
  Rejected = {i1, i2, i3}
  Requests = {d1}
  Threads = {t1, t2}
  Values = {"v"}
  RevisionLimit = 1
  MaxSessions = 2
  MaxRevisions = 3
  MaxEdits = 1
  MaxIntents = 1
  MaxAdoptions = 1
SYMMETRY Symmetry
INVARIANTS PromotedOnHead
CHECK_DEADLOCK FALSE

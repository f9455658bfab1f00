\* Two cards and two proposals; three and the breaker; one and its shadows; two sessions, two requests, three revisions, and one adoption, edit or decision.
SPECIFICATION MCSpec
CONSTANTS
  Parts = {"adoption", "breaker", "shadow", "premise"}
  Improvements = {i1, i2}
  Drafts = {}
  Cards = {1, 2}
  Rubric <- TwoRubrics
  Refs = {e1}
  Replays = {}
  Kinds = {"role_card"}
  Threshold = 2
  MayDie = TRUE
  MaxShadows = 0
  Rejected = {i1, i2, i3}
  Requests = {d1}
  Threads = {t1, t2}
  Values = {"v"}
  RevisionLimit = 1
  MaxSessions = 2
  MaxRevisions = 3
  MaxEdits = 1
  MaxIntents = 1
  MaxAdoptions = 1
SYMMETRY Symmetry
INVARIANTS ImprovementInv PremiseInv
PROPERTIES StepsAreSound PremisesHold
CHECK_DEADLOCK FALSE

------------------------- MODULE PublishRefinement -------------------------
(***************************************************************************)
(* PublishJobs implements PublishLifecycle: the mapping from its rows and  *)
(* from the remote repository to what the owner of a job sees.             *)
(***************************************************************************)
EXTENDS PublishJobs

PhaseOf(status) ==
  IF status \in PreparePhase \cup {"pending"} THEN "preparing"
  ELSE IF status = "awaiting_approval" THEN "offered"
  ELSE IF status \in PublishPhase THEN "publishing"
  ELSE IF status \in RetryableStatuses THEN "waiting"
  ELSE status

(* A commit of ours reached the branch, even if others pushed on top.      *)
OnBranch(j) == remote[j] \notin {NoCommit, Above(NoCommit)}

Lifecycle == INSTANCE PublishLifecycle WITH
  phase <- [j \in Jobs |-> PhaseOf(job[j].status)],
  approved <- {j \in Jobs : job[j].approved},
  published <- {j \in Jobs : OnBranch(j)},
  linked <- {j \in Jobs : job[j].pr}

(* Whatever threads, repairs, retries, crashes and restarts do, the owner  *)
(* of a job sees the promised lifecycle.                                   *)
ImplementsLifecycle == Lifecycle!Spec
=============================================================================

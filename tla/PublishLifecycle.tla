-------------------------- MODULE PublishLifecycle --------------------------
(***************************************************************************)
(* What the publish workflow promises the owner of a system about each of  *)
(* their jobs, with no threads, locks, worktrees or crashes: a job is      *)
(* prepared, offered, approved once, and then either published or left to  *)
(* wait for a retry, until it is closed for good.                          *)
(***************************************************************************)
CONSTANTS Jobs

VARIABLES
  phase,      \* what the job's page shows
  approved,   \* jobs that a human has approved
  published,  \* jobs of which a commit has reached the branch
  linked      \* jobs that have a pull request recorded

lifecycle == <<phase, approved, published, linked>>

Closed == {"completed", "failed", "cancelled"}
Open == {"preparing", "offered", "publishing", "waiting"}

Init ==
  /\ phase = [j \in Jobs |-> "none"]
  /\ approved = {} /\ published = {} /\ linked = {}

Moves(j, from, to) ==
  /\ phase[j] \in from /\ phase' = [phase EXCEPT ![j] = to]
  /\ UNCHANGED <<published, linked>>

Submit(j) == Moves(j, {"none"}, "preparing") /\ UNCHANGED approved
Offer(j) == Moves(j, {"preparing"}, "offered") /\ UNCHANGED approved
Approve(j) == Moves(j, {"offered"}, "publishing") /\ approved' = approved \cup {j}
Wait(j) == Moves(j, {"publishing"}, "waiting") /\ UNCHANGED approved
Resume(j) == Moves(j, {"waiting"}, "publishing") /\ UNCHANGED approved
Fail(j) == Moves(j, Open, "failed") /\ UNCHANGED approved

(* Completing needs both a commit on the branch and a recorded pull        *)
(* request.                                                                *)
Complete(j) ==
  /\ j \in published \cap linked
  /\ Moves(j, {"publishing", "waiting"}, "completed") /\ UNCHANGED approved

(* One request may cancel several jobs, and interrupts none that publishes.*)
Cancel(chosen) ==
  /\ \A j \in chosen : phase[j] \in Open \ {"publishing"}
  /\ phase' = [j \in Jobs |-> IF j \in chosen THEN "cancelled" ELSE phase[j]]
  /\ UNCHANGED <<approved, published, linked>>

(* The two effects follow the approval, in this order; they may come late, *)
(* when the owner has already been told that the attempt failed.           *)
Push(j) ==
  /\ j \in approved /\ published' = published \cup {j}
  /\ UNCHANGED <<phase, approved, linked>>
Link(j) ==
  /\ j \in published /\ linked' = linked \cup {j}
  /\ UNCHANGED <<phase, approved, published>>

Next ==
  \/ \E j \in Jobs :
       \/ Submit(j) \/ Offer(j) \/ Approve(j) \/ Wait(j) \/ Resume(j) \/ Fail(j)
       \/ Complete(j) \/ Push(j) \/ Link(j)
  \/ \E chosen \in SUBSET Jobs : Cancel(chosen)

Spec == Init /\ [][Next]_lifecycle
=============================================================================

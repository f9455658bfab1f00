---------------------------- MODULE PublishJobs ----------------------------
(***************************************************************************)
(* The GitHub publish workflow of the control server, in one server        *)
(* process and for one GitHub connection: the job rows of publish_jobs,    *)
(* the threads that drive them (prepare, publish, reconcile), the recovery *)
(* worker, the HTTP handlers that race with them, and the remote           *)
(* repository.  A job prepares a worktree, waits for a human approval,     *)
(* commits, pushes a branch of its own and opens a pull request; a failure *)
(* after the approval is retried by looking at what the remote really has. *)
(*                                                                         *)
(* Statements of the SQLite database are atomic and are not grouped        *)
(* (get_conn is autocommit); two of them are one step here only where the  *)
(* process-wide database lock keeps every other thread out in between.     *)
(* Git and GitHub calls are steps of their own, and any of them may fail,  *)
(* or take effect and lose its answer.                                     *)
(***************************************************************************)
EXTENDS Integers, FiniteSets

CONSTANTS
  Jobs,          \* publish jobs of the connection
  Workers,       \* request-spawned threads that may be alive at once
  Recovery,      \* the thread of publish_recovery's periodic worker
  None,          \* no thread, no job
  AutoRetryMax,  \* PUBLISH_AUTO_RETRY_MAX
  RetryBound,    \* bound of the model on retry_count (manual retries have none)
  CrashBound,    \* bound of the model on server crashes
  Stalls,        \* may a live thread go PUBLISH_STUCK_THRESHOLD_SECONDS silent?
  TornWrites,    \* may a crash separate the statements of one handler?
  Outsiders      \* do other people push, and close pull requests?

Threads == Workers \cup {Recovery}

ASSUME ThreadAssumption == Recovery \notin Workers /\ None \notin Threads \cup Jobs
ASSUME BoundAssumption == AutoRetryMax \in Nat /\ RetryBound \in Nat /\ CrashBound \in Nat
ASSUME SwitchAssumption == Stalls \in BOOLEAN /\ TornWrites \in BOOLEAN /\ Outsiders \in BOOLEAN

-----------------------------------------------------------------------------
(* Job statuses.                                                           *)

PreparePhase == {"authenticating", "fetching", "checking_out", "applying_patch", "validating"}
PublishPhase == {"committing", "pushing", "creating_pr", "reconciling"}
Bug_RetryableStatuses == {"retryable_failed", "manual_intervention_required", "awaiting_approval"}
RetryableStatuses == {"retryable_failed", "manual_intervention_required"}
Bug_AutoRetryable == RetryableStatuses
AutoRetryable == {"retryable_failed"}
Bug_CancellableStatuses == {"pending", "awaiting_approval", "committing"} \cup RetryableStatuses
CancellableStatuses == {"pending", "awaiting_approval"} \cup RetryableStatuses
Bug_DisconnectCancels == PreparePhase \cup {"pending", "awaiting_approval"}
DisconnectCancels == PreparePhase \cup CancellableStatuses
Bug_BlocksDisconnect == {"committing", "creating_pr", "reconciling"}
BlocksDisconnect == PublishPhase
Terminal == {"completed", "failed", "cancelled"}
Statuses == {"none"} \cup DisconnectCancels \cup PublishPhase \cup Terminal

(* What a branch or a worktree holds: a positive number is a commit of     *)
(* ours (the n-th commit made for the job), the rest is named.             *)
Above(n) == -1 - n           \* somebody else's commit on top of our n-th, or of nothing
NoCommit == 0                \* the branch does not exist / nothing recorded
Absent == -2                 \* no worktree
Unpatched == -1              \* a checkout of the base commit
Patched == 0                 \* the same with the patch applied, not committed

VARIABLES
  conn,      \* status of the row of github_connections
  probe,     \* the verify or sync request that is talking to GitHub
  job,       \* rows of publish_jobs
  made,      \* commits created so far for each job
  wt,        \* the job's worktree on disk
  remote,    \* the job's branch on GitHub
  prs,       \* open pull requests of the branch
  baseMoved, \* the base branch is no longer at the pinned commit
  lock,      \* holder of repo_manager.connection_lock
  lease,     \* the row of publish_connection_leases
  thr,       \* what each thread is doing
  todo,      \* repairs the recovery worker has read and not done yet
  removals,  \* worktrees a cancel or disconnect handler has still to remove
  server,    \* is the process running?
  crashes,   \* crashes so far
  connLost   \* history: the connection has left "connected" at least once

github == <<remote, prs, baseMoved>>
disk == <<made, wt>>
process == <<probe, todo, removals, server, crashes>>
vars == <<conn, probe, job, made, wt, remote, prs, baseMoved, lock, lease, thr,
          todo, removals, server, crashes, connLost>>

-----------------------------------------------------------------------------
(* Threads.  pc is the next thing the thread does; where that is a         *)
(* _set_status call it is the status the call asks for.                    *)

IdleThread == [pc |-> "idle", job |-> None, commit |-> NoCommit, outcome |-> "failed",
               cleaned |-> "not_attempted"]
At(t, label) == thr[t].pc = label
JobOf(t) == thr[t].job
Goto(t, label) == thr' = [thr EXCEPT ![t].pc = label]
Busy(j) == \E t \in Threads : thr[t].job = j

(* A request handler starts a daemon thread for job j at label.            *)
Spawn(j, label) ==
  \E w \in Workers :
    /\ At(w, "idle")
    /\ thr' = [thr EXCEPT ![w] = [IdleThread EXCEPT !.pc = label, !.job = j]]

(* The thread leaves the connection lock and ends; the recovery worker     *)
(* goes on with its next automatic retry.                                  *)
Release(t) == IF lock = t /\ lease = "held" THEN "free" ELSE lease
Bug_Leave(t) ==
  /\ lock' = lock
  /\ lease' = Release(t)
  /\ thr' = [thr EXCEPT ![t] = IF t = Recovery THEN [IdleThread EXCEPT !.pc = "auto"]
                                               ELSE IdleThread]

Leave(t) ==
  /\ lock' = IF lock = t THEN None ELSE lock
  /\ lease' = Release(t)
  /\ thr' = [thr EXCEPT ![t] = IF t = Recovery THEN [IdleThread EXCEPT !.pc = "auto"]
                                               ELSE IdleThread]

(* An exception: the reconcile phase gives the lease back, then every      *)
(* phase removes the worktree and records the outcome.                     *)
Fail(t, outcome) ==
  /\ thr' = [thr EXCEPT ![t].pc = "cleanup", ![t].outcome = outcome]
  /\ lease' = Release(t)
  /\ lock' = t

(* _set_status: a terminal status always wins, and the heartbeat is fresh. *)
Bug_Live(j) == TRUE
Live(j) == job[j].status \notin Terminal
SetStatus(j, s) == job' = [job EXCEPT ![j].status = s, ![j].stale = FALSE]

(* `if not _set_status(...): return`, else on to the next label.           *)
Enter(t, s, next) ==
  IF Live(JobOf(t))
  THEN SetStatus(JobOf(t), s) /\ Goto(t, next) /\ lock' = t /\ UNCHANGED lease
  ELSE Leave(t) /\ UNCHANGED job

(* _safe_cleanup_worktree: the removal may fail, which is only recorded.   *)
CleanWorktree(j, left) == left \in {Absent, wt[j]} /\ wt' = [wt EXCEPT ![j] = left]
Bug_CleanupState(left) == IF left = Absent THEN "removed" ELSE "removal_failed"
Bug_AlwaysRemoved(left) == "removed"
CleanupState(left) == IF left = Absent THEN "removed" ELSE "cleanup_failed"

-----------------------------------------------------------------------------
Init ==
  /\ conn = "pending" /\ probe = "none" /\ connLost = FALSE
  /\ job = [j \in Jobs |-> [status |-> "none", approved |-> FALSE, commit |-> NoCommit,
                            retries |-> 0, stale |-> FALSE, pr |-> FALSE,
                            cleanup |-> "not_attempted"]]
  /\ made = [j \in Jobs |-> 0]
  /\ wt = [j \in Jobs |-> Absent]
  /\ remote = [j \in Jobs |-> NoCommit]
  /\ prs = [j \in Jobs |-> 0]
  /\ baseMoved = FALSE
  /\ lock = None /\ lease = "free"
  /\ thr = [t \in Threads |-> IdleThread]
  /\ todo = {} /\ removals = {}
  /\ server = "up" /\ crashes = 0

-----------------------------------------------------------------------------
(* The connection: verify, sync and disconnect handlers.                   *)

SetConn(c) == conn' = c /\ connLost' = (connLost \/ (conn = "connected" /\ c # "connected"))

(* verify reads the row, calls GitHub with no lock held, and then stores   *)
(* the verdict whatever the row says by now.                               *)
VerifyBegin ==
  /\ server = "up" /\ probe = "none" /\ conn # "disconnected"
  /\ probe' = "verify"
  /\ UNCHANGED <<conn, connLost, job, disk, github, lock, lease, thr, todo, removals, server, crashes>>

VerifyEnd ==
  /\ probe = "verify" /\ probe' = "none"
  /\ \E verdict \in {"connected", "error"} : SetConn(verdict)
  /\ UNCHANGED <<job, disk, github, lock, lease, thr, todo, removals, server, crashes>>

(* sync wants a connected row, and marks it "error" when a call fails.     *)
SyncBegin ==
  /\ server = "up" /\ probe = "none" /\ conn = "connected"
  /\ probe' = "sync"
  /\ UNCHANGED <<conn, connLost, job, disk, github, lock, lease, thr, todo, removals, server, crashes>>

SyncEnd ==
  /\ probe = "sync" /\ probe' = "none"
  /\ SetConn("error") \/ UNCHANGED <<conn, connLost>>
  /\ UNCHANGED <<job, disk, github, lock, lease, thr, todo, removals, server, crashes>>

DisconnectAllowed ==
  /\ server = "up" /\ conn # "disconnected"
  /\ \A j \in Jobs : job[j].status \notin BlocksDisconnect

Disconnect ==
  LET cancelled == {j \in Jobs : job[j].status \in DisconnectCancels} IN
  /\ DisconnectAllowed
  /\ SetConn("disconnected")
  /\ job' = [j \in Jobs |-> IF j \in cancelled THEN [job[j] EXCEPT !.status = "cancelled"]
                                               ELSE job[j]]
  /\ removals' = removals \cup cancelled
  /\ UNCHANGED <<probe, disk, github, lock, lease, thr, todo, server, crashes>>

-----------------------------------------------------------------------------
(* Requests on a job.                                                      *)

Create(j) ==
  /\ server = "up" /\ conn = "connected" /\ job[j].status = "none"
  /\ SetStatus(j, "pending")
  /\ Spawn(j, "prepare")
  /\ UNCHANGED <<conn, connLost, disk, github, lock, lease, process>>

Approve(j) ==
  /\ server = "up" /\ conn = "connected" /\ job[j].status = "awaiting_approval"
  /\ job' = [job EXCEPT ![j].status = "committing", ![j].approved = TRUE, ![j].stale = FALSE]
  /\ Spawn(j, "publish")
  /\ UNCHANGED <<conn, connLost, disk, github, lock, lease, process>>

Bug_StartRetry(j) ==
  job' = [job EXCEPT ![j].status = "reconciling", ![j].retries = @ + 1, ![j].stale = FALSE]
StartRetry(j) ==
  /\ conn = "connected"
  /\ job' = [job EXCEPT ![j].status = "reconciling", ![j].retries = @ + 1, ![j].stale = FALSE]

Retry(j) ==
  /\ server = "up" /\ job[j].status \in RetryableStatuses /\ job[j].retries < RetryBound
  /\ StartRetry(j)
  /\ Spawn(j, "read_row")
  /\ UNCHANGED <<conn, connLost, disk, github, lock, lease, process>>

Cancel(j) ==
  /\ server = "up" /\ job[j].status \in CancellableStatuses
  /\ job' = [job EXCEPT ![j].status = "cancelled"]
  /\ removals' = removals \cup {j}
  /\ UNCHANGED <<conn, connLost, disk, github, lock, lease, thr, probe, todo, server, crashes>>

(* The second half of a cancel or disconnect handler: remove the worktree  *)
(* under the connection lock.                                              *)
RemoveWorktree(j) ==
  /\ j \in removals /\ lock = None
  /\ removals' = removals \ {j}
  /\ \E left \in {Absent, wt[j]} :
       CleanWorktree(j, left) /\ job' = [job EXCEPT ![j].cleanup = CleanupState(left)]
  /\ UNCHANGED <<conn, connLost, made, github, lock, lease, thr, probe, todo, server, crashes>>

-----------------------------------------------------------------------------
(* Prepare phase.                                                          *)

StartPrepare(t) ==
  /\ At(t, "prepare") /\ lock = None
  /\ IF conn = "connected"
     THEN Enter(t, "authenticating", "fetching")
     ELSE Fail(t, "failed") /\ UNCHANGED job
  /\ UNCHANGED <<conn, connLost, disk, github, process>>

(* The re-check of the connection before the token is created.             *)
Fetch(t) ==
  /\ At(t, "fetching")
  /\ IF conn = "connected"
     THEN Enter(t, "fetching", "checking_out")
     ELSE Fail(t, "failed") /\ UNCHANGED job
  /\ UNCHANGED <<conn, connLost, disk, github, process>>

(* The mirror is fetched and the pinned base commit compared.              *)
CheckOut(t) ==
  /\ At(t, "checking_out")
  /\ IF baseMoved THEN Fail(t, "failed") /\ UNCHANGED job
                  ELSE Enter(t, "checking_out", "applying_patch")
  /\ UNCHANGED <<conn, connLost, disk, github, process>>

CreateWorktree(t) ==
  /\ At(t, "applying_patch") /\ wt[JobOf(t)] = Absent
  /\ wt' = [wt EXCEPT ![JobOf(t)] = Unpatched]
  /\ Enter(t, "applying_patch", "validating")
  /\ UNCHANGED <<conn, connLost, made, github, process>>

ApplyPatch(t) ==
  /\ At(t, "validating")
  /\ wt' = [wt EXCEPT ![JobOf(t)] = Patched]
  /\ Enter(t, "validating", "awaiting_approval")
  /\ UNCHANGED <<conn, connLost, made, github, process>>

Offer(t) ==
  /\ At(t, "awaiting_approval")
  /\ IF Live(JobOf(t)) THEN SetStatus(JobOf(t), "awaiting_approval") ELSE UNCHANGED job
  /\ Leave(t)
  /\ UNCHANGED <<conn, connLost, disk, github, process>>

Prepare(t) ==
  StartPrepare(t) \/ Fetch(t) \/ CheckOut(t) \/ CreateWorktree(t) \/ ApplyPatch(t) \/ Offer(t)

-----------------------------------------------------------------------------
(* Publish phase: _run_publish_phase and _publish_steps.                   *)

StartPublish(t) ==
  /\ At(t, "publish") /\ lock = None
  /\ IF conn = "connected"
     THEN Enter(t, "committing", "commit")
     ELSE Fail(t, "failed") /\ UNCHANGED job
  /\ UNCHANGED <<conn, connLost, disk, github, process>>

(* Commit what is staged, unless HEAD already is the recorded commit.  No  *)
(* worktree, or nothing to stage, is an error.                             *)
AlreadyCommitted(j) == job[j].commit # NoCommit /\ job[j].commit = wt[j]

Commit(t) ==
  LET j == JobOf(t) IN
  /\ At(t, "commit")
  /\ \/ /\ AlreadyCommitted(j)
        /\ thr' = [thr EXCEPT ![t].pc = "record", ![t].commit = wt[j]]
        /\ UNCHANGED <<disk, lock, lease>>
     \/ /\ ~AlreadyCommitted(j) /\ wt[j] = Patched
        /\ made' = [made EXCEPT ![j] = @ + 1]
        /\ wt' = [wt EXCEPT ![j] = made[j] + 1]
        /\ thr' = [thr EXCEPT ![t].pc = "record", ![t].commit = made[j] + 1]
        /\ UNCHANGED <<lock, lease>>
     \/ /\ ~AlreadyCommitted(j) /\ wt[j] # Patched
        /\ Fail(t, "retryable_failed")
        /\ UNCHANGED disk
  /\ UNCHANGED <<conn, connLost, job, github, process>>

Bug_RecordCommit(t) ==
  /\ At(t, "record")
  /\ Goto(t, "pushing")
  /\ UNCHANGED <<conn, connLost, job, disk, github, lock, lease, process>>

RecordCommit(t) ==
  /\ At(t, "record")
  /\ job' = [job EXCEPT ![JobOf(t)].commit = thr[t].commit]
  /\ Goto(t, "pushing")
  /\ UNCHANGED <<conn, connLost, disk, github, lock, lease, process>>

EnterPushing(t) ==
  /\ At(t, "pushing")
  /\ Enter(t, "pushing", "compare")
  /\ UNCHANGED <<conn, connLost, disk, github, process>>

(* Authorization, token, base branch, and the branch on the remote.        *)
Compare(t) ==
  /\ At(t, "compare")
  /\ IF conn # "connected" \/ baseMoved
     THEN Fail(t, "failed")
     ELSE /\ Goto(t, IF remote[JobOf(t)] = thr[t].commit THEN "creating_pr" ELSE "recheck")
          /\ UNCHANGED <<lock, lease>>
  /\ UNCHANGED <<conn, connLost, job, disk, github, process>>

Recheck(t) ==
  /\ At(t, "recheck")
  /\ IF conn # "connected" THEN Fail(t, "failed")
                           ELSE Goto(t, "push") /\ UNCHANGED <<lock, lease>>
  /\ UNCHANGED <<conn, connLost, job, disk, github, process>>

(* A push without force: git refuses to replace another commit.  The push  *)
(* may reach GitHub and still fail here.                                   *)
Accepted(j) == wt[j] > 0 /\ remote[j] \in {NoCommit, wt[j]}

Bug_Push(t) ==
  LET j == JobOf(t) IN
  /\ At(t, "push")
  /\ \/ Accepted(j) /\ remote' = [remote EXCEPT ![j] = wt[j]]
     \/ ~Accepted(j) /\ UNCHANGED remote
  /\ Goto(t, "creating_pr")
  /\ UNCHANGED <<conn, connLost, job, disk, prs, baseMoved, lock, lease, process>>

Push(t) ==
  LET j == JobOf(t) IN
  /\ At(t, "push")
  /\ \/ /\ Accepted(j)
        /\ remote' = [remote EXCEPT ![j] = wt[j]]
        /\ \/ Goto(t, "creating_pr") /\ UNCHANGED <<lock, lease>>
           \/ Fail(t, "retryable_failed")
     \/ /\ ~Accepted(j)
        /\ Fail(t, "retryable_failed")
        /\ UNCHANGED remote
  /\ UNCHANGED <<conn, connLost, job, disk, prs, baseMoved, process>>

EnterCreatingPr(t) ==
  /\ At(t, "creating_pr")
  /\ Enter(t, "creating_pr", "list_prs")
  /\ UNCHANGED <<conn, connLost, disk, github, process>>

Bug_ListPrs(t) ==
  /\ At(t, "list_prs")
  /\ Goto(t, "create_pr")
  /\ UNCHANGED <<conn, connLost, job, disk, github, lock, lease, process>>

ListPrs(t) ==
  /\ At(t, "list_prs")
  /\ Goto(t, IF prs[JobOf(t)] > 0 THEN "record_pr" ELSE "create_pr")
  /\ UNCHANGED <<conn, connLost, job, disk, github, lock, lease, process>>

CreatePr(t) ==
  /\ At(t, "create_pr")
  /\ prs' = [prs EXCEPT ![JobOf(t)] = @ + 1]
  /\ \/ Goto(t, "record_pr") /\ UNCHANGED <<lock, lease>>
     \/ Fail(t, "retryable_failed")
  /\ UNCHANGED <<conn, connLost, job, disk, remote, baseMoved, process>>

RecordPr(t) ==
  /\ At(t, "record_pr")
  /\ job' = [job EXCEPT ![JobOf(t)].pr = TRUE]
  /\ Goto(t, "completed")
  /\ UNCHANGED <<conn, connLost, disk, github, lock, lease, process>>

Complete(t) ==
  /\ At(t, "completed")
  /\ Enter(t, "completed", "tidy")
  /\ UNCHANGED <<conn, connLost, disk, github, process>>

Tidy(t) ==
  /\ At(t, "tidy")
  /\ \E left \in {Absent, wt[JobOf(t)]} :
       /\ CleanWorktree(JobOf(t), left)
       /\ job' = [job EXCEPT ![JobOf(t)].cleanup = CleanupState(left)]
  /\ Leave(t)
  /\ UNCHANGED <<conn, connLost, made, github, process>>

Publish(t) ==
  \/ StartPublish(t) \/ Commit(t) \/ RecordCommit(t) \/ EnterPushing(t) \/ Compare(t)
  \/ Recheck(t) \/ Push(t) \/ EnterCreatingPr(t) \/ ListPrs(t) \/ CreatePr(t)
  \/ RecordPr(t) \/ Complete(t) \/ Tidy(t)

-----------------------------------------------------------------------------
(* Reconcile phase.  The job row is read before the connection lock is     *)
(* taken, and that copy is what the phase compares the remote with.        *)

ReadRow(t) ==
  /\ At(t, "read_row")
  /\ thr' = [thr EXCEPT ![t].pc = "reconcile", ![t].commit = job[JobOf(t)].commit]
  /\ UNCHANGED <<conn, connLost, job, disk, github, lock, lease, process>>

(* A lease left behind by a process that died defers the retry.            *)
StartReconcile(t) ==
  /\ At(t, "reconcile") /\ lock = None
  /\ IF lease = "free"
     THEN lock' = t /\ lease' = "held" /\ Goto(t, "inspect") /\ UNCHANGED job
     ELSE /\ IF Live(JobOf(t)) THEN SetStatus(JobOf(t), "retryable_failed") ELSE UNCHANGED job
          /\ Leave(t)
  /\ UNCHANGED <<conn, connLost, disk, github, process>>

Inspect(t) ==
  LET j == JobOf(t) IN
  /\ At(t, "inspect")
  /\ IF conn # "connected" \/ baseMoved THEN Fail(t, "failed") /\ UNCHANGED job
     ELSE IF remote[j] = NoCommit THEN Goto(t, "rebuild") /\ UNCHANGED <<job, lock, lease>>
     ELSE IF remote[j] = thr[t].commit THEN Enter(t, "creating_pr", "list_prs")
     ELSE Fail(t, "manual_intervention_required") /\ UNCHANGED job
  /\ UNCHANGED <<conn, connLost, disk, github, process>>

(* The branch was never pushed: make the worktree again if it is gone, and *)
(* forget the commit that went with it.                                    *)
Rebuild(t) ==
  LET j == JobOf(t) IN
  /\ At(t, "rebuild")
  /\ \/ wt[j] # Absent /\ Goto(t, "recommit") /\ UNCHANGED <<job, wt, lock, lease>>
     \/ /\ wt[j] = Absent
        /\ wt' = [wt EXCEPT ![j] = Patched]
        /\ job' = [job EXCEPT ![j].commit = IF thr[t].commit # NoCommit THEN NoCommit ELSE @]
        /\ Goto(t, "recommit")
        /\ UNCHANGED <<lock, lease>>
     \/ /\ wt[j] = Absent
        /\ wt' = [wt EXCEPT ![j] = Unpatched]
        /\ Fail(t, "manual_intervention_required")
        /\ UNCHANGED job
  /\ UNCHANGED <<conn, connLost, made, github, process>>

Recommit(t) ==
  /\ At(t, "recommit")
  /\ Enter(t, "committing", "commit")
  /\ UNCHANGED <<conn, connLost, disk, github, process>>

Reconcile(t) == ReadRow(t) \/ StartReconcile(t) \/ Inspect(t) \/ Rebuild(t) \/ Recommit(t)

-----------------------------------------------------------------------------
(* Failures of a phase.  A git command, a GitHub call or a check on the    *)
(* patch raises: prepare ends in "failed", the later phases in             *)
(* "retryable_failed".                                                     *)

PrepareCalls == {"fetching", "checking_out", "applying_patch", "validating", "awaiting_approval"}
PublishCalls == {"commit", "compare", "push", "list_prs", "create_pr", "inspect", "rebuild"}

Bug_FailureOutcome(label) == "failed"
FailureOutcome(label) == IF label \in PrepareCalls THEN "failed" ELSE "retryable_failed"

CallFails(t) ==
  /\ thr[t].pc \in PrepareCalls \cup PublishCalls
  /\ Fail(t, FailureOutcome(thr[t].pc))
  /\ UNCHANGED <<conn, connLost, job, disk, github, process>>

(* The outcome and what became of the worktree, in one _set_status.        *)
RecordFailure(t) ==
  LET j == JobOf(t) IN
  IF Live(j) THEN job' = [job EXCEPT ![j].status = thr[t].outcome, ![j].stale = FALSE,
                                     ![j].cleanup = thr[t].cleaned]
             ELSE UNCHANGED job

Cleanup(t) ==
  /\ At(t, "cleanup")
  /\ \E left \in {Absent, wt[JobOf(t)]} :
       /\ CleanWorktree(JobOf(t), left)
       /\ thr' = [thr EXCEPT ![t].pc = "settle", ![t].cleaned = CleanupState(left)]
  /\ UNCHANGED <<conn, connLost, job, made, github, lock, lease, process>>

Settle(t) ==
  /\ At(t, "settle")
  /\ RecordFailure(t)
  /\ Leave(t)
  /\ UNCHANGED <<conn, connLost, disk, github, process>>

-----------------------------------------------------------------------------
(* The recovery worker: repair what looks dead, then retry.                *)

(* The heartbeat of an in-flight job grows older than the threshold.       *)
HeartbeatAges(j) ==
  /\ job[j].status \in PreparePhase \cup PublishPhase
  /\ ~job[j].stale
  /\ Stalls \/ ~Busy(j)
  /\ job' = [job EXCEPT ![j].stale = TRUE]
  /\ UNCHANGED <<conn, connLost, disk, github, lock, lease, thr, process>>

Bug_StaleRepairs ==
  {<<j, "retryable_failed">> : j \in {i \in Jobs : job[i].stale /\ job[i].status \in PublishPhase}}

StaleRepairs ==
  {<<j, "failed">> : j \in {i \in Jobs : job[i].stale /\ job[i].status \in PreparePhase}}
  \cup
  {<<j, "retryable_failed">> : j \in {i \in Jobs : job[i].stale /\ job[i].status \in PublishPhase}}

Tick ==
  /\ server = "up" /\ At(Recovery, "idle")
  /\ todo' = StaleRepairs
  /\ Goto(Recovery, "repair")
  /\ UNCHANGED <<conn, connLost, job, disk, github, lock, lease, probe, removals, server, crashes>>

(* The worktree goes first, under the lock; the status is written after    *)
(* the lock is free again, and without a second look at the job.           *)
RepairWorktree ==
  /\ At(Recovery, "repair") /\ lock = None
  /\ \E item \in todo :
       /\ item[2] = "failed" \/ \A other \in todo : other[2] # "failed"
       /\ todo' = todo \ {item}
       /\ \E left \in {Absent, wt[item[1]]} :
            /\ CleanWorktree(item[1], left)
            /\ thr' = [thr EXCEPT ![Recovery] =
                         [pc |-> "repair_status", job |-> item[1], commit |-> NoCommit,
                          outcome |-> item[2], cleaned |-> CleanupState(left)]]
  /\ UNCHANGED <<conn, connLost, job, made, github, lock, lease, probe, removals, server, crashes>>

RepairStatus ==
  /\ At(Recovery, "repair_status")
  /\ RecordFailure(Recovery)
  /\ thr' = [thr EXCEPT ![Recovery] = [IdleThread EXCEPT !.pc = "repair"]]
  /\ UNCHANGED <<conn, connLost, disk, github, lock, lease, process>>

(* The repair at startup ends before the server takes requests.            *)
RepairDone ==
  /\ At(Recovery, "repair") /\ todo = {}
  /\ Goto(Recovery, IF server = "starting" THEN "idle" ELSE "auto")
  /\ server' = "up"
  /\ UNCHANGED <<conn, connLost, job, disk, github, lock, lease, probe, todo, removals, crashes>>

AutoRetryCandidate(j) ==
  /\ job[j].status \in AutoRetryable /\ job[j].retries < AutoRetryMax
  /\ conn = "connected"

AutoRetry(j) ==
  /\ At(Recovery, "auto") /\ AutoRetryCandidate(j)
  /\ StartRetry(j)
  /\ thr' = [thr EXCEPT ![Recovery] = [IdleThread EXCEPT !.pc = "read_row", !.job = j]]
  /\ UNCHANGED <<conn, connLost, disk, github, lock, lease, process>>

AutoRetryDone ==
  /\ At(Recovery, "auto") /\ \A j \in Jobs : ~AutoRetryCandidate(j)
  /\ Goto(Recovery, "idle")
  /\ UNCHANGED <<conn, connLost, job, disk, github, lock, lease, process>>

(* An orphaned lease passes its TTL and no longer counts.                  *)
LeaseExpires ==
  /\ lease = "orphan" /\ lease' = "free"
  /\ UNCHANGED <<conn, connLost, job, disk, github, lock, thr, process>>

-----------------------------------------------------------------------------
(* Environment: crashes, restarts, and what other people do on GitHub.     *)

LoseProcess ==
  /\ crashes < CrashBound /\ crashes' = crashes + 1
  /\ server' = "down"
  /\ thr' = [t \in Threads |-> IdleThread]
  /\ lock' = None
  /\ lease' = IF lease = "held" THEN "orphan" ELSE lease
  /\ probe' = "none" /\ todo' = {} /\ removals' = {}
  /\ UNCHANGED <<disk, github>>

Crash ==
  /\ server # "down"
  /\ LoseProcess
  /\ UNCHANGED <<conn, connLost, job>>

(* A crash between the first UPDATE of the disconnect handler and the      *)
(* UPDATE that cancels the jobs.                                           *)
CrashInDisconnect ==
  /\ TornWrites /\ DisconnectAllowed
  /\ SetConn("disconnected")
  /\ LoseProcess
  /\ UNCHANGED job

Restart ==
  /\ server = "down" /\ server' = "starting"
  /\ todo' = StaleRepairs
  /\ Goto(Recovery, "repair")
  /\ UNCHANGED <<conn, connLost, job, disk, github, lock, lease, probe, removals, crashes>>

BaseMoves ==
  /\ Outsiders /\ ~baseMoved /\ baseMoved' = TRUE
  /\ UNCHANGED <<conn, connLost, job, disk, remote, prs, lock, lease, thr, process>>

ForeignPush(j) ==
  /\ Outsiders /\ job[j].status # "none" /\ remote[j] >= 0
  /\ remote' = [remote EXCEPT ![j] = Above(remote[j])]
  /\ UNCHANGED <<conn, connLost, job, disk, prs, baseMoved, lock, lease, thr, process>>

(* Somebody merges or closes the pull request; the branch stays.           *)
ClosePr(j) ==
  /\ Outsiders /\ prs[j] > 0
  /\ prs' = [prs EXCEPT ![j] = @ - 1]
  /\ UNCHANGED <<conn, connLost, job, disk, remote, baseMoved, lock, lease, thr, process>>

-----------------------------------------------------------------------------
ThreadStep(t) == Prepare(t) \/ Publish(t) \/ Reconcile(t) \/ CallFails(t) \/ Cleanup(t) \/ Settle(t)
RecoveryStep ==
  Tick \/ RepairWorktree \/ RepairStatus \/ RepairDone \/ AutoRetryDone
  \/ \E j \in Jobs : AutoRetry(j)
Connection == VerifyBegin \/ VerifyEnd \/ SyncBegin \/ SyncEnd \/ Disconnect
Requests ==
  \E j \in Jobs : Create(j) \/ Approve(j) \/ Retry(j) \/ Cancel(j) \/ RemoveWorktree(j)
Environment ==
  \/ Crash \/ CrashInDisconnect \/ Restart \/ BaseMoves \/ LeaseExpires
  \/ \E j \in Jobs : ForeignPush(j) \/ ClosePr(j) \/ HeartbeatAges(j)

Next ==
  \/ \E t \in Threads : ThreadStep(t)
  \/ RecoveryStep \/ Connection \/ Requests \/ Environment

Spec == Init /\ [][Next]_vars

(* A started thread keeps running until the process dies, git and GitHub   *)
(* calls have timeouts, a dead process is restarted, and the worker ticks. *)
Fairness ==
  /\ \A t \in Threads : WF_vars(ThreadStep(t))
  /\ WF_vars(RecoveryStep)
  /\ WF_vars(Restart)
  /\ WF_vars(LeaseExpires)
  /\ \A j \in Jobs : WF_vars(HeartbeatAges(j)) /\ WF_vars(RemoveWorktree(j))

LiveSpec == Spec /\ Fairness

-----------------------------------------------------------------------------
(* Properties.                                                             *)

Labels ==
  {"idle", "read_row", "reconcile", "inspect", "rebuild", "recommit", "prepare", "publish",
   "commit", "record", "pushing", "compare", "recheck", "push", "creating_pr", "list_prs",
   "create_pr", "record_pr", "completed", "tidy", "cleanup", "settle", "repair",
   "repair_status", "auto"} \cup PrepareCalls
Outcomes == {"failed", "retryable_failed", "manual_intervention_required"}
CleanupStates == {"not_attempted", "removed", "cleanup_failed"}
JobRows == [status : Statuses, approved : BOOLEAN, commit : Nat, retries : Nat,
            stale : BOOLEAN, pr : BOOLEAN, cleanup : CleanupStates]
ThreadStates == [pc : Labels, job : Jobs \cup {None}, commit : Nat, outcome : Outcomes,
                 cleaned : CleanupStates]

(* Every variable holds a value of its type.                               *)
TypeOK ==
  /\ conn \in {"pending", "connected", "error", "disconnected"}
  /\ probe \in {"none", "verify", "sync"}
  /\ job \in [Jobs -> JobRows]
  /\ made \in [Jobs -> Nat]
  /\ wt \in [Jobs -> Int]
  /\ remote \in [Jobs -> Int]
  /\ prs \in [Jobs -> Nat]
  /\ baseMoved \in BOOLEAN
  /\ lock \in Threads \cup {None}
  /\ lease \in {"free", "held", "orphan"}
  /\ thr \in [Threads -> ThreadStates]
  /\ todo \subseteq Jobs \X Outcomes
  /\ removals \subseteq Jobs
  /\ server \in {"up", "starting", "down"}
  /\ crashes \in Nat
  /\ connLost \in BOOLEAN

(* Nothing reaches GitHub for a job no human approved: no commit of ours   *)
(* on its branch and no pull request, whatever retries, repairs, crashes   *)
(* and restarts did in between.                                            *)
PushedWasApproved ==
  \A j \in Jobs : remote[j] \notin {NoCommit, Above(NoCommit)} \/ prs[j] > 0
                    => job[j].approved

(* A commit of ours on the branch is the one the job row records, in every *)
(* state a crash or a lost answer can leave behind: it is what lets a      *)
(* retry recognise its own push instead of refusing it.                    *)
PushedIsRecorded == \A j \in Jobs : remote[j] > 0 => job[j].commit = remote[j]

(* A retry after a lost answer never opens a second pull request next to   *)
(* one that is open.                                                       *)
AtMostOnePullRequest == \A j \in Jobs : prs[j] <= 1

(* "completed" is only reported when the recorded commit is on the branch  *)
(* (or below what others pushed on top of it) and a pull request that was  *)
(* open for it is recorded.                                                *)
CompletedIsPublished ==
  \A j \in Jobs : job[j].status = "completed" =>
    /\ job[j].pr
    /\ job[j].commit # NoCommit
    /\ remote[j] \in {job[j].commit, Above(job[j].commit)}

(* With no crash, a worktree that outlives its closed job is one whose     *)
(* removal failed and was recorded: no thread that stopped at a lost       *)
(* status race and no late checkout leaves one behind unnoticed.           *)
LeftoverIsRecorded ==
  \A j \in Jobs :
    job[j].status \in Terminal /\ ~Busy(j) /\ j \notin removals /\ crashes = 0
      => wt[j] = Absent \/ job[j].cleanup = "cleanup_failed"

(* A job cancelled, failed or completed stays so, although a thread that   *)
(* has not noticed yet, the recovery worker or a retry writes after it.    *)
TerminalIsFinal ==
  [][\A j \in Jobs : job[j].status \in Terminal => job'[j].status = job[j].status]_vars

(* No push leaves once the connection is disconnected, although the thread *)
(* checks the connection some steps before it pushes.                      *)
Pushes(j) == remote[j] # remote'[j] /\ remote'[j] > 0
NoPushAfterDisconnect == [][\A j \in Jobs : Pushes(j) => conn # "disconnected"]_vars

(* A job that needs a human leaves that state only by a request.           *)
ManualWaitsForHuman ==
  [][\A j \in Jobs :
       job[j].status = "manual_intervention_required" /\ job'[j].status # job[j].status
         => Retry(j) \/ Cancel(j) \/ Disconnect]_vars

(* After the approval only a moved base branch or a lost connection closes *)
(* a job as failed; every other failure leaves it retryable.               *)
ApprovedStaysRetryable ==
  [][\A j \in Jobs :
       job[j].approved /\ job[j].status # "failed" /\ job'[j].status = "failed"
         => baseMoved \/ connLost]_vars

(* A connection row that was disconnected never changes status again.      *)
DisconnectIsFinal == [][conn = "disconnected" => conn' = "disconnected"]_vars

(* A disconnected connection has no job left that is not closed, not even  *)
(* one whose thread was at work when the disconnect came.                  *)
DisconnectCancelsAll ==
  conn = "disconnected" => \A j \in Jobs : job[j].status \in Terminal \cup {"none"}

(* A job that a crash left open under a disconnected connection only       *)
(* closes: no request, retry, repair or thread takes it up again.          *)
DisconnectedOnlyCloses ==
  [][conn = "disconnected" =>
       \A j \in Jobs : job'[j].status # job[j].status => job'[j].status \in Terminal]_vars

(* A job that the recovery worker closes as an interrupted preparation was *)
(* never pushed.                                                           *)
RepairsUnpushed ==
  [][RepairStatus =>
       \A j \in Jobs : job'[j].status = "failed" /\ job[j].status # "failed" => remote[j] <= NoCommit]_vars

(* Whatever crashes, a job in flight comes to rest: offered for approval,  *)
(* closed, or waiting for a retry; so from every state on there is a later *)
(* one in which the job is not in flight.                                  *)
InFlight(j) == job[j].status \in PreparePhase \cup PublishPhase
InFlightComesToRest == \A j \in Jobs : []<>~InFlight(j)

(* A worktree that outlives its job is eventually removed.                 *)
Leftover(j) == job[j].status \in Terminal /\ wt[j] # Absent
LeftoverIsRemoved == \A j \in Jobs : Leftover(j) ~> wt[j] = Absent
=============================================================================

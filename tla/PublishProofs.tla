---------------------------- MODULE PublishProofs ----------------------------
(***************************************************************************)
(* Proofs about PublishJobs for every set of jobs and threads, every       *)
(* bound, and whether or not live threads may be taken for dead.           *)
(*                                                                         *)
(* First its safety: locks, approvals and commits (SafetyInv).  Then that  *)
(* it implements PublishLifecycle: every step of a thread, a handler, the  *)
(* recovery worker or the environment is a step of the promised lifecycle, *)
(* or is not seen.  And what threads, repairs and handlers do to one       *)
(* another's jobs: a job of a live server has one thread at most, which    *)
(* knows its status.                                                       *)
(***************************************************************************)
EXTENDS PublishRefinement, TLAPS

(* A thread that is not resting has a job.                                 *)
Resting == {"idle", "repair", "auto"}
ThreadsHaveJobs == \A t \in Threads : thr[t].pc \notin Resting => thr[t].job \in Jobs

TypeInv == TypeOK /\ ThreadsHaveJobs

ThreadsOK ==
  /\ thr \in [Threads -> ThreadStates]
  /\ lock \in Threads \cup {None}
  /\ lease \in {"free", "held", "orphan"}
  /\ ThreadsHaveJobs

RowsOK == job \in [Jobs -> JobRows]

DiskOK == made \in [Jobs -> Nat] /\ wt \in [Jobs -> Int]
GithubOK == remote \in [Jobs -> Int] /\ prs \in [Jobs -> Nat] /\ baseMoved \in BOOLEAN
ConnOK == conn \in {"pending", "connected", "error", "disconnected"} /\ connLost \in BOOLEAN
ProcessOK ==
  /\ probe \in {"none", "verify", "sync"}
  /\ todo \subseteq Jobs \X Outcomes
  /\ removals \subseteq Jobs
  /\ server \in {"up", "starting", "down"}
  /\ crashes \in Nat
RestOK == DiskOK /\ GithubOK /\ ConnOK /\ ProcessOK

(* Types fall into four parts, which a step is checked on one by one.      *)
LEMMA TypeParts == TypeInv <=> ThreadsOK /\ RowsOK /\ RestOK
  BY DEF TypeInv, TypeOK, ThreadsOK, RowsOK, RestOK, DiskOK, GithubOK, ConnOK, ProcessOK

(* The same of the next state.                                             *)
LEMMA TypePartsNext == TypeInv' <=> ThreadsOK' /\ RowsOK' /\ RestOK'
  BY DEF TypeInv, TypeOK, ThreadsOK, RowsOK, RestOK, DiskOK, GithubOK, ConnOK, ProcessOK

(* The recovery worker is a thread, and no thread name is a job.           *)
LEMMA NamesAreApart == Recovery \in Threads /\ Workers \subseteq Threads /\ None \notin Jobs
  BY ThreadAssumption DEF Threads

(* A jump to a label keeps the types of threads.                           *)
LEMMA GotoKeepsTypes ==
  ASSUME ThreadsOK, NEW t \in Threads, NEW l \in Labels, l \in Resting \/ thr[t].job \in Jobs,
         Goto(t, l), UNCHANGED <<lock, lease>>
  PROVE  ThreadsOK'
  BY DEF ThreadsOK, ThreadsHaveJobs, ThreadStates, Goto

(* Resting threads are well-typed.                                         *)
LEMMA IdleIsThreadState ==
  /\ IdleThread \in ThreadStates
  /\ IdleThread.pc \in Resting
  /\ [IdleThread EXCEPT !.pc = "auto"] \in ThreadStates
  /\ [IdleThread EXCEPT !.pc = "auto"].pc \in Resting
  BY DEF IdleThread, ThreadStates, Labels, Outcomes, CleanupStates, NoCommit, Resting

(* So does leaving the connection lock.                                    *)
LEMMA LeaveKeepsTypes ==
  ASSUME ThreadsOK, NEW t \in Threads, Leave(t)
  PROVE  ThreadsOK'
  BY IdleIsThreadState DEF ThreadsOK, ThreadsHaveJobs, Leave, Release

(* So does the failure of a phase.                                         *)
LEMMA FailKeepsTypes ==
  ASSUME ThreadsOK, NEW t \in Threads, NEW o \in Outcomes, thr[t].job \in Jobs, Fail(t, o)
  PROVE  ThreadsOK'
<1>1. "cleanup" \in Labels BY DEF Labels
<1>. QED  BY <1>1 DEF ThreadsOK, ThreadsHaveJobs, ThreadStates, Fail, Release

(* A status written by _set_status keeps the types of rows.                *)
LEMMA StatusKeepsTypes ==
  ASSUME RowsOK, NEW j, NEW s \in Statuses, SetStatus(j, s)
  PROVE  RowsOK'
  BY DEF RowsOK, JobRows, SetStatus

(* A guarded transition keeps both.                                        *)
LEMMA EnterKeepsTypes ==
  ASSUME ThreadsOK, RowsOK, NEW t \in Threads, NEW s \in Statuses, NEW l \in Labels,
         thr[t].job \in Jobs, Enter(t, s, l)
  PROVE  ThreadsOK' /\ RowsOK'
<1>1. CASE Live(JobOf(t))
  <2>1. RowsOK'  BY <1>1, StatusKeepsTypes DEF Enter
  <2>2. ThreadsOK'
    BY <1>1 DEF Enter, Goto, ThreadsOK, ThreadsHaveJobs, ThreadStates
  <2>. QED  BY <2>1, <2>2
<1>2. CASE ~Live(JobOf(t))
  BY <1>2, LeaveKeepsTypes DEF Enter, RowsOK
<1>. QED  BY <1>1, <1>2

(* A thread at a label that is not a resting one has a job.                *)
LEMMA BusyThreadsHaveJobs ==
  ASSUME ThreadsOK, NEW t \in Threads, NEW l, l \notin Resting, At(t, l)
  PROVE  JobOf(t) \in Jobs /\ thr[t].job \in Jobs
  BY DEF ThreadsOK, ThreadsHaveJobs, At, JobOf

(* The initial state is well-typed.                                        *)
LEMMA InitTypes == Init => TypeInv
<1>. SUFFICES ASSUME Init PROVE ThreadsOK /\ RowsOK /\ RestOK
  BY TypeParts
<1>1. ThreadsOK
  BY IdleIsThreadState DEF Init, ThreadsOK, ThreadsHaveJobs
<1>2. RowsOK
  <2>1. [status |-> "none", approved |-> FALSE, commit |-> NoCommit, retries |-> 0,
         stale |-> FALSE, pr |-> FALSE, cleanup |-> "not_attempted"] \in JobRows
    <3>. "none" \in Statuses /\ "not_attempted" \in CleanupStates /\ NoCommit \in Nat
      BY DEF Statuses, CleanupStates, NoCommit
    <3>. QED  BY DEF JobRows
  <2>. QED  BY <2>1 DEF Init, RowsOK
<1>3. RestOK
  <2>1. Absent \in Int /\ NoCommit \in Int  BY DEF Absent, NoCommit
  <2>2. DiskOK /\ GithubOK  BY <2>1 DEF Init, DiskOK, GithubOK
  <2>3. ConnOK  BY DEF Init, ConnOK
  <2>4. ProcessOK  BY DEF Init, ProcessOK
  <2>. QED  BY <2>2, <2>3, <2>4 DEF RestOK
<1>. QED  BY <1>1, <1>2, <1>3

(* The removal of a worktree keeps the types of the disk.                  *)
LEMMA CleanKeepsTypes ==
  ASSUME DiskOK, NEW j \in Jobs, NEW left, CleanWorktree(j, left), UNCHANGED made
  PROVE  DiskOK' /\ CleanupState(left) \in CleanupStates
  BY DEF DiskOK, CleanWorktree, CleanupState, CleanupStates, Absent

(* Every step of the prepare phase keeps types.                            *)
LEMMA PrepareKeepsTypes ==
  ASSUME TypeInv, NEW t \in Threads, Prepare(t)
  PROVE  TypeInv'
<1>. ThreadsOK /\ RowsOK /\ RestOK  BY TypeParts
<1>. SUFFICES ThreadsOK' /\ RowsOK' /\ RestOK'  BY TypePartsNext
<1>. /\ PrepareCalls \cup {"prepare"} \subseteq Labels
     /\ PreparePhase \cup {"awaiting_approval"} \subseteq Statuses
     /\ "authenticating" \in PreparePhase
     /\ {"fetching", "checking_out", "applying_patch", "validating"}
         \subseteq PreparePhase \cap PrepareCalls
     /\ "awaiting_approval" \in PrepareCalls
     /\ "failed" \in Outcomes
  BY
  DEF Labels, PrepareCalls, PreparePhase, Statuses, DisconnectCancels, CancellableStatuses,
      Outcomes
<1>1. CASE StartPrepare(t)
  <2>. JobOf(t) \in Jobs /\ thr[t].job \in Jobs
    BY <1>1, BusyThreadsHaveJobs DEF StartPrepare, Resting
  <2>. QED  BY <1>1, EnterKeepsTypes, FailKeepsTypes
            DEF StartPrepare, disk, github, process, RestOK, DiskOK, GithubOK, ConnOK, ProcessOK,
                RowsOK
<1>2. CASE Fetch(t)
  <2>. JobOf(t) \in Jobs /\ thr[t].job \in Jobs
    BY <1>2, BusyThreadsHaveJobs DEF Fetch, Resting
  <2>. QED  BY <1>2, EnterKeepsTypes, FailKeepsTypes
            DEF Fetch, disk, github, process, RestOK, DiskOK, GithubOK, ConnOK, ProcessOK,
                RowsOK
<1>3. CASE CheckOut(t)
  <2>. JobOf(t) \in Jobs /\ thr[t].job \in Jobs
    BY <1>3, BusyThreadsHaveJobs DEF CheckOut, Resting
  <2>. QED  BY <1>3, EnterKeepsTypes, FailKeepsTypes
            DEF CheckOut, disk, github, process, RestOK, DiskOK, GithubOK, ConnOK, ProcessOK,
                RowsOK
<1>4. CASE CreateWorktree(t)
  <2>. JobOf(t) \in Jobs /\ thr[t].job \in Jobs
    BY <1>4, BusyThreadsHaveJobs DEF CreateWorktree, Resting
  <2>. QED  BY <1>4, EnterKeepsTypes, FailKeepsTypes
            DEF CreateWorktree, disk, github, process, RestOK, DiskOK, GithubOK, ConnOK,
                ProcessOK, RowsOK, Unpatched
<1>5. CASE ApplyPatch(t)
  <2>. JobOf(t) \in Jobs /\ thr[t].job \in Jobs
    BY <1>5, BusyThreadsHaveJobs DEF ApplyPatch, Resting
  <2>. QED  BY <1>5, EnterKeepsTypes, FailKeepsTypes
            DEF ApplyPatch, disk, github, process, RestOK, DiskOK, GithubOK, ConnOK, ProcessOK,
                RowsOK, Patched
<1>6. CASE Offer(t)
  <2>. JobOf(t) \in Jobs /\ thr[t].job \in Jobs
    BY <1>6, BusyThreadsHaveJobs DEF Offer, Resting
  <2>. QED  BY <1>6, StatusKeepsTypes, LeaveKeepsTypes
            DEF Offer, disk, github, process, RestOK, DiskOK, GithubOK, ConnOK, ProcessOK,
                RowsOK
<1>. QED  BY <1>1, <1>2, <1>3, <1>4, <1>5, <1>6 DEF Prepare

(* Every step of the publish phase keeps types.                            *)
LEMMA PublishKeepsTypes ==
  ASSUME TypeInv, NEW t \in Threads, Publish(t)
  PROVE  TypeInv'
<1>. ThreadsOK /\ RowsOK /\ RestOK  BY TypeParts
<1>. SUFFICES ThreadsOK' /\ RowsOK' /\ RestOK'  BY TypePartsNext
<1>. /\ {"record", "pushing", "compare", "recheck", "push", "creating_pr", "list_prs",
         "create_pr", "record_pr", "completed", "tidy", "commit", "reconcile", "inspect",
         "rebuild", "recommit", "settle"} \subseteq Labels
     /\ {"committing", "pushing", "creating_pr", "completed", "retryable_failed"} \subseteq Statuses
     /\ {"failed", "retryable_failed", "manual_intervention_required"} \subseteq Outcomes
     /\ Outcomes \subseteq Statuses
  BY DEF Labels, Statuses, PublishPhase, Terminal, Outcomes, DisconnectCancels,
         CancellableStatuses, RetryableStatuses
<1>1. CASE StartPublish(t)
  <2>. JobOf(t) \in Jobs /\ thr[t].job \in Jobs
    BY <1>1, BusyThreadsHaveJobs DEF StartPublish, Resting
  <2>. QED  BY <1>1, EnterKeepsTypes, FailKeepsTypes
            DEF StartPublish, disk, github, process, RestOK, DiskOK, GithubOK, ConnOK, ProcessOK,
                RowsOK
<1>2. CASE Commit(t)
  <2>. JobOf(t) \in Jobs /\ thr[t].job \in Jobs
    BY <1>2, BusyThreadsHaveJobs DEF Commit, Resting
  <2>1. CASE AlreadyCommitted(JobOf(t)) /\ thr' = [thr EXCEPT ![t].pc = "record", ![t].commit = wt[JobOf(t)]]
             /\ UNCHANGED <<disk, lock, lease>>
    <3>1. wt[JobOf(t)] \in Nat  BY <2>1 DEF AlreadyCommitted, RowsOK, JobRows
    <3>2. ThreadsOK'  BY <2>1, <3>1 DEF ThreadsOK, ThreadsHaveJobs, ThreadStates
    <3>. QED  BY <1>2, <2>1, <3>2
              DEF Commit, disk, github, process, RestOK, DiskOK, GithubOK, ConnOK, ProcessOK,
                  RowsOK
  <2>2. CASE made' = [made EXCEPT ![JobOf(t)] = @ + 1] /\ wt' = [wt EXCEPT ![JobOf(t)] = made[JobOf(t)] + 1]
             /\ thr' = [thr EXCEPT ![t].pc = "record", ![t].commit = made[JobOf(t)] + 1]
             /\ UNCHANGED <<lock, lease>>
    <3>1. made[JobOf(t)] + 1 \in Nat  BY DEF RestOK, DiskOK
    <3>2. ThreadsOK'  BY <2>2, <3>1 DEF ThreadsOK, ThreadsHaveJobs, ThreadStates
    <3>3. DiskOK'  BY <2>2, <3>1 DEF RestOK, DiskOK
    <3>. QED  BY <1>2, <2>2, <3>2, <3>3
              DEF Commit, github, process, RestOK, GithubOK, ConnOK, ProcessOK, RowsOK
  <2>3. CASE Fail(t, "retryable_failed") /\ UNCHANGED disk
    BY <1>2, <2>3, FailKeepsTypes
    DEF Commit, disk, github, process, RestOK, DiskOK, GithubOK, ConnOK, ProcessOK, RowsOK
  <2>. QED  BY <1>2, <2>1, <2>2, <2>3 DEF Commit
<1>3. CASE RecordCommit(t)
  <2>. JobOf(t) \in Jobs /\ thr[t].job \in Jobs
    BY <1>3, BusyThreadsHaveJobs DEF RecordCommit, Resting
  <2>1. thr[t].commit \in Nat  BY DEF ThreadsOK, ThreadStates
  <2>2. RowsOK'  BY <1>3, <2>1 DEF RecordCommit, RowsOK, JobRows
  <2>. QED  BY <1>3, <2>2, GotoKeepsTypes
            DEF RecordCommit, disk, github, process, RestOK, DiskOK, GithubOK, ConnOK, ProcessOK
<1>4. CASE EnterPushing(t)
  <2>. JobOf(t) \in Jobs /\ thr[t].job \in Jobs
    BY <1>4, BusyThreadsHaveJobs DEF EnterPushing, Resting
  <2>. QED  BY <1>4, EnterKeepsTypes, FailKeepsTypes
            DEF EnterPushing, disk, github, process, RestOK, DiskOK, GithubOK, ConnOK, ProcessOK,
                RowsOK
<1>5. CASE Compare(t)
  <2>. JobOf(t) \in Jobs /\ thr[t].job \in Jobs
    BY <1>5, BusyThreadsHaveJobs DEF Compare, Resting
  <2>. QED  BY <1>5, GotoKeepsTypes, FailKeepsTypes
            DEF Compare, disk, github, process, RestOK, DiskOK, GithubOK, ConnOK, ProcessOK,
                RowsOK
<1>6. CASE Recheck(t)
  <2>. JobOf(t) \in Jobs /\ thr[t].job \in Jobs
    BY <1>6, BusyThreadsHaveJobs DEF Recheck, Resting
  <2>. QED  BY <1>6, GotoKeepsTypes, FailKeepsTypes
            DEF Recheck, disk, github, process, RestOK, DiskOK, GithubOK, ConnOK, ProcessOK,
                RowsOK
<1>7. CASE Push(t)
  <2>. JobOf(t) \in Jobs /\ thr[t].job \in Jobs
    BY <1>7, BusyThreadsHaveJobs DEF Push, Resting
  <2>1. ThreadsOK'  BY <1>7, GotoKeepsTypes, FailKeepsTypes DEF Push
  <2>2. remote' \in [Jobs -> Int]  BY <1>7 DEF Push, RestOK, GithubOK, DiskOK
  <2>. QED  BY <1>7, <2>1, <2>2
            DEF Push, disk, process, RestOK, DiskOK, GithubOK, ConnOK, ProcessOK, RowsOK
<1>8. CASE EnterCreatingPr(t)
  <2>. JobOf(t) \in Jobs /\ thr[t].job \in Jobs
    BY <1>8, BusyThreadsHaveJobs DEF EnterCreatingPr, Resting
  <2>. QED  BY <1>8, EnterKeepsTypes, FailKeepsTypes
            DEF EnterCreatingPr, disk, github, process, RestOK, DiskOK, GithubOK, ConnOK,
                ProcessOK, RowsOK
<1>9. CASE ListPrs(t)
  <2>. JobOf(t) \in Jobs /\ thr[t].job \in Jobs
    BY <1>9, BusyThreadsHaveJobs DEF ListPrs, Resting
  <2>. QED  BY <1>9, GotoKeepsTypes, FailKeepsTypes
            DEF ListPrs, disk, github, process, RestOK, DiskOK, GithubOK, ConnOK, ProcessOK,
                RowsOK
<1>10. CASE CreatePr(t)
  <2>. JobOf(t) \in Jobs /\ thr[t].job \in Jobs
    BY <1>10, BusyThreadsHaveJobs DEF CreatePr, Resting
  <2>1. ThreadsOK'  BY <1>10, GotoKeepsTypes, FailKeepsTypes DEF CreatePr
  <2>2. prs' \in [Jobs -> Nat]  BY <1>10 DEF CreatePr, RestOK, GithubOK
  <2>. QED  BY <1>10, <2>1, <2>2
            DEF CreatePr, disk, process, RestOK, DiskOK, GithubOK, ConnOK, ProcessOK, RowsOK
<1>11. CASE RecordPr(t)
  <2>. JobOf(t) \in Jobs /\ thr[t].job \in Jobs
    BY <1>11, BusyThreadsHaveJobs DEF RecordPr, Resting
  <2>1. RowsOK'  BY <1>11 DEF RecordPr, RowsOK, JobRows
  <2>. QED  BY <1>11, <2>1, GotoKeepsTypes
            DEF RecordPr, disk, github, process, RestOK, DiskOK, GithubOK, ConnOK, ProcessOK
<1>12. CASE Complete(t)
  <2>. JobOf(t) \in Jobs /\ thr[t].job \in Jobs
    BY <1>12, BusyThreadsHaveJobs DEF Complete, Resting
  <2>. QED  BY <1>12, EnterKeepsTypes, FailKeepsTypes
            DEF Complete, disk, github, process, RestOK, DiskOK, GithubOK, ConnOK, ProcessOK,
                RowsOK
<1>13. CASE Tidy(t)
  <2>. JobOf(t) \in Jobs /\ thr[t].job \in Jobs
    BY <1>13, BusyThreadsHaveJobs DEF Tidy, Resting
  <2>1. PICK left : /\ CleanWorktree(JobOf(t), left)
                    /\ job' = [job EXCEPT ![JobOf(t)].cleanup = CleanupState(left)]
    BY <1>13 DEF Tidy
  <2>2. DiskOK' /\ CleanupState(left) \in CleanupStates
    BY <1>13, <2>1, CleanKeepsTypes DEF Tidy, RestOK
  <2>3. RowsOK'  BY <2>1, <2>2 DEF RowsOK, JobRows
  <2>. QED  BY <1>13, <2>2, <2>3, LeaveKeepsTypes
            DEF Tidy, github, process, RestOK, GithubOK, ConnOK, ProcessOK
<1>. QED  BY <1>1, <1>2, <1>3, <1>4, <1>5, <1>6, <1>7, <1>8, <1>9, <1>10, <1>11, <1>12, <1>13
          DEF Publish

(* Every step of the reconcile phase keeps types.                          *)
LEMMA ReconcileKeepsTypes ==
  ASSUME TypeInv, NEW t \in Threads, Reconcile(t)
  PROVE  TypeInv'
<1>. ThreadsOK /\ RowsOK /\ RestOK  BY TypeParts
<1>. SUFFICES ThreadsOK' /\ RowsOK' /\ RestOK'  BY TypePartsNext
<1>. /\ {"record", "pushing", "compare", "recheck", "push", "creating_pr", "list_prs",
         "create_pr", "record_pr", "completed", "tidy", "commit", "reconcile", "inspect",
         "rebuild", "recommit", "settle"} \subseteq Labels
     /\ {"committing", "pushing", "creating_pr", "completed", "retryable_failed"} \subseteq Statuses
     /\ {"failed", "retryable_failed", "manual_intervention_required"} \subseteq Outcomes
     /\ Outcomes \subseteq Statuses
  BY DEF Labels, Statuses, PublishPhase, Terminal, Outcomes, DisconnectCancels,
         CancellableStatuses, RetryableStatuses
<1>1. CASE ReadRow(t)
  <2>. JobOf(t) \in Jobs /\ thr[t].job \in Jobs
    BY <1>1, BusyThreadsHaveJobs DEF ReadRow, Resting
  <2>1. job[JobOf(t)].commit \in Nat  BY DEF RowsOK, JobRows
  <2>2. ThreadsOK'  BY <1>1, <2>1 DEF ReadRow, ThreadsOK, ThreadsHaveJobs, ThreadStates
  <2>. QED  BY <1>1, <2>2
            DEF ReadRow, disk, github, process, RestOK, DiskOK, GithubOK, ConnOK, ProcessOK, RowsOK
<1>2. CASE StartReconcile(t)
  <2>. JobOf(t) \in Jobs /\ thr[t].job \in Jobs
    BY <1>2, BusyThreadsHaveJobs DEF StartReconcile, Resting
  <2>1. CASE lease = "free"
    <3>1. ThreadsOK'
      BY <1>2, <2>1 DEF StartReconcile, Goto, ThreadsOK, ThreadsHaveJobs, ThreadStates
    <3>. QED  BY <1>2, <2>1, <3>1
              DEF StartReconcile, disk, github, process, RestOK, DiskOK, GithubOK, ConnOK,
                  ProcessOK, RowsOK
  <2>2. CASE lease # "free"
    BY <1>2, <2>2, StatusKeepsTypes, LeaveKeepsTypes
    DEF StartReconcile, disk, github, process, RestOK, DiskOK, GithubOK, ConnOK, ProcessOK, RowsOK
  <2>. QED  BY <2>1, <2>2
<1>3. CASE Inspect(t)
  <2>. JobOf(t) \in Jobs /\ thr[t].job \in Jobs
    BY <1>3, BusyThreadsHaveJobs DEF Inspect, Resting
  <2>. QED  BY <1>3, GotoKeepsTypes, EnterKeepsTypes, FailKeepsTypes
            DEF Inspect, disk, github, process, RestOK, DiskOK, GithubOK, ConnOK, ProcessOK,
                RowsOK
<1>4. CASE Rebuild(t)
  <2>. JobOf(t) \in Jobs /\ thr[t].job \in Jobs
    BY <1>4, BusyThreadsHaveJobs DEF Rebuild, Resting
  <2>1. ThreadsOK'  BY <1>4, GotoKeepsTypes, FailKeepsTypes DEF Rebuild
  <2>2. RowsOK'  BY <1>4 DEF Rebuild, RowsOK, JobRows, NoCommit
  <2>3. DiskOK'  BY <1>4 DEF Rebuild, RestOK, DiskOK, Patched, Unpatched
  <2>. QED  BY <1>4, <2>1, <2>2, <2>3
            DEF Rebuild, github, process, RestOK, GithubOK, ConnOK, ProcessOK
<1>5. CASE Recommit(t)
  <2>. JobOf(t) \in Jobs /\ thr[t].job \in Jobs
    BY <1>5, BusyThreadsHaveJobs DEF Recommit, Resting
  <2>. QED  BY <1>5, EnterKeepsTypes, FailKeepsTypes
            DEF Recommit, disk, github, process, RestOK, DiskOK, GithubOK, ConnOK, ProcessOK,
                RowsOK
<1>. QED  BY <1>1, <1>2, <1>3, <1>4, <1>5 DEF Reconcile

(* The record of a failure keeps the types of rows.                        *)
LEMMA RecordKeepsTypes ==
  ASSUME ThreadsOK, RowsOK, NEW t \in Threads, RecordFailure(t)
  PROVE  RowsOK'
<1>1. thr[t].outcome \in Statuses /\ thr[t].cleaned \in CleanupStates
  BY DEF ThreadsOK, ThreadStates, Outcomes, Statuses, Terminal, DisconnectCancels,
         CancellableStatuses, RetryableStatuses
<1>. QED  BY <1>1 DEF RecordFailure, RowsOK, JobRows

(* So does the start of a retry.                                           *)
LEMMA RetryKeepsTypes ==
  ASSUME RowsOK, NEW j \in Jobs, StartRetry(j)
  PROVE  RowsOK'
<1>1. "reconciling" \in Statuses  BY DEF Statuses, PublishPhase
<1>. QED  BY <1>1 DEF StartRetry, RowsOK, JobRows

(* A new thread is well-typed and has a job.                               *)
LEMMA SpawnKeepsTypes ==
  ASSUME ThreadsOK, NEW j \in Jobs, NEW l \in Labels, Spawn(j, l), UNCHANGED <<lock, lease>>
  PROVE  ThreadsOK'
<1>1. PICK w \in Workers : thr' = [thr EXCEPT ![w] = [IdleThread EXCEPT !.pc = l, !.job = j]]
  BY DEF Spawn
<1>2. w \in Threads  BY NamesAreApart
<1>3. [IdleThread EXCEPT !.pc = l, !.job = j] \in ThreadStates
  BY DEF IdleThread, ThreadStates, Outcomes, CleanupStates, NoCommit
<1>4. [IdleThread EXCEPT !.pc = l, !.job = j].job = j  BY DEF IdleThread
<1>. QED  BY <1>1, <1>2, <1>3, <1>4 DEF ThreadsOK, ThreadsHaveJobs

(* The recovery worker plans repairs of jobs, with outcomes.               *)
LEMMA RepairsAreTyped == StaleRepairs \subseteq Jobs \X Outcomes
  BY DEF StaleRepairs, Outcomes

(* A failing call, its cleanup and its record keep types.                  *)
LEMMA FailureKeepsTypes ==
  ASSUME TypeInv, NEW t \in Threads, CallFails(t) \/ Cleanup(t) \/ Settle(t)
  PROVE  TypeInv'
<1>. ThreadsOK /\ RowsOK /\ RestOK  BY TypeParts
<1>. SUFFICES ThreadsOK' /\ RowsOK' /\ RestOK'  BY TypePartsNext
<1>1. CASE CallFails(t)
  <2>1. thr[t].pc \notin Resting
    BY <1>1 DEF CallFails, PrepareCalls, PublishCalls, Resting
  <2>2. thr[t].job \in Jobs  BY <2>1 DEF ThreadsOK, ThreadsHaveJobs
  <2>3. FailureOutcome(thr[t].pc) \in Outcomes  BY DEF FailureOutcome, Outcomes
  <2>. QED  BY <1>1, <2>2, <2>3, FailKeepsTypes
            DEF CallFails, disk, github, process, RestOK, DiskOK, GithubOK, ConnOK, ProcessOK,
                RowsOK
<1>2. CASE Cleanup(t)
  <2>. JobOf(t) \in Jobs /\ thr[t].job \in Jobs
    BY <1>2, BusyThreadsHaveJobs DEF Cleanup, Resting
  <2>1. PICK left : /\ CleanWorktree(JobOf(t), left)
                    /\ thr' = [thr EXCEPT ![t].pc = "settle", ![t].cleaned = CleanupState(left)]
    BY <1>2 DEF Cleanup
  <2>2. DiskOK' /\ CleanupState(left) \in CleanupStates
    BY <1>2, <2>1, CleanKeepsTypes DEF Cleanup, RestOK
  <2>3. "settle" \in Labels  BY DEF Labels
  <2>4. thr' \in [Threads -> ThreadStates] /\ ThreadsHaveJobs'
    BY <2>1, <2>2, <2>3 DEF ThreadsOK, ThreadsHaveJobs, ThreadStates
  <2>5. ThreadsOK'  BY <1>2, <2>4 DEF Cleanup, ThreadsOK
  <2>. QED  BY <1>2, <2>2, <2>5
            DEF Cleanup, github, process, RestOK, GithubOK, ConnOK, ProcessOK, RowsOK
<1>3. CASE Settle(t)
  <2>. JobOf(t) \in Jobs /\ thr[t].job \in Jobs
    BY <1>3, BusyThreadsHaveJobs DEF Settle, Resting
  <2>1. RowsOK'  BY <1>3, RecordKeepsTypes DEF Settle
  <2>. QED  BY <1>3, <2>1, LeaveKeepsTypes
            DEF Settle, disk, github, process, RestOK, DiskOK, GithubOK, ConnOK, ProcessOK
<1>. QED  BY <1>1, <1>2, <1>3

(* Every step of the recovery worker keeps types.                          *)
LEMMA RecoveryKeepsTypes ==
  ASSUME TypeInv, RecoveryStep
  PROVE  TypeInv'
<1>. ThreadsOK /\ RowsOK /\ RestOK  BY TypeParts
<1>. SUFFICES ThreadsOK' /\ RowsOK' /\ RestOK'  BY TypePartsNext
<1>. Recovery \in Threads  BY NamesAreApart
<1>. {"idle", "repair", "auto"} \subseteq Labels \cap Resting  BY DEF Labels, Resting
<1>1. CASE Tick
  BY <1>1, GotoKeepsTypes, RepairsAreTyped
  DEF Tick, disk, github, RestOK, DiskOK, GithubOK, ConnOK, ProcessOK, RowsOK
<1>2. CASE RepairWorktree
  <2>1. PICK item \in todo : \E left \in {Absent, wt[item[1]]} :
          /\ todo' = todo \ {item}
          /\ CleanWorktree(item[1], left)
          /\ thr' = [thr EXCEPT ![Recovery] =
                      [pc |-> "repair_status", job |-> item[1], commit |-> NoCommit,
                       outcome |-> item[2], cleaned |-> CleanupState(left)]]
    BY <1>2 DEF RepairWorktree
  <2>. PICK left : /\ todo' = todo \ {item}
                   /\ CleanWorktree(item[1], left)
                   /\ thr' = [thr EXCEPT ![Recovery] =
                               [pc |-> "repair_status", job |-> item[1], commit |-> NoCommit,
                                outcome |-> item[2], cleaned |-> CleanupState(left)]]
    BY <2>1
  <2>2. item[1] \in Jobs /\ item[2] \in Outcomes  BY DEF RestOK, ProcessOK
  <2>3. DiskOK' /\ CleanupState(left) \in CleanupStates
    BY <1>2, <2>2, CleanKeepsTypes DEF RepairWorktree, RestOK
  <2>4. "repair_status" \in Labels /\ NoCommit \in Nat  BY DEF Labels, NoCommit
  <2>5. [pc |-> "repair_status", job |-> item[1], commit |-> NoCommit,
         outcome |-> item[2], cleaned |-> CleanupState(left)] \in ThreadStates
    BY <2>2, <2>3, <2>4 DEF ThreadStates
  <2>6. ThreadsOK'
    BY <1>2, <2>2, <2>5 DEF RepairWorktree, ThreadsOK, ThreadsHaveJobs
  <2>7. todo' \subseteq Jobs \X Outcomes  BY DEF RestOK, ProcessOK
  <2>. QED  BY <1>2, <2>3, <2>6, <2>7
            DEF RepairWorktree, github, RestOK, GithubOK, ConnOK, ProcessOK, RowsOK
<1>3. CASE RepairStatus
  <2>. JobOf(Recovery) \in Jobs
    BY <1>3, BusyThreadsHaveJobs DEF RepairStatus, Resting
  <2>1. RowsOK'  BY <1>3, RecordKeepsTypes DEF RepairStatus
  <2>2. [IdleThread EXCEPT !.pc = "repair"] \in ThreadStates
    BY DEF IdleThread, ThreadStates, Labels, Outcomes, CleanupStates, NoCommit
  <2>3. [IdleThread EXCEPT !.pc = "repair"].pc \in Resting  BY DEF IdleThread, Resting
  <2>4. ThreadsOK'  BY <1>3, <2>2, <2>3 DEF RepairStatus, ThreadsOK, ThreadsHaveJobs
  <2>. QED  BY <1>3, <2>1, <2>4
            DEF RepairStatus, disk, github, process, RestOK, DiskOK, GithubOK, ConnOK, ProcessOK
<1>4. CASE RepairDone
  BY <1>4, GotoKeepsTypes
  DEF RepairDone, disk, github, RestOK, DiskOK, GithubOK, ConnOK, ProcessOK, RowsOK
<1>5. CASE AutoRetryDone
  BY <1>5, GotoKeepsTypes
  DEF AutoRetryDone, disk, github, process, RestOK, DiskOK, GithubOK, ConnOK, ProcessOK, RowsOK
<1>6. ASSUME NEW j \in Jobs, AutoRetry(j) PROVE ThreadsOK' /\ RowsOK' /\ RestOK'
  <2>1. RowsOK'  BY <1>6, RetryKeepsTypes DEF AutoRetry
  <2>2. [IdleThread EXCEPT !.pc = "read_row", !.job = j] \in ThreadStates
    BY DEF IdleThread, ThreadStates, Labels, Outcomes, CleanupStates, NoCommit
  <2>3. [IdleThread EXCEPT !.pc = "read_row", !.job = j].job = j  BY DEF IdleThread
  <2>4. ThreadsOK'  BY <1>6, <2>2, <2>3 DEF AutoRetry, ThreadsOK, ThreadsHaveJobs
  <2>. QED  BY <1>6, <2>1, <2>4
            DEF AutoRetry, disk, github, process, RestOK, DiskOK, GithubOK, ConnOK, ProcessOK
<1>. QED  BY <1>1, <1>2, <1>3, <1>4, <1>5, <1>6 DEF RecoveryStep

(* Every handler of the connection keeps types.                            *)
LEMMA ConnectionKeepsTypes ==
  ASSUME TypeInv, Connection
  PROVE  TypeInv'
<1>. ThreadsOK /\ RowsOK /\ RestOK  BY TypeParts
<1>. SUFFICES ThreadsOK' /\ RowsOK' /\ RestOK'  BY TypePartsNext
<1>1. CASE VerifyBegin \/ VerifyEnd \/ SyncBegin \/ SyncEnd
  <2>1. ThreadsOK' /\ RowsOK'
    BY <1>1 DEF VerifyBegin, VerifyEnd, SyncBegin, SyncEnd, ThreadsOK, ThreadsHaveJobs, RowsOK
  <2>2. ConnOK'
    BY <1>1 DEF VerifyBegin, VerifyEnd, SyncBegin, SyncEnd, SetConn, RestOK, ConnOK
  <2>. QED  BY <1>1, <2>1, <2>2
            DEF VerifyBegin, VerifyEnd, SyncBegin, SyncEnd, disk, github, RestOK, DiskOK,
                GithubOK, ProcessOK
<1>2. CASE Disconnect
  <2>1. RowsOK'
    <3>1. "cancelled" \in Statuses  BY DEF Statuses, Terminal
    <3>2. \A j \in Jobs : [job[j] EXCEPT !.status = "cancelled"] \in JobRows
      BY <3>1 DEF RowsOK, JobRows
    <3>. QED  BY <1>2, <3>2 DEF Disconnect, RowsOK
  <2>2. ConnOK'  BY <1>2 DEF Disconnect, SetConn, RestOK, ConnOK
  <2>3. removals' \subseteq Jobs  BY <1>2 DEF Disconnect, RestOK, ProcessOK
  <2>. QED  BY <1>2, <2>1, <2>2, <2>3
            DEF Disconnect, disk, github, ThreadsOK, ThreadsHaveJobs, RestOK, DiskOK, GithubOK,
                ProcessOK
<1>. QED  BY <1>1, <1>2 DEF Connection

(* Every request on a job keeps types.                                     *)
LEMMA RequestsKeepTypes ==
  ASSUME TypeInv, Requests
  PROVE  TypeInv'
<1>. ThreadsOK /\ RowsOK /\ RestOK  BY TypeParts
<1>. SUFFICES ThreadsOK' /\ RowsOK' /\ RestOK'  BY TypePartsNext
<1>. PICK j \in Jobs : Create(j) \/ Approve(j) \/ Retry(j) \/ Cancel(j) \/ RemoveWorktree(j)
  BY DEF Requests
<1>. {"prepare", "publish", "read_row"} \subseteq Labels  BY DEF Labels
<1>. {"pending", "committing", "cancelled"} \subseteq Statuses
  BY DEF Statuses, Terminal, PublishPhase, DisconnectCancels, CancellableStatuses
<1>1. CASE Create(j)
  BY <1>1, StatusKeepsTypes, SpawnKeepsTypes
  DEF Create, disk, github, process, RestOK, DiskOK, GithubOK, ConnOK, ProcessOK
<1>2. CASE Approve(j)
  <2>1. RowsOK'  BY <1>2 DEF Approve, RowsOK, JobRows
  <2>. QED  BY <1>2, <2>1, SpawnKeepsTypes
            DEF Approve, disk, github, process, RestOK, DiskOK, GithubOK, ConnOK, ProcessOK
<1>3. CASE Retry(j)
  BY <1>3, RetryKeepsTypes, SpawnKeepsTypes
  DEF Retry, disk, github, process, RestOK, DiskOK, GithubOK, ConnOK, ProcessOK
<1>4. CASE Cancel(j)
  <2>1. RowsOK'  BY <1>4 DEF Cancel, RowsOK, JobRows
  <2>. QED  BY <1>4, <2>1
            DEF Cancel, disk, github, ThreadsOK, ThreadsHaveJobs, RestOK, DiskOK, GithubOK,
                ConnOK, ProcessOK
<1>5. CASE RemoveWorktree(j)
  <2>1. PICK left : CleanWorktree(j, left) /\ job' = [job EXCEPT ![j].cleanup = CleanupState(left)]
    BY <1>5 DEF RemoveWorktree
  <2>2. DiskOK' /\ CleanupState(left) \in CleanupStates
    BY <1>5, <2>1, CleanKeepsTypes DEF RemoveWorktree, RestOK
  <2>3. RowsOK'  BY <2>1, <2>2 DEF RowsOK, JobRows
  <2>. QED  BY <1>5, <2>2, <2>3
            DEF RemoveWorktree, github, ThreadsOK, ThreadsHaveJobs, RestOK, GithubOK, ConnOK,
                ProcessOK
<1>. QED  BY <1>1, <1>2, <1>3, <1>4, <1>5

(* Crashes, restarts and the pushes of others keep types.                  *)
LEMMA EnvironmentKeepsTypes ==
  ASSUME TypeInv, Environment
  PROVE  TypeInv'
<1>. ThreadsOK /\ RowsOK /\ RestOK  BY TypeParts
<1>. SUFFICES ThreadsOK' /\ RowsOK' /\ RestOK'  BY TypePartsNext
<1>1. ASSUME LoseProcess, ConnOK', RowsOK' PROVE ThreadsOK' /\ RowsOK' /\ RestOK'
  <2>1. ThreadsOK'  BY <1>1, IdleIsThreadState DEF LoseProcess, ThreadsOK, ThreadsHaveJobs
  <2>. QED  BY <1>1, <2>1 DEF LoseProcess, disk, github, RestOK, DiskOK, GithubOK, ProcessOK
<1>2. CASE Crash
  BY <1>1, <1>2 DEF Crash, ConnOK, RestOK, RowsOK
<1>3. CASE CrashInDisconnect
  BY <1>1, <1>3 DEF CrashInDisconnect, SetConn, ConnOK, RestOK, RowsOK
<1>4. CASE Restart
  <2>. Recovery \in Threads /\ "repair" \in Labels \cap Resting
    BY NamesAreApart DEF Labels, Resting
  <2>. QED  BY <1>4, GotoKeepsTypes, RepairsAreTyped
            DEF Restart, disk, github, RestOK, DiskOK, GithubOK, ConnOK, ProcessOK, RowsOK
<1>5. CASE BaseMoves
  BY <1>5
  DEF BaseMoves, disk, process, ThreadsOK, ThreadsHaveJobs, RestOK, DiskOK, GithubOK, ConnOK,
      ProcessOK, RowsOK
<1>6. CASE LeaseExpires
  BY <1>6
  DEF LeaseExpires, disk, github, process, ThreadsOK, ThreadsHaveJobs, RestOK, DiskOK, GithubOK,
      ConnOK, ProcessOK, RowsOK
<1>7. ASSUME NEW j \in Jobs, ForeignPush(j) PROVE ThreadsOK' /\ RowsOK' /\ RestOK'
  BY <1>7
  DEF ForeignPush, Above, disk, process, ThreadsOK, ThreadsHaveJobs, RestOK, DiskOK, GithubOK,
      ConnOK, ProcessOK, RowsOK
<1>8. ASSUME NEW j \in Jobs, HeartbeatAges(j) PROVE ThreadsOK' /\ RowsOK' /\ RestOK'
  <2>1. RowsOK'  BY <1>8 DEF HeartbeatAges, RowsOK, JobRows
  <2>. QED  BY <1>8, <2>1
            DEF HeartbeatAges, disk, github, process, ThreadsOK, ThreadsHaveJobs, RestOK, DiskOK,
                GithubOK, ConnOK, ProcessOK
<1>9. ASSUME NEW j \in Jobs, ClosePr(j) PROVE ThreadsOK' /\ RowsOK' /\ RestOK'
  <2>1. prs' \in [Jobs -> Nat]  BY <1>9 DEF ClosePr, RestOK, GithubOK
  <2>. QED  BY <1>9, <2>1
            DEF ClosePr, disk, process, ThreadsOK, ThreadsHaveJobs, RestOK, DiskOK, GithubOK,
                ConnOK, ProcessOK, RowsOK
<1>. QED  BY <1>2, <1>3, <1>4, <1>5, <1>6, <1>7, <1>8, <1>9 DEF Environment

(* Every step keeps types.                                                 *)
LEMMA TypeStep == TypeInv /\ [Next]_vars => TypeInv'
<1>. SUFFICES ASSUME TypeInv, [Next]_vars PROVE TypeInv'
  OBVIOUS
<1>1. ASSUME NEW t \in Threads, ThreadStep(t) PROVE TypeInv'
  BY <1>1, PrepareKeepsTypes, PublishKeepsTypes, ReconcileKeepsTypes, FailureKeepsTypes
  DEF ThreadStep
<1>2. CASE UNCHANGED vars
  BY <1>2 DEF vars, TypeInv, TypeOK, ThreadsHaveJobs
<1>. QED
  BY <1>1, <1>2, RecoveryKeepsTypes, ConnectionKeepsTypes, RequestsKeepTypes, EnvironmentKeepsTypes
  DEF Next

(* Every variable always holds a value of its type, and every thread that  *)
(* is at work has a job.                                                   *)
THEOREM TypeSafety == Spec => []TypeInv
  BY InitTypes, TypeStep, PTL DEF Spec

(* Every variable always holds a value of its type.                        *)
THEOREM TypeCorrect == Spec => []TypeOK
  BY TypeSafety, PTL DEF TypeInv

-----------------------------------------------------------------------------
(***************************************************************************)
(* The safety of the publish workflow, from its inductive invariant: what  *)
(* every thread may assume of its job row, its worktree and its branch at  *)
(* each label.                                                             *)
(***************************************************************************)

PublishLabels ==
  {"publish", "commit", "record", "pushing", "compare", "recheck", "push", "creating_pr",
   "list_prs", "create_pr", "record_pr", "completed", "tidy", "read_row", "reconcile",
   "inspect", "rebuild", "recommit"}
PrepareLabels == {"prepare"} \cup PrepareCalls
FailureLabels == {"cleanup", "settle", "repair_status"}
UnlockedLabels == Resting \cup {"prepare", "publish", "read_row", "reconcile", "repair_status"}
NeedsApproval == PublishPhase \cup RetryableStatuses \cup {"completed"}

(* Past the approval a row, a thread and a pending repair are of a job     *)
(* that was approved.                                                      *)
ApprovedRows == \A j \in Jobs : job[j].status \in NeedsApproval => job[j].approved
ActsForApproved(t) ==
  \/ thr[t].pc \in PublishLabels
  \/ thr[t].pc \in FailureLabels /\ thr[t].outcome # "failed"
ApprovedThread(t) == ActsForApproved(t) => job[thr[t].job].approved
ApprovedThreads == \A t \in Threads : ApprovedThread(t)
ApprovedRepairs == \A item \in todo : item[2] # "failed" => job[item[1]].approved
ApprovedInv == ApprovedRows /\ ApprovedThreads /\ ApprovedRepairs /\ PushedWasApproved

(* A thread at a label behind the connection lock holds it.                *)
LockInv == \A t \in Threads : thr[t].pc \notin UnlockedLabels => lock = t

-----------------------------------------------------------------------------
(* What the operators that actions are made of do to the fields of a       *)
(* thread and of a row.                                                    *)

OthersRun(t) == \A u \in Threads \ {t} : thr'[u] = thr[u]
OthersKeep(j) ==
  \A i \in Jobs \ {j} : job'[i] = job[i] /\ wt'[i] = wt[i] /\ remote'[i] = remote[i] /\ prs'[i] = prs[i]

(* A jump changes the label of its thread only.                            *)
LEMMA GotoFields ==
  ASSUME TypeInv, NEW t \in Threads, NEW l, Goto(t, l)
  PROVE  /\ thr'[t].pc = l /\ thr'[t].job = thr[t].job
         /\ thr'[t].commit = thr[t].commit /\ thr'[t].outcome = thr[t].outcome
         /\ OthersRun(t)
  BY DEF TypeInv, TypeOK, ThreadStates, Goto, OthersRun

(* A failure leads to the cleanup of the same job, with the lock held.     *)
LEMMA FailFields ==
  ASSUME TypeInv, NEW t \in Threads, NEW o, Fail(t, o)
  PROVE  /\ thr'[t].pc = "cleanup" /\ thr'[t].job = thr[t].job /\ thr'[t].outcome = o
         /\ OthersRun(t)
         /\ lock' = t
  BY DEF TypeInv, TypeOK, ThreadStates, Fail, OthersRun

(* A thread that leaves rests and holds nothing.                           *)
LEMMA LeaveFields ==
  ASSUME TypeInv, NEW t \in Threads, Leave(t)
  PROVE  /\ thr'[t].pc \in {"idle", "auto"} /\ OthersRun(t)
         /\ lock' = IF lock = t THEN None ELSE lock
  BY DEF TypeInv, TypeOK, Leave, OthersRun, IdleThread

(* _set_status changes the status of one row, and no recorded fact.        *)
LEMMA StatusFields ==
  ASSUME TypeInv, NEW j \in Jobs, NEW s, SetStatus(j, s)
  PROVE  /\ job'[j].status = s /\ job'[j].approved = job[j].approved
         /\ job'[j].commit = job[j].commit
         /\ \A i \in Jobs \ {j} : job'[i] = job[i]
  BY DEF TypeInv, TypeOK, JobRows, SetStatus

Entered(t, s, l) ==
  LET j == JobOf(t) IN
  /\ Live(j)
  /\ thr'[t].pc = l /\ thr'[t].job = j
  /\ thr'[t].commit = thr[t].commit /\ thr'[t].outcome = thr[t].outcome
  /\ OthersRun(t)
  /\ lock' = t
  /\ job'[j].status = s /\ job'[j].approved = job[j].approved /\ job'[j].commit = job[j].commit
  /\ \A i \in Jobs \ {j} : job'[i] = job[i]
Refused(t) ==
  /\ ~Live(JobOf(t))
  /\ thr'[t].pc \in {"idle", "auto"} /\ OthersRun(t)
  /\ lock' = (IF lock = t THEN None ELSE lock)
  /\ job' = job

(* A guarded transition either happens as asked or ends the thread.        *)
LEMMA EnterFields ==
  ASSUME TypeInv, NEW t \in Threads, JobOf(t) \in Jobs, NEW s, NEW l, Enter(t, s, l)
  PROVE  Entered(t, s, l) \/ Refused(t)
<1>1. CASE Live(JobOf(t))
  BY <1>1, GotoFields, StatusFields DEF Enter, Entered, JobOf
<1>2. CASE ~Live(JobOf(t))
  BY <1>2, LeaveFields DEF Enter, Refused
<1>. QED  BY <1>1, <1>2

(* The end of a failed phase writes one row, and only if it is not closed. *)
LEMMA RecordFields ==
  ASSUME TypeInv, NEW t \in Threads, JobOf(t) \in Jobs, RecordFailure(t)
  PROVE  LET j == JobOf(t) IN
         /\ job'[j].status = IF Live(j) THEN thr[t].outcome ELSE job[j].status
         /\ job'[j].approved = job[j].approved /\ job'[j].commit = job[j].commit
         /\ \A i \in Jobs \ {j} : job'[i] = job[i]
  BY DEF TypeInv, TypeOK, JobRows, RecordFailure

-----------------------------------------------------------------------------
(* A step of a thread touches its own job only, never its approval, and    *)
(* never a closed status; and it respects the connection lock.             *)
RowLocal(t) ==
  LET j == JobOf(t) IN
  /\ OthersKeep(j)
  /\ job'[j].approved = job[j].approved
  /\ job[j].status \in Terminal => job'[j].status = job[j].status
ThreadLocal(t) ==
  /\ OthersRun(t)
  /\ thr'[t].job = thr[t].job \/ thr'[t].pc \in Resting
  /\ lock \in {t, None} \/ lock' = lock
  /\ lock' = t \/ thr'[t].pc \in UnlockedLabels
  /\ todo' = todo
LocalStep(t) == JobOf(t) \in Jobs /\ RowLocal(t) /\ ThreadLocal(t)

(* A thread at a label that is not a resting one has a job.                *)
LEMMA BusyJobs ==
  ASSUME TypeInv, NEW t \in Threads, NEW l, l \notin Resting, At(t, l)
  PROVE  JobOf(t) \in Jobs /\ thr[t].job \in Jobs
  BY TypeParts, BusyThreadsHaveJobs

(* The guard of _set_status is on the closed statuses.                     *)
LEMMA TerminalNeverLive == \A j \in Jobs : Live(j) <=> job[j].status \notin Terminal
  BY DEF Live

(* The prepare phase is local.                                             *)
LEMMA PrepareIsLocal ==
  ASSUME TypeInv, LockInv, NEW t \in Threads, Prepare(t)
  PROVE  LocalStep(t)
<1>1. CASE StartPrepare(t)
  <2>. JobOf(t) \in Jobs /\ thr[t].job \in Jobs
    BY <1>1, BusyJobs DEF StartPrepare, Resting
  <2>. QED  BY <1>1, EnterFields, FailFields, TerminalNeverLive
            DEF StartPrepare, LocalStep, RowLocal, ThreadLocal, OthersKeep, Entered, Refused, At,
                LockInv,
                UnlockedLabels, Resting, disk, github, process, JobOf
<1>2. CASE Fetch(t)
  <2>. JobOf(t) \in Jobs /\ thr[t].job \in Jobs
    BY <1>2, BusyJobs DEF Fetch, Resting
  <2>. QED  BY <1>2, EnterFields, FailFields, TerminalNeverLive
            DEF Fetch, LocalStep, RowLocal, ThreadLocal, OthersKeep, Entered, Refused, At, LockInv,
                UnlockedLabels, Resting, disk, github, process, JobOf
<1>3. CASE CheckOut(t)
  <2>. JobOf(t) \in Jobs /\ thr[t].job \in Jobs
    BY <1>3, BusyJobs DEF CheckOut, Resting
  <2>. QED  BY <1>3, EnterFields, FailFields, TerminalNeverLive
            DEF CheckOut, LocalStep, RowLocal, ThreadLocal, OthersKeep, Entered, Refused, At,
                LockInv,
                UnlockedLabels, Resting, disk, github, process, JobOf
<1>4. CASE CreateWorktree(t)
  <2>. JobOf(t) \in Jobs /\ thr[t].job \in Jobs
    BY <1>4, BusyJobs DEF CreateWorktree, Resting
  <2>. QED  BY <1>4, EnterFields, FailFields, TerminalNeverLive
            DEF CreateWorktree, LocalStep, RowLocal, ThreadLocal, OthersKeep, Entered, Refused,
                At, LockInv,
                UnlockedLabels, Resting, disk, github, process, JobOf, TypeInv, TypeOK
<1>5. CASE ApplyPatch(t)
  <2>. JobOf(t) \in Jobs /\ thr[t].job \in Jobs
    BY <1>5, BusyJobs DEF ApplyPatch, Resting
  <2>. QED  BY <1>5, EnterFields, FailFields, TerminalNeverLive
            DEF ApplyPatch, LocalStep, RowLocal, ThreadLocal, OthersKeep, Entered, Refused, At,
                LockInv,
                UnlockedLabels, Resting, disk, github, process, JobOf, TypeInv, TypeOK
<1>6. CASE Offer(t)
  <2>. JobOf(t) \in Jobs /\ thr[t].job \in Jobs
    BY <1>6, BusyJobs DEF Offer, Resting
  <2>1. thr[t].pc \notin UnlockedLabels  BY <1>6 DEF Offer, At, UnlockedLabels, Resting
  <2>. QED  BY <1>6, <2>1, StatusFields, LeaveFields, TerminalNeverLive
            DEF Offer, LocalStep, RowLocal, ThreadLocal, OthersKeep, LockInv,
                UnlockedLabels, Resting, disk, github, process, JobOf
<1>. QED  BY <1>1, <1>2, <1>3, <1>4, <1>5, <1>6 DEF Prepare

(* The publish phase is local.                                             *)
LEMMA PublishIsLocal ==
  ASSUME TypeInv, LockInv, NEW t \in Threads, Publish(t)
  PROVE  LocalStep(t)
<1>1. CASE StartPublish(t)
  <2>. JobOf(t) \in Jobs /\ thr[t].job \in Jobs
    BY <1>1, BusyJobs DEF StartPublish, Resting
  <2>. QED  BY <1>1, EnterFields, FailFields, TerminalNeverLive
            DEF StartPublish, LocalStep, RowLocal, ThreadLocal, OthersKeep, Entered, Refused, At,
                LockInv,
                UnlockedLabels, Resting, disk, github, process, JobOf
<1>2. CASE Commit(t)
  <2>. JobOf(t) \in Jobs /\ thr[t].job \in Jobs
    BY <1>2, BusyJobs DEF Commit, Resting
  <2>1. lock = t  BY <1>2 DEF Commit, At, LockInv, UnlockedLabels, Resting
  <2>2. RowLocal(t) /\ todo' = todo
    BY <1>2 DEF Commit, RowLocal, OthersKeep, disk, github, process, TypeInv, TypeOK, JobOf
  <2>3. OthersRun(t) /\ thr'[t].job = thr[t].job
    BY <1>2, FailFields DEF Commit, OthersRun, TypeInv, TypeOK, ThreadStates
  <2>4. lock' = t  BY <1>2, <2>1, FailFields DEF Commit
  <2>. QED  BY <2>1, <2>2, <2>3, <2>4 DEF LocalStep, ThreadLocal
<1>3. CASE RecordCommit(t)
  <2>. JobOf(t) \in Jobs /\ thr[t].job \in Jobs
    BY <1>3, BusyJobs DEF RecordCommit, Resting
  <2>1. RowLocal(t)
    BY <1>3
    DEF RecordCommit, RowLocal, OthersKeep, disk, github, process, TypeInv, TypeOK, JobRows,
        JobOf
  <2>. QED  BY <1>3, <2>1, GotoFields
            DEF RecordCommit, LocalStep, ThreadLocal, At, LockInv, UnlockedLabels, Resting, process
<1>4. CASE EnterPushing(t)
  <2>. JobOf(t) \in Jobs /\ thr[t].job \in Jobs
    BY <1>4, BusyJobs DEF EnterPushing, Resting
  <2>. QED  BY <1>4, EnterFields, FailFields, TerminalNeverLive
            DEF EnterPushing, LocalStep, RowLocal, ThreadLocal, OthersKeep, Entered, Refused, At,
                LockInv,
                UnlockedLabels, Resting, disk, github, process, JobOf
<1>5. CASE Compare(t)
  <2>. JobOf(t) \in Jobs /\ thr[t].job \in Jobs
    BY <1>5, BusyJobs DEF Compare, Resting
  <2>. QED  BY <1>5, GotoFields, FailFields
            DEF Compare, LocalStep, RowLocal, ThreadLocal, OthersKeep, At, LockInv,
                UnlockedLabels, Resting, disk, github, process, JobOf
<1>6. CASE Recheck(t)
  <2>. JobOf(t) \in Jobs /\ thr[t].job \in Jobs
    BY <1>6, BusyJobs DEF Recheck, Resting
  <2>. QED  BY <1>6, GotoFields, FailFields
            DEF Recheck, LocalStep, RowLocal, ThreadLocal, OthersKeep, At, LockInv,
                UnlockedLabels, Resting, disk, github, process, JobOf
<1>7. CASE Push(t)
  <2>. JobOf(t) \in Jobs /\ thr[t].job \in Jobs
    BY <1>7, BusyJobs DEF Push, Resting
  <2>1. RowLocal(t) /\ todo' = todo
    BY <1>7 DEF Push, RowLocal, OthersKeep, disk, process, TypeInv, TypeOK, JobOf
  <2>. QED  BY <1>7, <2>1, GotoFields, FailFields
            DEF Push, LocalStep, ThreadLocal, At, LockInv, UnlockedLabels, Resting
<1>8. CASE EnterCreatingPr(t)
  <2>. JobOf(t) \in Jobs /\ thr[t].job \in Jobs
    BY <1>8, BusyJobs DEF EnterCreatingPr, Resting
  <2>. QED  BY <1>8, EnterFields, FailFields, TerminalNeverLive
            DEF EnterCreatingPr, LocalStep, RowLocal, ThreadLocal, OthersKeep, Entered, Refused,
                At, LockInv,
                UnlockedLabels, Resting, disk, github, process, JobOf
<1>9. CASE ListPrs(t)
  <2>. JobOf(t) \in Jobs /\ thr[t].job \in Jobs
    BY <1>9, BusyJobs DEF ListPrs, Resting
  <2>. QED  BY <1>9, GotoFields, FailFields
            DEF ListPrs, LocalStep, RowLocal, ThreadLocal, OthersKeep, At, LockInv,
                UnlockedLabels, Resting, disk, github, process, JobOf
<1>10. CASE CreatePr(t)
  <2>. JobOf(t) \in Jobs /\ thr[t].job \in Jobs
    BY <1>10, BusyJobs DEF CreatePr, Resting
  <2>1. RowLocal(t) /\ todo' = todo
    BY <1>10 DEF CreatePr, RowLocal, OthersKeep, disk, process, TypeInv, TypeOK, JobOf
  <2>. QED  BY <1>10, <2>1, GotoFields, FailFields
            DEF CreatePr, LocalStep, ThreadLocal, At, LockInv, UnlockedLabels, Resting
<1>11. CASE RecordPr(t)
  <2>. JobOf(t) \in Jobs /\ thr[t].job \in Jobs
    BY <1>11, BusyJobs DEF RecordPr, Resting
  <2>1. RowLocal(t)
    BY <1>11
    DEF RecordPr, RowLocal, OthersKeep, disk, github, process, TypeInv, TypeOK, JobRows, JobOf
  <2>. QED  BY <1>11, <2>1, GotoFields
            DEF RecordPr, LocalStep, ThreadLocal, At, LockInv, UnlockedLabels, Resting, process
<1>12. CASE Complete(t)
  <2>. JobOf(t) \in Jobs /\ thr[t].job \in Jobs
    BY <1>12, BusyJobs DEF Complete, Resting
  <2>. QED  BY <1>12, EnterFields, FailFields, TerminalNeverLive
            DEF Complete, LocalStep, RowLocal, ThreadLocal, OthersKeep, Entered, Refused, At,
                LockInv,
                UnlockedLabels, Resting, disk, github, process, JobOf
<1>13. CASE Tidy(t)
  <2>. JobOf(t) \in Jobs /\ thr[t].job \in Jobs
    BY <1>13, BusyJobs DEF Tidy, Resting
  <2>1. RowLocal(t) /\ todo' = todo
    BY <1>13
    DEF Tidy, CleanWorktree, RowLocal, OthersKeep, github, process, TypeInv, TypeOK, JobRows,
        JobOf
  <2>2. lock = t  BY <1>13 DEF Tidy, At, LockInv, UnlockedLabels, Resting
  <2>. QED  BY <1>13, <2>1, <2>2, LeaveFields
            DEF Tidy, LocalStep, ThreadLocal, UnlockedLabels, Resting
<1>. QED  BY <1>1, <1>2, <1>3, <1>4, <1>5, <1>6, <1>7, <1>8, <1>9, <1>10, <1>11, <1>12, <1>13
          DEF Publish

(* The reconcile phase is local.                                           *)
LEMMA ReconcileIsLocal ==
  ASSUME TypeInv, LockInv, NEW t \in Threads, Reconcile(t)
  PROVE  LocalStep(t)
<1>1. CASE ReadRow(t)
  <2>. JobOf(t) \in Jobs /\ thr[t].job \in Jobs
    BY <1>1, BusyJobs DEF ReadRow, Resting
  <2>1. RowLocal(t)  BY <1>1 DEF ReadRow, RowLocal, OthersKeep, disk, github
  <2>2. OthersRun(t) /\ thr'[t].job = thr[t].job /\ thr'[t].pc = "reconcile"
    BY <1>1 DEF ReadRow, OthersRun, TypeInv, TypeOK, ThreadStates
  <2>. QED  BY <1>1, <2>1, <2>2 DEF ReadRow, LocalStep, ThreadLocal, UnlockedLabels, process
<1>2. CASE StartReconcile(t)
  <2>. JobOf(t) \in Jobs /\ thr[t].job \in Jobs
    BY <1>2, BusyJobs DEF StartReconcile, Resting
  <2>1. CASE lease = "free"
    BY <1>2, <2>1, GotoFields
    DEF StartReconcile, LocalStep, RowLocal, ThreadLocal, OthersKeep, disk, github, process, JobOf
  <2>2. CASE lease # "free"
    BY <1>2, <2>2, StatusFields, LeaveFields, TerminalNeverLive
    DEF StartReconcile, LocalStep, RowLocal, ThreadLocal, OthersKeep, UnlockedLabels, Resting,
        disk, github, process, JobOf
  <2>. QED  BY <2>1, <2>2
<1>3. CASE Inspect(t)
  <2>. JobOf(t) \in Jobs /\ thr[t].job \in Jobs
    BY <1>3, BusyJobs DEF Inspect, Resting
  <2>1. lock = t  BY <1>3 DEF Inspect, At, LockInv, UnlockedLabels, Resting
  <2>. QED  BY <1>3, <2>1, GotoFields, EnterFields, FailFields, TerminalNeverLive
            DEF Inspect, LocalStep, RowLocal, ThreadLocal, OthersKeep, Entered, Refused,
                UnlockedLabels, Resting, disk, github, process, JobOf
<1>4. CASE Rebuild(t)
  <2>. JobOf(t) \in Jobs /\ thr[t].job \in Jobs
    BY <1>4, BusyJobs DEF Rebuild, Resting
  <2>1. lock = t  BY <1>4 DEF Rebuild, At, LockInv, UnlockedLabels, Resting
  <2>2. RowLocal(t)
    BY <1>4 DEF Rebuild, RowLocal, OthersKeep, github, TypeInv, TypeOK, JobRows, JobOf
  <2>3. OthersRun(t) /\ thr'[t].job = thr[t].job /\ lock' = t
    BY <1>4, <2>1, GotoFields, FailFields DEF Rebuild
  <2>. QED  BY <1>4, <2>1, <2>2, <2>3 DEF Rebuild, LocalStep, ThreadLocal, process
<1>5. CASE Recommit(t)
  <2>. JobOf(t) \in Jobs /\ thr[t].job \in Jobs
    BY <1>5, BusyJobs DEF Recommit, Resting
  <2>. QED  BY <1>5, EnterFields, FailFields, TerminalNeverLive
            DEF Recommit, LocalStep, RowLocal, ThreadLocal, OthersKeep, Entered, Refused, At,
                LockInv,
                UnlockedLabels, Resting, disk, github, process, JobOf
<1>. QED  BY <1>1, <1>2, <1>3, <1>4, <1>5 DEF Reconcile

(* A failing call, the cleanup and the record of the failure are local.    *)
LEMMA FailureIsLocal ==
  ASSUME TypeInv, LockInv, NEW t \in Threads, CallFails(t) \/ Cleanup(t) \/ Settle(t)
  PROVE  LocalStep(t)
<1>1. CASE CallFails(t)
  <2>1. thr[t].pc \notin UnlockedLabels
    BY <1>1 DEF CallFails, PrepareCalls, PublishCalls, UnlockedLabels, Resting
  <2>2. JobOf(t) \in Jobs  BY <2>1 DEF TypeInv, ThreadsHaveJobs, JobOf, UnlockedLabels
  <2>. QED  BY <1>1, <2>1, <2>2, FailFields
            DEF CallFails, LocalStep, RowLocal, ThreadLocal, OthersKeep, LockInv, disk, github,
                process
<1>2. CASE Cleanup(t)
  <2>. JobOf(t) \in Jobs /\ thr[t].job \in Jobs
    BY <1>2, BusyJobs DEF Cleanup, Resting
  <2>1. lock = t  BY <1>2 DEF Cleanup, At, LockInv, UnlockedLabels, Resting
  <2>2. RowLocal(t)
    BY <1>2 DEF Cleanup, CleanWorktree, RowLocal, OthersKeep, github, TypeInv, TypeOK, JobOf
  <2>3. OthersRun(t) /\ thr'[t].job = thr[t].job
    BY <1>2 DEF Cleanup, OthersRun, TypeInv, TypeOK, ThreadStates
  <2>. QED  BY <1>2, <2>1, <2>2, <2>3 DEF Cleanup, LocalStep, ThreadLocal, process
<1>3. CASE Settle(t)
  <2>. JobOf(t) \in Jobs /\ thr[t].job \in Jobs
    BY <1>3, BusyJobs DEF Settle, Resting
  <2>1. lock = t  BY <1>3 DEF Settle, At, LockInv, UnlockedLabels, Resting
  <2>2. RowLocal(t)
    BY <1>3, RecordFields, TerminalNeverLive DEF Settle, RowLocal, OthersKeep, disk, github
  <2>. QED  BY <1>3, <2>1, <2>2, LeaveFields
            DEF Settle, LocalStep, ThreadLocal, UnlockedLabels, Resting, process
<1>. QED  BY <1>1, <1>2, <1>3

(* Every step of a thread is local.                                        *)
LEMMA ThreadStepIsLocal ==
  ASSUME TypeInv, LockInv, NEW t \in Threads, ThreadStep(t)
  PROVE  LocalStep(t)
  BY PrepareIsLocal, PublishIsLocal, ReconcileIsLocal, FailureIsLocal DEF ThreadStep

-----------------------------------------------------------------------------
(* The connection lock is exclusive.                                       *)

(* A local step keeps the lock exclusive.                                  *)
LEMMA LocalStepKeepsLock ==
  ASSUME LockInv, NEW t \in Threads, LocalStep(t)
  PROVE  LockInv'
<1>. SUFFICES ASSUME NEW u \in Threads, thr'[u].pc \notin UnlockedLabels PROVE lock' = u
  BY DEF LockInv
<1>1. CASE u = t  BY <1>1 DEF LocalStep, ThreadLocal
<1>2. CASE u # t
  <2>1. thr'[u] = thr[u]  BY <1>2 DEF LocalStep, ThreadLocal, OthersRun
  <2>2. lock = u  BY <2>1 DEF LockInv
  <2>3. u # None  BY ThreadAssumption
  <2>. QED  BY <1>2, <2>2, <2>3 DEF LocalStep, ThreadLocal
<1>. QED  BY <1>1, <1>2

(* A new thread does not hold the lock yet.                                *)
LEMMA SpawnFields ==
  ASSUME TypeInv, NEW j \in Jobs, NEW l, Spawn(j, l)
  PROVE  \E w \in Workers :
           /\ thr[w].pc = "idle" /\ OthersRun(w)
           /\ thr'[w].pc = l /\ thr'[w].job = j
  BY NamesAreApart DEF Spawn, TypeInv, TypeOK, OthersRun, IdleThread, At

(* So does the start of a thread.                                          *)
LEMMA SpawnKeepsLock ==
  ASSUME TypeInv, LockInv, NEW j \in Jobs, NEW l \in UnlockedLabels, Spawn(j, l), UNCHANGED lock
  PROVE  LockInv'
  BY SpawnFields, NamesAreApart DEF LockInv, OthersRun

(* So does the recovery worker, which repairs outside the lock.            *)
LEMMA RecoveryKeepsLock ==
  ASSUME TypeInv, LockInv, RecoveryStep
  PROVE  LockInv'
<1>1. lock' = lock
  BY
  DEF RecoveryStep, Tick, RepairWorktree, RepairStatus, RepairDone, AutoRetryDone, AutoRetry,
      process
<1>2. OthersRun(Recovery) /\ thr'[Recovery].pc \in UnlockedLabels
  <2>1. CASE Tick \/ RepairDone \/ AutoRetryDone
    BY <2>1, NamesAreApart, GotoFields
    DEF Tick, RepairDone, AutoRetryDone, UnlockedLabels, Resting
  <2>2. CASE RepairWorktree
    BY <2>2, NamesAreApart DEF RepairWorktree, TypeInv, TypeOK, OthersRun, UnlockedLabels
  <2>3. CASE RepairStatus
    BY <2>3, NamesAreApart
    DEF RepairStatus, TypeInv, TypeOK, OthersRun, UnlockedLabels, Resting, IdleThread
  <2>4. ASSUME NEW j \in Jobs, AutoRetry(j) PROVE OthersRun(Recovery) /\ thr'[Recovery].pc \in UnlockedLabels
    BY <2>4, NamesAreApart DEF AutoRetry, TypeInv, TypeOK, OthersRun, UnlockedLabels, IdleThread
  <2>. QED  BY <2>1, <2>2, <2>3, <2>4 DEF RecoveryStep
<1>. QED  BY <1>1, <1>2 DEF LockInv, OthersRun

(* So does every request.                                                  *)
LEMMA RequestsKeepLock ==
  ASSUME TypeInv, LockInv, Requests
  PROVE  LockInv'
<1>. PICK j \in Jobs : Create(j) \/ Approve(j) \/ Retry(j) \/ Cancel(j) \/ RemoveWorktree(j)
  BY DEF Requests
<1>. {"prepare", "publish", "read_row"} \subseteq UnlockedLabels  BY DEF UnlockedLabels
<1>1. CASE Create(j) \/ Approve(j) \/ Retry(j)
  BY <1>1, SpawnKeepsLock DEF Create, Approve, Retry
<1>2. CASE Cancel(j) \/ RemoveWorktree(j)
  BY <1>2 DEF Cancel, RemoveWorktree, LockInv
<1>. QED  BY <1>1, <1>2

(* So does the environment: a crash ends every thread.                     *)
LEMMA EnvironmentKeepsLock ==
  ASSUME TypeInv, LockInv, Environment
  PROVE  LockInv'
<1>1. CASE Crash \/ CrashInDisconnect
  BY <1>1 DEF Crash, CrashInDisconnect, LoseProcess, LockInv, IdleThread, UnlockedLabels, Resting
<1>2. CASE Restart
  BY <1>2, NamesAreApart, GotoFields DEF Restart, LockInv, OthersRun, UnlockedLabels, Resting
<1>3. CASE BaseMoves \/ LeaseExpires \/ \E j \in Jobs : ForeignPush(j) \/ ClosePr(j) \/ HeartbeatAges(j)
  BY <1>3 DEF BaseMoves, LeaseExpires, ForeignPush, ClosePr, HeartbeatAges, LockInv
<1>. QED  BY <1>1, <1>2, <1>3 DEF Environment

(* Every step keeps the lock exclusive.                                    *)
LEMMA LockStep == TypeInv /\ LockInv /\ [Next]_vars => LockInv'
<1>. SUFFICES ASSUME TypeInv, LockInv, [Next]_vars PROVE LockInv'
  OBVIOUS
<1>1. CASE Connection
  BY <1>1 DEF Connection, VerifyBegin, VerifyEnd, SyncBegin, SyncEnd, Disconnect, LockInv
<1>2. CASE UNCHANGED vars  BY <1>2 DEF vars, LockInv
<1>. QED
  BY <1>1, <1>2, ThreadStepIsLocal, LocalStepKeepsLock, RecoveryKeepsLock, RequestsKeepLock,
     EnvironmentKeepsLock DEF Next

(* Initially no thread is behind the lock.                                 *)
LEMMA LockInit == Init => LockInv
  BY DEF Init, LockInv, IdleThread, UnlockedLabels, Resting

(* At most one thread is behind the connection lock, in every phase.       *)
THEOREM LockSafety == Spec => [](TypeInv /\ LockInv)
<1>1. Init => TypeInv /\ LockInv  BY InitTypes, LockInit
<1>2. (TypeInv /\ LockInv) /\ [Next]_vars => (TypeInv /\ LockInv)'  BY TypeStep, LockStep
<1>. QED  BY <1>1, <1>2, PTL DEF Spec

-----------------------------------------------------------------------------
(* A closed job stays closed.                                              *)

StatusKept ==
  \A j \in Jobs : job[j].status \in Terminal => job'[j].status = job[j].status

(* The recovery worker writes through the guard, or to a job that waits    *)
(* for a retry.                                                            *)
LEMMA RecoveryKeepsStatus ==
  ASSUME TypeInv, RecoveryStep
  PROVE  StatusKept
<1>1. CASE Tick \/ RepairWorktree \/ RepairDone \/ AutoRetryDone
  BY <1>1 DEF Tick, RepairWorktree, RepairDone, AutoRetryDone, StatusKept
<1>2. CASE RepairStatus
  <2>1. JobOf(Recovery) \in Jobs /\ Recovery \in Threads
    BY <1>2, NamesAreApart, BusyJobs DEF RepairStatus, Resting
  <2>. QED  BY <1>2, <2>1, RecordFields, TerminalNeverLive DEF RepairStatus, StatusKept
<1>3. ASSUME NEW j \in Jobs, AutoRetry(j) PROVE StatusKept
  BY <1>3 DEF AutoRetry, AutoRetryCandidate, AutoRetryable, StartRetry, Terminal, StatusKept,
              TypeInv, TypeOK
<1>. QED  BY <1>1, <1>2, <1>3 DEF RecoveryStep

(* Every request that changes a status wants one that is not closed.       *)
LEMMA RequestsKeepStatus ==
  ASSUME TypeInv, Requests
  PROVE  StatusKept
<1>. PICK j \in Jobs : Create(j) \/ Approve(j) \/ Retry(j) \/ Cancel(j) \/ RemoveWorktree(j)
  BY DEF Requests
<1>1. CASE Create(j) \/ Approve(j)
  BY <1>1, StatusFields DEF Create, Approve, Terminal, StatusKept, TypeInv, TypeOK
<1>2. CASE Retry(j) \/ Cancel(j)
  BY <1>2 DEF Retry, StartRetry, Cancel, CancellableStatuses, RetryableStatuses, Terminal,
              StatusKept, TypeInv, TypeOK
<1>3. CASE RemoveWorktree(j)
  BY <1>3 DEF RemoveWorktree, StatusKept, TypeInv, TypeOK, JobRows
<1>. QED  BY <1>1, <1>2, <1>3

(* No step changes a closed status.                                        *)
LEMMA StatusStep ==
  ASSUME TypeInv, LockInv, [Next]_vars
  PROVE  StatusKept
<1>1. ASSUME NEW t \in Threads, ThreadStep(t) PROVE StatusKept
  <2>1. LocalStep(t)  BY <1>1, ThreadStepIsLocal
  <2>. QED  BY <2>1 DEF LocalStep, RowLocal, OthersKeep, StatusKept
<1>2. CASE Connection
  BY <1>2 DEF Connection, VerifyBegin, VerifyEnd, SyncBegin, SyncEnd, Disconnect, StatusKept,
              DisconnectCancels, PreparePhase, CancellableStatuses, RetryableStatuses, Terminal
<1>3. CASE Environment
  BY <1>3 DEF Environment, Crash, CrashInDisconnect, Restart, BaseMoves, LeaseExpires,
              ForeignPush, ClosePr, HeartbeatAges, StatusKept, TypeInv, TypeOK, JobRows
<1>4. CASE UNCHANGED vars  BY <1>4 DEF vars, StatusKept
<1>. QED  BY <1>1, <1>2, <1>3, <1>4, RecoveryKeepsStatus, RequestsKeepStatus DEF Next

(* A job cancelled, failed or completed stays so in every behaviour.       *)
THEOREM TerminalFinality == Spec => TerminalIsFinal
<1>1. TypeInv /\ LockInv /\ [Next]_vars =>
        [\A j \in Jobs : job[j].status \in Terminal => job'[j].status = job[j].status]_vars
  BY StatusStep DEF StatusKept
<1>. QED  BY <1>1, LockSafety, PTL DEF Spec, TerminalIsFinal

-----------------------------------------------------------------------------
(* Nothing is published without an approval.                               *)

(* A step of a thread whose job is approved keeps the invariant.           *)
LEMMA ApprovedThreadStep ==
  ASSUME TypeInv, ApprovedInv, NEW t \in Threads, LocalStep(t), job[JobOf(t)].approved
  PROVE  ApprovedInv'
<1>. DEFINE j == JobOf(t)
<1>0. j \in Jobs /\ job'[j].approved /\ \A i \in Jobs \ {j} :
        job'[i] = job[i] /\ remote'[i] = remote[i] /\ prs'[i] = prs[i]
  BY DEF LocalStep, RowLocal, OthersKeep
<1>1. \A i \in Jobs : job[i].approved => job'[i].approved  BY <1>0
<1>2. ApprovedRows'  BY <1>0 DEF ApprovedInv, ApprovedRows
<1>3. ApprovedThreads'
  <2>. SUFFICES ASSUME NEW u \in Threads, ActsForApproved(u)' PROVE job'[thr'[u].job].approved
    BY DEF ApprovedThreads, ApprovedThread
  <2>1. CASE u = t
    <3>1. thr'[t].pc \notin Resting
      BY <2>1 DEF ActsForApproved, PublishLabels, FailureLabels, Resting
    <3>. QED  BY <1>0, <2>1, <3>1 DEF LocalStep, ThreadLocal, JobOf
  <2>2. CASE u # t
    <3>1. thr'[u] = thr[u]  BY <2>2 DEF LocalStep, ThreadLocal, OthersRun
    <3>2. job[thr[u].job].approved /\ thr[u].job \in Jobs
      <4>1. ActsForApproved(u)  BY <3>1 DEF ActsForApproved
      <4>2. thr[u].pc \notin Resting
        BY <4>1 DEF ActsForApproved, PublishLabels, FailureLabels, Resting
      <4>. QED  BY <4>1, <4>2
                DEF ApprovedInv, ApprovedThreads, ApprovedThread, TypeInv, ThreadsHaveJobs
    <3>. QED  BY <1>1, <3>1, <3>2
  <2>. QED  BY <2>1, <2>2
<1>4. ApprovedRepairs'
  BY <1>1 DEF ApprovedInv, ApprovedRepairs, LocalStep, ThreadLocal, TypeInv, TypeOK
<1>5. PushedWasApproved'  BY <1>0 DEF ApprovedInv, PushedWasApproved
<1>. QED  BY <1>2, <1>3, <1>4, <1>5 DEF ApprovedInv

(* So does a step that leaves GitHub alone, does not act for an approval   *)
(* afterwards, and writes no status that needs one.                        *)
Harmless(t) ==
  LET j == JobOf(t) IN
  /\ job'[j].status = job[j].status \/ job'[j].status \notin NeedsApproval
  /\ remote' = remote /\ prs' = prs
  /\ ~ActsForApproved(t)'

(* A harmless local step keeps the approvals.                              *)
LEMMA HarmlessStep ==
  ASSUME TypeInv, ApprovedInv, NEW t \in Threads, LocalStep(t), Harmless(t)
  PROVE  ApprovedInv'
<1>. DEFINE j == JobOf(t)
<1>0. /\ j \in Jobs /\ job'[j].approved = job[j].approved
      /\ \A i \in Jobs \ {j} : job'[i] = job[i]
      /\ job'[j].status = job[j].status \/ job'[j].status \notin NeedsApproval
      /\ remote' = remote /\ prs' = prs
  BY DEF LocalStep, RowLocal, OthersKeep, Harmless
<1>1. \A i \in Jobs : job'[i].approved = job[i].approved  BY <1>0
<1>2. ApprovedRows'  BY <1>0 DEF ApprovedInv, ApprovedRows
<1>3. ApprovedThreads'
  <2>. SUFFICES ASSUME NEW u \in Threads, ActsForApproved(u)' PROVE job'[thr'[u].job].approved
    BY DEF ApprovedThreads, ApprovedThread
  <2>1. u # t  BY DEF Harmless
  <2>2. thr'[u] = thr[u]  BY <2>1 DEF LocalStep, ThreadLocal, OthersRun
  <2>3. ActsForApproved(u)  BY <2>2 DEF ActsForApproved
  <2>4. thr[u].pc \notin Resting
    BY <2>3 DEF ActsForApproved, PublishLabels, FailureLabels, Resting
  <2>. QED  BY <1>1, <2>2, <2>3, <2>4
            DEF ApprovedInv, ApprovedThreads, ApprovedThread, TypeInv, ThreadsHaveJobs
<1>4. ApprovedRepairs'
  BY <1>1 DEF ApprovedInv, ApprovedRepairs, LocalStep, ThreadLocal, TypeInv, TypeOK
<1>5. PushedWasApproved'  BY <1>0, <1>1 DEF ApprovedInv, PushedWasApproved
<1>. QED  BY <1>2, <1>3, <1>4, <1>5 DEF ApprovedInv

(* The prepare phase is harmless.                                          *)
LEMMA PrepareIsHarmless ==
  ASSUME TypeInv, LockInv, NEW t \in Threads, Prepare(t)
  PROVE  Harmless(t)
<1>. JobOf(t) \in Jobs  BY PrepareIsLocal DEF LocalStep
<1>. DEFINE Quiet == {"idle", "auto"} \cup PrepareCalls
<1>1. remote' = remote /\ prs' = prs
  BY DEF Prepare, StartPrepare, Fetch, CheckOut, CreateWorktree, ApplyPatch, Offer, github
<1>2. thr'[t].pc \in Quiet \/ (thr'[t].pc = "cleanup" /\ thr'[t].outcome = "failed")
  BY EnterFields, FailFields, LeaveFields
  DEF Prepare, StartPrepare, Fetch, CheckOut, CreateWorktree, ApplyPatch, Offer, Entered, Refused,
      PrepareCalls
<1>3. ~ActsForApproved(t)'
  BY <1>2 DEF ActsForApproved, PublishLabels, FailureLabels, PrepareCalls
<1>4. \/ job'[JobOf(t)].status = job[JobOf(t)].status
      \/ job'[JobOf(t)].status \in PreparePhase \cup {"awaiting_approval"}
  BY EnterFields, StatusFields
  DEF Prepare, StartPrepare, Fetch, CheckOut, CreateWorktree, ApplyPatch, Offer, Entered, Refused,
      PreparePhase
<1>. QED  BY <1>1, <1>3, <1>4
          DEF Harmless, NeedsApproval, PreparePhase, PublishPhase, RetryableStatuses

(* The labels of the publish and reconcile phases are those of approved    *)
(* jobs.                                                                   *)
LEMMA PublisherIsApproved ==
  ASSUME ApprovedInv, NEW t \in Threads, Publish(t) \/ Reconcile(t)
  PROVE  job[JobOf(t)].approved
<1>1. thr[t].pc \in PublishLabels
  BY DEF Publish, StartPublish, Commit, RecordCommit, EnterPushing, Compare, Recheck, Push,
         EnterCreatingPr, ListPrs, CreatePr, RecordPr, Complete, Tidy, Reconcile, ReadRow,
         StartReconcile, Inspect, Rebuild, Recommit, At, PublishLabels
<1>. QED  BY <1>1 DEF ApprovedInv, ApprovedThreads, ApprovedThread, ActsForApproved, JobOf

(* A failing phase keeps the approvals: without one it ends in "failed".   *)
LEMMA FailureKeepsApproved ==
  ASSUME TypeInv, LockInv, ApprovedInv, NEW t \in Threads, CallFails(t) \/ Cleanup(t) \/ Settle(t)
  PROVE  ApprovedInv'
<1>. LocalStep(t)  BY FailureIsLocal
<1>. JobOf(t) \in Jobs  BY DEF LocalStep
<1>1. CASE job[JobOf(t)].approved  BY <1>1, ApprovedThreadStep
<1>2. CASE ~job[JobOf(t)].approved
  <2>1. ~ActsForApproved(t)  BY <1>2 DEF ApprovedInv, ApprovedThreads, ApprovedThread, JobOf
  <2>2. CASE CallFails(t)
    <3>1. thr[t].pc \in PrepareCalls
      BY <2>1, <2>2 DEF CallFails, ActsForApproved, PublishCalls, PublishLabels
    <3>2. thr'[t].pc = "cleanup" /\ thr'[t].outcome = "failed"
      BY <2>2, <3>1, FailFields DEF CallFails, FailureOutcome
    <3>3. Harmless(t)
      BY <2>2, <3>2 DEF CallFails, Harmless, ActsForApproved, PublishLabels, github
    <3>. QED  BY <3>3, HarmlessStep
  <2>3. CASE Cleanup(t)
    <3>1. thr[t].outcome = "failed"
      BY <2>1, <2>3 DEF Cleanup, At, ActsForApproved, FailureLabels
    <3>2. thr'[t].pc = "settle" /\ thr'[t].outcome = "failed"
      BY <2>3, <3>1 DEF Cleanup, TypeInv, TypeOK, ThreadStates
    <3>3. Harmless(t)
      BY <2>3, <3>2 DEF Cleanup, Harmless, ActsForApproved, PublishLabels, github
    <3>. QED  BY <3>3, HarmlessStep
  <2>4. CASE Settle(t)
    <3>1. thr[t].outcome = "failed"
      BY <2>1, <2>4 DEF Settle, At, ActsForApproved, FailureLabels
    <3>2. job'[JobOf(t)].status \in {"failed", job[JobOf(t)].status}
      BY <2>4, <3>1, RecordFields DEF Settle
    <3>3. Harmless(t)
      BY <2>4, <3>2, LeaveFields
      DEF Settle, Harmless, ActsForApproved, PublishLabels, FailureLabels, github, NeedsApproval,
          PublishPhase, RetryableStatuses
    <3>. QED  BY <3>3, HarmlessStep
  <2>. QED  BY <2>2, <2>3, <2>4
<1>. QED  BY <1>1, <1>2

(* Every step of a thread keeps the approvals.                             *)
LEMMA ThreadKeepsApproved ==
  ASSUME TypeInv, LockInv, ApprovedInv, NEW t \in Threads, ThreadStep(t)
  PROVE  ApprovedInv'
<1>1. CASE Prepare(t)  BY <1>1, PrepareIsHarmless, PrepareIsLocal, HarmlessStep
<1>2. CASE Publish(t) \/ Reconcile(t)
  BY <1>2, ThreadStepIsLocal, PublisherIsApproved, ApprovedThreadStep
<1>. QED  BY <1>1, <1>2, FailureKeepsApproved DEF ThreadStep

(* A thread that acts for an approval has a job.                           *)
LEMMA ActorsHaveJobs ==
  ASSUME TypeInv, NEW t \in Threads, ActsForApproved(t)
  PROVE  thr[t].job \in Jobs
  BY DEF ActsForApproved, PublishLabels, FailureLabels, Resting, TypeInv, ThreadsHaveJobs

(* Where approvals stay, the threads that do not move keep theirs.         *)
LEMMA OthersStayApproved ==
  ASSUME TypeInv, ApprovedInv, NEW t \in Threads, OthersRun(t), ApprovedThread(t)',
         \A j \in Jobs : job[j].approved => job'[j].approved
  PROVE  ApprovedThreads'
<1>. SUFFICES ASSUME NEW u \in Threads, u # t PROVE ApprovedThread(u)'
  BY DEF ApprovedThreads
<1>1. thr'[u] = thr[u]  BY DEF OthersRun
<1>2. ActsForApproved(u)' => ActsForApproved(u)  BY <1>1 DEF ActsForApproved
<1>. QED  BY <1>1, <1>2, ActorsHaveJobs DEF ApprovedThread, ApprovedInv, ApprovedThreads

(* The jobs whose row a step leaves as it is, for a step that moves no     *)
(* branch, pull request or approval.                                       *)
LEMMA RowsStayApproved ==
  ASSUME TypeInv, ApprovedInv, UNCHANGED github,
         \A j \in Jobs : job[j].approved => job'[j].approved,
         \A j \in Jobs : job'[j].status \in NeedsApproval =>
                           job'[j].approved \/ job[j].status \in NeedsApproval
  PROVE  ApprovedRows' /\ PushedWasApproved'
  BY DEF ApprovedInv, ApprovedRows, PushedWasApproved, github

(* A repair that leaves a job retryable is of an approved job.             *)
LEMMA RepairsOfApproved ==
  ASSUME ApprovedInv
  PROVE  \A item \in StaleRepairs : item[2] # "failed" => job[item[1]].approved
  BY DEF ApprovedInv, ApprovedRows, StaleRepairs, NeedsApproval

(* Every step of the recovery worker keeps the approvals.                  *)
LEMMA RecoveryKeepsApproved ==
  ASSUME TypeInv, ApprovedInv, RecoveryStep
  PROVE  ApprovedInv'
<1>. Recovery \in Threads  BY NamesAreApart
<1>. github' = github
  BY DEF RecoveryStep, Tick, RepairWorktree, RepairStatus, RepairDone, AutoRetryDone, AutoRetry
<1>1. CASE Tick
  <2>1. OthersRun(Recovery) /\ ApprovedThread(Recovery)'
    BY <1>1, GotoFields DEF Tick, ApprovedThread, ActsForApproved, PublishLabels, FailureLabels
  <2>2. ApprovedRepairs'  BY <1>1, RepairsOfApproved DEF Tick, ApprovedRepairs
  <2>. QED  BY <1>1, <2>1, <2>2, OthersStayApproved, RowsStayApproved DEF Tick, ApprovedInv
<1>2. CASE RepairWorktree
  <2>1. PICK item \in todo :
          /\ todo' = todo \ {item}
          /\ \E left : CleanWorktree(item[1], left) /\
               thr' = [thr EXCEPT ![Recovery] =
                         [pc |-> "repair_status", job |-> item[1], commit |-> NoCommit,
                          outcome |-> item[2], cleaned |-> CleanupState(left)]]
    BY <1>2 DEF RepairWorktree
  <2>2. job' = job  BY <1>2 DEF RepairWorktree
  <2>3. OthersRun(Recovery) /\ thr'[Recovery].pc = "repair_status"
          /\ thr'[Recovery].outcome = item[2] /\ thr'[Recovery].job = item[1]
    BY <2>1 DEF TypeInv, TypeOK, OthersRun
  <2>4. ApprovedThread(Recovery)'
    BY <2>2, <2>3 DEF ApprovedThread, ActsForApproved, PublishLabels, ApprovedInv, ApprovedRepairs
  <2>5. ApprovedRepairs'  BY <2>1, <2>2 DEF ApprovedInv, ApprovedRepairs
  <2>. QED  BY <2>2, <2>3, <2>4, <2>5, OthersStayApproved, RowsStayApproved DEF ApprovedInv
<1>3. CASE RepairStatus
  <2>. DEFINE j == JobOf(Recovery)
  <2>1. j \in Jobs /\ RecordFailure(Recovery) /\ todo' = todo
    BY <1>3, BusyJobs DEF RepairStatus, Resting, process
  <2>2. \A i \in Jobs : job'[i].approved = job[i].approved  BY <2>1, RecordFields
  <2>3. \A i \in Jobs : job'[i].status \in NeedsApproval =>
                          job'[i].approved \/ job[i].status \in NeedsApproval
    <3>1. thr[Recovery].outcome # "failed" => job[j].approved
      BY <1>3 DEF RepairStatus, At, ApprovedInv, ApprovedThreads, ApprovedThread, ActsForApproved,
                  FailureLabels, JobOf
    <3>2. "failed" \notin NeedsApproval
      BY DEF NeedsApproval, PublishPhase, RetryableStatuses
    <3>. QED  BY <2>1, <2>2, <3>1, <3>2, RecordFields
  <2>4. OthersRun(Recovery) /\ thr'[Recovery].pc = "repair"
    BY <1>3 DEF RepairStatus, TypeInv, TypeOK, OthersRun, IdleThread
  <2>5. ApprovedThread(Recovery)'
    BY <2>4 DEF ApprovedThread, ActsForApproved, PublishLabels, FailureLabels
  <2>6. ApprovedRepairs'
    BY <2>1, <2>2 DEF ApprovedInv, ApprovedRepairs, TypeInv, TypeOK
  <2>. QED  BY <2>2, <2>3, <2>4, <2>5, <2>6, OthersStayApproved, RowsStayApproved DEF ApprovedInv
<1>4. CASE RepairDone \/ AutoRetryDone
  <2>1. OthersRun(Recovery) /\ thr'[Recovery].pc \in {"idle", "auto"} /\ job' = job /\ todo' = todo
    BY <1>4, GotoFields DEF RepairDone, AutoRetryDone, process
  <2>2. ApprovedThread(Recovery)'
    BY <2>1 DEF ApprovedThread, ActsForApproved, PublishLabels, FailureLabels
  <2>3. ApprovedRepairs'  BY <2>1 DEF ApprovedInv, ApprovedRepairs
  <2>. QED  BY <2>1, <2>2, <2>3, OthersStayApproved, RowsStayApproved DEF ApprovedInv
<1>5. ASSUME NEW j \in Jobs, AutoRetry(j) PROVE ApprovedInv'
  <2>1. job[j].approved
    BY <1>5 DEF AutoRetry, AutoRetryCandidate, AutoRetryable, ApprovedInv, ApprovedRows,
                NeedsApproval, RetryableStatuses
  <2>2. \A i \in Jobs : job'[i].approved = job[i].approved /\ (i # j => job'[i] = job[i])
    BY <1>5 DEF AutoRetry, StartRetry, TypeInv, TypeOK, JobRows
  <2>3. OthersRun(Recovery) /\ thr'[Recovery].job = j /\ todo' = todo
    BY <1>5 DEF AutoRetry, TypeInv, TypeOK, OthersRun, IdleThread, process
  <2>4. ApprovedThread(Recovery)'  BY <2>1, <2>2, <2>3 DEF ApprovedThread
  <2>5. ApprovedRepairs'
    BY <2>2, <2>3 DEF ApprovedInv, ApprovedRepairs, TypeInv, TypeOK
  <2>. QED  BY <2>1, <2>2, <2>3, <2>4, <2>5, OthersStayApproved, RowsStayApproved DEF ApprovedInv
<1>. QED  BY <1>1, <1>2, <1>3, <1>4, <1>5 DEF RecoveryStep

(* Every handler of the connection keeps the approvals.                    *)
LEMMA ConnectionKeepsApproved ==
  ASSUME TypeInv, ApprovedInv, Connection
  PROVE  ApprovedInv'
<1>1. CASE VerifyBegin \/ VerifyEnd \/ SyncBegin \/ SyncEnd
  BY <1>1 DEF VerifyBegin, VerifyEnd, SyncBegin, SyncEnd, github, ApprovedInv, ApprovedRows,
              ApprovedThreads, ApprovedThread, ActsForApproved, ApprovedRepairs, PushedWasApproved
<1>2. CASE Disconnect
  <2>1. \A j \in Jobs : /\ job'[j].approved = job[j].approved
                        /\ job'[j].status \in {"cancelled", job[j].status}
    BY <1>2 DEF Disconnect, TypeInv, TypeOK, JobRows
  <2>2. "cancelled" \notin NeedsApproval  BY DEF NeedsApproval, PublishPhase, RetryableStatuses
  <2>3. thr' = thr /\ todo' = todo /\ github' = github  BY <1>2 DEF Disconnect
  <2>4. ApprovedThreads'
    BY <2>1, <2>3, ActorsHaveJobs DEF ApprovedInv, ApprovedThreads, ApprovedThread, ActsForApproved
  <2>5. ApprovedRepairs'  BY <2>1, <2>3 DEF ApprovedInv, ApprovedRepairs, TypeInv, TypeOK
  <2>. QED  BY <2>1, <2>2, <2>3, <2>4, <2>5, RowsStayApproved DEF ApprovedInv
<1>. QED  BY <1>1, <1>2 DEF Connection

(* Every request keeps the approvals.                                      *)
LEMMA RequestsKeepApproved ==
  ASSUME TypeInv, ApprovedInv, Requests
  PROVE  ApprovedInv'
<1>. PICK j \in Jobs : Create(j) \/ Approve(j) \/ Retry(j) \/ Cancel(j) \/ RemoveWorktree(j)
  BY DEF Requests
<1>0. todo' = todo /\ github' = github
  BY DEF Create, Approve, Retry, Cancel, RemoveWorktree, process, github
<1>1. \A i \in Jobs : /\ job[i].approved => job'[i].approved
                      /\ i # j => job'[i] = job[i]
  BY
  DEF Create, SetStatus, Approve, Retry, StartRetry, Cancel, RemoveWorktree, TypeInv, TypeOK,
      JobRows
<1>2. ApprovedRepairs'
  BY <1>0, <1>1 DEF ApprovedInv, ApprovedRepairs, TypeInv, TypeOK
<1>3. job'[j].status \in NeedsApproval => job'[j].approved
  <2>1. CASE Create(j) \/ Cancel(j)
    BY <2>1 DEF Create, SetStatus, Cancel, TypeInv, TypeOK, JobRows, NeedsApproval, PublishPhase,
                RetryableStatuses
  <2>2. CASE Approve(j)
    BY <2>2 DEF Approve, TypeInv, TypeOK, JobRows
  <2>3. CASE Retry(j)
    BY <2>3, <1>1 DEF Retry, ApprovedInv, ApprovedRows, NeedsApproval
  <2>4. CASE RemoveWorktree(j)
    BY <2>4, <1>1 DEF RemoveWorktree, TypeInv, TypeOK, JobRows, ApprovedInv, ApprovedRows
  <2>. QED  BY <2>1, <2>2, <2>3, <2>4
<1>4. ApprovedRows' /\ PushedWasApproved'
  BY <1>0, <1>1, <1>3, RowsStayApproved
<1>5. ApprovedThreads'
  <2>1. CASE Cancel(j) \/ RemoveWorktree(j)
    BY <2>1, <1>1, ActorsHaveJobs
    DEF Cancel, RemoveWorktree, ApprovedInv, ApprovedThreads, ApprovedThread, ActsForApproved
  <2>2. CASE Create(j)
    <3>1. PICK w \in Workers : OthersRun(w) /\ thr'[w].pc = "prepare"
      BY <2>2, SpawnFields DEF Create
    <3>2. ApprovedThread(w)'
      BY <3>1 DEF ApprovedThread, ActsForApproved, PublishLabels, FailureLabels
    <3>. QED  BY <1>1, <3>1, <3>2, NamesAreApart, OthersStayApproved
  <2>3. CASE Approve(j) \/ Retry(j)
    <3>1. PICK w \in Workers : OthersRun(w) /\ thr'[w].job = j
      BY <2>3, SpawnFields DEF Approve, Retry
    <3>2. job'[j].approved
      BY <2>3, <1>1
      DEF Approve, Retry, TypeInv, TypeOK, JobRows, ApprovedInv, ApprovedRows, NeedsApproval
    <3>. QED  BY <1>1, <3>1, <3>2, NamesAreApart, OthersStayApproved DEF ApprovedThread
  <2>. QED  BY <2>1, <2>2, <2>3
<1>. QED  BY <1>2, <1>4, <1>5 DEF ApprovedInv

(* Crashes, restarts and the pushes of others keep the approvals.          *)
LEMMA EnvironmentKeepsApproved ==
  ASSUME TypeInv, ApprovedInv, Environment
  PROVE  ApprovedInv'
<1>1. CASE Crash \/ CrashInDisconnect
  <2>1. job' = job /\ github' = github /\ todo' = {} /\ \A t \in Threads : thr'[t] = IdleThread
    BY <1>1 DEF Crash, CrashInDisconnect, LoseProcess
  <2>2. ApprovedThreads' /\ ApprovedRepairs'
    BY <2>1 DEF ApprovedThreads, ApprovedThread, ActsForApproved, PublishLabels, FailureLabels,
                IdleThread, ApprovedRepairs
  <2>. QED  BY <2>1, <2>2, RowsStayApproved DEF ApprovedInv
<1>2. CASE Restart
  <2>1. OthersRun(Recovery) /\ ApprovedThread(Recovery)'
    BY <1>2, GotoFields, NamesAreApart
    DEF Restart, ApprovedThread, ActsForApproved, PublishLabels, FailureLabels
  <2>2. ApprovedRepairs'  BY <1>2, RepairsOfApproved DEF Restart, ApprovedRepairs
  <2>. QED  BY <1>2, <2>1, <2>2, NamesAreApart, OthersStayApproved, RowsStayApproved
            DEF Restart, ApprovedInv
<1>3. CASE BaseMoves \/ LeaseExpires
  BY <1>3 DEF BaseMoves, LeaseExpires, github, process, ApprovedInv, ApprovedRows,
              ApprovedThreads, ApprovedThread, ActsForApproved, ApprovedRepairs, PushedWasApproved
<1>4. ASSUME NEW j \in Jobs, HeartbeatAges(j) PROVE ApprovedInv'
  <2>1. \A i \in Jobs : job'[i].approved = job[i].approved /\ job'[i].status = job[i].status
    BY <1>4 DEF HeartbeatAges, TypeInv, TypeOK, JobRows
  <2>2. thr' = thr /\ todo' = todo /\ github' = github  BY <1>4 DEF HeartbeatAges, process
  <2>3. ApprovedThreads'
    BY <2>1, <2>2, ActorsHaveJobs DEF ApprovedInv, ApprovedThreads, ApprovedThread, ActsForApproved
  <2>4. ApprovedRepairs'  BY <2>1, <2>2 DEF ApprovedInv, ApprovedRepairs, TypeInv, TypeOK
  <2>. QED  BY <2>1, <2>2, <2>3, <2>4, RowsStayApproved DEF ApprovedInv
<1>5. ASSUME NEW j \in Jobs, ForeignPush(j) PROVE ApprovedInv'
  <2>1. thr' = thr /\ todo' = todo /\ job' = job /\ prs' = prs  BY <1>5 DEF ForeignPush, process
  <2>2. PushedWasApproved'
    BY <1>5, <2>1 DEF ForeignPush, Above, NoCommit, TypeInv, TypeOK, ApprovedInv, PushedWasApproved
  <2>. QED  BY <2>1, <2>2 DEF ApprovedInv, ApprovedRows, ApprovedThreads, ApprovedThread,
                              ActsForApproved, ApprovedRepairs
<1>6. ASSUME NEW j \in Jobs, ClosePr(j) PROVE ApprovedInv'
  <2>1. thr' = thr /\ todo' = todo /\ job' = job /\ remote' = remote  BY <1>6 DEF ClosePr, process
  <2>2. \A i \in Jobs : prs'[i] > 0 => prs[i] > 0  BY <1>6 DEF ClosePr, TypeInv, TypeOK
  <2>3. PushedWasApproved'  BY <2>1, <2>2 DEF ApprovedInv, PushedWasApproved
  <2>. QED  BY <2>1, <2>3 DEF ApprovedInv, ApprovedRows, ApprovedThreads, ApprovedThread,
                              ActsForApproved, ApprovedRepairs
<1>. QED  BY <1>1, <1>2, <1>3, <1>4, <1>5, <1>6 DEF Environment

(* Initially nothing needs an approval.                                    *)
LEMMA ApprovedInit == Init => ApprovedInv
<1>. SUFFICES ASSUME Init PROVE ApprovedInv
  OBVIOUS
<1>1. ApprovedThreads
  BY
  DEF Init, IdleThread, ApprovedThreads, ApprovedThread, ActsForApproved, PublishLabels,
      FailureLabels
<1>. QED  BY <1>1 DEF Init, ApprovedInv, ApprovedRows, ApprovedRepairs, PushedWasApproved,
                      NeedsApproval, PublishPhase, RetryableStatuses

(* Every step keeps the approvals.                                         *)
LEMMA ApprovedStep == TypeInv /\ LockInv /\ ApprovedInv /\ [Next]_vars => ApprovedInv'
<1>. SUFFICES ASSUME TypeInv, LockInv, ApprovedInv, [Next]_vars PROVE ApprovedInv'
  OBVIOUS
<1>1. CASE UNCHANGED vars
  BY <1>1 DEF vars, ApprovedInv, ApprovedRows, ApprovedThreads, ApprovedThread, ActsForApproved,
              ApprovedRepairs, PushedWasApproved
<1>. QED  BY <1>1, ThreadKeepsApproved, RecoveryKeepsApproved, ConnectionKeepsApproved,
             RequestsKeepApproved, EnvironmentKeepsApproved DEF Next

(* Types, the lock and the approvals hold in every reachable state.        *)
LEMMA ApprovedSafety == Spec => [](TypeInv /\ LockInv /\ ApprovedInv)
<1>1. Init => ApprovedInv  BY ApprovedInit
<1>2. (TypeInv /\ LockInv) /\ ApprovedInv /\ [Next]_vars => ApprovedInv'  BY ApprovedStep
<1>. QED  BY <1>1, <1>2, LockSafety, PTL DEF Spec

(* No commit of ours and no pull request reaches GitHub for a job that no  *)
(* human approved.                                                         *)
THEOREM PushedApproval == Spec => []PushedWasApproved
<1>1. ApprovedInv => PushedWasApproved  BY DEF ApprovedInv
<1>. QED  BY <1>1, ApprovedSafety, PTL


-----------------------------------------------------------------------------
(***************************************************************************)
(* The commit on a job's branch is always the one its row records, which   *)
(* is what a retry recognises its own push by.  The argument: before the   *)
(* approval nothing is on the branch, and only a prepare thread, alone on  *)
(* its job, makes the first worktree; after it, a worktree holds either    *)
(* the patch or the commit that is recorded before anything is pushed, and *)
(* the connection lock keeps every other thread from the worktree between  *)
(* the two.                                                                *)
(***************************************************************************)

(* A prepare thread is the only one of its job, which nobody could approve *)
(* yet; a job that does not exist yet is not approved.                     *)
Prepares(t, j) == thr[t].pc \in PrepareLabels /\ thr[t].job = j
Unoffered == {"none", "awaiting_approval"}
PrepareInv ==
  /\ \A j \in Jobs : job[j].status = "none" => ~job[j].approved
  /\ \A t \in Threads, j \in Jobs : Prepares(t, j) =>
       /\ ~job[j].approved
       /\ job[j].status \notin Unoffered
       /\ \A u \in Threads : Prepares(u, j) => u = t

(* The commit of a branch, of the worktree and of the row, and the labels  *)
(* where a thread relies on them.                                          *)
PushingLabels == {"pushing", "compare", "recheck", "push"}
CommitLabels == {"rebuild", "record"} \cup PushingLabels
RowCommit(j) == remote[j] > 0 => job[j].commit = remote[j] /\ wt[j] \in {Absent, remote[j]}
CommitThread(t) ==
  /\ thr[t].pc = "rebuild" => remote[thr[t].job] <= 0
  /\ thr[t].pc = "record" => wt[thr[t].job] = thr[t].commit
  /\ thr[t].pc \in PushingLabels =>
       wt[thr[t].job] = thr[t].commit /\ job[thr[t].job].commit = thr[t].commit
CommitInv == (\A j \in Jobs : RowCommit(j)) /\ \A t \in Threads : CommitThread(t)

SafetyInv == TypeInv /\ LockInv /\ ApprovedInv /\ PrepareInv /\ CommitInv

-----------------------------------------------------------------------------
(* Prepare threads.                                                        *)

(* What a step of a thread may do to the status of its row.                *)
LEMMA PrepareLocal ==
  ASSUME TypeInv, PrepareInv, NEW t \in Threads, LocalStep(t),
         \/ job'[JobOf(t)].status = job[JobOf(t)].status
         \/ job'[JobOf(t)].status # "none",
         \/ thr'[t].pc \notin PrepareLabels
         \/ thr[t].pc \in PrepareLabels /\ job'[JobOf(t)].status \notin Unoffered,
         \/ thr[t].pc \in PrepareLabels
         \/ job[JobOf(t)].approved
         \/ job'[JobOf(t)].status \in {job[JobOf(t)].status} \cup Outcomes
  PROVE  PrepareInv'
<1>. DEFINE j == JobOf(t)
<1>0. /\ j \in Jobs /\ job'[j].approved = job[j].approved
      /\ \A i \in Jobs \ {j} : job'[i] = job[i]
      /\ OthersRun(t)
      /\ thr'[t].pc \in PrepareLabels => thr'[t].job = j
  BY DEF LocalStep, RowLocal, OthersKeep, ThreadLocal, PrepareLabels, PrepareCalls, Resting, JobOf
<1>1. (\A i \in Jobs : job[i].status = "none" => ~job[i].approved)'
  BY <1>0 DEF PrepareInv
<1>2. ASSUME NEW u \in Threads, u # t, NEW i \in Jobs, Prepares(u, i)'
      PROVE  /\ Prepares(u, i) /\ ~job'[i].approved /\ job'[i].status \notin Unoffered
             /\ ~Prepares(t, i)'
  <2>1. Prepares(u, i)  BY <1>0, <1>2 DEF Prepares, OthersRun
  <2>2. ~job[i].approved /\ job[i].status \notin Unoffered /\ ~Prepares(t, i)
    BY <1>2, <2>1 DEF PrepareInv
  <2>3. i = j => thr[t].pc \notin PrepareLabels  BY <2>2 DEF Prepares, JobOf
  <2>4. Outcomes \cap Unoffered = {}  BY DEF Outcomes, Unoffered
  <2>5. ~job'[i].approved /\ job'[i].status \notin Unoffered
    BY <1>0, <2>2, <2>3, <2>4
  <2>6. ~Prepares(t, i)'  BY <1>0, <2>2, <2>3 DEF Prepares, JobOf
  <2>. QED  BY <2>1, <2>5, <2>6
<1>3. ASSUME NEW i \in Jobs, Prepares(t, i)'
      PROVE  ~job'[i].approved /\ job'[i].status \notin Unoffered
  <2>1. i = j /\ Prepares(t, i)  BY <1>0, <1>3 DEF Prepares, JobOf
  <2>. QED  BY <1>0, <1>3, <2>1 DEF PrepareInv, Prepares
<1>4. ASSUME NEW u \in Threads, NEW v \in Threads, NEW i \in Jobs, Prepares(u, i)', Prepares(v, i)'
      PROVE  u = v
  <2>1. CASE u = t \/ v = t  BY <1>2, <1>4, <2>1
  <2>2. CASE u # t /\ v # t
    <3>1. Prepares(u, i) /\ Prepares(v, i)  BY <1>2, <1>4, <2>2
    <3>. QED  BY <3>1 DEF PrepareInv
  <2>. QED  BY <2>1, <2>2
<1>. QED  BY <1>1, <1>2, <1>3, <1>4 DEF PrepareInv

(* Every step of a thread leaves a prepare thread alone on its job.        *)
LEMMA ThreadKeepsPrepare ==
  ASSUME TypeInv, LockInv, ApprovedInv, PrepareInv, NEW t \in Threads, ThreadStep(t)
  PROVE  PrepareInv'
<1>. LocalStep(t)  BY ThreadStepIsLocal
<1>. JobOf(t) \in Jobs  BY DEF LocalStep
<1>1. CASE Prepare(t)
  <2>1. thr[t].pc \in PrepareLabels
    BY <1>1 DEF Prepare, StartPrepare, Fetch, CheckOut, CreateWorktree, ApplyPatch, Offer, At,
                PrepareLabels, PrepareCalls
  <2>2. \/ job'[JobOf(t)].status = job[JobOf(t)].status
        \/ job'[JobOf(t)].status \in PreparePhase \cup {"awaiting_approval"}
    BY <1>1, EnterFields, StatusFields
    DEF Prepare, StartPrepare, Fetch, CheckOut, CreateWorktree, ApplyPatch, Offer, Entered, Refused,
        PreparePhase
  <2>3. thr'[t].pc \in PrepareLabels => job'[JobOf(t)].status \in PreparePhase
    BY <1>1, EnterFields, FailFields, LeaveFields
    DEF Prepare, StartPrepare, Fetch, CheckOut, CreateWorktree, ApplyPatch, Offer, Entered, Refused,
        PreparePhase, PrepareLabels, PrepareCalls
  <2>. QED  BY <2>1, <2>2, <2>3, PrepareLocal DEF PreparePhase, Unoffered
<1>2. CASE Publish(t) \/ Reconcile(t)
  <2>1. job[JobOf(t)].approved  BY <1>2, PublisherIsApproved
  <2>2. thr'[t].pc \notin PrepareLabels
    <3>1. CASE StartPublish(t) \/ EnterPushing(t) \/ EnterCreatingPr(t) \/ Complete(t)
               \/ Inspect(t) \/ Recommit(t)
      BY <3>1, EnterFields, FailFields, GotoFields
      DEF StartPublish, EnterPushing, EnterCreatingPr, Complete, Inspect, Recommit, Entered,
          Refused, PrepareLabels, PrepareCalls
    <3>2. CASE Commit(t) \/ ReadRow(t)
      BY <3>2, FailFields
      DEF Commit, ReadRow, TypeInv, TypeOK, ThreadStates, PrepareLabels, PrepareCalls
    <3>3. CASE RecordCommit(t) \/ Compare(t) \/ Recheck(t) \/ Push(t) \/ ListPrs(t)
               \/ CreatePr(t) \/ RecordPr(t) \/ Rebuild(t)
      BY <3>3, GotoFields, FailFields
      DEF RecordCommit, Compare, Recheck, Push, ListPrs, CreatePr, RecordPr, Rebuild,
          PrepareLabels, PrepareCalls
    <3>4. CASE Tidy(t) \/ StartReconcile(t)
      BY <3>4, GotoFields, LeaveFields DEF Tidy, StartReconcile, PrepareLabels, PrepareCalls
    <3>. QED  BY <1>2, <3>1, <3>2, <3>3, <3>4 DEF Publish, Reconcile
  <2>3. job'[JobOf(t)].approved  BY <2>1 DEF LocalStep, RowLocal
  <2>4. \/ job'[JobOf(t)].status = job[JobOf(t)].status
        \/ job'[JobOf(t)].status # "none"
    BY <1>2, EnterFields, StatusFields
    DEF Publish, StartPublish, Commit, RecordCommit, EnterPushing, Compare, Recheck, Push,
        EnterCreatingPr, ListPrs, CreatePr, RecordPr, Complete, Tidy, Reconcile, ReadRow,
        StartReconcile, Inspect, Rebuild, Recommit, Entered, Refused, TypeInv, TypeOK, JobRows
  <2>. QED  BY <2>1, <2>2, <2>4, PrepareLocal
<1>3. CASE CallFails(t) \/ Cleanup(t) \/ Settle(t)
  <2>1. thr'[t].pc \notin PrepareLabels
    BY <1>3, FailFields, LeaveFields
    DEF CallFails, Cleanup, Settle, TypeInv, TypeOK, ThreadStates, PrepareLabels, PrepareCalls
  <2>2. job'[JobOf(t)].status \in {job[JobOf(t)].status} \cup Outcomes
    BY <1>3, RecordFields DEF CallFails, Cleanup, Settle, TypeInv, TypeOK, ThreadStates
  <2>3. "none" \notin Outcomes  BY DEF Outcomes
  <2>. QED  BY <2>1, <2>2, <2>3, PrepareLocal
<1>. QED  BY <1>1, <1>2, <1>3 DEF ThreadStep

(* Steps that leave the threads of the prepare phase alone.                *)
LEMMA PrepareKept ==
  ASSUME PrepareInv,
         \A t \in Threads : thr'[t].pc \in PrepareLabels => thr'[t] = thr[t],
         \A j \in Jobs : /\ job'[j].status = "none" => ~job'[j].approved
                         /\ (\E t \in Threads : Prepares(t, j)) =>
                              ~job'[j].approved /\ job'[j].status \notin Unoffered
  PROVE  PrepareInv'
<1>1. ASSUME NEW t \in Threads, NEW j \in Jobs, Prepares(t, j)' PROVE Prepares(t, j)
  BY <1>1 DEF Prepares
<1>. QED  BY <1>1 DEF PrepareInv

(* So does the recovery worker, which writes outcomes and retries approved *)
(* jobs.                                                                   *)
LEMMA RecoveryKeepsPrepare ==
  ASSUME TypeInv, LockInv, ApprovedInv, PrepareInv, RecoveryStep
  PROVE  PrepareInv'
<1>. Recovery \in Threads  BY NamesAreApart
<1>1. OthersRun(Recovery) /\ thr'[Recovery].pc \notin PrepareLabels
  <2>1. CASE Tick \/ RepairDone \/ AutoRetryDone
    BY <2>1, GotoFields DEF Tick, RepairDone, AutoRetryDone, PrepareLabels, PrepareCalls
  <2>2. CASE RepairWorktree
    BY <2>2 DEF RepairWorktree, TypeInv, TypeOK, OthersRun, PrepareLabels, PrepareCalls
  <2>3. CASE RepairStatus
    BY <2>3 DEF RepairStatus, TypeInv, TypeOK, OthersRun, IdleThread, PrepareLabels, PrepareCalls
  <2>4. ASSUME NEW j \in Jobs, AutoRetry(j) PROVE OthersRun(Recovery) /\ thr'[Recovery].pc \notin PrepareLabels
    BY <2>4 DEF AutoRetry, TypeInv, TypeOK, OthersRun, IdleThread, PrepareLabels, PrepareCalls
  <2>. QED  BY <2>1, <2>2, <2>3, <2>4 DEF RecoveryStep
<1>2. \A t \in Threads : thr'[t].pc \in PrepareLabels => thr'[t] = thr[t]
  BY <1>1 DEF OthersRun
<1>3. \A j \in Jobs :
        \/ job'[j].status = job[j].status /\ job'[j].approved = job[j].approved
        \/ job'[j].status \in Outcomes /\ job'[j].approved = job[j].approved
        \/ job[j].approved /\ job'[j].status = "reconciling"
  <2>1. CASE Tick \/ RepairWorktree \/ RepairDone \/ AutoRetryDone
    BY <2>1 DEF Tick, RepairWorktree, RepairDone, AutoRetryDone
  <2>2. CASE RepairStatus
    <3>1. JobOf(Recovery) \in Jobs  BY <2>2, BusyJobs DEF RepairStatus, Resting
    <3>. QED  BY <2>2, <3>1, RecordFields DEF RepairStatus, TypeInv, TypeOK, ThreadStates
  <2>3. ASSUME NEW i \in Jobs, AutoRetry(i)
        PROVE  \A j \in Jobs :
                 \/ job'[j].status = job[j].status /\ job'[j].approved = job[j].approved
                 \/ job[j].approved /\ job'[j].status = "reconciling"
    <3>1. job[i].approved
      BY <2>3 DEF AutoRetry, AutoRetryCandidate, AutoRetryable, ApprovedInv, ApprovedRows,
                  NeedsApproval, RetryableStatuses
    <3>. QED  BY <2>3, <3>1 DEF AutoRetry, StartRetry, TypeInv, TypeOK, JobRows
  <2>. QED  BY <2>1, <2>2, <2>3 DEF RecoveryStep
<1>4. Outcomes \cap Unoffered = {} /\ "none" \notin Outcomes  BY DEF Outcomes, Unoffered
<1>. QED  BY <1>2, <1>3, <1>4, PrepareKept DEF PrepareInv

(* So does every handler of the connection.                                *)
LEMMA ConnectionKeepsPrepare ==
  ASSUME TypeInv, PrepareInv, Connection
  PROVE  PrepareInv'
<1>1. thr' = thr /\ \A j \in Jobs : /\ job'[j].approved = job[j].approved
                                    /\ job'[j].status \in {job[j].status, "cancelled"}
  BY
  DEF Connection, VerifyBegin, VerifyEnd, SyncBegin, SyncEnd, Disconnect, TypeInv, TypeOK,
      JobRows
<1>. QED  BY <1>1, PrepareKept DEF PrepareInv, Unoffered

(* So does every request: a job is created once, and approved when it is   *)
(* offered.                                                                *)
LEMMA RequestsKeepPrepare ==
  ASSUME TypeInv, ApprovedInv, PrepareInv, Requests
  PROVE  PrepareInv'
<1>. PICK j \in Jobs : Create(j) \/ Approve(j) \/ Retry(j) \/ Cancel(j) \/ RemoveWorktree(j)
  BY DEF Requests
<1>1. CASE Create(j)
  <2>1. PICK w \in Workers : thr[w].pc = "idle" /\ OthersRun(w) /\ thr'[w].pc = "prepare" /\ thr'[w].job = j
    BY <1>1, SpawnFields DEF Create
  <2>2. w \in Threads  BY NamesAreApart
  <2>3. /\ job[j].status = "none" /\ job'[j].status = "pending"
        /\ job'[j].approved = job[j].approved
        /\ \A i \in Jobs \ {j} : job'[i] = job[i]
    BY <1>1, StatusFields DEF Create
  <2>4. \A t \in Threads : ~Prepares(t, j)  BY <2>3 DEF PrepareInv, Unoffered
  <2>5. \A t \in Threads, i \in Jobs : Prepares(t, i)' => (t = w /\ i = j) \/ (Prepares(t, i) /\ i # j)
    BY <2>1, <2>2, <2>4 DEF Prepares, OthersRun
  <2>6. ~job[j].approved  BY <2>3 DEF PrepareInv
  <2>7. "pending" \notin Unoffered  BY DEF Unoffered
  <2>. QED  BY <2>3, <2>5, <2>6, <2>7 DEF PrepareInv
<1>2. CASE Approve(j) \/ Retry(j)
  <2>1. PICK w \in Workers : OthersRun(w) /\ thr'[w].pc \in {"publish", "read_row"}
    BY <1>2, SpawnFields DEF Approve, Retry
  <2>2. \A t \in Threads : thr'[t].pc \in PrepareLabels => thr'[t] = thr[t]
    BY <2>1 DEF OthersRun, PrepareLabels, PrepareCalls
  <2>3. /\ job'[j].status # "none"
        /\ \A i \in Jobs \ {j} : job'[i] = job[i]
    BY <1>2 DEF Approve, Retry, StartRetry, TypeInv, TypeOK, JobRows
  <2>4. \A t \in Threads : ~Prepares(t, j)
    <3>1. job[j].status = "awaiting_approval" \/ job[j].approved
      BY <1>2 DEF Approve, Retry, ApprovedInv, ApprovedRows, NeedsApproval
    <3>. QED  BY <3>1 DEF PrepareInv, Unoffered
  <2>. QED  BY <2>2, <2>3, <2>4, PrepareKept DEF PrepareInv
<1>3. CASE Cancel(j) \/ RemoveWorktree(j)
  <2>1. thr' = thr /\ \A i \in Jobs : /\ job'[i].approved = job[i].approved
                                      /\ job'[i].status \in {job[i].status, "cancelled"}
    BY <1>3 DEF Cancel, RemoveWorktree, TypeInv, TypeOK, JobRows
  <2>. QED  BY <2>1, PrepareKept DEF PrepareInv, Unoffered
<1>. QED  BY <1>1, <1>2, <1>3

(* So does the environment.                                                *)
LEMMA EnvironmentKeepsPrepare ==
  ASSUME TypeInv, PrepareInv, Environment
  PROVE  PrepareInv'
<1>1. \A j \in Jobs : job'[j].approved = job[j].approved /\ job'[j].status = job[j].status
  BY DEF Environment, Crash, CrashInDisconnect, Restart, BaseMoves, LeaseExpires, ForeignPush,
         ClosePr, HeartbeatAges, TypeInv, TypeOK, JobRows
<1>2. \A t \in Threads : thr'[t].pc \in PrepareLabels => thr'[t] = thr[t]
  <2>1. CASE Crash \/ CrashInDisconnect
    BY <2>1 DEF Crash, CrashInDisconnect, LoseProcess, IdleThread, PrepareLabels, PrepareCalls
  <2>2. CASE Restart
    BY <2>2, GotoFields, NamesAreApart DEF Restart, OthersRun, PrepareLabels, PrepareCalls
  <2>3. CASE BaseMoves \/ LeaseExpires \/ \E j \in Jobs : ForeignPush(j) \/ ClosePr(j) \/ HeartbeatAges(j)
    BY <2>3 DEF BaseMoves, LeaseExpires, ForeignPush, ClosePr, HeartbeatAges
  <2>. QED  BY <2>1, <2>2, <2>3 DEF Environment
<1>. QED  BY <1>1, <1>2, PrepareKept DEF PrepareInv

(* Every step leaves a prepare thread alone on its job.                    *)
LEMMA PrepareStep == TypeInv /\ LockInv /\ ApprovedInv /\ PrepareInv /\ [Next]_vars => PrepareInv'
<1>. SUFFICES ASSUME TypeInv, LockInv, ApprovedInv, PrepareInv, [Next]_vars PROVE PrepareInv'
  OBVIOUS
<1>1. CASE UNCHANGED vars  BY <1>1 DEF vars, PrepareInv, Prepares
<1>. QED  BY <1>1, ThreadKeepsPrepare, RecoveryKeepsPrepare, ConnectionKeepsPrepare,
             RequestsKeepPrepare, EnvironmentKeepsPrepare DEF Next

-----------------------------------------------------------------------------
(* The recorded commit.                                                    *)

(* What a thread relies on, it relies on behind the connection lock.       *)
LEMMA CommitLabelsAreLocked ==
  ASSUME TypeInv, LockInv, NEW t \in Threads, thr[t].pc \in CommitLabels
  PROVE  lock = t /\ t # None /\ thr[t].job \in Jobs
  BY ThreadAssumption
  DEF LockInv, UnlockedLabels, Resting, CommitLabels, PushingLabels, TypeInv, ThreadsHaveJobs

(* A step that leaves branches, worktrees and recorded commits alone.      *)
LEMMA CommitQuiet ==
  ASSUME TypeInv, CommitInv, wt' = wt, remote' = remote,
         \A j \in Jobs : job'[j].commit = job[j].commit,
         \A t \in Threads : thr'[t].pc \notin CommitLabels \/ thr'[t] = thr[t] \/ CommitThread(t)'
  PROVE  CommitInv'
<1>1. \A j \in Jobs : RowCommit(j)'  BY DEF CommitInv, RowCommit
<1>2. ASSUME NEW t \in Threads PROVE CommitThread(t)'
  <2>1. CASE thr'[t].pc \notin CommitLabels
    BY <2>1 DEF CommitThread, CommitLabels, PushingLabels
  <2>2. CASE thr'[t] = thr[t] /\ thr[t].pc \in CommitLabels
    <3>1. thr[t].job \in Jobs
      BY <2>2 DEF TypeInv, ThreadsHaveJobs, Resting, CommitLabels, PushingLabels
    <3>. QED  BY <2>2, <3>1 DEF CommitInv, CommitThread
  <2>. QED  BY <2>1, <2>2
<1>. QED  BY <1>1, <1>2 DEF CommitInv

(* A step of a thread that holds the lock, or takes it, and changes the    *)
(* worktree, the branch or the recorded commit of its own job.             *)
LEMMA CommitLocal ==
  ASSUME TypeInv, LockInv, CommitInv, NEW t \in Threads, LocalStep(t), lock \in {t, None},
         NEW j \in Jobs, j = JobOf(t), RowCommit(j)', CommitThread(t)'
  PROVE  CommitInv'
<1>1. ASSUME NEW i \in Jobs PROVE RowCommit(i)'
  BY DEF CommitInv, RowCommit, LocalStep, RowLocal, OthersKeep
<1>2. ASSUME NEW u \in Threads, u # t PROVE CommitThread(u)'
  <2>1. thr[u].pc \notin CommitLabels  BY <1>2, CommitLabelsAreLocked
  <2>2. thr'[u] = thr[u]  BY <1>2 DEF LocalStep, ThreadLocal, OthersRun
  <2>. QED  BY <2>1, <2>2 DEF CommitThread, CommitLabels, PushingLabels
<1>. QED  BY <1>1, <1>2 DEF CommitInv

(* A worktree is removed by the holder of the lock, or while nobody holds  *)
(* it.                                                                     *)
LEMMA CommitCleaned ==
  ASSUME TypeInv, LockInv, CommitInv, NEW j \in Jobs, NEW left \in {Absent, wt[j]},
         CleanWorktree(j, left), remote' = remote,
         \A i \in Jobs : job'[i].commit = job[i].commit,
         \A t \in Threads : thr'[t].pc \notin CommitLabels,
         UNCHANGED <<made>>
  PROVE  CommitInv'
<1>1. \A i \in Jobs : wt'[i] \in {Absent, wt[i]}
  BY DEF CleanWorktree, TypeInv, TypeOK
<1>2. \A i \in Jobs : RowCommit(i)'  BY <1>1 DEF CommitInv, RowCommit
<1>3. \A t \in Threads : CommitThread(t)'  BY DEF CommitThread, CommitLabels, PushingLabels
<1>. QED  BY <1>2, <1>3 DEF CommitInv

(* A prepare thread makes the worktree before anything is on the branch.   *)
LEMMA PrepareKeepsCommit ==
  ASSUME TypeInv, LockInv, ApprovedInv, PrepareInv, CommitInv, NEW t \in Threads, Prepare(t)
  PROVE  CommitInv'
<1>. LocalStep(t) /\ OthersRun(t)  BY PrepareIsLocal DEF LocalStep, ThreadLocal
<1>. PICK j \in Jobs : j = JobOf(t) /\ j = thr[t].job  BY DEF LocalStep, JobOf
<1>1. thr'[t].pc \notin CommitLabels
  BY EnterFields, FailFields, LeaveFields
  DEF Prepare, StartPrepare, Fetch, CheckOut, CreateWorktree, ApplyPatch, Offer, Entered, Refused,
      CommitLabels, PushingLabels
<1>2. \A i \in Jobs : job'[i].commit = job[i].commit
  BY EnterFields, StatusFields
  DEF Prepare, StartPrepare, Fetch, CheckOut, CreateWorktree, ApplyPatch, Offer, Entered, Refused
<1>3. remote' = remote
  BY DEF Prepare, StartPrepare, Fetch, CheckOut, CreateWorktree, ApplyPatch, Offer, github
<1>4. CASE StartPrepare(t) \/ Fetch(t) \/ CheckOut(t) \/ Offer(t)
  BY <1>1, <1>2, <1>3, <1>4, CommitQuiet
  DEF StartPrepare, Fetch, CheckOut, Offer, disk, OthersRun
<1>5. CASE CreateWorktree(t) \/ ApplyPatch(t)
  <2>1. Prepares(t, j)
    BY <1>5 DEF CreateWorktree, ApplyPatch, At, Prepares, PrepareLabels, PrepareCalls, JobOf
  <2>2. ~(remote[j] > 0)
    <3>1. remote[j] \in {NoCommit, Above(NoCommit)}
      BY <2>1 DEF PrepareInv, ApprovedInv, PushedWasApproved
    <3>. QED  BY <3>1 DEF NoCommit, Above
  <2>3. lock = t
    BY <1>5 DEF CreateWorktree, ApplyPatch, At, LockInv, UnlockedLabels, Resting
  <2>4. RowCommit(j)'  BY <1>3, <2>2 DEF RowCommit
  <2>. QED  BY <1>1, <2>3, <2>4, CommitLocal DEF CommitThread, CommitLabels, PushingLabels
<1>. QED  BY <1>4, <1>5 DEF Prepare

(* The publish phase records the commit before it pushes it.               *)
LEMMA PublishKeepsCommit ==
  ASSUME TypeInv, LockInv, CommitInv, NEW t \in Threads, Publish(t)
  PROVE  CommitInv'
<1>. LocalStep(t) /\ OthersRun(t)  BY PublishIsLocal DEF LocalStep, ThreadLocal
<1>. PICK j \in Jobs : j = JobOf(t) /\ j = thr[t].job  BY DEF LocalStep, JobOf
<1>. "creating_pr" \notin CommitLabels /\ "cleanup" \notin CommitLabels
  BY DEF CommitLabels, PushingLabels
<1>1. CASE StartPublish(t) \/ EnterCreatingPr(t) \/ Complete(t)
  <2>1. \A i \in Jobs : job'[i].commit = job[i].commit
    BY <1>1, EnterFields DEF StartPublish, EnterCreatingPr, Complete, Entered, Refused
  <2>2. thr'[t].pc \notin CommitLabels
    BY <1>1, EnterFields, FailFields
    DEF StartPublish, EnterCreatingPr, Complete, Entered, Refused, CommitLabels, PushingLabels
  <2>. QED  BY <1>1, <2>1, <2>2, CommitQuiet
            DEF StartPublish, EnterCreatingPr, Complete, disk, github, OthersRun
<1>2. CASE Commit(t)
  <2>1. lock = t  BY <1>2 DEF Commit, At, LockInv, UnlockedLabels, Resting
  <2>2. RowCommit(j)  BY DEF CommitInv
  <2>3. job' = job /\ remote' = remote  BY <1>2 DEF Commit, github
  <2>4. CASE AlreadyCommitted(j)
    <3>1. thr'[t].pc = "record" /\ thr'[t].commit = wt[j] /\ thr'[t].job = j /\ wt' = wt
      BY <1>2, <2>4 DEF Commit, TypeInv, TypeOK, ThreadStates, disk
    <3>2. CommitThread(t)'  BY <3>1 DEF CommitThread, PushingLabels
    <3>3. RowCommit(j)'  BY <2>2, <2>3, <3>1 DEF RowCommit
    <3>. QED  BY <2>1, <3>2, <3>3, CommitLocal
  <2>5. CASE ~AlreadyCommitted(j) /\ wt[j] = Patched
    <3>1. thr'[t].pc = "record" /\ thr'[t].commit = made[j] + 1 /\ thr'[t].job = j
            /\ wt'[j] = made[j] + 1
      BY <1>2, <2>5 DEF Commit, TypeInv, TypeOK, ThreadStates, Patched, Absent
    <3>2. CommitThread(t)'  BY <3>1 DEF CommitThread, PushingLabels
    <3>3. ~(remote[j] > 0)  BY <2>2, <2>5 DEF RowCommit, Patched, Absent
    <3>4. RowCommit(j)'  BY <2>3, <3>3 DEF RowCommit
    <3>. QED  BY <2>1, <3>2, <3>4, CommitLocal
  <2>6. CASE ~AlreadyCommitted(j) /\ wt[j] # Patched
    <3>1. thr'[t].pc = "cleanup" /\ wt' = wt
      BY <1>2, <2>6, FailFields DEF Commit, disk
    <3>. QED  BY <2>3, <3>1, CommitQuiet DEF OthersRun
  <2>. QED  BY <2>4, <2>5, <2>6
<1>3. CASE RecordCommit(t)
  <2>1. lock = t /\ wt[j] = thr[t].commit
    BY <1>3 DEF RecordCommit, At, LockInv, UnlockedLabels, Resting, CommitInv, CommitThread
  <2>2. job'[j].commit = thr[t].commit /\ wt' = wt /\ remote' = remote
    BY <1>3 DEF RecordCommit, TypeInv, TypeOK, JobRows, disk, github
  <2>3. thr'[t].pc = "pushing" /\ thr'[t].job = j /\ thr'[t].commit = thr[t].commit
    BY <1>3, GotoFields DEF RecordCommit
  <2>4. CommitThread(t)'  BY <2>1, <2>2, <2>3 DEF CommitThread, PushingLabels
  <2>5. thr[t].commit \in Nat  BY DEF TypeInv, TypeOK, ThreadStates
  <2>6. RowCommit(j)'
    BY <2>1, <2>2, <2>5 DEF RowCommit, CommitInv, Absent
  <2>. QED  BY <2>1, <2>4, <2>6, CommitLocal
<1>4. CASE EnterPushing(t) \/ Compare(t) \/ Recheck(t)
  <2>1. CommitThread(t) /\ thr[t].pc \in PushingLabels
    BY <1>4 DEF EnterPushing, Compare, Recheck, At, CommitInv, PushingLabels
  <2>2. wt' = wt /\ remote' = remote /\ \A i \in Jobs : job'[i].commit = job[i].commit
    BY <1>4, EnterFields
    DEF EnterPushing, Compare, Recheck, Entered, Refused, disk, github
  <2>3. \/ thr'[t].pc \notin CommitLabels
        \/ thr'[t].pc \in PushingLabels /\ thr'[t].job = j /\ thr'[t].commit = thr[t].commit
    BY <1>4, EnterFields, GotoFields, FailFields
    DEF EnterPushing, Compare, Recheck, Entered, Refused, CommitLabels, PushingLabels
  <2>4. thr'[t].pc \in PushingLabels /\ thr'[t].job = j /\ thr'[t].commit = thr[t].commit
          => CommitThread(t)'
    BY <2>1, <2>2 DEF CommitThread, PushingLabels
  <2>. QED  BY <2>2, <2>3, <2>4, CommitQuiet DEF OthersRun
<1>5. CASE Push(t)
  <2>1. lock = t /\ wt[j] = thr[t].commit /\ job[j].commit = thr[t].commit
    BY <1>5 DEF Push, At, LockInv, UnlockedLabels, Resting, CommitInv, CommitThread, PushingLabels
  <2>2. remote'[j] \in {remote[j], wt[j]} /\ wt' = wt /\ job' = job
    BY <1>5 DEF Push, TypeInv, TypeOK, disk
  <2>3. thr'[t].pc \in {"creating_pr", "cleanup"}
    BY <1>5, GotoFields, FailFields DEF Push
  <2>4. CommitThread(t)'  BY <2>3 DEF CommitThread, PushingLabels
  <2>5. RowCommit(j)'  BY <2>1, <2>2 DEF RowCommit, CommitInv
  <2>. QED  BY <2>1, <2>4, <2>5, CommitLocal
<1>6. CASE ListPrs(t) \/ CreatePr(t) \/ RecordPr(t)
  <2>1. \A i \in Jobs : job'[i].commit = job[i].commit
    BY <1>6 DEF ListPrs, CreatePr, RecordPr, TypeInv, TypeOK, JobRows
  <2>2. thr'[t].pc \notin CommitLabels
    BY <1>6, GotoFields, FailFields DEF ListPrs, CreatePr, RecordPr, CommitLabels, PushingLabels
  <2>. QED  BY <1>6, <2>1, <2>2, CommitQuiet
            DEF ListPrs, CreatePr, RecordPr, disk, github, OthersRun
<1>7. CASE Tidy(t)
  <2>1. lock = t  BY <1>7 DEF Tidy, At, LockInv, UnlockedLabels, Resting
  <2>2. wt'[j] \in {Absent, wt[j]} /\ remote' = remote /\ job'[j].commit = job[j].commit
    BY <1>7 DEF Tidy, CleanWorktree, TypeInv, TypeOK, JobRows, github
  <2>3. thr'[t].pc \in {"idle", "auto"}  BY <1>7, LeaveFields DEF Tidy
  <2>4. CommitThread(t)'  BY <2>3 DEF CommitThread, PushingLabels
  <2>5. RowCommit(j)'  BY <2>2 DEF RowCommit, CommitInv
  <2>. QED  BY <2>1, <2>4, <2>5, CommitLocal
<1>. QED  BY <1>1, <1>2, <1>3, <1>4, <1>5, <1>6, <1>7 DEF Publish

(* The reconcile phase forgets a commit only when the branch does not      *)
(* exist.                                                                  *)
LEMMA ReconcileKeepsCommit ==
  ASSUME TypeInv, LockInv, CommitInv, NEW t \in Threads, Reconcile(t)
  PROVE  CommitInv'
<1>. LocalStep(t) /\ OthersRun(t)  BY ReconcileIsLocal DEF LocalStep, ThreadLocal
<1>. PICK j \in Jobs : j = JobOf(t) /\ j = thr[t].job  BY DEF LocalStep, JobOf
<1>1. CASE ReadRow(t) \/ StartReconcile(t) \/ Recommit(t)
  <2>1. \A i \in Jobs : job'[i].commit = job[i].commit
    BY <1>1, EnterFields, StatusFields DEF ReadRow, StartReconcile, Recommit, Entered, Refused
  <2>2. thr'[t].pc \notin CommitLabels
    <3>1. CASE ReadRow(t)
      BY <3>1 DEF ReadRow, TypeInv, TypeOK, ThreadStates, CommitLabels, PushingLabels
    <3>2. CASE StartReconcile(t)
      BY <3>2, GotoFields, LeaveFields DEF StartReconcile, CommitLabels, PushingLabels
    <3>3. CASE Recommit(t)
      BY <3>3, EnterFields DEF Recommit, Entered, Refused, CommitLabels, PushingLabels
    <3>. QED  BY <1>1, <3>1, <3>2, <3>3
  <2>. QED  BY <1>1, <2>1, <2>2, CommitQuiet
            DEF ReadRow, StartReconcile, Recommit, disk, github, OthersRun
<1>2. CASE Inspect(t)
  <2>1. \A i \in Jobs : job'[i].commit = job[i].commit
    BY <1>2, EnterFields DEF Inspect, Entered, Refused
  <2>2. wt' = wt /\ remote' = remote  BY <1>2 DEF Inspect, disk, github
  <2>3. \/ thr'[t].pc \notin CommitLabels
        \/ thr'[t].pc = "rebuild" /\ thr'[t].job = j /\ remote[j] = NoCommit
    BY <1>2, EnterFields, GotoFields, FailFields
    DEF Inspect, Entered, Refused, CommitLabels, PushingLabels
  <2>4. thr'[t].pc = "rebuild" /\ thr'[t].job = j /\ remote[j] = NoCommit => CommitThread(t)'
    BY <2>2 DEF CommitThread, PushingLabels, NoCommit
  <2>. QED  BY <2>1, <2>2, <2>3, <2>4, CommitQuiet DEF OthersRun
<1>3. CASE Rebuild(t)
  <2>1. lock = t /\ remote[j] <= 0
    BY <1>3 DEF Rebuild, At, LockInv, UnlockedLabels, Resting, CommitInv, CommitThread
  <2>2. remote' = remote  BY <1>3 DEF Rebuild, github
  <2>3. thr'[t].pc \in {"recommit", "cleanup"}  BY <1>3, GotoFields, FailFields DEF Rebuild
  <2>4. CommitThread(t)'  BY <2>3 DEF CommitThread, PushingLabels
  <2>5. RowCommit(j)'  BY <2>1, <2>2 DEF RowCommit, TypeInv, TypeOK
  <2>. QED  BY <2>1, <2>4, <2>5, CommitLocal
<1>. QED  BY <1>1, <1>2, <1>3 DEF Reconcile

(* A failing phase removes its worktree behind the lock.                   *)
LEMMA FailureKeepsCommit ==
  ASSUME TypeInv, LockInv, CommitInv, NEW t \in Threads, CallFails(t) \/ Cleanup(t) \/ Settle(t)
  PROVE  CommitInv'
<1>. LocalStep(t) /\ OthersRun(t)  BY FailureIsLocal DEF LocalStep, ThreadLocal
<1>. PICK j \in Jobs : j = JobOf(t) /\ j = thr[t].job  BY DEF LocalStep, JobOf
<1>1. thr'[t].pc \notin CommitLabels
  BY FailFields, LeaveFields
  DEF CallFails, Cleanup, Settle, TypeInv, TypeOK, ThreadStates, CommitLabels, PushingLabels
<1>2. \A i \in Jobs : job'[i].commit = job[i].commit
  BY RecordFields DEF CallFails, Cleanup, Settle
<1>3. CASE CallFails(t) \/ Settle(t)
  BY <1>1, <1>2, <1>3, CommitQuiet DEF CallFails, Settle, disk, github, OthersRun
<1>4. CASE Cleanup(t)
  <2>1. lock = t  BY <1>4 DEF Cleanup, At, LockInv, UnlockedLabels, Resting
  <2>2. wt'[j] \in {Absent, wt[j]} /\ remote' = remote
    BY <1>4 DEF Cleanup, CleanWorktree, TypeInv, TypeOK, github
  <2>3. RowCommit(j)'  BY <1>2, <2>2 DEF RowCommit, CommitInv
  <2>4. CommitThread(t)'  BY <1>1 DEF CommitThread, CommitLabels, PushingLabels
  <2>. QED  BY <2>1, <2>3, <2>4, CommitLocal
<1>. QED  BY <1>3, <1>4

(* While nobody holds the lock no thread relies on a worktree.             *)
LEMMA NobodyCommits ==
  ASSUME TypeInv, LockInv, lock = None, NEW t \in Threads
  PROVE  thr[t].pc \notin CommitLabels
  BY CommitLabelsAreLocked

(* The recovery worker removes a worktree while nobody holds the lock.     *)
LEMMA RecoveryKeepsCommit ==
  ASSUME TypeInv, LockInv, CommitInv, RecoveryStep
  PROVE  CommitInv'
<1>. Recovery \in Threads  BY NamesAreApart
<1>1. CASE Tick \/ RepairDone \/ AutoRetryDone
  <2>1. OthersRun(Recovery) /\ thr'[Recovery].pc \notin CommitLabels
    BY <1>1, GotoFields DEF Tick, RepairDone, AutoRetryDone, CommitLabels, PushingLabels
  <2>. QED  BY <1>1, <2>1, CommitQuiet
            DEF Tick, RepairDone, AutoRetryDone, disk, github, OthersRun
<1>2. CASE RepairWorktree
  <2>1. PICK item \in todo : \E left \in {Absent, wt[item[1]]} : CleanWorktree(item[1], left)
    BY <1>2 DEF RepairWorktree
  <2>2. item[1] \in Jobs  BY DEF TypeInv, TypeOK
  <2>3. \A t \in Threads : thr'[t].pc \notin CommitLabels
    <3>1. \A t \in Threads : thr'[t] = thr[t] \/ thr'[t].pc = "repair_status"
      BY <1>2 DEF RepairWorktree, TypeInv, TypeOK
    <3>. QED  BY <1>2, <3>1, NobodyCommits DEF RepairWorktree, CommitLabels, PushingLabels
  <2>. QED  BY <1>2, <2>1, <2>2, <2>3, CommitCleaned DEF RepairWorktree, github
<1>3. CASE RepairStatus
  <2>1. JobOf(Recovery) \in Jobs  BY <1>3, BusyJobs DEF RepairStatus, Resting
  <2>2. \A i \in Jobs : job'[i].commit = job[i].commit
    BY <1>3, <2>1, RecordFields DEF RepairStatus
  <2>3. \A t \in Threads : thr'[t] = thr[t] \/ thr'[t].pc = "repair"
    BY <1>3 DEF RepairStatus, TypeInv, TypeOK, IdleThread
  <2>. QED  BY <1>3, <2>2, <2>3, CommitQuiet
            DEF RepairStatus, disk, github, CommitLabels, PushingLabels
<1>4. ASSUME NEW j \in Jobs, AutoRetry(j) PROVE CommitInv'
  <2>1. \A i \in Jobs : job'[i].commit = job[i].commit
    BY <1>4 DEF AutoRetry, StartRetry, TypeInv, TypeOK, JobRows
  <2>2. \A t \in Threads : thr'[t] = thr[t] \/ thr'[t].pc = "read_row"
    BY <1>4 DEF AutoRetry, TypeInv, TypeOK, IdleThread
  <2>. QED  BY <1>4, <2>1, <2>2, CommitQuiet
            DEF AutoRetry, disk, github, CommitLabels, PushingLabels
<1>. QED  BY <1>1, <1>2, <1>3, <1>4 DEF RecoveryStep

(* The handlers of the connection touch no commit.                         *)
LEMMA ConnectionKeepsCommit ==
  ASSUME TypeInv, CommitInv, Connection
  PROVE  CommitInv'
<1>1. thr' = thr /\ disk' = disk /\ github' = github
  BY DEF Connection, VerifyBegin, VerifyEnd, SyncBegin, SyncEnd, Disconnect
<1>2. \A j \in Jobs : job'[j].commit = job[j].commit
  BY
  DEF Connection, VerifyBegin, VerifyEnd, SyncBegin, SyncEnd, Disconnect, TypeInv, TypeOK,
      JobRows
<1>. QED  BY <1>1, <1>2, CommitQuiet DEF disk, github

(* Requests touch no commit, and remove a worktree while nobody holds the  *)
(* lock.                                                                   *)
LEMMA RequestsKeepCommit ==
  ASSUME TypeInv, LockInv, CommitInv, Requests
  PROVE  CommitInv'
<1>. PICK j \in Jobs : Create(j) \/ Approve(j) \/ Retry(j) \/ Cancel(j) \/ RemoveWorktree(j)
  BY DEF Requests
<1>1. \A i \in Jobs : job'[i].commit = job[i].commit
  <2>1. CASE Create(j)  BY <2>1, StatusFields DEF Create
  <2>2. CASE Approve(j)  BY <2>2 DEF Approve, TypeInv, TypeOK, JobRows
  <2>3. CASE Retry(j)  BY <2>3 DEF Retry, StartRetry, TypeInv, TypeOK, JobRows
  <2>4. CASE Cancel(j)  BY <2>4 DEF Cancel, TypeInv, TypeOK, JobRows
  <2>5. CASE RemoveWorktree(j)  BY <2>5 DEF RemoveWorktree, TypeInv, TypeOK, JobRows
  <2>. QED  BY <2>1, <2>2, <2>3, <2>4, <2>5
<1>2. CASE Create(j) \/ Approve(j) \/ Retry(j)
  <2>1. PICK w \in Workers : OthersRun(w) /\ thr'[w].pc \in {"prepare", "publish", "read_row"}
    BY <1>2, SpawnFields DEF Create, Approve, Retry
  <2>2. \A t \in Threads : thr'[t].pc \notin CommitLabels \/ thr'[t] = thr[t]
    BY <2>1 DEF OthersRun, CommitLabels, PushingLabels
  <2>. QED  BY <1>1, <1>2, <2>2, CommitQuiet DEF Create, Approve, Retry, disk, github
<1>3. CASE Cancel(j)
  BY <1>1, <1>3, CommitQuiet DEF Cancel, disk, github
<1>4. CASE RemoveWorktree(j)
  <2>1. \A t \in Threads : thr'[t].pc \notin CommitLabels
    BY <1>4, NobodyCommits DEF RemoveWorktree
  <2>. QED  BY <1>1, <1>4, <2>1, CommitCleaned DEF RemoveWorktree, github
<1>. QED  BY <1>2, <1>3, <1>4

(* What others push is not ours, and a crash leaves disk and branch alone. *)
LEMMA EnvironmentKeepsCommit ==
  ASSUME TypeInv, CommitInv, Environment
  PROVE  CommitInv'
<1>1. CASE Crash \/ CrashInDisconnect
  <2>1. job' = job /\ disk' = disk /\ github' = github
    BY <1>1 DEF Crash, CrashInDisconnect, LoseProcess
  <2>2. \A t \in Threads : thr'[t].pc \notin CommitLabels
    BY <1>1 DEF Crash, CrashInDisconnect, LoseProcess, IdleThread, CommitLabels, PushingLabels
  <2>. QED  BY <2>1, <2>2, CommitQuiet DEF disk, github
<1>2. CASE Restart
  <2>1. \A t \in Threads : thr'[t] = thr[t] \/ thr'[t].pc = "repair"
    BY <1>2, GotoFields, NamesAreApart DEF Restart, OthersRun
  <2>. QED  BY <1>2, <2>1, CommitQuiet DEF Restart, disk, github, CommitLabels, PushingLabels
<1>3. CASE BaseMoves \/ LeaseExpires
  BY <1>3, CommitQuiet DEF BaseMoves, LeaseExpires, disk, github
<1>4. ASSUME NEW j \in Jobs, HeartbeatAges(j) PROVE CommitInv'
  <2>1. \A i \in Jobs : job'[i].commit = job[i].commit
    BY <1>4 DEF HeartbeatAges, TypeInv, TypeOK, JobRows
  <2>. QED  BY <1>4, <2>1, CommitQuiet DEF HeartbeatAges, disk, github
<1>5. ASSUME NEW j \in Jobs, ForeignPush(j) PROVE CommitInv'
  <2>1. \A i \in Jobs : remote'[i] = remote[i] \/ (remote'[i] \in Int /\ remote'[i] < 0)
    BY <1>5 DEF ForeignPush, Above, TypeInv, TypeOK
  <2>2. job' = job /\ wt' = wt /\ thr' = thr  BY <1>5 DEF ForeignPush, disk
  <2>3. \A i \in Jobs : RowCommit(i)'  BY <2>1, <2>2 DEF CommitInv, RowCommit, TypeInv, TypeOK
  <2>4. ASSUME NEW t \in Threads PROVE CommitThread(t)'
    <3>1. CASE thr[t].pc \in CommitLabels
      <4>1. thr[t].job \in Jobs
        BY <3>1 DEF TypeInv, ThreadsHaveJobs, Resting, CommitLabels, PushingLabels
      <4>2. remote[thr[t].job] <= 0 => remote'[thr[t].job] <= 0
        BY <2>1, <4>1 DEF TypeInv, TypeOK
      <4>. QED  BY <2>2, <4>2 DEF CommitInv, CommitThread
    <3>2. CASE thr[t].pc \notin CommitLabels
      BY <2>2, <3>2 DEF CommitThread, CommitLabels, PushingLabels
    <3>. QED  BY <3>1, <3>2
  <2>. QED  BY <2>3, <2>4 DEF CommitInv
<1>6. ASSUME NEW j \in Jobs, ClosePr(j) PROVE CommitInv'
  BY <1>6, CommitQuiet DEF ClosePr, disk
<1>. QED  BY <1>1, <1>2, <1>3, <1>4, <1>5, <1>6 DEF Environment

(* Every step keeps recorded commits.                                      *)
LEMMA CommitStep ==
  TypeInv /\ LockInv /\ ApprovedInv /\ PrepareInv /\ CommitInv /\ [Next]_vars => CommitInv'
<1>. SUFFICES ASSUME TypeInv, LockInv, ApprovedInv, PrepareInv, CommitInv, [Next]_vars
              PROVE  CommitInv'
  OBVIOUS
<1>1. ASSUME NEW t \in Threads, ThreadStep(t) PROVE CommitInv'
  BY <1>1, PrepareKeepsCommit, PublishKeepsCommit, ReconcileKeepsCommit, FailureKeepsCommit
  DEF ThreadStep
<1>2. CASE UNCHANGED vars  BY <1>2 DEF vars, CommitInv, RowCommit, CommitThread
<1>. QED  BY <1>1, <1>2, RecoveryKeepsCommit, ConnectionKeepsCommit, RequestsKeepCommit,
             EnvironmentKeepsCommit DEF Next

(* Initially there is no commit and no thread.                             *)
LEMMA RecordInit == Init => PrepareInv /\ CommitInv
<1>. SUFFICES ASSUME Init PROVE PrepareInv /\ CommitInv
  OBVIOUS
<1>1. \A t \in Threads : thr[t].pc = "idle"  BY DEF Init, IdleThread
<1>2. PrepareInv
  BY <1>1 DEF Init, PrepareInv, Prepares, PrepareLabels, PrepareCalls
<1>3. CommitInv
  BY <1>1 DEF Init, CommitInv, RowCommit, CommitThread, PushingLabels, NoCommit
<1>. QED  BY <1>2, <1>3

(* The inductive invariant of the workflow.                                *)
THEOREM PublishSafety == Spec => []SafetyInv
<1>1. Init => SafetyInv
  BY InitTypes, LockInit, ApprovedInit, RecordInit DEF SafetyInv
<1>2. SafetyInv /\ [Next]_vars => SafetyInv'
  BY TypeStep, LockStep, ApprovedStep, PrepareStep, CommitStep DEF SafetyInv
<1>. QED  BY <1>1, <1>2, PTL DEF Spec

(* A commit of ours on a branch is the one its job row records, whatever   *)
(* crashes, lost answers, repairs and retries came before.                 *)
THEOREM PushedRecorded == Spec => []PushedIsRecorded
<1>1. SafetyInv => PushedIsRecorded
  BY DEF SafetyInv, CommitInv, RowCommit, PushedIsRecorded
<1>. QED  BY <1>1, PublishSafety, PTL

-----------------------------------------------------------------------------
(* The lifecycle.                                                          *)

(* Threads and planned repairs are of jobs that exist.                     *)
BornInv ==
  /\ \A t \in Threads : thr[t].pc \notin Resting => job[thr[t].job].status # "none"
  /\ \A item \in todo : job[item[1]].status # "none"

(* An approved job never returns to what comes before its approval.        *)
Onward == NeedsApproval \cup {"failed", "cancelled"}
OnwardInv == \A j \in Jobs : job[j].approved => job[j].status \in Onward

(* What a thread has made sure of when it gets to the pull request.        *)
EffectLabels == {"creating_pr", "list_prs", "create_pr", "record_pr", "completed"}
EffectThread(t) ==
  /\ thr[t].pc \in {"record"} \cup PushingLabels => thr[t].commit # NoCommit
  /\ thr[t].pc \in EffectLabels => OnBranch(thr[t].job)
  /\ thr[t].pc = "completed" => job[thr[t].job].pr
EffectInv == \A t \in Threads : EffectThread(t)

SeenInv == SafetyInv /\ BornInv /\ OnwardInv /\ EffectInv

-----------------------------------------------------------------------------
(* Phases.                                                                 *)

(* The phases of statuses.                                                 *)
LEMMA Phases ==
  /\ \A s \in PreparePhase \cup {"pending"} : PhaseOf(s) = "preparing"
  /\ PhaseOf("awaiting_approval") = "offered"
  /\ \A s \in PublishPhase : PhaseOf(s) = "publishing"
  /\ \A s \in RetryableStatuses : PhaseOf(s) = "waiting"
  /\ \A s \in Terminal \cup {"none"} : PhaseOf(s) = s
  BY DEF PhaseOf, PreparePhase, PublishPhase, RetryableStatuses, Terminal

Allowed(p, q) ==
  \/ p = q
  \/ p = "none" /\ q = "preparing"
  \/ p = "preparing" /\ q = "offered"
  \/ p = "publishing" /\ q = "waiting"
  \/ p = "waiting" /\ q = "publishing"
  \/ p \in {"preparing", "offered", "publishing", "waiting"} /\ q = "failed"

FactsKept ==
  \A j \in Jobs : /\ job'[j].approved = job[j].approved
                  /\ job'[j].pr = job[j].pr
                  /\ OnBranch(j)' <=> OnBranch(j)
OneMoves(j) == \A i \in Jobs \ {j} : job'[i].status = job[i].status
Seen == [Lifecycle!Next]_(Lifecycle!lifecycle)

(* A step that moves one status along the lifecycle, and no other fact, is *)
(* a step of the lifecycle.                                                *)
LEMMA MoveIsSeen ==
  ASSUME NEW j \in Jobs, OneMoves(j), FactsKept,
         Allowed(PhaseOf(job[j].status), PhaseOf(job'[j].status))
  PROVE  Seen
<1>. DEFINE P == [i \in Jobs |-> PhaseOf(job[i].status)]
            Q == [i \in Jobs |-> PhaseOf(job'[i].status)]
            p == PhaseOf(job[j].status)
            q == PhaseOf(job'[j].status)
<1>1. {i \in Jobs : job[i].approved}' = {i \in Jobs : job[i].approved}  BY DEF FactsKept
<1>2. {i \in Jobs : job[i].pr}' = {i \in Jobs : job[i].pr}  BY DEF FactsKept
<1>3. {i \in Jobs : OnBranch(i)}' = {i \in Jobs : OnBranch(i)}  BY DEF FactsKept
<1>4. Q = [P EXCEPT ![j] = q] /\ P[j] = p  BY DEF OneMoves
<1>5. CASE p = q
  BY <1>1, <1>2, <1>3, <1>4, <1>5 DEF Seen, Lifecycle!lifecycle
<1>6. CASE p = "none" /\ q = "preparing"
  BY <1>1, <1>2, <1>3, <1>4, <1>6 DEF Seen, Lifecycle!Next, Lifecycle!Submit, Lifecycle!Moves
<1>7. CASE p = "preparing" /\ q = "offered"
  BY <1>1, <1>2, <1>3, <1>4, <1>7 DEF Seen, Lifecycle!Next, Lifecycle!Offer, Lifecycle!Moves
<1>8. CASE p = "publishing" /\ q = "waiting"
  BY <1>1, <1>2, <1>3, <1>4, <1>8 DEF Seen, Lifecycle!Next, Lifecycle!Wait, Lifecycle!Moves
<1>9. CASE p = "waiting" /\ q = "publishing"
  BY <1>1, <1>2, <1>3, <1>4, <1>9 DEF Seen, Lifecycle!Next, Lifecycle!Resume, Lifecycle!Moves
<1>10. CASE p \in {"preparing", "offered", "publishing", "waiting"} /\ q = "failed"
  BY <1>1, <1>2, <1>3, <1>4, <1>10
  DEF Seen, Lifecycle!Next, Lifecycle!Fail, Lifecycle!Moves, Lifecycle!Open
<1>. QED  BY <1>5, <1>6, <1>7, <1>8, <1>9, <1>10 DEF Allowed

(* A step that moves no phase keeps every status in its phase.             *)
LEMMA QuietIsSeen ==
  ASSUME FactsKept, \A j \in Jobs : PhaseOf(job'[j].status) = PhaseOf(job[j].status)
  PROVE  Seen
<1>1. {i \in Jobs : job[i].approved}' = {i \in Jobs : job[i].approved}  BY DEF FactsKept
<1>2. {i \in Jobs : job[i].pr}' = {i \in Jobs : job[i].pr}  BY DEF FactsKept
<1>3. {i \in Jobs : OnBranch(i)}' = {i \in Jobs : OnBranch(i)}  BY DEF FactsKept
<1>. QED  BY <1>1, <1>2, <1>3 DEF Seen, Lifecycle!lifecycle

(* A step that closes jobs which are open and do not publish is a          *)
(* cancellation.                                                           *)
LEMMA ClosedIsSeen ==
  ASSUME NEW chosen \in SUBSET Jobs, remote' = remote,
         \A j \in chosen : job[j].status \in
            PreparePhase \cup {"pending", "awaiting_approval"} \cup RetryableStatuses,
         \A j \in Jobs : /\ job'[j].approved = job[j].approved /\ job'[j].pr = job[j].pr
                         /\ job'[j].status = IF j \in chosen THEN "cancelled" ELSE job[j].status
  PROVE  Seen
<1>. DEFINE P == [i \in Jobs |-> PhaseOf(job[i].status)]
<1>1. {i \in Jobs : job[i].approved}' = {i \in Jobs : job[i].approved}  OBVIOUS
<1>2. {i \in Jobs : job[i].pr}' = {i \in Jobs : job[i].pr}  OBVIOUS
<1>3. {i \in Jobs : OnBranch(i)}' = {i \in Jobs : OnBranch(i)}  BY DEF OnBranch
<1>4. P' = [j \in Jobs |-> IF j \in chosen THEN "cancelled" ELSE P[j]]
  BY Phases DEF Terminal
<1>5. \A j \in chosen : P[j] \in {"preparing", "offered", "waiting"}  BY Phases
<1>6. Lifecycle!Cancel(chosen)
  BY <1>1, <1>2, <1>3, <1>4, <1>5 DEF Lifecycle!Cancel, Lifecycle!Open
<1>. QED  BY <1>6 DEF Seen, Lifecycle!Next

-----------------------------------------------------------------------------
(* What a step of a thread writes to its row.                              *)

Same(t) == job'[JobOf(t)].status = job[JobOf(t)].status
Writes(t, to) == Live(JobOf(t)) /\ job'[JobOf(t)].status \in to

(* Prepare threads write the statuses of their phase, or offer the job.    *)
LEMMA PrepareWrites ==
  ASSUME TypeInv, LockInv, NEW t \in Threads, Prepare(t)
  PROVE  Same(t) \/ Writes(t, PreparePhase \cup {"awaiting_approval"})
<1>. JobOf(t) \in Jobs  BY PrepareIsLocal DEF LocalStep
<1>. QED
  BY EnterFields, StatusFields
  DEF Prepare, StartPrepare, Fetch, CheckOut, CreateWorktree, ApplyPatch, Offer, Entered, Refused,
      PreparePhase, Same, Writes

(* Publish threads write the statuses of their phase, or complete the job. *)
LEMMA PublishWrites ==
  ASSUME TypeInv, LockInv, NEW t \in Threads, Publish(t)
  PROVE  Same(t) \/ Writes(t, PublishPhase) \/ (Complete(t) /\ Writes(t, {"completed"}))
<1>. JobOf(t) \in Jobs  BY PublishIsLocal DEF LocalStep
<1>1. CASE StartPublish(t) \/ EnterPushing(t) \/ EnterCreatingPr(t) \/ Complete(t)
  BY <1>1, EnterFields
  DEF StartPublish, EnterPushing, EnterCreatingPr, Complete, Entered, Refused, PublishPhase, Same,
      Writes
<1>2. CASE Commit(t) \/ Compare(t) \/ Recheck(t) \/ Push(t) \/ ListPrs(t) \/ CreatePr(t)
  BY <1>2 DEF Commit, Compare, Recheck, Push, ListPrs, CreatePr, Same
<1>3. CASE RecordCommit(t) \/ RecordPr(t) \/ Tidy(t)
  BY <1>3 DEF RecordCommit, RecordPr, Tidy, TypeInv, TypeOK, JobRows, JobOf, Same
<1>. QED  BY <1>1, <1>2, <1>3 DEF Publish

(* Reconcile threads go on with the publish phase, or put the job back.    *)
LEMMA ReconcileWrites ==
  ASSUME TypeInv, LockInv, NEW t \in Threads, Reconcile(t)
  PROVE  Same(t) \/ Writes(t, PublishPhase \cup {"retryable_failed"})
<1>. JobOf(t) \in Jobs  BY ReconcileIsLocal DEF LocalStep
<1>1. CASE ReadRow(t)  BY <1>1 DEF ReadRow, Same
<1>2. CASE StartReconcile(t)  BY <1>2, StatusFields DEF StartReconcile, Same, Writes
<1>3. CASE Inspect(t) \/ Recommit(t)
  BY <1>3, EnterFields
  DEF Inspect, Recommit, Entered, Refused, PublishPhase, Same, Writes
<1>4. CASE Rebuild(t)  BY <1>4 DEF Rebuild, TypeInv, TypeOK, JobRows, JobOf, Same
<1>. QED  BY <1>1, <1>2, <1>3, <1>4 DEF Reconcile

(* A failed phase writes its outcome.                                      *)
LEMMA FailureWrites ==
  ASSUME TypeInv, LockInv, NEW t \in Threads, CallFails(t) \/ Cleanup(t) \/ Settle(t)
  PROVE  Same(t) \/ (Settle(t) /\ Writes(t, {thr[t].outcome}))
<1>. JobOf(t) \in Jobs  BY FailureIsLocal DEF LocalStep
<1>. QED  BY RecordFields DEF CallFails, Cleanup, Settle, Same, Writes

(* Only the step that records it changes whether a pull request is known.  *)
LEMMA PrStays ==
  ASSUME TypeInv, LockInv, NEW t \in Threads, ThreadStep(t), ~RecordPr(t)
  PROVE  \A i \in Jobs : job'[i].pr = job[i].pr
<1>. JobOf(t) \in Jobs  BY ThreadStepIsLocal DEF LocalStep
<1>. USE DEF TypeInv, TypeOK, JobRows
<1>1. ASSUME NEW s, SetStatus(JobOf(t), s) PROVE \A i \in Jobs : job'[i].pr = job[i].pr
  BY <1>1 DEF SetStatus
<1>2. ASSUME NEW s, NEW l, Enter(t, s, l) PROVE \A i \in Jobs : job'[i].pr = job[i].pr
  BY <1>1, <1>2 DEF Enter
<1>3. CASE Prepare(t)
  BY <1>1, <1>2, <1>3
  DEF Prepare, StartPrepare, Fetch, CheckOut, CreateWorktree, ApplyPatch, Offer
<1>4. CASE Publish(t)
  <2>1. CASE StartPublish(t) \/ EnterPushing(t) \/ EnterCreatingPr(t) \/ Complete(t)
    BY <1>2, <2>1 DEF StartPublish, EnterPushing, EnterCreatingPr, Complete
  <2>2. CASE Commit(t) \/ Compare(t) \/ Recheck(t) \/ Push(t) \/ ListPrs(t) \/ CreatePr(t)
    BY <2>2 DEF Commit, Compare, Recheck, Push, ListPrs, CreatePr
  <2>3. CASE RecordCommit(t) \/ Tidy(t)
    BY <2>3 DEF RecordCommit, Tidy, JobOf
  <2>. QED  BY <1>4, <2>1, <2>2, <2>3 DEF Publish
<1>5. CASE Reconcile(t)
  BY <1>1, <1>2, <1>5
  DEF Reconcile, ReadRow, StartReconcile, Inspect, Rebuild, Recommit, JobOf
<1>6. CASE CallFails(t) \/ Cleanup(t) \/ Settle(t)
  BY <1>6 DEF CallFails, Cleanup, Settle, RecordFailure, JobOf
<1>. QED  BY <1>3, <1>4, <1>5, <1>6 DEF ThreadStep

(* Only a push changes a branch.                                           *)
LEMMA BranchStays ==
  ASSUME NEW t \in Threads, ThreadStep(t), ~Push(t)
  PROVE  remote' = remote
<1>1. CASE Prepare(t)
  BY <1>1 DEF Prepare, StartPrepare, Fetch, CheckOut, CreateWorktree, ApplyPatch, Offer, github
<1>2. CASE Publish(t)
  BY <1>2
  DEF Publish, StartPublish, Commit, RecordCommit, EnterPushing, Compare, Recheck,
      EnterCreatingPr, ListPrs, CreatePr, RecordPr, Complete, Tidy, github
<1>3. CASE Reconcile(t)
  BY <1>3 DEF Reconcile, ReadRow, StartReconcile, Inspect, Rebuild, Recommit, github
<1>4. CASE CallFails(t) \/ Cleanup(t) \/ Settle(t)
  BY <1>4 DEF CallFails, Cleanup, Settle, github
<1>. QED  BY <1>1, <1>2, <1>3, <1>4 DEF ThreadStep

(* The other steps of a thread move its own status at most.                *)
LEMMA ThreadKeepsFacts ==
  ASSUME TypeInv, LockInv, NEW t \in Threads, ThreadStep(t), ~RecordPr(t), ~Push(t)
  PROVE  JobOf(t) \in Jobs /\ FactsKept /\ OneMoves(JobOf(t))
<1>1. LocalStep(t)  BY ThreadStepIsLocal
<1>2. remote' = remote  BY BranchStays
<1>3. \A i \in Jobs : job'[i].approved = job[i].approved
  BY <1>1 DEF LocalStep, RowLocal, OthersKeep
<1>. QED  BY <1>1, <1>2, <1>3, PrStays
          DEF FactsKept, OneMoves, OnBranch, LocalStep, RowLocal, OthersKeep

-----------------------------------------------------------------------------
(* What a thread's step shows the owner.                                   *)

(* The phases of a job that is not approved, seen by its prepare thread,   *)
(* and of one that is approved.                                            *)
LEMMA UnapprovedPhase ==
  ASSUME SeenInv, NEW t \in Threads, Prepare(t), Live(JobOf(t))
  PROVE  PhaseOf(job[JobOf(t)].status) = "preparing"
<1>1. thr[t].pc \in PrepareLabels
  BY DEF Prepare, StartPrepare, Fetch, CheckOut, CreateWorktree, ApplyPatch, Offer, At,
         PrepareLabels, PrepareCalls
<1>2. JobOf(t) \in Jobs  BY PrepareIsLocal DEF SeenInv, SafetyInv, LocalStep
<1>3. ~job[JobOf(t)].approved /\ job[JobOf(t)].status \notin Unoffered
  BY <1>1, <1>2 DEF SeenInv, SafetyInv, PrepareInv, Prepares, JobOf
<1>4. job[JobOf(t)].status \notin NeedsApproval
  BY <1>2, <1>3 DEF SeenInv, SafetyInv, ApprovedInv, ApprovedRows
<1>5. job[JobOf(t)].status \in Statuses
  BY <1>2 DEF SeenInv, SafetyInv, TypeInv, TypeOK, JobRows
<1>. QED  BY <1>3, <1>4, <1>5, Phases
          DEF Live, NeedsApproval, Unoffered, Statuses, DisconnectCancels, CancellableStatuses,
              Terminal

(* An approved job that is not closed is published or waits.               *)
LEMMA ApprovedPhase ==
  ASSUME OnwardInv, NEW j \in Jobs, job[j].approved, Live(j)
  PROVE  PhaseOf(job[j].status) \in {"publishing", "waiting"}
  BY Phases DEF OnwardInv, Onward, NeedsApproval, Live, Terminal

(* A job that exists and is not closed is open.                            *)
LEMMA LivePhase ==
  ASSUME TypeInv, NEW j \in Jobs, job[j].status # "none", Live(j)
  PROVE  PhaseOf(job[j].status) \in {"preparing", "offered", "publishing", "waiting"}
<1>1. job[j].status \in Statuses  BY DEF TypeInv, TypeOK, JobRows
<1>. QED  BY <1>1, Phases DEF Live, Statuses, DisconnectCancels, CancellableStatuses, Terminal

(* A prepare step prepares or offers.                                      *)
LEMMA PrepareIsSeen ==
  ASSUME SeenInv, NEW t \in Threads, Prepare(t)
  PROVE  Seen
<1>. TypeInv /\ LockInv  BY DEF SeenInv, SafetyInv
<1>0. ThreadStep(t)  BY DEF ThreadStep
<1>1. ~RecordPr(t) /\ ~Push(t)
  BY DEF Prepare, StartPrepare, Fetch, CheckOut, CreateWorktree, ApplyPatch, Offer, At, RecordPr,
         Push
<1>2. JobOf(t) \in Jobs /\ FactsKept /\ OneMoves(JobOf(t))  BY <1>0, <1>1, ThreadKeepsFacts
<1>3. Allowed(PhaseOf(job[JobOf(t)].status), PhaseOf(job'[JobOf(t)].status))
  BY PrepareWrites, UnapprovedPhase, Phases DEF Same, Writes, Allowed
<1>. QED  BY <1>2, <1>3, MoveIsSeen

(* Pushing publishes, for a job that is approved.                          *)
LEMMA PushIsSeen ==
  ASSUME SeenInv, NEW t \in Threads, Push(t)
  PROVE  Seen
<1>. DEFINE j == JobOf(t)
<1>. TypeInv /\ LockInv  BY DEF SeenInv, SafetyInv
<1>1. j \in Jobs /\ job[j].approved
  BY PublishIsLocal, PublisherIsApproved DEF Publish, LocalStep, SeenInv, SafetyInv
<1>2. job' = job  BY DEF Push
<1>3. CASE remote' = remote
  <2>1. FactsKept  BY <1>2, <1>3 DEF FactsKept, OnBranch
  <2>. QED  BY <1>2, <2>1, QuietIsSeen
<1>4. CASE remote' = [remote EXCEPT ![j] = wt[j]] /\ wt[j] > 0
  <2>1. wt[j] \in Int /\ remote \in [Jobs -> Int]  BY <1>1 DEF TypeInv, TypeOK
  <2>2. {i \in Jobs : OnBranch(i)}' = {i \in Jobs : OnBranch(i)} \cup {j}
    BY <1>1, <1>4, <2>1 DEF OnBranch, NoCommit, Above
  <2>3. Lifecycle!Push(j)
    BY <1>1, <1>2, <2>2 DEF Lifecycle!Push
  <2>. QED  BY <1>1, <2>3 DEF Seen, Lifecycle!Next
<1>. QED  BY <1>3, <1>4 DEF Push, Accepted

(* Recording the pull request links it, for a job that is published.       *)
LEMMA RecordPrIsSeen ==
  ASSUME SeenInv, NEW t \in Threads, RecordPr(t)
  PROVE  Seen
<1>. TypeInv /\ LockInv  BY DEF SeenInv, SafetyInv
<1>1. PICK j \in Jobs : j = JobOf(t)  BY PublishIsLocal DEF Publish, LocalStep
<1>2. OnBranch(j)
  BY <1>1
  DEF SeenInv, EffectInv, EffectThread, EffectLabels, RecordPr, At, JobOf
<1>3. remote' = remote  BY DEF RecordPr, github
<1>4. job' = [job EXCEPT ![j].pr = TRUE]  BY <1>1 DEF RecordPr
<1>5. \A i \in Jobs : job'[i].status = job[i].status /\ job'[i].approved = job[i].approved
  BY <1>1, <1>4 DEF TypeInv, TypeOK, JobRows
<1>6. {i \in Jobs : job[i].pr}' = {i \in Jobs : job[i].pr} \cup {j}
  BY <1>1, <1>4 DEF TypeInv, TypeOK, JobRows
<1>7. {i \in Jobs : job[i].approved}' = {i \in Jobs : job[i].approved}  BY <1>5
<1>8. {i \in Jobs : OnBranch(i)}' = {i \in Jobs : OnBranch(i)}  BY <1>3 DEF OnBranch
<1>9. Lifecycle!Link(j)  BY <1>1, <1>2, <1>5, <1>6, <1>7, <1>8 DEF Lifecycle!Link
<1>. QED  BY <1>9 DEF Seen, Lifecycle!Next

(* Completing a job shows one that is published and linked.                *)
LEMMA CompleteIsSeen ==
  ASSUME SeenInv, NEW t \in Threads, Complete(t)
  PROVE  Seen
<1>. DEFINE j == JobOf(t)
            P == [i \in Jobs |-> PhaseOf(job[i].status)]
            Q == [i \in Jobs |-> PhaseOf(job'[i].status)]
<1>. TypeInv /\ LockInv  BY DEF SeenInv, SafetyInv
<1>0. ThreadStep(t) /\ Publish(t) /\ ~RecordPr(t) /\ ~Push(t)
  BY DEF ThreadStep, Publish, Complete, At, RecordPr, Push
<1>1. j \in Jobs /\ FactsKept /\ OneMoves(j)  BY <1>0, ThreadKeepsFacts
<1>2. job[j].approved  BY <1>0, PublisherIsApproved DEF SeenInv, SafetyInv
<1>3. OnBranch(j) /\ job[j].pr
  BY DEF SeenInv, EffectInv, EffectThread, EffectLabels, Complete, At, JobOf
<1>4. CASE Entered(t, "completed", "tidy")
  <2>1. PhaseOf(job[j].status) \in {"publishing", "waiting"}
    BY <1>1, <1>2, <1>4, ApprovedPhase DEF Entered, SeenInv
  <2>2. PhaseOf(job'[j].status) = "completed"  BY <1>4, Phases DEF Entered, Terminal
  <2>3. Q = [P EXCEPT ![j] = "completed"] /\ P[j] = PhaseOf(job[j].status)
    BY <1>1, <2>2 DEF OneMoves
  <2>4. {i \in Jobs : job[i].approved}' = {i \in Jobs : job[i].approved}  BY <1>1 DEF FactsKept
  <2>5. {i \in Jobs : job[i].pr}' = {i \in Jobs : job[i].pr}  BY <1>1 DEF FactsKept
  <2>6. {i \in Jobs : OnBranch(i)}' = {i \in Jobs : OnBranch(i)}  BY <1>1 DEF FactsKept
  <2>7. Lifecycle!Complete(j)
    BY <1>1, <1>3, <2>1, <2>3, <2>4, <2>5, <2>6 DEF Lifecycle!Complete, Lifecycle!Moves
  <2>. QED  BY <1>1, <2>7 DEF Seen, Lifecycle!Next
<1>5. CASE Refused(t)
  BY <1>1, <1>5, QuietIsSeen DEF Refused
<1>. QED  BY <1>1, <1>4, <1>5, EnterFields DEF Complete

(* Every other step of the publish and reconcile phases goes on or waits.  *)
LEMMA PublishIsSeen ==
  ASSUME SeenInv, NEW t \in Threads, Publish(t) \/ Reconcile(t)
  PROVE  Seen
<1>. TypeInv /\ LockInv  BY DEF SeenInv, SafetyInv
<1>1. ThreadStep(t)  BY DEF ThreadStep
<1>2. CASE ~RecordPr(t) /\ ~Push(t) /\ ~Complete(t)
  <2>1. JobOf(t) \in Jobs /\ FactsKept /\ OneMoves(JobOf(t))  BY <1>1, <1>2, ThreadKeepsFacts
  <2>2. job[JobOf(t)].approved  BY PublisherIsApproved DEF SeenInv, SafetyInv
  <2>3. Same(t) \/ Writes(t, PublishPhase \cup {"retryable_failed"})
    BY <1>2, PublishWrites, ReconcileWrites DEF Writes
  <2>4. Allowed(PhaseOf(job[JobOf(t)].status), PhaseOf(job'[JobOf(t)].status))
    BY <2>1, <2>2, <2>3, ApprovedPhase, Phases
    DEF Same, Writes, Allowed, SeenInv, RetryableStatuses
  <2>. QED  BY <2>1, <2>4, MoveIsSeen
<1>. QED  BY <1>2, PushIsSeen, RecordPrIsSeen, CompleteIsSeen

(* Recording a failure closes the job as failed, or leaves it waiting.     *)
LEMMA FailureIsAllowed ==
  ASSUME SeenInv, NEW t \in Threads, JobOf(t) \in Jobs, thr[t].pc \in FailureLabels,
         Same(t) \/ Writes(t, {thr[t].outcome})
  PROVE  Allowed(PhaseOf(job[JobOf(t)].status), PhaseOf(job'[JobOf(t)].status))
<1>. DEFINE j == JobOf(t)
<1>. TypeInv  BY DEF SeenInv, SafetyInv
<1>1. CASE Same(t)  BY <1>1 DEF Same, Allowed
<1>2. CASE Live(j) /\ job'[j].status = "failed"
  <2>1. job[j].status # "none"
    BY DEF SeenInv, BornInv, FailureLabels, Resting, JobOf
  <2>. QED  BY <1>2, <2>1, LivePhase, Phases DEF Allowed, Terminal
<1>3. CASE Live(j) /\ job'[j].status = thr[t].outcome /\ thr[t].outcome # "failed"
  <2>1. job[j].approved
    BY <1>3
    DEF SeenInv, SafetyInv, ApprovedInv, ApprovedThreads, ApprovedThread, ActsForApproved, JobOf
  <2>2. thr[t].outcome \in RetryableStatuses
    BY <1>3 DEF TypeInv, TypeOK, ThreadStates, Outcomes, RetryableStatuses
  <2>. QED  BY <1>3, <2>1, <2>2, ApprovedPhase, Phases DEF SeenInv, Allowed
<1>. QED  BY <1>1, <1>2, <1>3 DEF Writes

(* A failing phase moves the status of its own job at most.               *)
LEMMA FailureKeepsFacts ==
  ASSUME TypeInv, LockInv, NEW t \in Threads, CallFails(t) \/ Cleanup(t) \/ Settle(t)
  PROVE  JobOf(t) \in Jobs /\ FactsKept /\ OneMoves(JobOf(t))
<1>1. LocalStep(t)  BY FailureIsLocal
<1>2. remote' = remote  BY DEF CallFails, Cleanup, Settle, github
<1>3. \A i \in Jobs : job'[i].pr = job[i].pr
  BY DEF CallFails, Cleanup, Settle, RecordFailure, JobOf, TypeInv, TypeOK, JobRows
<1>4. \A i \in Jobs : job'[i].approved = job[i].approved
  BY <1>1 DEF LocalStep, RowLocal, OthersKeep
<1>. QED  BY <1>1, <1>2, <1>3, <1>4
          DEF FactsKept, OneMoves, OnBranch, LocalStep, RowLocal, OthersKeep

(* A failing call, its cleanup and its record.                             *)
LEMMA FailureIsSeen ==
  ASSUME SeenInv, NEW t \in Threads, CallFails(t) \/ Cleanup(t) \/ Settle(t)
  PROVE  Seen
<1>. TypeInv /\ LockInv  BY DEF SeenInv, SafetyInv
<1>1. JobOf(t) \in Jobs /\ FactsKept /\ OneMoves(JobOf(t))  BY FailureKeepsFacts
<1>2. CASE Same(t)
  <2>1. Allowed(PhaseOf(job[JobOf(t)].status), PhaseOf(job'[JobOf(t)].status))
    BY <1>2 DEF Same, Allowed
  <2>. QED  BY <1>1, <2>1, MoveIsSeen
<1>3. CASE Settle(t) /\ Writes(t, {thr[t].outcome})
  <2>1. thr[t].pc \in FailureLabels  BY <1>3 DEF Settle, At, FailureLabels
  <2>2. Allowed(PhaseOf(job[JobOf(t)].status), PhaseOf(job'[JobOf(t)].status))
    BY <1>1, <1>3, <2>1, FailureIsAllowed
  <2>. QED  BY <1>1, <2>2, MoveIsSeen
<1>. QED  BY <1>2, <1>3, FailureWrites

(* A step that leaves rows and branches alone is not seen.                 *)
LEMMA StillIsSeen ==
  ASSUME UNCHANGED <<job, remote>>
  PROVE  Seen
  BY QuietIsSeen DEF FactsKept, OnBranch

(* The recovery worker records failures, and resumes jobs that wait.       *)
LEMMA RecoveryIsSeen ==
  ASSUME SeenInv, RecoveryStep
  PROVE  Seen
<1>. TypeInv /\ LockInv /\ Recovery \in Threads  BY NamesAreApart DEF SeenInv, SafetyInv
<1>1. CASE Tick \/ RepairWorktree \/ RepairDone \/ AutoRetryDone
  BY <1>1, StillIsSeen DEF Tick, RepairWorktree, RepairDone, AutoRetryDone, github
<1>2. CASE RepairStatus
  <2>1. PICK j \in Jobs : j = JobOf(Recovery)
    BY <1>2, BusyJobs DEF RepairStatus, Resting
  <2>2. /\ job'[j].status = IF Live(j) THEN thr[Recovery].outcome ELSE job[j].status
        /\ OneMoves(j)
        /\ \A i \in Jobs : job'[i].approved = job[i].approved
    BY <1>2, <2>1, RecordFields DEF RepairStatus, OneMoves
  <2>3. \A i \in Jobs : job'[i].pr = job[i].pr
    BY <1>2 DEF RepairStatus, RecordFailure, TypeInv, TypeOK, JobRows
  <2>4. FactsKept  BY <1>2, <2>2, <2>3 DEF RepairStatus, github, FactsKept, OnBranch
  <2>5. thr[Recovery].pc \in FailureLabels  BY <1>2 DEF RepairStatus, At, FailureLabels
  <2>6. Same(Recovery) \/ Writes(Recovery, {thr[Recovery].outcome})
    BY <2>1, <2>2 DEF Same, Writes
  <2>7. Allowed(PhaseOf(job[j].status), PhaseOf(job'[j].status))
    BY <2>1, <2>5, <2>6, FailureIsAllowed
  <2>. QED  BY <2>2, <2>4, <2>7, MoveIsSeen
<1>3. ASSUME NEW j \in Jobs, AutoRetry(j) PROVE Seen
  <2>1. /\ job[j].status \in RetryableStatuses /\ job'[j].status \in PublishPhase
        /\ OneMoves(j) /\ FactsKept
    BY <1>3
    DEF AutoRetry, AutoRetryCandidate, AutoRetryable, StartRetry, RetryableStatuses, PublishPhase,
        OneMoves, FactsKept, OnBranch, github, TypeInv, TypeOK, JobRows
  <2>. QED  BY <2>1, Phases, MoveIsSeen DEF Allowed
<1>. QED  BY <1>1, <1>2, <1>3 DEF RecoveryStep

(* Disconnecting cancels what does not publish.                            *)
LEMMA ConnectionIsSeen ==
  ASSUME SeenInv, Connection
  PROVE  Seen
<1>. TypeInv  BY DEF SeenInv, SafetyInv
<1>1. CASE VerifyBegin \/ VerifyEnd \/ SyncBegin \/ SyncEnd
  BY <1>1, StillIsSeen DEF VerifyBegin, VerifyEnd, SyncBegin, SyncEnd, github
<1>2. CASE Disconnect
  <2>1. PICK chosen \in SUBSET Jobs : chosen = {j \in Jobs : job[j].status \in DisconnectCancels}
    OBVIOUS
  <2>2. job' = [j \in Jobs |-> IF j \in chosen THEN [job[j] EXCEPT !.status = "cancelled"]
                                              ELSE job[j]]
    BY <1>2, <2>1 DEF Disconnect
  <2>3. \A j \in Jobs : /\ job'[j].approved = job[j].approved /\ job'[j].pr = job[j].pr
                         /\ job'[j].status = IF j \in chosen THEN "cancelled" ELSE job[j].status
    BY <2>2 DEF TypeInv, TypeOK, JobRows
  <2>4. remote' = remote  BY <1>2 DEF Disconnect, github
  <2>. QED  BY <2>1, <2>3, <2>4, ClosedIsSeen DEF DisconnectCancels, CancellableStatuses
<1>. QED  BY <1>1, <1>2 DEF Connection

(* Requests create, approve, resume and cancel.                            *)
LEMMA RequestsAreSeen ==
  ASSUME SeenInv, Requests
  PROVE  Seen
<1>. TypeInv  BY DEF SeenInv, SafetyInv
<1>. PICK j \in Jobs : Create(j) \/ Approve(j) \/ Retry(j) \/ Cancel(j) \/ RemoveWorktree(j)
  BY DEF Requests
<1>1. CASE Create(j)
  <2>1. job[j].status = "none" /\ job'[j].status = "pending" /\ OneMoves(j) /\ FactsKept
    BY <1>1
    DEF Create, SetStatus, OneMoves, FactsKept, OnBranch, github, TypeInv, TypeOK, JobRows
  <2>. QED  BY <2>1, Phases, MoveIsSeen DEF Allowed
<1>2. CASE Approve(j)
  <2>1. /\ job[j].status = "awaiting_approval" /\ job'[j].status \in PublishPhase
        /\ job'[j].approved /\ OneMoves(j)
        /\ \A i \in Jobs : job'[i].pr = job[i].pr
        /\ \A i \in Jobs \ {j} : job'[i].approved = job[i].approved
        /\ remote' = remote
    BY <1>2 DEF Approve, PublishPhase, OneMoves, github, TypeInv, TypeOK, JobRows
  <2>2. [i \in Jobs |-> PhaseOf(job[i].status)]' =
          [[i \in Jobs |-> PhaseOf(job[i].status)] EXCEPT ![j] = "publishing"]
    BY <2>1, Phases DEF OneMoves
  <2>3. {i \in Jobs : job[i].approved}' = {i \in Jobs : job[i].approved} \cup {j}  BY <2>1
  <2>4. {i \in Jobs : job[i].pr}' = {i \in Jobs : job[i].pr}  BY <2>1
  <2>5. {i \in Jobs : OnBranch(i)}' = {i \in Jobs : OnBranch(i)}  BY <2>1 DEF OnBranch
  <2>6. Lifecycle!Approve(j)
    BY <2>1, <2>2, <2>3, <2>4, <2>5, Phases DEF Lifecycle!Approve, Lifecycle!Moves
  <2>. QED  BY <2>6 DEF Seen, Lifecycle!Next
<1>3. CASE Retry(j)
  <2>1. /\ job[j].status \in RetryableStatuses /\ job'[j].status \in PublishPhase
        /\ OneMoves(j) /\ FactsKept
    BY <1>3
    DEF Retry, StartRetry, PublishPhase, OneMoves, FactsKept, OnBranch, github, TypeInv, TypeOK,
        JobRows
  <2>. QED  BY <2>1, Phases, MoveIsSeen DEF Allowed
<1>4. CASE Cancel(j)
  <2>1. /\ job[j].status \in CancellableStatuses /\ remote' = remote
        /\ \A i \in Jobs : /\ job'[i].approved = job[i].approved /\ job'[i].pr = job[i].pr
                            /\ job'[i].status = IF i \in {j} THEN "cancelled" ELSE job[i].status
    BY <1>4 DEF Cancel, github, TypeInv, TypeOK, JobRows
  <2>. QED  BY <2>1, ClosedIsSeen DEF CancellableStatuses
<1>5. CASE RemoveWorktree(j)
  <2>1. FactsKept /\ \A i \in Jobs : job'[i].status = job[i].status
    BY <1>5 DEF RemoveWorktree, FactsKept, OnBranch, github, TypeInv, TypeOK, JobRows
  <2>. QED  BY <2>1, QuietIsSeen
<1>. QED  BY <1>1, <1>2, <1>3, <1>4, <1>5

(* Crashes, restarts and what others push are not seen.                    *)
LEMMA EnvironmentIsSeen ==
  ASSUME SeenInv, Environment
  PROVE  Seen
<1>. TypeInv  BY DEF SeenInv, SafetyInv
<1>1. CASE Crash \/ CrashInDisconnect \/ Restart \/ BaseMoves \/ LeaseExpires
           \/ \E j \in Jobs : ClosePr(j)
  BY <1>1, StillIsSeen
  DEF Crash, CrashInDisconnect, LoseProcess, Restart, BaseMoves, LeaseExpires, ClosePr, github
<1>2. ASSUME NEW j \in Jobs, ForeignPush(j) PROVE Seen
  <2>1. \A i \in Jobs : OnBranch(i)' <=> OnBranch(i)
    BY <1>2 DEF ForeignPush, OnBranch, Above, NoCommit, TypeInv, TypeOK
  <2>2. job' = job  BY <1>2 DEF ForeignPush
  <2>. QED  BY <2>1, <2>2, QuietIsSeen DEF FactsKept
<1>3. ASSUME NEW j \in Jobs, HeartbeatAges(j) PROVE Seen
  <2>1. FactsKept /\ \A i \in Jobs : job'[i].status = job[i].status
    BY <1>3 DEF HeartbeatAges, FactsKept, OnBranch, github, TypeInv, TypeOK, JobRows
  <2>. QED  BY <2>1, QuietIsSeen
<1>. QED  BY <1>1, <1>2, <1>3 DEF Environment

(* Every step of the workflow is seen as a step of the lifecycle.          *)
LEMMA StepIsSeen == SeenInv /\ [Next]_vars => Seen
<1>1. ASSUME SeenInv, NEW t \in Threads, ThreadStep(t) PROVE Seen
  BY <1>1, PrepareIsSeen, PublishIsSeen, FailureIsSeen DEF ThreadStep
<1>2. ASSUME UNCHANGED vars PROVE Seen  BY <1>2, StillIsSeen DEF vars
<1>. QED  BY <1>1, <1>2, RecoveryIsSeen, ConnectionIsSeen, RequestsAreSeen, EnvironmentIsSeen
          DEF Next

-----------------------------------------------------------------------------
(* The invariant.  What only the lifecycle decides comes from its steps.   *)

Early == {"none", "preparing", "offered"}

(* No step of the lifecycle takes a fact back, and only an approval is     *)
(* seen to leave the early phases with an approved job.                    *)
LEMMA SeenGrows ==
  ASSUME Seen, NEW j \in Jobs
  PROVE  /\ PhaseOf(job[j].status) # "none" => PhaseOf(job'[j].status) # "none"
         /\ job[j].pr => job'[j].pr
         /\ OnBranch(j) => OnBranch(j)'
         /\ (job[j].approved => PhaseOf(job[j].status) \notin Early)
              => (job'[j].approved => PhaseOf(job'[j].status) \notin Early)
<1>. DEFINE phase == [i \in Jobs |-> PhaseOf(job[i].status)]
            approved == {i \in Jobs : job[i].approved}
            published == {i \in Jobs : OnBranch(i)}
            linked == {i \in Jobs : job[i].pr}
            Grows == /\ phase[j] # "none" => phase'[j] # "none"
                     /\ linked \subseteq linked' /\ published \subseteq published'
                     /\ (j \in approved => phase[j] \notin Early)
                          => (j \in approved' => phase'[j] \notin Early)
<1>. SUFFICES Grows
  OBVIOUS
<1>1. CASE UNCHANGED Lifecycle!lifecycle
  BY <1>1 DEF Lifecycle!lifecycle
<1>2. ASSUME NEW i \in Jobs, NEW from, NEW to, Lifecycle!Moves(i, from, to), to # "none",
             approved' = approved,
             to \in Early => from \subseteq Early
      PROVE  Grows
  <2>1. phase[i] \in from /\ phase'[j] = (IF j = i THEN to ELSE phase[j])
    BY <1>2 DEF Lifecycle!Moves
  <2>2. linked' = linked /\ published' = published
    BY <1>2 DEF Lifecycle!Moves
  <2>3. j \in approved' <=> j \in approved  BY <1>2
  <2>4. phase'[j] \in Early => phase[j] \in Early  BY <1>2, <2>1
  <2>5. phase[j] # "none" => phase'[j] # "none"  BY <1>2, <2>1
  <2>. HIDE DEF phase, approved, published, linked
  <2>. QED  BY <2>2, <2>3, <2>4, <2>5
<1>3. ASSUME NEW i \in Jobs, \/ Lifecycle!Submit(i) \/ Lifecycle!Offer(i) \/ Lifecycle!Wait(i)
                             \/ Lifecycle!Resume(i) \/ Lifecycle!Fail(i) \/ Lifecycle!Complete(i)
      PROVE  Grows
  <2>. HIDE DEF Grows
  <2>. /\ {"none"} \subseteq Early /\ {"preparing"} \subseteq Early
       /\ \A to \in {"waiting", "publishing", "failed", "completed"} : to \notin Early
    BY DEF Early
  <2>1. CASE Lifecycle!Submit(i)  BY <1>2, <2>1 DEF Lifecycle!Submit
  <2>2. CASE Lifecycle!Offer(i)  BY <1>2, <2>2 DEF Lifecycle!Offer
  <2>3. CASE Lifecycle!Wait(i)  BY <1>2, <2>3 DEF Lifecycle!Wait
  <2>4. CASE Lifecycle!Resume(i)  BY <1>2, <2>4 DEF Lifecycle!Resume
  <2>5. CASE Lifecycle!Fail(i)  BY <1>2, <2>5 DEF Lifecycle!Fail
  <2>6. CASE Lifecycle!Complete(i)  BY <1>2, <2>6 DEF Lifecycle!Complete
  <2>. QED  BY <1>3, <2>1, <2>2, <2>3, <2>4, <2>5, <2>6
<1>4. ASSUME NEW i \in Jobs, Lifecycle!Approve(i) \/ Lifecycle!Push(i) \/ Lifecycle!Link(i)
      PROVE  Grows
  BY <1>4 DEF Lifecycle!Approve, Lifecycle!Push, Lifecycle!Link, Lifecycle!Moves, Early
<1>5. ASSUME NEW chosen \in SUBSET Jobs, Lifecycle!Cancel(chosen)
      PROVE  Grows
  BY <1>5 DEF Lifecycle!Cancel, Early
<1>. QED  BY <1>1, <1>3, <1>4, <1>5 DEF Seen, Lifecycle!Next

(* In statuses: jobs keep existing, and approved jobs never go back.       *)
LEMMA RowsGrow ==
  ASSUME TypeInv, TypeInv', Seen, NEW j \in Jobs
  PROVE  /\ job[j].status # "none" => job'[j].status # "none"
         /\ job[j].pr => job'[j].pr
         /\ OnBranch(j) => OnBranch(j)'
         /\ (job[j].approved => job[j].status \in Onward)
              => (job'[j].approved => job'[j].status \in Onward)
<1>1. \A s \in Statuses : PhaseOf(s) = "none" <=> s = "none"
  BY Phases DEF Statuses, DisconnectCancels, CancellableStatuses, Terminal
<1>2. \A s \in Statuses : PhaseOf(s) \notin Early <=> s \in Onward
  BY Phases
  DEF Statuses, DisconnectCancels, CancellableStatuses, Terminal, Early, Onward, NeedsApproval,
      PreparePhase, PublishPhase, RetryableStatuses
<1>3. job[j].status \in Statuses /\ job'[j].status \in Statuses
  BY DEF TypeInv, TypeOK, JobRows
<1>. QED  BY <1>1, <1>2, <1>3, SeenGrows

(* Approved jobs never go back.                                            *)
LEMMA OnwardStep ==
  ASSUME TypeInv, TypeInv', OnwardInv, Seen
  PROVE  OnwardInv'
  BY RowsGrow DEF OnwardInv

(* Jobs keep existing, so only threads and repairs that change can act for *)
(* one that does not.                                                      *)
LEMMA BornKept ==
  ASSUME TypeInv, TypeInv', BornInv, Seen,
         \A t \in Threads : \/ thr'[t].pc \in Resting
                            \/ thr'[t].job = thr[t].job /\ thr[t].pc \notin Resting
                            \/ job'[thr'[t].job].status # "none",
         \A item \in todo' : item \in todo \cup StaleRepairs
  PROVE  BornInv'
<1>1. ASSUME NEW t \in Threads, thr'[t].pc \notin Resting PROVE job'[thr'[t].job].status # "none"
  <2>1. CASE thr'[t].job = thr[t].job /\ thr[t].pc \notin Resting
    <3>1. thr[t].job \in Jobs  BY <2>1 DEF TypeInv, ThreadsHaveJobs
    <3>. QED  BY <2>1, <3>1, RowsGrow DEF BornInv
  <2>. QED  BY <1>1, <2>1
<1>2. ASSUME NEW item \in todo' PROVE job'[item[1]].status # "none"
  <2>1. item[1] \in Jobs /\ job[item[1]].status # "none"
    <3>1. CASE item \in todo  BY <3>1 DEF BornInv, TypeInv, TypeOK
    <3>2. CASE item \in StaleRepairs
      BY <3>2 DEF StaleRepairs, PreparePhase, PublishPhase
    <3>. QED  BY <3>1, <3>2
  <2>. QED  BY <2>1, RowsGrow
<1>. QED  BY <1>1, <1>2 DEF BornInv

(* Every step acts for jobs that exist.                                    *)
LEMMA BornStep ==
  ASSUME TypeInv, TypeInv', LockInv, BornInv, Seen, [Next]_vars
  PROVE  BornInv'
<1>. Recovery \in Threads /\ Workers \subseteq Threads  BY NamesAreApart
<1>1. ASSUME NEW t \in Threads, ThreadStep(t) PROVE BornInv'
  <2>1. LocalStep(t)  BY <1>1, ThreadStepIsLocal
  <2>2. OthersRun(t) /\ todo' = todo /\ (thr'[t].job = thr[t].job \/ thr'[t].pc \in Resting)
    BY <2>1 DEF LocalStep, ThreadLocal
  <2>3. thr[t].pc \notin Resting
    BY <1>1
    DEF ThreadStep, Prepare, StartPrepare, Fetch, CheckOut, CreateWorktree, ApplyPatch, Offer,
        Publish, StartPublish, Commit, RecordCommit, EnterPushing, Compare, Recheck, Push,
        EnterCreatingPr, ListPrs, CreatePr, RecordPr, Complete, Tidy, Reconcile, ReadRow,
        StartReconcile, Inspect, Rebuild, Recommit, CallFails, PrepareCalls, PublishCalls,
        Cleanup, Settle, At, Resting
  <2>. QED  BY <2>2, <2>3, BornKept DEF OthersRun
<1>2. CASE Tick \/ RepairDone \/ AutoRetryDone
  <2>1. OthersRun(Recovery) /\ thr'[Recovery].pc \in Resting
    BY <1>2, GotoFields DEF Tick, RepairDone, AutoRetryDone, Resting
  <2>2. todo' \in {todo, StaleRepairs}
    BY <1>2 DEF Tick, RepairDone, AutoRetryDone, process
  <2>3. \A t \in Threads : \/ thr'[t].pc \in Resting
                           \/ thr'[t].job = thr[t].job /\ thr[t].pc \notin Resting
    BY <2>1 DEF OthersRun
  <2>. QED  BY <2>2, <2>3, BornKept
<1>3. CASE RepairWorktree
  <2>1. PICK item \in todo : todo' = todo \ {item} /\ thr'[Recovery].job = item[1]
    BY <1>3 DEF RepairWorktree, TypeInv, TypeOK
  <2>2. job' = job /\ OthersRun(Recovery)
    BY <1>3 DEF RepairWorktree, OthersRun, TypeInv, TypeOK
  <2>. QED  BY <2>1, <2>2, BornKept DEF OthersRun, BornInv
<1>4. CASE RepairStatus
  BY <1>4, BornKept DEF RepairStatus, process, IdleThread, Resting, TypeInv, TypeOK
<1>5. ASSUME NEW j \in Jobs, AutoRetry(j) PROVE BornInv'
  BY <1>5, BornKept
  DEF AutoRetry, StartRetry, process, IdleThread, Resting, TypeInv, TypeOK, JobRows
<1>6. CASE Connection
  <2>1. thr' = thr /\ todo' = todo
    BY <1>6 DEF Connection, VerifyBegin, VerifyEnd, SyncBegin, SyncEnd, Disconnect
  <2>. QED  BY <2>1, BornKept
<1>7. ASSUME NEW j \in Jobs, Create(j) \/ Approve(j) \/ Retry(j) PROVE BornInv'
  <2>1. \E w \in Workers : OthersRun(w) /\ thr'[w].job = j
    BY <1>7, SpawnFields DEF Create, Approve, Retry
  <2>2. job'[j].status # "none" /\ todo' = todo
    BY <1>7, StatusFields DEF Create, Approve, Retry, StartRetry, process, TypeInv, TypeOK, JobRows
  <2>. QED  BY <2>1, <2>2, BornKept DEF OthersRun
<1>8. ASSUME NEW j \in Jobs, Cancel(j) \/ RemoveWorktree(j) PROVE BornInv'
  BY <1>8, BornKept DEF Cancel, RemoveWorktree
<1>9. CASE Crash \/ CrashInDisconnect
  BY <1>9, BornKept DEF Crash, CrashInDisconnect, LoseProcess, IdleThread, Resting
<1>10. CASE Restart
  BY <1>10, GotoFields, BornKept DEF Restart, OthersRun, Resting
<1>11. CASE BaseMoves \/ LeaseExpires \/ \E j \in Jobs : ForeignPush(j) \/ ClosePr(j) \/ HeartbeatAges(j)
  BY <1>11, BornKept DEF BaseMoves, LeaseExpires, ForeignPush, ClosePr, HeartbeatAges, process
<1>12. CASE UNCHANGED vars  BY <1>12, BornKept DEF vars
<1>. QED  BY <1>1, <1>2, <1>3, <1>4, <1>5, <1>6, <1>7, <1>8, <1>9, <1>10, <1>11, <1>12
          DEF Next, RecoveryStep, Requests, Environment

Careful == {"record"} \cup PushingLabels \cup EffectLabels

(* Facts last, so only threads that change have something to make sure of. *)
LEMMA EffectKept ==
  ASSUME TypeInv, TypeInv', EffectInv, Seen,
         \A t \in Threads : thr'[t] = thr[t] \/ thr'[t].pc \notin Careful \/ EffectThread(t)'
  PROVE  EffectInv'
<1>. SUFFICES ASSUME NEW t \in Threads PROVE EffectThread(t)'
  BY DEF EffectInv
<1>1. CASE thr'[t].pc \notin Careful
  BY <1>1 DEF EffectThread, Careful, EffectLabels
<1>2. CASE thr'[t] = thr[t] /\ thr[t].pc \in Careful
  <2>1. thr[t].job \in Jobs
    BY <1>2 DEF TypeInv, ThreadsHaveJobs, Resting, Careful, PushingLabels, EffectLabels
  <2>2. /\ OnBranch(thr[t].job) => OnBranch(thr[t].job)'
        /\ job[thr[t].job].pr => job'[thr[t].job].pr
    BY <1>2, <2>1, RowsGrow DEF OnBranch
  <2>. QED  BY <1>2, <2>2 DEF EffectInv, EffectThread, OnBranch
<1>. QED  BY <1>1, <1>2

(* A thread's step makes sure of what it relies on.                        *)
LEMMA ThreadKeepsEffects ==
  ASSUME SeenInv, TypeInv', Seen, NEW t \in Threads, ThreadStep(t)
  PROVE  EffectInv'
<1>. TypeInv /\ LockInv /\ EffectInv  BY DEF SeenInv, SafetyInv
<1>. LocalStep(t) /\ OthersRun(t)  BY ThreadStepIsLocal DEF LocalStep, ThreadLocal
<1>. PICK j \in Jobs : j = JobOf(t) /\ j = thr[t].job  BY DEF LocalStep, JobOf
<1>0. SUFFICES ASSUME thr'[t].pc \in Careful PROVE EffectThread(t)'
  BY EffectKept DEF OthersRun
<1>. EffectThread(t) /\ thr[t].commit \in Nat  BY DEF EffectInv, TypeInv, TypeOK, ThreadStates
<1>1. CASE Prepare(t)
  <2>1. thr'[t].pc \notin Careful
    BY <1>1, EnterFields, FailFields, LeaveFields
    DEF Prepare, StartPrepare, Fetch, CheckOut, CreateWorktree, ApplyPatch, Offer, Entered, Refused,
        Careful, PushingLabels, EffectLabels
  <2>. QED  BY <1>0, <2>1
<1>2. CASE StartPublish(t) \/ Tidy(t) \/ StartReconcile(t) \/ Recommit(t)
  <2>1. thr'[t].pc \in {"commit", "cleanup", "idle", "auto", "inspect"}
    BY <1>2, EnterFields, FailFields, LeaveFields, GotoFields
    DEF StartPublish, Tidy, StartReconcile, Recommit, Entered, Refused, TypeInv, TypeOK
  <2>. QED  BY <1>0, <2>1 DEF Careful, PushingLabels, EffectLabels
<1>3. CASE ReadRow(t) \/ Rebuild(t) \/ CallFails(t) \/ Cleanup(t) \/ Settle(t)
  <2>1. thr'[t].pc \in {"reconcile", "recommit", "cleanup", "settle", "idle", "auto"}
    <3>1. CASE ReadRow(t) \/ Cleanup(t)
      BY <3>1 DEF ReadRow, Cleanup, TypeInv, TypeOK, ThreadStates
    <3>2. CASE Rebuild(t) \/ CallFails(t) \/ Settle(t)
      BY <3>2, FailFields, LeaveFields, GotoFields DEF Rebuild, CallFails, Settle
    <3>. QED  BY <1>3, <3>1, <3>2
  <2>. QED  BY <1>0, <2>1 DEF Careful, PushingLabels, EffectLabels
<1>4. CASE Commit(t)
  <2>1. thr'[t].pc = "cleanup" \/ (thr'[t].pc = "record" /\ thr'[t].commit # NoCommit)
    BY <1>4, FailFields
    DEF Commit, AlreadyCommitted, NoCommit, TypeInv, TypeOK, ThreadStates, JobRows
  <2>. QED  BY <1>0, <2>1 DEF EffectThread, Careful, PushingLabels, EffectLabels
<1>5. CASE RecordCommit(t) \/ EnterPushing(t) \/ Recheck(t)
  <2>1. thr[t].commit # NoCommit
    BY <1>5 DEF RecordCommit, EnterPushing, Recheck, At, EffectThread, PushingLabels
  <2>2. \/ thr'[t].pc \in PushingLabels /\ thr'[t].commit = thr[t].commit
        \/ thr'[t].pc \in {"cleanup", "idle", "auto"}
    BY <1>5, EnterFields, FailFields, GotoFields
    DEF RecordCommit, EnterPushing, Recheck, Entered, Refused, PushingLabels
  <2>. QED  BY <1>0, <2>1, <2>2 DEF EffectThread, Careful, PushingLabels, EffectLabels
<1>6. CASE Compare(t)
  <2>1. thr[t].commit # NoCommit
    BY <1>6 DEF Compare, At, EffectThread, PushingLabels
  <2>2. remote' = remote  BY <1>6 DEF Compare, github
  <2>3. \/ thr'[t].pc = "recheck" /\ thr'[t].commit = thr[t].commit
        \/ thr'[t].pc = "creating_pr" /\ thr'[t].job = j /\ remote[j] = thr[t].commit
        \/ thr'[t].pc = "cleanup"
    BY <1>6, FailFields, GotoFields DEF Compare
  <2>. QED  BY <1>0, <2>1, <2>2, <2>3
            DEF EffectThread, Careful, PushingLabels, EffectLabels, OnBranch, NoCommit, Above
<1>7. CASE Push(t)
  <2>1. \/ thr'[t].pc = "creating_pr" /\ thr'[t].job = j /\ remote'[j] = wt[j] /\ wt[j] > 0
        \/ thr'[t].pc = "cleanup"
    BY <1>7, FailFields, GotoFields DEF Push, Accepted, TypeInv, TypeOK
  <2>. QED  BY <1>0, <2>1
            DEF EffectThread, Careful, PushingLabels, EffectLabels, OnBranch, NoCommit, Above,
                TypeInv, TypeOK
<1>8. CASE EnterCreatingPr(t) \/ ListPrs(t) \/ CreatePr(t)
  <2>1. OnBranch(j)
    BY <1>8 DEF EnterCreatingPr, ListPrs, CreatePr, At, EffectThread, EffectLabels
  <2>2. OnBranch(j)'  BY <2>1, RowsGrow DEF SeenInv, SafetyInv
  <2>3. \/ thr'[t].pc \in {"list_prs", "create_pr", "record_pr"} /\ thr'[t].job = j
        \/ thr'[t].pc \in {"cleanup", "idle", "auto"}
    BY <1>8, EnterFields, FailFields, GotoFields
    DEF EnterCreatingPr, ListPrs, CreatePr, Entered, Refused
  <2>. QED  BY <1>0, <2>2, <2>3
            DEF EffectThread, Careful, PushingLabels, EffectLabels, OnBranch
<1>9. CASE RecordPr(t)
  <2>1. OnBranch(j)  BY <1>9 DEF RecordPr, At, EffectThread, EffectLabels
  <2>2. OnBranch(j)'  BY <2>1, RowsGrow DEF SeenInv, SafetyInv
  <2>3. job'[j].pr  BY <1>9 DEF RecordPr, TypeInv, TypeOK, JobRows
  <2>4. thr'[t].pc = "completed" /\ thr'[t].job = j  BY <1>9, GotoFields DEF RecordPr
  <2>. QED  BY <2>2, <2>3, <2>4 DEF EffectThread, PushingLabels, OnBranch
<1>10. CASE Complete(t)
  <2>1. thr'[t].pc \in {"tidy", "idle", "auto"}
    BY <1>10, EnterFields DEF Complete, Entered, Refused
  <2>. QED  BY <1>0, <2>1 DEF Careful, PushingLabels, EffectLabels
<1>11. CASE Inspect(t)
  <2>1. remote' = remote  BY <1>11 DEF Inspect, github
  <2>2. \/ /\ thr'[t].pc = "list_prs" /\ thr'[t].job = j
           /\ remote[j] = thr[t].commit /\ remote[j] # NoCommit
        \/ thr'[t].pc \in {"rebuild", "cleanup", "idle", "auto"}
    BY <1>11, EnterFields, FailFields, GotoFields DEF Inspect, Entered, Refused
  <2>. QED  BY <1>0, <2>1, <2>2
            DEF EffectThread, Careful, PushingLabels, EffectLabels, OnBranch, NoCommit, Above
<1>. QED  BY <1>1, <1>2, <1>3, <1>4, <1>5, <1>6, <1>7, <1>8, <1>9, <1>10, <1>11
          DEF ThreadStep, Publish, Reconcile

(* Whoever is not the thread that steps stays, or is where it relies on    *)
(* nothing.                                                                *)
Quiet == {"idle", "auto", "repair", "repair_status", "read_row", "prepare", "publish"}
Rests(t) == thr'[t] = thr[t] \/ thr'[t].pc \in Quiet

LEMMA OthersRest ==
  ASSUME TypeInv, [Next]_vars
  PROVE  \/ \E t \in Threads : ThreadStep(t)
         \/ \A t \in Threads : Rests(t)
<1>. Recovery \in Threads /\ Workers \subseteq Threads  BY NamesAreApart
<1>1. CASE RecoveryStep
  <2>1. OthersRun(Recovery) /\ thr'[Recovery].pc \in Quiet
    <3>1. CASE Tick \/ RepairDone \/ AutoRetryDone
      BY <3>1, GotoFields DEF Tick, RepairDone, AutoRetryDone, Quiet
    <3>2. CASE RepairWorktree
      BY <3>2 DEF RepairWorktree, OthersRun, TypeInv, TypeOK, Quiet
    <3>3. CASE RepairStatus
      BY <3>3 DEF RepairStatus, IdleThread, OthersRun, TypeInv, TypeOK, Quiet
    <3>4. ASSUME NEW j \in Jobs, AutoRetry(j)
          PROVE  OthersRun(Recovery) /\ thr'[Recovery].pc \in Quiet
      BY <3>4 DEF AutoRetry, IdleThread, OthersRun, TypeInv, TypeOK, Quiet
    <3>. QED  BY <1>1, <3>1, <3>2, <3>3, <3>4 DEF RecoveryStep
  <2>. QED  BY <2>1 DEF OthersRun, Rests
<1>2. CASE Connection
  BY <1>2 DEF Connection, VerifyBegin, VerifyEnd, SyncBegin, SyncEnd, Disconnect, Rests
<1>3. ASSUME NEW j \in Jobs, Create(j) \/ Approve(j) \/ Retry(j) PROVE \A t \in Threads : Rests(t)
  <2>1. \E w \in Workers : OthersRun(w) /\ thr'[w].pc \in Quiet
    BY <1>3, SpawnFields DEF Create, Approve, Retry, Quiet
  <2>. QED  BY <2>1 DEF OthersRun, Rests
<1>4. ASSUME NEW j \in Jobs, Cancel(j) \/ RemoveWorktree(j) PROVE \A t \in Threads : Rests(t)
  BY <1>4 DEF Cancel, RemoveWorktree, Rests
<1>5. CASE Environment
  BY <1>5, GotoFields
  DEF Environment, Crash, CrashInDisconnect, LoseProcess, Restart, BaseMoves, LeaseExpires,
      ForeignPush, ClosePr, HeartbeatAges, IdleThread, OthersRun, Rests, Quiet
<1>6. CASE UNCHANGED vars  BY <1>6 DEF vars, Rests
<1>. QED  BY <1>1, <1>2, <1>3, <1>4, <1>5, <1>6 DEF Next, Requests

(* Every step makes sure of what threads rely on.                          *)
LEMMA EffectStep ==
  ASSUME SeenInv, TypeInv', Seen, [Next]_vars
  PROVE  EffectInv'
<1>. TypeInv /\ LockInv /\ EffectInv  BY DEF SeenInv, SafetyInv
<1>1. ASSUME \A t \in Threads : Rests(t) PROVE EffectInv'
  BY <1>1, EffectKept DEF Rests, Quiet, Careful, PushingLabels, EffectLabels
<1>. QED  BY <1>1, OthersRest, ThreadKeepsEffects

-----------------------------------------------------------------------------
(* Initially no job, thread or repair exists.                              *)
LEMMA SeenInit == Init => SeenInv /\ Lifecycle!Init
<1>. SUFFICES ASSUME Init PROVE SeenInv /\ Lifecycle!Init
  OBVIOUS
<1>1. SafetyInv  BY InitTypes, LockInit, ApprovedInit, RecordInit DEF SafetyInv
<1>2. BornInv /\ OnwardInv /\ EffectInv
  BY DEF Init, IdleThread, BornInv, OnwardInv, EffectInv, EffectThread, Resting, PushingLabels,
         EffectLabels
<1>3. Lifecycle!Init
  BY Phases DEF Init, Lifecycle!Init, OnBranch, NoCommit
<1>. QED  BY <1>1, <1>2, <1>3 DEF SeenInv

(* The invariant is inductive, and every step of it is seen.               *)
LEMMA SeenStep == SeenInv /\ [Next]_vars => SeenInv' /\ Seen
<1>. SUFFICES ASSUME SeenInv, [Next]_vars PROVE SeenInv' /\ Seen
  OBVIOUS
<1>1. SafetyInv'  BY TypeStep, LockStep, ApprovedStep, PrepareStep, CommitStep
                  DEF SeenInv, SafetyInv
<1>2. Seen  BY StepIsSeen
<1>. QED  BY <1>1, <1>2, BornStep, OnwardStep, EffectStep DEF SeenInv, SafetyInv

(* The owner of a job sees the promised lifecycle, whatever threads,       *)
(* repairs, retries, crashes, restarts and other people do.                *)
THEOREM LifecycleImplemented == Spec => ImplementsLifecycle
<1>1. Init => SeenInv  BY SeenInit
<1>2. Init => Lifecycle!Init  BY SeenInit
<1>3. SeenInv /\ [Next]_vars => SeenInv' /\ Seen  BY SeenStep
<1>. QED  BY <1>1, <1>2, <1>3, PTL DEF Spec, ImplementsLifecycle, Lifecycle!Spec, Seen


-----------------------------------------------------------------------------
(***************************************************************************)
(* What "completed" means: the recorded commit is on the branch and a pull *)
(* request is recorded, and no retry opens a second pull request.          *)
(*                                                                         *)
(* Two steps forget or replace the commit of a row, RecordCommit and       *)
(* Rebuild.  They never do so of a completed job, nor of one whose thread  *)
(* is already at the pull request: whoever gets there has entered a status *)
(* of the publish phase under the connection lock, or has seen an empty    *)
(* branch.                                                                 *)
(***************************************************************************)

Matches(j) == job[j].commit # NoCommit /\ remote[j] \in {job[j].commit, Above(job[j].commit)}
Committing == {"commit", "record", "rebuild", "recommit"}

DoneInv == \A j \in Jobs : job[j].status = "completed" => job[j].pr /\ Matches(j)
AtBranch(t) == thr[t].pc \in EffectLabels => Matches(thr[t].job)
Unfinished(t) == thr[t].pc \in Committing => job[thr[t].job].status # "completed"
FirstPr(t) == thr[t].pc = "create_pr" => prs[thr[t].job] = 0
ThreadsInv == \A t \in Threads : AtBranch(t) /\ Unfinished(t) /\ FirstPr(t)
OutcomeInv == DoneInv /\ ThreadsInv /\ AtMostOnePullRequest

(* What SafetyInv and EffectInv say, for short.                            *)
LEMMA Facts ==
  ASSUME SeenInv
  PROVE  /\ TypeInv /\ LockInv /\ CommitInv /\ EffectInv /\ TypeOK
         /\ \A j \in Jobs : job[j].commit \in Nat /\ remote[j] \in Int /\ wt[j] \in Int /\ prs[j] \in Nat
         /\ \A t \in Threads : thr[t].commit \in Nat
BY DEF SeenInv, SafetyInv, TypeInv, TypeOK, JobRows, ThreadStates

-----------------------------------------------------------------------------
(* Who changes what.                                                       *)

(* Only the two steps that are about it change the commit of a row.        *)
LEMMA CommitStays ==
  ASSUME TypeInv, LockInv, NEW t \in Threads, ThreadStep(t), ~RecordCommit(t), ~Rebuild(t)
  PROVE  \A i \in Jobs : job'[i].commit = job[i].commit
<1>. JobOf(t) \in Jobs  BY ThreadStepIsLocal DEF LocalStep
<1>. USE DEF TypeInv, TypeOK, JobRows
<1>1. ASSUME NEW s, SetStatus(JobOf(t), s) PROVE \A i \in Jobs : job'[i].commit = job[i].commit
  BY <1>1 DEF SetStatus
<1>2. ASSUME NEW s, NEW l, Enter(t, s, l) PROVE \A i \in Jobs : job'[i].commit = job[i].commit
  BY <1>1, <1>2 DEF Enter
<1>3. CASE Prepare(t)
  BY <1>1, <1>2, <1>3
  DEF Prepare, StartPrepare, Fetch, CheckOut, CreateWorktree, ApplyPatch, Offer
<1>4. CASE Publish(t)
  <2>1. CASE StartPublish(t) \/ EnterPushing(t) \/ EnterCreatingPr(t) \/ Complete(t)
    BY <1>2, <2>1 DEF StartPublish, EnterPushing, EnterCreatingPr, Complete
  <2>2. CASE Commit(t) \/ Compare(t) \/ Recheck(t) \/ Push(t) \/ ListPrs(t) \/ CreatePr(t)
    BY <2>2 DEF Commit, Compare, Recheck, Push, ListPrs, CreatePr
  <2>3. CASE RecordPr(t)  BY <2>3 DEF RecordPr
  <2>4. CASE Tidy(t)  BY <2>4 DEF Tidy
  <2>5. ~RecordCommit(t)  OBVIOUS
  <2>. QED  BY <1>4, <2>1, <2>2, <2>3, <2>4, <2>5 DEF Publish
<1>5. CASE ReadRow(t) \/ StartReconcile(t) \/ Inspect(t) \/ Recommit(t)
  BY <1>1, <1>2, <1>5 DEF ReadRow, StartReconcile, Inspect, Recommit, JobOf
<1>6. CASE CallFails(t) \/ Cleanup(t) \/ Settle(t)
  BY <1>6 DEF CallFails, Cleanup, Settle, RecordFailure, JobOf
<1>. QED  BY <1>3, <1>4, <1>5, <1>6 DEF ThreadStep, Reconcile

(* No step of another part changes a commit, completes a job, opens a pull *)
(* request or moves a branch, but for what somebody pushes on top of it.   *)
LEMMA OthersKeepOutcome ==
  ASSUME TypeInv, [Next]_vars, ~ \E t \in Threads : ThreadStep(t)
  PROVE  /\ \A j \in Jobs : /\ job'[j].commit = job[j].commit
                            /\ job'[j].status = "completed" => job[j].status = "completed"
                            /\ prs'[j] \in {prs[j], prs[j] - 1}
                            /\ prs'[j] # prs[j] => prs[j] > 0
                            /\ remote'[j] = remote[j] \/ (remote[j] >= 0 /\ remote'[j] = Above(remote[j]))
<1>. USE DEF TypeInv, TypeOK
<1>1. CASE RecoveryStep
  <2>1. CASE Tick \/ RepairWorktree \/ RepairDone \/ AutoRetryDone
    BY <2>1 DEF Tick, RepairWorktree, RepairDone, AutoRetryDone, github
  <2>2. CASE RepairStatus
    <3>1. Recovery \in Threads  BY NamesAreApart
    <3>2. thr[Recovery].outcome \in Outcomes  BY <3>1 DEF ThreadStates
    <3>3. job' = job \/ job' = [job EXCEPT ![JobOf(Recovery)].status = thr[Recovery].outcome,
                                           ![JobOf(Recovery)].stale = FALSE,
                                           ![JobOf(Recovery)].cleanup = thr[Recovery].cleaned]
      BY <2>2 DEF RepairStatus, RecordFailure
    <3>4. \A j \in Jobs : /\ job'[j].commit = job[j].commit
                          /\ job'[j].status \in {job[j].status, thr[Recovery].outcome}
      BY <3>3 DEF JobRows
    <3>5. thr[Recovery].outcome # "completed"  BY <3>2 DEF Outcomes
    <3>. QED  BY <2>2, <3>4, <3>5 DEF RepairStatus, github
  <2>3. ASSUME NEW j \in Jobs, AutoRetry(j)
        PROVE  /\ \A i \in Jobs : /\ job'[i].commit = job[i].commit
                                  /\ job'[i].status = "completed" => job[i].status = "completed"
               /\ UNCHANGED github
    BY <2>3 DEF AutoRetry, StartRetry, JobRows
  <2>. QED  BY <1>1, <2>1, <2>2, <2>3 DEF RecoveryStep, github
<1>2. CASE Connection
  BY <1>2 DEF Connection, VerifyBegin, VerifyEnd, SyncBegin, SyncEnd, Disconnect, github, JobRows
<1>3. CASE Requests
  BY <1>3
  DEF Requests, Create, Approve, Retry, StartRetry, Cancel, RemoveWorktree, SetStatus, github, JobRows
<1>4. CASE Environment
  BY <1>4
  DEF Environment, Crash, CrashInDisconnect, LoseProcess, Restart, BaseMoves, LeaseExpires, ForeignPush, ClosePr,
      HeartbeatAges, github, JobRows
<1>5. CASE UNCHANGED vars  BY <1>5 DEF vars
<1>. QED  BY <1>1, <1>2, <1>3, <1>4, <1>5 DEF Next

(* A job is completed by the step of that name only.                       *)
LEMMA OnlyCompleteCompletes ==
  ASSUME TypeInv, LockInv, NEW t \in Threads, ThreadStep(t), NEW j \in Jobs,
         job'[j].status = "completed", job[j].status # "completed"
  PROVE  Complete(t) /\ j = JobOf(t)
<1>1. LocalStep(t)  BY ThreadStepIsLocal
<1>2. j = JobOf(t)  BY <1>1 DEF LocalStep, RowLocal, OthersKeep
<1>4. CASE Prepare(t)
  BY <1>2, <1>4, PrepareWrites DEF Same, Writes, PreparePhase
<1>5. CASE Publish(t)
  BY <1>2, <1>5, PublishWrites DEF Same, Writes, PublishPhase
<1>6. CASE Reconcile(t)
  BY <1>2, <1>6, ReconcileWrites DEF Same, Writes, PublishPhase
<1>7. CASE CallFails(t) \/ Cleanup(t) \/ Settle(t)
  BY <1>2, <1>7, FailureWrites DEF Same, Writes, TypeInv, TypeOK, ThreadStates, Outcomes
<1>. QED  BY <1>2, <1>4, <1>5, <1>6, <1>7 DEF ThreadStep

-----------------------------------------------------------------------------
(* A branch that matches its row goes on doing so, where it matters.       *)

Relied(j) == job[j].status = "completed" \/ \E t \in Threads : thr[t].pc \in EffectLabels /\ thr[t].job = j

LEMMA MatchesGrows ==
  ASSUME TypeInv, NEW j \in Jobs, Matches(j), job'[j].commit = job[j].commit,
         remote'[j] = remote[j] \/ (remote[j] >= 0 /\ remote'[j] = Above(remote[j]))
  PROVE  Matches(j)'
BY DEF TypeInv, TypeOK, JobRows, Matches, Above, NoCommit

LEMMA LocksOut ==
  ASSUME LockInv, NEW t \in Threads, NEW u \in Threads,
         thr[t].pc \notin UnlockedLabels, thr[u].pc \notin UnlockedLabels
  PROVE  t = u
BY DEF LockInv

LEMMA MatchesStays ==
  ASSUME SeenInv, OutcomeInv, [Next]_vars, NEW j \in Jobs, Matches(j), Relied(j)
  PROVE  Matches(j)'
<1>. /\ TypeInv /\ LockInv /\ TypeOK /\ job[j].commit \in Nat /\ remote[j] \in Int /\ wt[j] \in Int
  BY Facts
<1>1. CASE ~ \E t \in Threads : ThreadStep(t)
  BY <1>1, OthersKeepOutcome, MatchesGrows
<1>2. ASSUME NEW t \in Threads, ThreadStep(t) PROVE Matches(j)'
  <2>1. CASE RecordCommit(t) \/ Rebuild(t)
    <3>1. thr[t].pc \in {"record", "rebuild"}  BY <2>1 DEF RecordCommit, Rebuild, At
    <3>2. thr[t].job # j
      <4>. SUFFICES ASSUME thr[t].job = j PROVE FALSE  OBVIOUS
      <4>1. job[j].status # "completed"
        BY <3>1 DEF OutcomeInv, ThreadsInv, Unfinished, Committing
      <4>2. PICK u \in Threads : thr[u].pc \in EffectLabels  BY <4>1 DEF Relied
      <4>3. t = u  BY <3>1, <4>2, LocksOut DEF UnlockedLabels, Resting, EffectLabels
      <4>. QED  BY <3>1, <4>2, <4>3 DEF EffectLabels
    <3>3. job'[j].commit = job[j].commit
      <4>1. thr[t].job # j /\ job \in [Jobs -> JobRows]  BY <3>2 DEF TypeOK
      <4>2. CASE RecordCommit(t)  BY <4>1, <4>2 DEF RecordCommit, JobOf
      <4>3. CASE Rebuild(t)  BY <4>1, <4>3 DEF Rebuild, JobOf
      <4>. QED  BY <2>1, <4>2, <4>3
    <3>4. remote' = remote  BY <2>1 DEF RecordCommit, Rebuild, github
    <3>. QED  BY <3>3, <3>4, MatchesGrows
  <2>2. CASE Push(t)
    <3>1. job'[j].commit = job[j].commit  BY <2>2 DEF Push
    <3>2. remote'[j] = remote[j]
      BY <2>2 DEF Push, Accepted, Matches, Above, NoCommit, TypeOK
    <3>. QED  BY <3>1, <3>2, MatchesGrows
  <2>3. CASE ~RecordCommit(t) /\ ~Rebuild(t) /\ ~Push(t)
    BY <1>2, <2>3, CommitStays, BranchStays, MatchesGrows
  <2>. QED  BY <2>1, <2>2, <2>3
<1>. QED  BY <1>1, <1>2

-----------------------------------------------------------------------------
(* The invariant is inductive.                                             *)

LEMMA DoneStep ==
  ASSUME SeenInv, SeenInv', Seen, OutcomeInv, [Next]_vars
  PROVE  DoneInv'
<1>. SUFFICES ASSUME NEW j \in Jobs, job'[j].status = "completed" PROVE job'[j].pr /\ Matches(j)'
  BY DEF DoneInv
<1>. TypeInv /\ TypeInv' /\ LockInv  BY Facts DEF SeenInv, SafetyInv
<1>1. job[j].pr => job'[j].pr  BY RowsGrow
<1>2. CASE job[j].status = "completed"
  BY <1>1, <1>2, MatchesStays DEF Relied, OutcomeInv, DoneInv
<1>3. CASE job[j].status # "completed"
  <2>1. PICK t \in Threads : ThreadStep(t)  BY <1>3, OthersKeepOutcome
  <2>2. Complete(t) /\ j = thr[t].job  BY <1>3, <2>1, OnlyCompleteCompletes DEF JobOf
  <2>3. thr[t].pc = "completed"  BY <2>2 DEF Complete, At
  <2>4. job[j].pr  BY <2>2, <2>3 DEF SeenInv, EffectInv, EffectThread
  <2>5. Matches(j) /\ Relied(j)
    BY <2>2, <2>3 DEF OutcomeInv, ThreadsInv, AtBranch, EffectLabels, Relied
  <2>. QED  BY <1>1, <2>4, <2>5, MatchesStays
<1>. QED  BY <1>2, <1>3

(* How a thread gets to the pull request.                                  *)
LEMMA BranchEntry ==
  ASSUME SeenInv, OutcomeInv, [Next]_vars, NEW t \in Threads, ThreadStep(t), thr'[t].pc \in EffectLabels
  PROVE  thr'[t].job = thr[t].job /\ Matches(thr[t].job)'
<1>. PICK j \in Jobs : j = JobOf(t) /\ j = thr[t].job  BY Facts, ThreadStepIsLocal DEF LocalStep, JobOf
<1>. /\ TypeInv /\ TypeOK /\ LockInv /\ CommitInv /\ job[j].commit \in Nat /\ remote[j] \in Int /\ wt[j] \in Int
     /\ thr[t].commit \in Nat
  BY Facts
<1>0. thr'[t].job = j
  <2>1. thr'[t].pc \notin Resting  BY DEF EffectLabels, Resting
  <2>. QED  BY <2>1, ThreadStepIsLocal DEF LocalStep, ThreadLocal
<1>1. CASE thr[t].pc \in EffectLabels
  BY <1>0, <1>1, MatchesStays DEF Relied, OutcomeInv, ThreadsInv, AtBranch
<1>2. CASE Compare(t)
  <2>1. remote[j] = thr[t].commit
    BY <1>2, FailFields, GotoFields DEF Compare, EffectLabels
  <2>2. thr[t].commit = job[j].commit
    BY <1>2 DEF Compare, At, CommitInv, CommitThread, PushingLabels
  <2>3. thr[t].commit # NoCommit
    BY <1>2, Facts DEF Compare, At, EffectInv, EffectThread, PushingLabels
  <2>4. UNCHANGED <<job, remote>>  BY <1>2 DEF Compare, github
  <2>. QED  BY <1>0, <2>1, <2>2, <2>3, <2>4 DEF Matches
<1>3. CASE Push(t)
  <2>1. remote'[j] = wt[j] /\ wt[j] > 0
    BY <1>3, FailFields DEF Push, Accepted, EffectLabels, TypeOK
  <2>2. wt[j] = thr[t].commit /\ thr[t].commit = job[j].commit
    BY <1>3 DEF Push, At, CommitInv, CommitThread, PushingLabels
  <2>3. job' = job  BY <1>3 DEF Push
  <2>. QED  BY <1>0, <2>1, <2>2, <2>3 DEF Matches, NoCommit
<1>4. CASE Inspect(t)
  <2>1. remote[j] = thr[t].commit /\ remote[j] # NoCommit
    BY <1>4, EnterFields, FailFields, GotoFields DEF Inspect, Refused, EffectLabels
  <2>2. remote[j] > 0  BY <2>1 DEF NoCommit
  <2>3. job[j].commit = remote[j]  BY <2>2 DEF CommitInv, RowCommit
  <2>4. remote' = remote /\ job'[j].commit = job[j].commit
    BY <1>4, CommitStays DEF Inspect, RecordCommit, Rebuild, At, github
  <2>. QED  BY <1>0, <2>1, <2>3, <2>4 DEF Matches
<1>5. CASE Prepare(t)
  BY <1>5, EnterFields, FailFields, LeaveFields
  DEF Prepare, StartPrepare, Fetch, CheckOut, CreateWorktree, ApplyPatch, Offer, Entered, Refused, EffectLabels
<1>6. CASE StartPublish(t) \/ Commit(t) \/ RecordCommit(t) \/ EnterPushing(t) \/ Recheck(t) \/ Tidy(t)
  <2>1. CASE Commit(t)
    <3>1. thr \in [Threads -> ThreadStates]  BY DEF TypeOK
    <3>2. thr'[t].pc \in {"record", "cleanup"}  BY <2>1, <3>1, FailFields DEF Commit, ThreadStates
    <3>. QED  BY <3>2 DEF EffectLabels
  <2>2. CASE StartPublish(t) \/ EnterPushing(t)
    BY <2>2, EnterFields, FailFields DEF StartPublish, EnterPushing, Entered, Refused, EffectLabels
  <2>3. CASE RecordCommit(t)  BY <2>3, GotoFields DEF RecordCommit, EffectLabels
  <2>4. CASE Recheck(t)  BY <2>4, FailFields, GotoFields DEF Recheck, EffectLabels
  <2>5. CASE Tidy(t)  BY <2>5, LeaveFields DEF Tidy, EffectLabels
  <2>. QED  BY <1>6, <2>1, <2>2, <2>3, <2>4, <2>5
<1>7. CASE EnterCreatingPr(t) \/ ListPrs(t) \/ CreatePr(t) \/ RecordPr(t) \/ Complete(t)
  BY <1>1, <1>7 DEF EnterCreatingPr, ListPrs, CreatePr, RecordPr, Complete, At, EffectLabels
<1>8. CASE ReadRow(t) \/ StartReconcile(t) \/ Rebuild(t) \/ Recommit(t)
  <2>1. CASE ReadRow(t)
    <3>1. thr \in [Threads -> ThreadStates]  BY DEF TypeOK
    <3>2. thr'[t].pc = "reconcile"  BY <2>1, <3>1 DEF ReadRow, ThreadStates
    <3>. QED  BY <3>2 DEF EffectLabels
  <2>2. CASE StartReconcile(t)  BY <2>2, GotoFields, LeaveFields DEF StartReconcile, EffectLabels
  <2>3. CASE Rebuild(t)  BY <2>3, FailFields, GotoFields DEF Rebuild, EffectLabels
  <2>4. CASE Recommit(t)  BY <2>4, EnterFields DEF Recommit, Entered, Refused, EffectLabels
  <2>. QED  BY <1>8, <2>1, <2>2, <2>3, <2>4
<1>9. CASE CallFails(t) \/ Cleanup(t) \/ Settle(t)
  <2>1. CASE Cleanup(t)
    <3>1. thr \in [Threads -> ThreadStates]  BY DEF TypeOK
    <3>2. thr'[t].pc = "settle"  BY <2>1, <3>1 DEF Cleanup, ThreadStates
    <3>. QED  BY <3>2 DEF EffectLabels
  <2>2. CASE CallFails(t)  BY <2>2, FailFields DEF CallFails, EffectLabels
  <2>3. CASE Settle(t)  BY <2>3, LeaveFields DEF Settle, EffectLabels
  <2>. QED  BY <1>9, <2>1, <2>2, <2>3
<1>. QED  BY <1>2, <1>3, <1>4, <1>5, <1>6, <1>7, <1>8, <1>9 DEF ThreadStep, Publish, Reconcile

(* Only these steps lead to a commit, and to the creation of a request.    *)
LEMMA GuardedEntry ==
  ASSUME TypeInv, LockInv, NEW t \in Threads, ThreadStep(t)
  PROVE  /\ thr'[t].pc \in Committing =>
              StartPublish(t) \/ Commit(t) \/ Inspect(t) \/ Rebuild(t) \/ Recommit(t)
         /\ thr'[t].pc = "create_pr" => ListPrs(t)
<1>. JobOf(t) \in Jobs  BY ThreadStepIsLocal DEF LocalStep
<1>. thr \in [Threads -> ThreadStates]  BY DEF TypeInv, TypeOK
<1>1. CASE Prepare(t)
  BY <1>1, EnterFields, FailFields, LeaveFields
  DEF Prepare, StartPrepare, Fetch, CheckOut, CreateWorktree, ApplyPatch, Offer, Entered, Refused, Committing
<1>2. CASE Publish(t)
  <2>1. CASE StartPublish(t)
    BY <2>1, EnterFields, FailFields DEF StartPublish, Entered, Refused
  <2>2. CASE Commit(t)
    <3>1. thr'[t].pc \in {"record", "cleanup"}  BY <2>2, FailFields DEF Commit, ThreadStates
    <3>. QED  BY <2>2, <3>1
  <2>3. CASE EnterPushing(t) \/ EnterCreatingPr(t) \/ Complete(t)
    BY <2>3, EnterFields DEF EnterPushing, EnterCreatingPr, Complete, Entered, Refused, Committing
  <2>4. CASE RecordCommit(t) \/ RecordPr(t)
    BY <2>4, GotoFields DEF RecordCommit, RecordPr, Committing
  <2>5. CASE Compare(t)  BY <2>5, FailFields, GotoFields DEF Compare, Committing
  <2>6. CASE Recheck(t)  BY <2>6, FailFields, GotoFields DEF Recheck, Committing
  <2>7. CASE Push(t) \/ CreatePr(t)
    BY <2>7, FailFields, GotoFields DEF Push, CreatePr, Committing
  <2>8. CASE ListPrs(t)  BY <2>8, GotoFields DEF ListPrs, Committing
  <2>9. CASE Tidy(t)  BY <2>9, LeaveFields DEF Tidy, Committing
  <2>. QED  BY <1>2, <2>1, <2>2, <2>3, <2>4, <2>5, <2>6, <2>7, <2>8, <2>9 DEF Publish
<1>3. CASE Reconcile(t)
  <2>1. CASE ReadRow(t)
    <3>1. thr'[t].pc = "reconcile"  BY <2>1 DEF ReadRow, ThreadStates
    <3>. QED  BY <3>1 DEF Committing
  <2>2. CASE StartReconcile(t)  BY <2>2, GotoFields, LeaveFields DEF StartReconcile, Committing
  <2>3. CASE Inspect(t)
    BY <2>3, EnterFields, FailFields, GotoFields DEF Inspect, Entered, Refused
  <2>4. CASE Rebuild(t)  BY <2>4, FailFields, GotoFields DEF Rebuild
  <2>5. CASE Recommit(t)  BY <2>5, EnterFields DEF Recommit, Entered, Refused
  <2>. QED  BY <1>3, <2>1, <2>2, <2>3, <2>4, <2>5 DEF Reconcile
<1>4. CASE CallFails(t)  BY <1>4, FailFields DEF CallFails, Committing
<1>5. CASE Cleanup(t)
  <2>1. thr'[t].pc = "settle"  BY <1>5 DEF Cleanup, ThreadStates
  <2>. QED  BY <2>1 DEF Committing
<1>6. CASE Settle(t)  BY <1>6, LeaveFields DEF Settle, Committing
<1>. QED  BY <1>1, <1>2, <1>3, <1>4, <1>5, <1>6 DEF ThreadStep

(* Only the step of that name opens a pull request.                        *)
LEMMA RequestsStay ==
  ASSUME NEW t \in Threads, ThreadStep(t), ~CreatePr(t)
  PROVE  prs' = prs
<1>1. CASE Prepare(t)
  BY <1>1 DEF Prepare, StartPrepare, Fetch, CheckOut, CreateWorktree, ApplyPatch, Offer, github
<1>2. CASE Publish(t)
  BY <1>2
  DEF Publish, StartPublish, Commit, RecordCommit, EnterPushing, Compare, Recheck, Push,
      EnterCreatingPr, ListPrs, RecordPr, Complete, Tidy, github
<1>3. CASE Reconcile(t)
  BY <1>3 DEF Reconcile, ReadRow, StartReconcile, Inspect, Rebuild, Recommit, github
<1>4. CASE CallFails(t) \/ Cleanup(t) \/ Settle(t)
  BY <1>4 DEF CallFails, Cleanup, Settle, github
<1>. QED  BY <1>1, <1>2, <1>3, <1>4 DEF ThreadStep

(* What the stepping thread relies on afterwards.                          *)
LEMMA OwnStep ==
  ASSUME SeenInv, OutcomeInv, [Next]_vars, NEW t \in Threads, ThreadStep(t)
  PROVE  AtBranch(t)' /\ Unfinished(t)' /\ FirstPr(t)'
<1>. PICK j \in Jobs : j = JobOf(t) /\ j = thr[t].job  BY Facts, ThreadStepIsLocal DEF LocalStep, JobOf
<1>. /\ TypeInv /\ TypeOK /\ LockInv /\ job[j].commit \in Nat /\ prs[j] \in Nat
  BY Facts
<1>0. thr'[t].pc \notin Resting => thr'[t].job = j
  BY ThreadStepIsLocal DEF LocalStep, ThreadLocal
<1>1. AtBranch(t)'  BY BranchEntry DEF AtBranch
<1>2. ASSUME thr'[t].pc \in Committing PROVE job'[thr'[t].job].status # "completed"
  <2>1. thr'[t].job = j  BY <1>0, <1>2 DEF Committing, Resting
  <2>2. CASE thr[t].pc \in Committing
    <3>1. job[j].status # "completed"  BY <2>2 DEF OutcomeInv, ThreadsInv, Unfinished
    <3>2. ~Complete(t)  BY <2>2 DEF Complete, At, Committing
    <3>. QED  BY <2>1, <3>1, <3>2, OnlyCompleteCompletes
  <2>3. CASE StartPublish(t)
    BY <1>2, <2>1, <2>3, EnterFields, FailFields DEF StartPublish, Entered, Refused, Committing
  <2>4. CASE Inspect(t)
    <3>1. remote[j] = NoCommit /\ UNCHANGED job
      BY <1>2, <2>4, EnterFields, FailFields DEF Inspect, Entered, Refused, Committing
    <3>2. job[j].status # "completed"
      BY <3>1 DEF OutcomeInv, DoneInv, Matches, Above, NoCommit
    <3>. QED  BY <2>1, <3>1, <3>2
  <2>5. CASE Commit(t) \/ Rebuild(t) \/ Recommit(t)
    <3>1. thr[t].pc \in Committing  BY <2>5 DEF Commit, Rebuild, Recommit, At, Committing
    <3>. QED  BY <2>2, <3>1
  <2>. QED  BY <1>2, <2>3, <2>4, <2>5, GuardedEntry
<1>3. ASSUME thr'[t].pc = "create_pr" PROVE prs'[thr'[t].job] = 0
  <2>1. ListPrs(t) /\ thr'[t].job = j  BY <1>0, <1>3, GuardedEntry DEF Resting
  <2>2. prs[j] = 0 /\ prs' = prs  BY <1>3, <2>1, GotoFields DEF ListPrs, github
  <2>. QED  BY <2>1, <2>2
<1>. QED  BY <1>1, <1>2, <1>3 DEF Unfinished, FirstPr

(* A thread that stands still keeps what it relies on: the step of another *)
(* one that would break it needs the connection lock too.                  *)
LEMMA StillStep ==
  ASSUME SeenInv, OutcomeInv, [Next]_vars, NEW t \in Threads, thr'[t] = thr[t], ~ThreadStep(t)
  PROVE  AtBranch(t)' /\ Unfinished(t)' /\ FirstPr(t)'
<1>. TypeInv /\ TypeOK /\ LockInv /\ \A j \in Jobs : prs[j] \in Nat
  BY Facts
<1>. DEFINE j == thr[t].job
<1>. thr[t].pc \notin Resting => j \in Jobs  BY DEF TypeInv, ThreadsHaveJobs
<1>1. AtBranch(t)'
  <2>. SUFFICES ASSUME thr[t].pc \in EffectLabels PROVE Matches(j)'
    BY DEF AtBranch
  <2>1. j \in Jobs  BY DEF EffectLabels, Resting
  <2>2. Matches(j) /\ Relied(j)  BY DEF OutcomeInv, ThreadsInv, AtBranch, Relied
  <2>. QED  BY <2>1, <2>2, MatchesStays
<1>2. Unfinished(t)'
  <2>. SUFFICES ASSUME thr[t].pc \in Committing, job'[j].status = "completed" PROVE FALSE
    BY DEF Unfinished
  <2>1. j \in Jobs /\ job[j].status # "completed"
    BY DEF Committing, Resting, OutcomeInv, ThreadsInv, Unfinished
  <2>2. PICK u \in Threads : ThreadStep(u)  BY <2>1, OthersKeepOutcome
  <2>3. thr[u].pc = "completed"  BY <2>1, <2>2, OnlyCompleteCompletes DEF Complete, At
  <2>4. t = u  BY <2>3, LocksOut DEF UnlockedLabels, Resting, Committing
  <2>. QED  BY <2>2, <2>4
<1>3. FirstPr(t)'
  <2>. SUFFICES ASSUME thr[t].pc = "create_pr", prs'[j] # 0 PROVE FALSE
    BY DEF FirstPr
  <2>1. j \in Jobs /\ prs[j] = 0
    BY DEF Resting, OutcomeInv, ThreadsInv, FirstPr
  <2>2. PICK u \in Threads : ThreadStep(u)  BY <2>1, OthersKeepOutcome
  <2>3. CreatePr(u)  BY <2>1, <2>2, RequestsStay
  <2>4. thr[u].pc = "create_pr"  BY <2>3 DEF CreatePr, At
  <2>5. t = u  BY <2>4, LocksOut DEF UnlockedLabels, Resting
  <2>. QED  BY <2>2, <2>5
<1>. QED  BY <1>1, <1>2, <1>3

LEMMA ThreadsStep ==
  ASSUME SeenInv, OutcomeInv, [Next]_vars
  PROVE  ThreadsInv'
<1>. TypeInv  BY Facts
<1>. SUFFICES ASSUME NEW t \in Threads PROVE AtBranch(t)' /\ Unfinished(t)' /\ FirstPr(t)'
  BY DEF ThreadsInv
<1>1. CASE ThreadStep(t)  BY <1>1, OwnStep
<1>2. CASE ~ThreadStep(t) /\ thr'[t] = thr[t]  BY <1>2, StillStep
<1>3. CASE thr'[t].pc \in Quiet
  BY <1>3 DEF Quiet, AtBranch, Unfinished, FirstPr, EffectLabels, Committing
<1>4. ASSUME NEW u \in Threads, u # t, ThreadStep(u) PROVE thr'[t] = thr[t]
  BY <1>4, Facts, ThreadStepIsLocal DEF LocalStep, ThreadLocal, OthersRun
<1>. QED  BY <1>1, <1>2, <1>3, <1>4, OthersRest DEF Rests

LEMMA RequestsStep ==
  ASSUME SeenInv, OutcomeInv, [Next]_vars
  PROVE  AtMostOnePullRequest'
<1>. SUFFICES ASSUME NEW j \in Jobs PROVE prs'[j] <= 1
  BY DEF AtMostOnePullRequest
<1>. TypeInv /\ TypeOK /\ LockInv /\ prs[j] \in Nat /\ prs[j] <= 1
  BY Facts DEF OutcomeInv, AtMostOnePullRequest
<1>1. CASE ~ \E t \in Threads : ThreadStep(t)
  BY <1>1, OthersKeepOutcome
<1>2. ASSUME NEW t \in Threads, ThreadStep(t), ~CreatePr(t) PROVE prs'[j] <= 1
  BY <1>2, RequestsStay
<1>3. ASSUME NEW t \in Threads, CreatePr(t) PROVE prs'[j] <= 1
  <2>1. prs[JobOf(t)] = 0  BY <1>3 DEF CreatePr, At, JobOf, OutcomeInv, ThreadsInv, FirstPr
  <2>2. prs' = [prs EXCEPT ![JobOf(t)] = prs[JobOf(t)] + 1]  BY <1>3 DEF CreatePr
  <2>. QED  BY <2>1, <2>2 DEF TypeOK
<1>. QED  BY <1>1, <1>2, <1>3

-----------------------------------------------------------------------------
LEMMA OutcomeInit == Init => OutcomeInv
  BY DEF Init, IdleThread, OutcomeInv, DoneInv, ThreadsInv, AtBranch, Unfinished, FirstPr, AtMostOnePullRequest,
         EffectLabels, Committing

LEMMA OutcomeStep == SeenInv /\ OutcomeInv /\ [Next]_vars => SeenInv' /\ OutcomeInv'
<1>. SUFFICES ASSUME SeenInv, OutcomeInv, [Next]_vars PROVE SeenInv' /\ OutcomeInv'
  OBVIOUS
<1>1. SeenInv' /\ Seen  BY SeenStep
<1>. QED  BY <1>1, DoneStep, ThreadsStep, RequestsStep DEF OutcomeInv

LEMMA OutcomeSafety == Spec => [](SeenInv /\ OutcomeInv)
<1>1. Init => SeenInv /\ OutcomeInv  BY SeenInit, OutcomeInit
<1>. QED  BY <1>1, OutcomeStep, PTL DEF Spec

(* A job said to be completed has its commit on the branch, under whatever *)
(* others pushed later, and its pull request recorded.                     *)
THEOREM CompletedPublished == Spec => []CompletedIsPublished
<1>1. OutcomeInv => CompletedIsPublished
  BY DEF OutcomeInv, DoneInv, Matches, CompletedIsPublished
<1>. QED  BY <1>1, OutcomeSafety, PTL

(* However often a publication is retried after a lost answer, one pull    *)
(* request at a time is open for it.                                       *)
THEOREM OnePullRequest == Spec => []AtMostOnePullRequest
<1>1. OutcomeInv => AtMostOnePullRequest  BY DEF OutcomeInv
<1>. QED  BY <1>1, OutcomeSafety, PTL

-----------------------------------------------------------------------------
(* What needs no assumption on heartbeats.                                 *)

(* Only a thread at a label that is not a resting one has steps.           *)
LEMMA StepIsBusy ==
  ASSUME NEW t \in Threads, ThreadStep(t)
  PROVE  thr[t].pc \notin Resting \cup {"repair_status"}
  BY DEF ThreadStep, Prepare, StartPrepare, Fetch, CheckOut, CreateWorktree, ApplyPatch, Offer,
        Publish, StartPublish, Commit, RecordCommit, EnterPushing, Compare, Recheck, Push,
        EnterCreatingPr, ListPrs, CreatePr, RecordPr, Complete, Tidy, Reconcile, ReadRow,
        StartReconcile, Inspect, Rebuild, Recommit, CallFails, PrepareCalls, PublishCalls,
        Cleanup, Settle, At, Resting

(* No step of a thread changes the connection.                             *)
LEMMA ThreadKeepsConnection ==
  ASSUME NEW t \in Threads, ThreadStep(t)
  PROVE  conn' = conn /\ connLost' = connLost /\ removals' = removals /\ crashes' = crashes
         /\ server' = server
  BY DEF ThreadStep, Prepare, StartPrepare, Fetch, CheckOut, CreateWorktree, ApplyPatch, Offer,
        Publish, StartPublish, Commit, RecordCommit, EnterPushing, Compare, Recheck, Push,
        EnterCreatingPr, ListPrs, CreatePr, RecordPr, Complete, Tidy, Reconcile, ReadRow,
        StartReconcile, Inspect, Rebuild, Recommit, CallFails, Cleanup, Settle, process

(* A connection is only disconnected by its handler, which may be torn;    *)
LEMMA OnlyDisconnects ==
  ASSUME [Next]_vars, conn # "disconnected", conn' = "disconnected"
  PROVE  Disconnect \/ CrashInDisconnect
<1>1. ~SyncEnd /\ ~VerifyEnd  BY DEF SyncEnd, VerifyEnd, SetConn
<1>2. ASSUME NEW t \in Threads PROVE ~ThreadStep(t)
  BY ThreadKeepsConnection
<1>3. ~RecoveryStep
  BY DEF RecoveryStep, Tick, RepairWorktree, RepairStatus, RepairDone, AutoRetryDone, AutoRetry
<1>4. ~Requests  BY DEF Requests, Create, Approve, Retry, StartRetry, Cancel, RemoveWorktree
<1>5. Environment => CrashInDisconnect
  BY DEF Environment, Crash, Restart, BaseMoves, LeaseExpires, ForeignPush, ClosePr, HeartbeatAges
<1>6. ~UNCHANGED vars  BY DEF vars
<1>. QED
  BY <1>1, <1>2, <1>3, <1>4, <1>5, <1>6 DEF Next, Connection, VerifyBegin, SyncBegin

(* where it is not, it closes every job;                                   *)
LEMMA DisconnectCloses ==
  ASSUME TypeInv, Disconnect, NEW j \in Jobs
  PROVE  job'[j].status \in Terminal \cup {"none"}
<1>1. job[j].status \in Statuses /\ job[j].status \notin BlocksDisconnect
  BY DEF Disconnect, DisconnectAllowed, TypeInv, TypeOK, JobRows
<1>2. job[j].status \in DisconnectCancels \cup Terminal \cup {"none"}
  BY <1>1 DEF Statuses, BlocksDisconnect
<1>3. job'[j].status = IF job[j].status \in DisconnectCancels THEN "cancelled" ELSE job[j].status
  BY DEF Disconnect, TypeInv, TypeOK, JobRows
<1>. QED  BY <1>2, <1>3 DEF Terminal

(* and no job is made for it any more.                                     *)
LEMMA NoneIsBorn ==
  ASSUME SeenInv, [Next]_vars, conn = "disconnected", NEW j \in Jobs, job[j].status = "none"
  PROVE  job'[j].status = "none"
<1>0. TypeInv /\ LockInv /\ BornInv  BY DEF SeenInv, SafetyInv
<1>1. ASSUME NEW t \in Threads, ThreadStep(t) PROVE job'[j].status = "none"
  <2>1. LocalStep(t)  BY <1>0, <1>1, ThreadStepIsLocal
  <2>2. JobOf(t) # j  BY <1>0, <1>1, StepIsBusy DEF BornInv, JobOf
  <2>. QED  BY <2>1, <2>2 DEF LocalStep, RowLocal, OthersKeep
<1>2. CASE RecoveryStep
  <2>1. CASE RepairStatus
    <3>1. Recovery \in Threads /\ thr[Recovery].pc = "repair_status"
      BY <2>1, NamesAreApart DEF RepairStatus, At
    <3>2. JobOf(Recovery) \in Jobs /\ JobOf(Recovery) # j
      BY <1>0, <3>1 DEF BornInv, Resting, TypeInv, ThreadsHaveJobs, JobOf
    <3>. QED  BY <1>0, <2>1, <3>1, <3>2, RecordFields DEF RepairStatus
  <2>2. ASSUME NEW i \in Jobs, AutoRetry(i) PROVE FALSE
    BY <2>2 DEF AutoRetry, AutoRetryCandidate
  <2>3. CASE Tick \/ RepairWorktree \/ RepairDone \/ AutoRetryDone
    BY <2>3 DEF Tick, RepairWorktree, RepairDone, AutoRetryDone
  <2>. QED  BY <1>2, <2>1, <2>2, <2>3 DEF RecoveryStep
<1>3. CASE Connection
  BY <1>3 DEF Connection, VerifyBegin, VerifyEnd, SyncBegin, SyncEnd, Disconnect, DisconnectAllowed, SetConn
<1>4. CASE Requests
  BY <1>0, <1>4
  DEF Requests, Create, Approve, Retry, StartRetry, Cancel, RemoveWorktree, CancellableStatuses, RetryableStatuses, TypeInv, TypeOK, JobRows
<1>5. CASE Environment
  BY <1>0, <1>5 DEF Environment, Crash, CrashInDisconnect, Restart, BaseMoves, LeaseExpires, ForeignPush, ClosePr,
         HeartbeatAges, TypeInv, TypeOK, JobRows
<1>6. CASE UNCHANGED vars  BY <1>6 DEF vars
<1>. QED  BY <1>1, <1>2, <1>3, <1>4, <1>5, <1>6 DEF Next

(* Where a disconnect cancels its jobs with the row of the connection,     *)
(* every step keeps a disconnected connection without open jobs.           *)
LEMMA DisconnectedStep ==
  ASSUME ~TornWrites, SeenInv, DisconnectCancelsAll, [Next]_vars
  PROVE  DisconnectCancelsAll'
<1>0. TypeInv /\ LockInv  BY DEF SeenInv, SafetyInv
<1>. SUFFICES ASSUME conn' = "disconnected", NEW j \in Jobs
              PROVE  job'[j].status \in Terminal \cup {"none"}
  BY DEF DisconnectCancelsAll
<1>1. CASE conn # "disconnected"
  BY <1>0, <1>1, OnlyDisconnects, DisconnectCloses DEF CrashInDisconnect
<1>2. CASE conn = "disconnected" /\ job[j].status \in Terminal
  BY <1>0, <1>2, StatusStep DEF StatusKept
<1>3. CASE conn = "disconnected" /\ job[j].status = "none"
  BY <1>3, NoneIsBorn
<1>. QED  BY <1>1, <1>2, <1>3 DEF DisconnectCancelsAll

(* A disconnected connection has no open job, although a prepare thread    *)
(* that was at work writes on.                                             *)
THEOREM DisconnectedIsClosed == ~TornWrites => (Spec => []DisconnectCancelsAll)
<1>. SUFFICES ASSUME ~TornWrites PROVE Spec => []DisconnectCancelsAll
  OBVIOUS
<1>1. Init => DisconnectCancelsAll  BY DEF Init, DisconnectCancelsAll
<1>2. SeenInv /\ DisconnectCancelsAll /\ [Next]_vars => DisconnectCancelsAll'  BY DisconnectedStep
<1>3. Spec => []SeenInv  BY OutcomeSafety, PTL
<1>. QED  BY <1>1, <1>2, <1>3, PTL DEF Spec

(* A job a torn disconnect left open: nothing is at work on it but a       *)
(* repair, read or begun, that will close it.                              *)
LeftOpen(j) ==
  /\ job[j].status \notin PublishPhase
  /\ \A t \in Threads : thr[t].pc \notin Resting /\ thr[t].job = j =>
       thr[t].pc = "repair_status" /\ thr[t].outcome = "failed"
  /\ \A item \in todo : item[1] = j => item[2] = "failed"
Closing(j) == job[j].status \in Terminal \cup {"none"} \/ LeftOpen(j)
ClosingInv == conn = "disconnected" => \A j \in Jobs : Closing(j)

(* Every step leaves it so or closes it.                                   *)
LEMMA LeftOpenStep ==
  ASSUME TypeInv, TypeInv', LockInv, [Next]_vars, conn = "disconnected", conn' = "disconnected",
         NEW j \in Jobs, LeftOpen(j), job[j].status # "none"
  PROVE  (job'[j].status = job[j].status /\ LeftOpen(j)') \/ job'[j].status \in Terminal
<1>. USE NamesAreApart
<1>1. ASSUME NEW t \in Threads, ThreadStep(t) PROVE job'[j].status = job[j].status /\ LeftOpen(j)'
  <2>1. LocalStep(t)  BY <1>1, ThreadStepIsLocal
  <2>2. thr[t].job # j  BY <1>1, StepIsBusy DEF LeftOpen
  <2>. QED  BY <2>1, <2>2 DEF LocalStep, RowLocal, ThreadLocal, OthersRun, OthersKeep, JobOf, LeftOpen
<1>2. CASE Tick \/ RepairDone \/ AutoRetryDone \/ Restart
  <2>1. job' = job /\ todo' \in {todo, StaleRepairs}
    BY <1>2 DEF Tick, RepairDone, AutoRetryDone, Restart, process
  <2>2. OthersRun(Recovery) /\ thr'[Recovery].pc \in Resting
    BY <1>2, GotoFields DEF Tick, RepairDone, AutoRetryDone, Restart, Resting
  <2>3. \A item \in StaleRepairs : item[1] = j => item[2] = "failed"
    BY DEF StaleRepairs, LeftOpen
  <2>. QED  BY <2>1, <2>2, <2>3 DEF LeftOpen, OthersRun
<1>3. CASE RepairWorktree
  <2>1. PICK item \in todo : /\ todo' = todo \ {item} /\ job' = job /\ OthersRun(Recovery)
                              /\ thr'[Recovery].pc = "repair_status" /\ thr'[Recovery].job = item[1]
                              /\ thr'[Recovery].outcome = item[2]
    BY <1>3 DEF RepairWorktree, TypeInv, TypeOK, OthersRun
  <2>. QED  BY <2>1 DEF LeftOpen, OthersRun
<1>4. CASE RepairStatus
  <2>1. JobOf(Recovery) \in Jobs /\ thr[Recovery].pc = "repair_status" /\ "repair_status" \notin Resting
    BY <1>4, BusyJobs DEF RepairStatus, Resting, At
  <2>2. OthersRun(Recovery) /\ thr'[Recovery].pc \in Resting /\ todo' = todo
    BY <1>4 DEF RepairStatus, OthersRun, TypeInv, TypeOK, IdleThread, Resting, process
  <2>3. CASE JobOf(Recovery) = j
    <3>1. thr[Recovery].outcome = "failed"  BY <2>1, <2>3 DEF LeftOpen, JobOf
    <3>2. job'[j].status = "failed" \/ (job[j].status \in Terminal /\ job'[j].status = job[j].status)
      BY <1>4, <2>1, <2>3, <3>1, RecordFields, TerminalNeverLive DEF RepairStatus
    <3>. QED  BY <3>2 DEF Terminal
  <2>4. CASE JobOf(Recovery) # j
    <3>1. job'[j] = job[j]  BY <1>4, <2>1, <2>4, RecordFields DEF RepairStatus
    <3>. QED  BY <2>2, <3>1 DEF LeftOpen, OthersRun
  <2>. QED  BY <2>3, <2>4
<1>5. ASSUME NEW i \in Jobs, AutoRetry(i) \/ Create(i) \/ Approve(i) \/ Retry(i) PROVE FALSE
  BY <1>5 DEF AutoRetry, AutoRetryCandidate, Create, Approve, Retry, StartRetry
<1>6. CASE Connection
  BY <1>6 DEF Connection, VerifyBegin, VerifyEnd, SyncBegin, SyncEnd, Disconnect, DisconnectAllowed, SetConn, LeftOpen
<1>7. ASSUME NEW i \in Jobs, Cancel(i) PROVE (job'[j].status = job[j].status /\ LeftOpen(j)') \/ job'[j].status \in Terminal
  BY <1>7 DEF Cancel, TypeInv, TypeOK, JobRows, Terminal, LeftOpen
<1>8. ASSUME NEW i \in Jobs, RemoveWorktree(i) \/ HeartbeatAges(i) PROVE job'[j].status = job[j].status /\ LeftOpen(j)'
  <2>1. thr' = thr /\ todo' = todo  BY <1>8 DEF RemoveWorktree, HeartbeatAges, process
  <2>2. job'[j].status = job[j].status
    <3>1. CASE RemoveWorktree(i)  BY <3>1 DEF RemoveWorktree, TypeInv, TypeOK, JobRows
    <3>2. CASE HeartbeatAges(i)  BY <3>2 DEF HeartbeatAges, TypeInv, TypeOK, JobRows
    <3>. QED  BY <1>8, <3>1, <3>2
  <2>. QED  BY <2>1, <2>2 DEF LeftOpen
<1>9. CASE Crash
  BY <1>9 DEF Crash, LoseProcess, IdleThread, Resting, LeftOpen
<1>10. CASE BaseMoves \/ LeaseExpires \/ \E i \in Jobs : ForeignPush(i) \/ ClosePr(i)
  BY <1>10 DEF BaseMoves, LeaseExpires, ForeignPush, ClosePr, process, LeftOpen
<1>11. ~CrashInDisconnect  BY DEF CrashInDisconnect, DisconnectAllowed
<1>12. CASE UNCHANGED vars  BY <1>12 DEF vars, LeftOpen
<1>. QED
  BY <1>1, <1>2, <1>3, <1>4, <1>5, <1>6, <1>7, <1>8, <1>9, <1>10, <1>11, <1>12
  DEF Next, RecoveryStep, Requests, Environment

LEMMA ClosingStep ==
  ASSUME SeenInv, TypeInv', ClosingInv, [Next]_vars
  PROVE  /\ ClosingInv'
         /\ conn = "disconnected" =>
              \A j \in Jobs : job'[j].status # job[j].status => job'[j].status \in Terminal
<1>0. TypeInv /\ LockInv  BY DEF SeenInv, SafetyInv
<1>1. CASE conn = "disconnected" /\ conn' = "disconnected"
  <2>1. ASSUME NEW j \in Jobs
        PROVE  Closing(j)' /\ (job'[j].status # job[j].status => job'[j].status \in Terminal)
    <3>1. CASE job[j].status \in Terminal  BY <1>0, <3>1, StatusStep DEF StatusKept, Closing
    <3>2. CASE job[j].status = "none"  BY <1>1, <3>2, NoneIsBorn DEF Closing
    <3>3. CASE job[j].status \notin Terminal \cup {"none"}
      BY <1>0, <1>1, <3>3, LeftOpenStep DEF ClosingInv, Closing
    <3>. QED  BY <3>1, <3>2, <3>3
  <2>. QED  BY <2>1 DEF ClosingInv
<1>2. CASE conn = "disconnected" /\ conn' # "disconnected"
  <2>1. VerifyEnd \/ SyncEnd
    <3>1. ASSUME NEW t \in Threads PROVE ~ThreadStep(t)  BY <1>2, ThreadKeepsConnection
    <3>2. ~RecoveryStep
      BY <1>2 DEF RecoveryStep, Tick, RepairWorktree, RepairStatus, RepairDone, AutoRetryDone, AutoRetry
    <3>3. ~Requests  BY <1>2 DEF Requests, Create, Approve, Retry, Cancel, RemoveWorktree
    <3>4. ~Environment
      BY <1>2 DEF Environment, Crash, CrashInDisconnect, DisconnectAllowed, Restart, BaseMoves, LeaseExpires,
             ForeignPush, ClosePr, HeartbeatAges
    <3>5. ~UNCHANGED vars  BY <1>2 DEF vars
    <3>. QED
      BY <1>2, <3>1, <3>2, <3>3, <3>4, <3>5
      DEF Next, Connection, VerifyBegin, SyncBegin, Disconnect, DisconnectAllowed
  <2>2. job' = job  BY <2>1 DEF VerifyEnd, SyncEnd
  <2>. QED  BY <1>2, <2>2 DEF ClosingInv
<1>3. CASE conn # "disconnected" /\ conn' = "disconnected"
  <2>1. CASE Disconnect  BY <1>0, <1>3, <2>1, DisconnectCloses DEF ClosingInv, Closing
  <2>2. CASE CrashInDisconnect
    BY <1>3, <2>2
    DEF CrashInDisconnect, DisconnectAllowed, BlocksDisconnect, LoseProcess, IdleThread, Resting, ClosingInv,
        Closing, LeftOpen
  <2>. QED  BY <1>3, <2>1, <2>2, OnlyDisconnects
<1>4. CASE conn # "disconnected" /\ conn' # "disconnected"  BY <1>4 DEF ClosingInv
<1>. QED  BY <1>1, <1>2, <1>3, <1>4

(* A job that a torn disconnect left open only closes, whatever requests,  *)
(* retries and repairs still come.                                         *)
THEOREM LeftOpenOnlyCloses == Spec => DisconnectedOnlyCloses
<1>1. Init => ClosingInv  BY DEF Init, ClosingInv
<1>2. SeenInv /\ SeenInv' /\ ClosingInv /\ [Next]_vars =>
        /\ ClosingInv'
        /\ [conn = "disconnected" =>
              \A j \in Jobs : job'[j].status # job[j].status => job'[j].status \in Terminal]_vars
  BY ClosingStep DEF SeenInv, SafetyInv
<1>3. Spec => []SeenInv  BY OutcomeSafety, PTL
<1>. QED  BY <1>1, <1>2, <1>3, PTL DEF Spec, DisconnectedOnlyCloses

-----------------------------------------------------------------------------
(***************************************************************************)
(* Where a live thread keeps its heartbeat, a job has one thread at most,  *)
(* and the recovery worker repairs only jobs that have none: so a thread   *)
(* knows the status of its job, whatever the worker has read before.       *)
(***************************************************************************)

Works(t, j) == thr[t].pc \notin Resting /\ thr[t].job = j
Preparing == PreparePhase \cup {"pending"}
OneEach == \A t, u \in Threads : \A j \in Jobs : Works(t, j) /\ Works(u, j) => t = u

(* What a planned repair may still find.                                   *)
Repairable(j, o) ==
  \/ job[j].status \in Terminal
  \/ job[j].stale /\ o = "failed" /\ job[j].status \in PreparePhase
  \/ job[j].stale /\ o = "retryable_failed" /\ job[j].status \in PublishPhase

(* What a thread knows of the status of its job at each label.             *)
LabelOK(t) ==
  LET s == job[thr[t].job].status IN
  /\ thr[t].pc \in PrepareLabels => s \in Preparing \cup Terminal
  /\ thr[t].pc \in PublishLabels \ {"tidy"} => s \in PublishPhase
  /\ thr[t].pc = "tidy" => s = "completed"
  /\ thr[t].pc \in {"cleanup", "settle"} => s \in Preparing \cup PublishPhase \cup Terminal
  /\ thr[t].pc = "repair_status" => t = Recovery /\ Repairable(thr[t].job, thr[t].outcome)

(* A stale job is in flight and has no thread but its repair.              *)
StaleOK(j) ==
  job[j].stale /\ job[j].status \notin Terminal =>
    /\ job[j].status \in PreparePhase \cup PublishPhase
    /\ \A t \in Threads : Works(t, j) => thr[t].pc = "repair_status"

PlanOK(a) ==
  /\ Repairable(a[1], a[2])
  /\ \A t \in Threads : ~Works(t, a[1])
  /\ \A b \in todo : a[1] = b[1] => a = b

SoloInv ==
  /\ OneEach
  /\ \A t \in Threads : thr[t].pc \notin Resting => LabelOK(t)
  /\ \A j \in Jobs : StaleOK(j)
  /\ \A a \in todo : PlanOK(a)

(* A status that is written comes with a fresh heartbeat.                  *)
LEMMA StaleIsOld ==
  ASSUME TypeInv, LockInv, NEW t \in Threads, ThreadStep(t), JobOf(t) \in Jobs
  PROVE  job'[JobOf(t)].stale => job[JobOf(t)].stale /\ job'[JobOf(t)].status = job[JobOf(t)].status
<1>. DEFINE Old == job'[JobOf(t)].stale => job[JobOf(t)].stale /\ job'[JobOf(t)].status = job[JobOf(t)].status
<1>. USE DEF TypeInv, TypeOK, JobRows
<1>1. ASSUME NEW s, SetStatus(JobOf(t), s) PROVE Old
  BY <1>1 DEF SetStatus
<1>2. ASSUME NEW s, NEW l, Enter(t, s, l) PROVE Old
  BY <1>1, <1>2 DEF Enter
<1>3. CASE Prepare(t)
  BY <1>1, <1>2, <1>3
  DEF Prepare, StartPrepare, Fetch, CheckOut, CreateWorktree, ApplyPatch, Offer
<1>4. CASE Publish(t)
  <2>1. CASE StartPublish(t) \/ EnterPushing(t) \/ EnterCreatingPr(t) \/ Complete(t)
    BY <1>2, <2>1 DEF StartPublish, EnterPushing, EnterCreatingPr, Complete
  <2>2. CASE Commit(t) \/ Compare(t) \/ Recheck(t) \/ Push(t) \/ ListPrs(t) \/ CreatePr(t)
    BY <2>2 DEF Commit, Compare, Recheck, Push, ListPrs, CreatePr
  <2>3. CASE RecordCommit(t) \/ RecordPr(t)  BY <2>3 DEF RecordCommit, RecordPr, JobOf
  <2>4. CASE Tidy(t)
    <3>1. PICK c : job' = [job EXCEPT ![JobOf(t)].cleanup = c]  BY <2>4 DEF Tidy
    <3>. QED  BY <3>1 DEF JobOf
  <2>. QED  BY <1>4, <2>1, <2>2, <2>3, <2>4 DEF Publish
<1>5. CASE Reconcile(t)
  BY <1>1, <1>2, <1>5
  DEF Reconcile, ReadRow, StartReconcile, Inspect, Rebuild, Recommit, JobOf
<1>6. CASE CallFails(t) \/ Cleanup(t) \/ Settle(t)
  BY <1>6 DEF CallFails, Cleanup, Settle, RecordFailure, JobOf
<1>. QED  BY <1>3, <1>4, <1>5, <1>6 DEF ThreadStep

(* A thread that moves in its own job, and knows its status afterwards,    *)
(* disturbs nobody.                                                        *)
LEMMA OwnJobKeepsSolo ==
  ASSUME TypeInv, SoloInv, NEW t \in Threads, NEW j \in Jobs, Works(t, j), OthersRun(t), todo' = todo,
         thr'[t].job = j \/ thr'[t].pc \in Resting,
         \A i \in Jobs \ {j} : job'[i] = job[i],
         thr'[t].pc \notin Resting => LabelOK(t)',
         job'[j].stale => job'[j].status \in Terminal
  PROVE  SoloInv'
<1>1. \A u \in Threads, i \in Jobs : Works(u, i)' => Works(u, i)
  BY DEF Works, OthersRun
<1>2. OneEach'  BY <1>1 DEF SoloInv, OneEach
<1>3. \A u \in Threads \ {t} : \A i \in Jobs : Works(u, i) => i # j  BY DEF SoloInv, OneEach
<1>4. ASSUME NEW u \in Threads, thr'[u].pc \notin Resting PROVE LabelOK(u)'
  <2>1. CASE u = t  BY <1>4, <2>1
  <2>2. CASE u # t
    <3>1. thr'[u] = thr[u]  BY <2>2 DEF OthersRun
    <3>2. thr[u].job \in Jobs /\ thr[u].job # j
      BY <1>3, <1>4, <2>2, <3>1 DEF TypeInv, ThreadsHaveJobs, Works
    <3>3. job'[thr[u].job] = job[thr[u].job]  BY <3>2
    <3>4. LabelOK(u)  BY <1>4, <3>1 DEF SoloInv
    <3>. QED  BY <3>1, <3>3, <3>4 DEF LabelOK, Repairable
  <2>. QED  BY <2>1, <2>2
<1>5. ASSUME NEW i \in Jobs PROVE StaleOK(i)'
  <2>1. CASE i = j  BY <2>1 DEF StaleOK
  <2>2. CASE i # j
    <3>1. job'[i] = job[i] /\ StaleOK(i)  BY <2>2 DEF SoloInv
    <3>2. \A u \in Threads : Works(u, i)' => Works(u, i) /\ thr'[u] = thr[u]
      BY <1>1, <2>2 DEF OthersRun, Works
    <3>. QED  BY <3>1, <3>2 DEF StaleOK
  <2>. QED  BY <2>1, <2>2
<1>6. ASSUME NEW a \in todo PROVE PlanOK(a)'
  <2>1. PlanOK(a) /\ a[1] \in Jobs  BY DEF SoloInv, TypeInv, TypeOK
  <2>2. a[1] # j  BY <2>1 DEF PlanOK
  <2>3. job'[a[1]] = job[a[1]]  BY <2>1, <2>2
  <2>. QED  BY <1>1, <2>1, <2>3 DEF PlanOK, Repairable
<1>. QED  BY <1>2, <1>4, <1>5, <1>6 DEF SoloInv

(* What a guarded transition of a live job leads to.                       *)
LEMMA EnterIsKnown ==
  ASSUME TypeInv, NEW t \in Threads, JobOf(t) \in Jobs, NEW s, NEW l, Enter(t, s, l)
  PROVE  \/ Live(JobOf(t)) /\ thr'[t].pc = l /\ thr'[t].job = thr[t].job /\ job'[thr[t].job].status = s
         \/ ~Live(JobOf(t)) /\ thr'[t].pc \in Resting
  BY EnterFields DEF Entered, Refused, JobOf, Resting

(* After a step of the prepare phase its thread knows the status.          *)
LEMMA PrepareIsKnown ==
  ASSUME TypeInv, LockInv, NEW t \in Threads, Prepare(t), thr'[t].pc \notin Resting, LabelOK(t)
  PROVE  LabelOK(t)'
<1>. JobOf(t) \in Jobs /\ JobOf(t) = thr[t].job  BY PrepareIsLocal DEF LocalStep, JobOf
<1>1. thr[t].pc \in PrepareLabels
  BY DEF Prepare, StartPrepare, Fetch, CheckOut, CreateWorktree, ApplyPatch, Offer, At, PrepareLabels, PrepareCalls
<1>2. job[thr[t].job].status \in Preparing \cup Terminal  BY <1>1 DEF LabelOK
<1>3. CASE \E s \in PreparePhase, l \in PrepareCalls : Enter(t, s, l)
  <2>1. PICK s \in PreparePhase, l \in PrepareCalls : Enter(t, s, l)  BY <1>3
  <2>2. thr'[t].pc = l /\ thr'[t].job = thr[t].job /\ job'[thr[t].job].status = s  BY <2>1, EnterIsKnown
  <2>. QED  BY <2>2 DEF LabelOK, Preparing, PrepareCalls, PublishLabels
<1>4. CASE Fail(t, "failed") /\ job' = job
  BY <1>2, <1>4, FailFields DEF LabelOK, PrepareLabels, PrepareCalls, PublishLabels
<1>5. CASE Offer(t)  BY <1>5, LeaveFields DEF Offer, Resting
<1>. QED
  BY <1>3, <1>4, <1>5
  DEF Prepare, StartPrepare, Fetch, CheckOut, CreateWorktree, ApplyPatch, PreparePhase, PrepareCalls

(* The same of the publish and the reconcile phase.                        *)
LEMMA PublishIsKnown ==
  ASSUME TypeInv, LockInv, NEW t \in Threads, Publish(t) \/ Reconcile(t), thr'[t].pc \notin Resting, LabelOK(t)
  PROVE  LabelOK(t)'
<1>. JobOf(t) \in Jobs /\ JobOf(t) = thr[t].job
  BY PublishIsLocal, ReconcileIsLocal DEF LocalStep, JobOf
<1>1. CASE Tidy(t)  BY <1>1, LeaveFields DEF Tidy, Resting
<1>2. CASE ~Tidy(t)
  <2>1. thr[t].pc \in PublishLabels \ {"tidy"}
    BY <1>2 DEF Publish, StartPublish, Commit, RecordCommit, EnterPushing, Compare, Recheck, Push,
        EnterCreatingPr, ListPrs, CreatePr, RecordPr, Complete, Reconcile, ReadRow,
        StartReconcile, Inspect, Rebuild, Recommit, At, PublishLabels
  <2>2. job[thr[t].job].status \in PublishPhase  BY <2>1 DEF LabelOK
  <2>3. CASE \E s \in PublishPhase, l \in PublishLabels \ {"tidy"} : Enter(t, s, l)
    <3>1. PICK s \in PublishPhase, l \in PublishLabels \ {"tidy"} : Enter(t, s, l)  BY <2>3
    <3>2. thr'[t].pc = l /\ thr'[t].job = thr[t].job /\ job'[thr[t].job].status = s  BY <3>1, EnterIsKnown
    <3>. QED  BY <3>2 DEF LabelOK, PublishLabels, PrepareLabels, PrepareCalls
  <2>4. CASE (\E o : Fail(t, o)) /\ job'[thr[t].job].status = job[thr[t].job].status
    BY <2>2, <2>4, FailFields DEF LabelOK, PrepareLabels, PrepareCalls, PublishLabels
  <2>5. CASE /\ thr'[t].pc \in PublishLabels \ {"tidy"} /\ thr'[t].job = thr[t].job
             /\ job'[thr[t].job].status = job[thr[t].job].status
    BY <2>2, <2>5 DEF LabelOK, PrepareLabels, PrepareCalls, PublishLabels
  <2>6. CASE Publish(t)
    <3>1. CASE StartPublish(t) \/ EnterPushing(t) \/ EnterCreatingPr(t)
      BY <2>3, <2>4, <3>1 DEF StartPublish, EnterPushing, EnterCreatingPr, PublishPhase, PublishLabels
    <3>2. CASE Complete(t)
      <4>1. thr'[t].pc = "tidy" /\ thr'[t].job = thr[t].job /\ job'[thr[t].job].status = "completed"
        BY <3>2, EnterIsKnown DEF Complete
      <4>. QED  BY <4>1 DEF LabelOK, PrepareLabels, PrepareCalls, PublishLabels
    <3>3. CASE Commit(t)
      <4>1. job' = job  BY <3>3 DEF Commit
      <4>2. (\E o : Fail(t, o)) \/ (thr'[t].pc = "record" /\ thr'[t].job = thr[t].job)
        BY <3>3 DEF Commit, TypeInv, TypeOK, ThreadStates
      <4>. QED  BY <2>4, <2>5, <4>1, <4>2 DEF PublishLabels
    <3>4. CASE Compare(t) \/ Recheck(t) \/ Push(t) \/ ListPrs(t) \/ CreatePr(t)
      <4>1. job' = job  BY <3>4 DEF Compare, Recheck, Push, ListPrs, CreatePr
      <4>2. (\E o : Fail(t, o)) \/ (\E l \in PublishLabels \ {"tidy"} : Goto(t, l))
        BY <3>4 DEF Compare, Recheck, Push, ListPrs, CreatePr, PublishLabels
      <4>. QED  BY <2>4, <2>5, <4>1, <4>2, GotoFields
    <3>5. CASE RecordCommit(t) \/ RecordPr(t)
      <4>1. job'[thr[t].job].status = job[thr[t].job].status
        BY <3>5 DEF RecordCommit, RecordPr, TypeInv, TypeOK, JobRows, JobOf
      <4>2. \E l \in PublishLabels \ {"tidy"} : Goto(t, l)  BY <3>5 DEF RecordCommit, RecordPr, PublishLabels
      <4>. QED  BY <2>5, <4>1, <4>2, GotoFields
    <3>. QED  BY <1>2, <2>6, <3>1, <3>2, <3>3, <3>4, <3>5 DEF Publish
  <2>7. CASE Reconcile(t)
    <3>1. CASE ReadRow(t)
      BY <2>5, <3>1 DEF ReadRow, TypeInv, TypeOK, ThreadStates, PublishLabels
    <3>2. CASE StartReconcile(t)
      <4>1. lease = "free"  BY <3>2, LeaveFields DEF StartReconcile, Resting
      <4>. QED  BY <2>5, <3>2, <4>1, GotoFields DEF StartReconcile, PublishLabels
    <3>3. CASE Inspect(t)
      <4>1. \/ (\E o : Fail(t, o)) /\ job' = job
            \/ Goto(t, "rebuild") /\ job' = job
            \/ Enter(t, "creating_pr", "list_prs")
        BY <3>3 DEF Inspect
      <4>. QED  BY <2>3, <2>4, <2>5, <4>1, GotoFields DEF PublishPhase, PublishLabels
    <3>4. CASE Rebuild(t)
      <4>1. job'[thr[t].job].status = job[thr[t].job].status
        BY <3>4 DEF Rebuild, TypeInv, TypeOK, JobRows, JobOf
      <4>2. (\E o : Fail(t, o)) \/ Goto(t, "recommit")  BY <3>4 DEF Rebuild
      <4>. QED  BY <2>4, <2>5, <4>1, <4>2, GotoFields DEF PublishLabels
    <3>5. CASE Recommit(t)
      BY <2>3, <3>5 DEF Recommit, PublishPhase, PublishLabels
    <3>. QED  BY <2>7, <3>1, <3>2, <3>3, <3>4, <3>5 DEF Reconcile
  <2>. QED  BY <2>6, <2>7
<1>. QED  BY <1>1, <1>2

(* The same of a failure.                                                  *)
LEMMA FailureIsKnown ==
  ASSUME TypeInv, LockInv, NEW t \in Threads, CallFails(t) \/ Cleanup(t) \/ Settle(t),
         thr'[t].pc \notin Resting, LabelOK(t)
  PROVE  LabelOK(t)'
<1>. JobOf(t) \in Jobs /\ JobOf(t) = thr[t].job  BY FailureIsLocal DEF LocalStep, JobOf
<1>1. ~Settle(t)  BY LeaveFields DEF Settle, Resting
<1>2. job[thr[t].job].status \in Preparing \cup PublishPhase \cup Terminal /\ job' = job
  BY <1>1 DEF CallFails, Cleanup, At, LabelOK, PrepareLabels, PrepareCalls, PublishLabels, PublishCalls
<1>3. thr'[t].pc \in {"cleanup", "settle"} /\ thr'[t].job = thr[t].job
  BY <1>1, FailFields DEF CallFails, Cleanup, TypeInv, TypeOK, ThreadStates
<1>. QED  BY <1>2, <1>3 DEF LabelOK, PrepareLabels, PrepareCalls, PublishLabels

(* So every step of a thread keeps the invariant.                          *)
LEMMA ThreadKeepsSolo ==
  ASSUME TypeInv, LockInv, SoloInv, NEW t \in Threads, ThreadStep(t)
  PROVE  SoloInv'
<1>1. LocalStep(t) /\ thr[t].pc \notin Resting  BY ThreadStepIsLocal, StepIsBusy
<1>. JobOf(t) \in Jobs /\ JobOf(t) = thr[t].job  BY <1>1 DEF LocalStep, JobOf
<1>2. Works(t, JobOf(t)) /\ LabelOK(t)  BY <1>1 DEF Works, SoloInv
<1>3. thr'[t].pc \notin Resting => LabelOK(t)'
  BY <1>2, PrepareIsKnown, PublishIsKnown, FailureIsKnown DEF ThreadStep
<1>4. thr[t].pc # "repair_status"
  BY DEF ThreadStep, Prepare, StartPrepare, Fetch, CheckOut, CreateWorktree, ApplyPatch, Offer,
        Publish, StartPublish, Commit, RecordCommit, EnterPushing, Compare, Recheck, Push,
        EnterCreatingPr, ListPrs, CreatePr, RecordPr, Complete, Tidy, Reconcile, ReadRow,
        StartReconcile, Inspect, Rebuild, Recommit, CallFails, PrepareCalls, PublishCalls,
        Cleanup, Settle, At
<1>5. job[JobOf(t)].stale => job[JobOf(t)].status \in Terminal
  BY <1>2, <1>4 DEF SoloInv, StaleOK
<1>6. job'[JobOf(t)].stale => job'[JobOf(t)].status \in Terminal  BY <1>5, StaleIsOld
<1>7. /\ OthersRun(t) /\ todo' = todo
      /\ thr'[t].job = JobOf(t) \/ thr'[t].pc \in Resting
      /\ \A i \in Jobs \ {JobOf(t)} : job'[i] = job[i]
  BY <1>1 DEF LocalStep, ThreadLocal, RowLocal, OthersKeep
<1>. QED  BY <1>2, <1>3, <1>6, <1>7, OwnJobKeepsSolo

(* So does a step that starts no thread, plans no repair and changes no    *)
(* row but to cancel a job that does not publish.                          *)
LEMMA QuietKeepsSolo ==
  ASSUME TypeInv, TypeInv', SoloInv, todo' \subseteq todo,
         \A u \in Threads : thr'[u] = thr[u] \/ thr'[u].pc \in Resting,
         \A i \in Jobs : \/ job'[i].status = job[i].status /\ job'[i].stale = job[i].stale
                         \/ job[i].status \in DisconnectCancels /\ job'[i].status = "cancelled"
  PROVE  SoloInv'
<1>1. \A u \in Threads : \A i : Works(u, i)' => Works(u, i) /\ thr'[u] = thr[u]  BY DEF Works
<1>2. OneEach'  BY <1>1 DEF SoloInv, OneEach
<1>3. ASSUME NEW i \in Jobs, NEW o, Repairable(i, o) PROVE Repairable(i, o)'
  BY <1>3 DEF Repairable, Terminal
<1>4. ASSUME NEW u \in Threads, thr'[u].pc \notin Resting PROVE LabelOK(u)'
  <2>1. thr'[u] = thr[u] /\ thr[u].job \in Jobs  BY <1>4 DEF TypeInv, ThreadsHaveJobs
  <2>2. LabelOK(u)  BY <1>4, <2>1 DEF SoloInv
  <2>3. "cancelled" \in Terminal /\ DisconnectCancels \cap (PublishPhase \cup {"completed"}) = {}
    BY DEF Terminal, DisconnectCancels, PreparePhase, CancellableStatuses, RetryableStatuses, PublishPhase
  <2>. QED  BY <1>3, <2>1, <2>2, <2>3 DEF LabelOK
<1>5. ASSUME NEW i \in Jobs PROVE StaleOK(i)'
  <2>1. CASE job'[i].status = job[i].status /\ job'[i].stale = job[i].stale
    <3>1. StaleOK(i)  BY DEF SoloInv
    <3>. QED  BY <1>1, <2>1, <3>1 DEF StaleOK
  <2>2. CASE job'[i].status = "cancelled"  BY <2>2 DEF StaleOK, Terminal
  <2>. QED  BY <2>1, <2>2
<1>6. ASSUME NEW a \in todo' PROVE PlanOK(a)'
  <2>1. PlanOK(a) /\ a[1] \in Jobs  BY DEF SoloInv, TypeInv, TypeOK
  <2>2. Repairable(a[1], a[2])'  BY <1>3, <2>1 DEF PlanOK
  <2>3. \A u \in Threads : ~Works(u, a[1])'  BY <1>1, <2>1 DEF PlanOK
  <2>4. \A b \in todo' : a[1] = b[1] => a = b  BY <2>1 DEF PlanOK
  <2>. QED  BY <2>2, <2>3, <2>4 DEF PlanOK
<1>. QED  BY <1>2, <1>4, <1>5, <1>6 DEF SoloInv

(* So does a look at the stale jobs.                                       *)
LEMMA PlanKeepsSolo ==
  ASSUME TypeInv, TypeInv', SoloInv, job' = job, todo' = StaleRepairs,
         OthersRun(Recovery), thr'[Recovery].pc \in Resting
  PROVE  SoloInv'
<1>. Recovery \in Threads  BY NamesAreApart
<1>1. \A u \in Threads : \A i : Works(u, i)' => Works(u, i) /\ thr'[u] = thr[u] /\ u # Recovery
  BY DEF Works, OthersRun
<1>2. \A u \in Threads \ {Recovery} : thr[u].pc # "repair_status"  BY DEF SoloInv, LabelOK, Resting
<1>3. OneEach'  BY <1>1 DEF SoloInv, OneEach
<1>4. ASSUME NEW u \in Threads, thr'[u].pc \notin Resting PROVE LabelOK(u)'
  <2>1. thr'[u] = thr[u] /\ LabelOK(u)  BY <1>4 DEF OthersRun, SoloInv
  <2>. QED  BY <2>1 DEF LabelOK, Repairable
<1>5. ASSUME NEW i \in Jobs PROVE StaleOK(i)'
  <2>1. StaleOK(i)  BY DEF SoloInv
  <2>. QED  BY <1>1, <2>1 DEF StaleOK
<1>6. ASSUME NEW a \in StaleRepairs PROVE PlanOK(a)'
  <2>1. /\ a[1] \in Jobs /\ job[a[1]].stale
        /\ \/ a[2] = "failed" /\ job[a[1]].status \in PreparePhase
           \/ a[2] = "retryable_failed" /\ job[a[1]].status \in PublishPhase
    BY DEF StaleRepairs
  <2>2. Repairable(a[1], a[2])'  BY <2>1 DEF Repairable
  <2>3. job[a[1]].status \notin Terminal  BY <2>1 DEF PreparePhase, PublishPhase, Terminal
  <2>4. \A u \in Threads : ~Works(u, a[1])'
    BY <1>1, <1>2, <2>1, <2>3 DEF SoloInv, StaleOK
  <2>5. \A b \in StaleRepairs : a[1] = b[1] => a = b
    BY DEF StaleRepairs, PreparePhase, PublishPhase
  <2>. QED  BY <2>2, <2>4, <2>5 DEF PlanOK
<1>. QED  BY <1>3, <1>4, <1>5, <1>6 DEF SoloInv

(* Nobody works on a job that waits for a request.                         *)
Waiting == {"none", "awaiting_approval"} \cup RetryableStatuses
LEMMA NobodyWorks ==
  ASSUME TypeInv, SoloInv, NEW j \in Jobs, job[j].status \in Waiting
  PROVE  (\A u \in Threads : ~Works(u, j)) /\ \A a \in todo : a[1] # j
<1>1. job[j].status \notin Preparing \cup PublishPhase \cup Terminal /\ PreparePhase \subseteq Preparing /\ "completed" \in Terminal
  BY DEF Waiting, RetryableStatuses, Preparing, PreparePhase, PublishPhase, Terminal
<1>2. \A o : ~Repairable(j, o)  BY <1>1 DEF Repairable
<1>3. ASSUME NEW u \in Threads, Works(u, j) PROVE FALSE
  <2>1. LabelOK(u) /\ thr[u].job = j /\ thr[u].pc \in Labels \ Resting
    BY <1>3 DEF Works, SoloInv, TypeInv, TypeOK, ThreadStates
  <2>2. thr[u].pc \in PrepareLabels \cup PublishLabels \cup FailureLabels
    BY <2>1 DEF Labels, Resting, PrepareLabels, PublishLabels, FailureLabels
  <2>. QED  BY <1>1, <1>2, <2>1, <2>2 DEF LabelOK, FailureLabels
<1>. QED  BY <1>2, <1>3 DEF SoloInv, PlanOK

(* So a request, or an automatic retry, starts the one thread of its job.  *)
LEMMA StartKeepsSolo ==
  ASSUME TypeInv, TypeInv', SoloInv, NEW j \in Jobs, job[j].status \in Waiting,
         NEW w \in Threads, thr[w].pc \in Resting, OthersRun(w), thr'[w].job = j, todo' = todo,
         \A i \in Jobs \ {j} : job'[i] = job[i],
         ~job'[j].stale, LabelOK(w)'
  PROVE  SoloInv'
<1>1. (\A u \in Threads : ~Works(u, j)) /\ \A a \in todo : a[1] # j  BY NobodyWorks
<1>2. \A u \in Threads \ {w} : thr'[u] = thr[u] /\ \A i : Works(u, i)' <=> Works(u, i)
  BY DEF OthersRun, Works
<1>3. \A i : Works(w, i)' => i = j  BY DEF Works
<1>4. OneEach'  BY <1>1, <1>2, <1>3 DEF SoloInv, OneEach
<1>5. ASSUME NEW u \in Threads, thr'[u].pc \notin Resting PROVE LabelOK(u)'
  <2>1. CASE u # w
    <3>1. thr'[u] = thr[u] /\ LabelOK(u) /\ thr[u].job \in Jobs
      BY <1>2, <1>5, <2>1 DEF SoloInv, TypeInv, ThreadsHaveJobs
    <3>2. thr[u].job # j  BY <1>1, <1>5, <3>1 DEF Works
    <3>3. job'[thr[u].job] = job[thr[u].job]  BY <3>1, <3>2
    <3>. QED  BY <3>1, <3>3 DEF LabelOK, Repairable
  <2>. QED  BY <2>1
<1>6. ASSUME NEW i \in Jobs PROVE StaleOK(i)'
  <2>1. CASE i = j  BY <2>1 DEF StaleOK
  <2>2. CASE i # j
    <3>1. StaleOK(i) /\ job'[i] = job[i]  BY <2>2 DEF SoloInv
    <3>. QED  BY <1>2, <1>3, <2>2, <3>1 DEF StaleOK
  <2>. QED  BY <2>1, <2>2
<1>7. ASSUME NEW a \in todo PROVE PlanOK(a)'
  <2>1. PlanOK(a) /\ a[1] \in Jobs /\ a[1] # j  BY <1>1 DEF SoloInv, TypeInv, TypeOK
  <2>2. job'[a[1]] = job[a[1]]  BY <2>1
  <2>3. \A u \in Threads : ~Works(u, a[1])'  BY <1>2, <1>3, <2>1 DEF PlanOK
  <2>. QED  BY <2>1, <2>2, <2>3 DEF PlanOK, Repairable
<1>. QED  BY <1>4, <1>5, <1>6, <1>7 DEF SoloInv

(* The recovery worker keeps it.                                           *)
LEMMA RecoveryKeepsSolo ==
  ASSUME TypeInv, TypeInv', SoloInv, RecoveryStep
  PROVE  SoloInv'
<1>. Recovery \in Threads  BY NamesAreApart
<1>1. CASE Tick
  BY <1>1, GotoFields, PlanKeepsSolo DEF Tick, Resting
<1>2. CASE RepairDone \/ AutoRetryDone
  BY <1>2, GotoFields, QuietKeepsSolo DEF RepairDone, AutoRetryDone, OthersRun, Resting, process
<1>3. CASE RepairWorktree
  <2>1. PICK item \in todo :
          /\ todo' = todo \ {item}
          /\ thr'[Recovery].pc = "repair_status" /\ thr'[Recovery].job = item[1]
          /\ thr'[Recovery].outcome = item[2]
    BY <1>3 DEF RepairWorktree, TypeInv, TypeOK
  <2>2. job' = job /\ OthersRun(Recovery) /\ thr[Recovery].pc \in Resting
    BY <1>3 DEF RepairWorktree, OthersRun, TypeInv, TypeOK, At, Resting
  <2>3. PlanOK(item) /\ item[1] \in Jobs  BY DEF SoloInv, TypeInv, TypeOK
  <2>4. \A u \in Threads \ {Recovery} : thr'[u] = thr[u] /\ \A i : Works(u, i)' <=> Works(u, i)
    BY <2>2 DEF OthersRun, Works
  <2>5. \A i : Works(Recovery, i)' => i = item[1]  BY <2>1 DEF Works
  <2>6. OneEach'  BY <2>3, <2>4, <2>5 DEF SoloInv, OneEach, PlanOK
  <2>7. ASSUME NEW u \in Threads, thr'[u].pc \notin Resting PROVE LabelOK(u)'
    <3>1. CASE u = Recovery
      BY <2>1, <2>2, <2>3, <3>1
      DEF LabelOK, PlanOK, Repairable, PrepareLabels, PrepareCalls, PublishLabels
    <3>2. CASE u # Recovery
      <4>1. thr'[u] = thr[u] /\ LabelOK(u)  BY <2>4, <2>7, <3>2 DEF SoloInv
      <4>. QED  BY <2>2, <4>1 DEF LabelOK, Repairable
    <3>. QED  BY <3>1, <3>2
  <2>8. ASSUME NEW i \in Jobs PROVE StaleOK(i)'
    <3>1. StaleOK(i)  BY DEF SoloInv
    <3>. QED  BY <2>1, <2>2, <2>4, <3>1 DEF StaleOK
  <2>9. ASSUME NEW a \in todo' PROVE PlanOK(a)'
    <3>1. PlanOK(a) /\ a \in todo /\ a # item  BY <2>1 DEF SoloInv
    <3>2. a[1] # item[1]  BY <3>1 DEF PlanOK
    <3>3. \A u \in Threads : ~Works(u, a[1])'  BY <2>4, <2>5, <3>1, <3>2 DEF PlanOK
    <3>. QED  BY <2>1, <2>2, <3>1, <3>3 DEF PlanOK, Repairable
  <2>. QED  BY <2>6, <2>7, <2>8, <2>9 DEF SoloInv
<1>4. CASE RepairStatus
  <2>. DEFINE j == JobOf(Recovery)
  <2>1. thr[Recovery].pc = "repair_status"  BY <1>4 DEF RepairStatus, At
  <2>2. j \in Jobs /\ Works(Recovery, j) /\ LabelOK(Recovery)
    BY <2>1 DEF TypeInv, ThreadsHaveJobs, Works, SoloInv, Resting, JobOf
  <2>3. thr'[Recovery].pc \in Resting /\ OthersRun(Recovery) /\ todo' = todo
    BY <1>4 DEF RepairStatus, OthersRun, TypeInv, TypeOK, IdleThread, Resting, process
  <2>4. \A i \in Jobs \ {j} : job'[i] = job[i]
    BY <1>4, <2>2, RecordFields DEF RepairStatus
  <2>5. job'[j].stale => job'[j].status \in Terminal
    <3>1. CASE Live(j)
      BY <1>4, <2>2, <3>1 DEF RepairStatus, RecordFailure, TypeInv, TypeOK, JobRows
    <3>2. CASE ~Live(j)
      BY <1>4, <3>2 DEF RepairStatus, RecordFailure, Live
    <3>. QED  BY <3>1, <3>2
  <2>. HIDE DEF j
  <2>. QED  BY <2>2, <2>3, <2>4, <2>5, OwnJobKeepsSolo
<1>5. ASSUME NEW j \in Jobs, AutoRetry(j) PROVE SoloInv'
  <2>1. thr[Recovery].pc \in Resting /\ job[j].status \in Waiting
    BY <1>5 DEF AutoRetry, AutoRetryCandidate, AutoRetryable, At, Resting, Waiting, RetryableStatuses
  <2>2. /\ OthersRun(Recovery) /\ thr'[Recovery].job = j /\ thr'[Recovery].pc = "read_row"
        /\ todo' = todo
    BY <1>5 DEF AutoRetry, OthersRun, TypeInv, TypeOK, IdleThread, process
  <2>3. /\ job'[j].status = "reconciling" /\ ~job'[j].stale
        /\ \A i \in Jobs \ {j} : job'[i] = job[i]
    BY <1>5 DEF AutoRetry, StartRetry, TypeInv, TypeOK, JobRows
  <2>4. LabelOK(Recovery)'
    BY <2>2, <2>3 DEF LabelOK, PrepareLabels, PrepareCalls, PublishLabels, PublishPhase
  <2>. QED  BY <2>1, <2>2, <2>3, <2>4, StartKeepsSolo
<1>. QED  BY <1>1, <1>2, <1>3, <1>4, <1>5 DEF RecoveryStep

(* The handlers of the connection keep it.                                 *)
LEMMA ConnectionKeepsSolo ==
  ASSUME TypeInv, TypeInv', SoloInv, Connection
  PROVE  SoloInv'
<1>1. CASE Disconnect
  <2>1. \A i \in Jobs : job'[i] = job[i] \/ (job[i].status \in DisconnectCancels /\ job'[i].status = "cancelled")
    BY <1>1 DEF Disconnect, TypeInv, TypeOK, JobRows
  <2>. QED  BY <1>1, <2>1, QuietKeepsSolo DEF Disconnect
<1>2. CASE VerifyBegin \/ VerifyEnd \/ SyncBegin \/ SyncEnd
  BY <1>2, QuietKeepsSolo DEF VerifyBegin, VerifyEnd, SyncBegin, SyncEnd
<1>. QED  BY <1>1, <1>2 DEF Connection

(* So do requests.                                                         *)
LEMMA RequestsKeepSolo ==
  ASSUME TypeInv, TypeInv', SoloInv, Requests
  PROVE  SoloInv'
<1>. PICK j \in Jobs : Create(j) \/ Approve(j) \/ Retry(j) \/ Cancel(j) \/ RemoveWorktree(j)
  BY DEF Requests
<1>1. CASE Create(j) \/ Approve(j) \/ Retry(j)
  <2>1. job[j].status \in Waiting
    BY <1>1 DEF Create, Approve, Retry, Waiting
  <2>2. PICK l : /\ Spawn(j, l)
                 /\ \/ l = "prepare" /\ job'[j].status = "pending"
                    \/ l \in {"publish", "read_row"} /\ job'[j].status \in PublishPhase
    <3>1. CASE Create(j)  BY <3>1, StatusFields DEF Create
    <3>2. CASE Approve(j)  BY <3>2 DEF Approve, PublishPhase, TypeInv, TypeOK, JobRows
    <3>3. CASE Retry(j)  BY <3>3 DEF Retry, StartRetry, PublishPhase, TypeInv, TypeOK, JobRows
    <3>. QED  BY <1>1, <3>1, <3>2, <3>3
  <2>3. PICK w \in Workers : thr[w].pc = "idle" /\ OthersRun(w) /\ thr'[w].pc = l /\ thr'[w].job = j
    BY <2>2, SpawnFields
  <2>4. ~job'[j].stale /\ todo' = todo /\ \A i \in Jobs \ {j} : job'[i] = job[i]
    BY <1>1 DEF Create, Approve, Retry, StartRetry, SetStatus, process, TypeInv, TypeOK, JobRows
  <2>5. LabelOK(w)'
    BY <2>2, <2>3 DEF LabelOK, PrepareLabels, PrepareCalls, PublishLabels, Preparing
  <2>6. w \in Threads /\ thr[w].pc \in Resting  BY <2>3, NamesAreApart DEF Resting
  <2>. QED  BY <2>1, <2>3, <2>4, <2>5, <2>6, StartKeepsSolo
<1>2. CASE Cancel(j)
  <2>1. \A i \in Jobs : job'[i] = job[i] \/ (job[i].status \in DisconnectCancels /\ job'[i].status = "cancelled")
    BY <1>2 DEF Cancel, DisconnectCancels, TypeInv, TypeOK, JobRows
  <2>. QED  BY <1>2, <2>1, QuietKeepsSolo DEF Cancel
<1>3. CASE RemoveWorktree(j)
  <2>1. PICK c : job' = [job EXCEPT ![j].cleanup = c]  BY <1>3 DEF RemoveWorktree
  <2>2. \A i \in Jobs : job'[i].status = job[i].status /\ job'[i].stale = job[i].stale
    BY <2>1 DEF TypeInv, TypeOK, JobRows
  <2>. QED  BY <1>3, <2>2, QuietKeepsSolo DEF RemoveWorktree
<1>. QED  BY <1>1, <1>2, <1>3

(* A heartbeat grows old only where no thread is at work.                  *)
LEMMA AgingKeepsSolo ==
  ASSUME ~Stalls, TypeInv, SoloInv, NEW j \in Jobs, HeartbeatAges(j)
  PROVE  SoloInv'
<1>1. thr' = thr /\ todo' = todo /\ \A u \in Threads : ~Works(u, j)
  BY DEF HeartbeatAges, process, Busy, Works
<1>2. /\ job[j].status \in PreparePhase \cup PublishPhase
      /\ job'[j].status = job[j].status /\ job'[j].stale
      /\ \A i \in Jobs \ {j} : job'[i] = job[i]
  BY DEF HeartbeatAges, TypeInv, TypeOK, JobRows
<1>3. \A u \in Threads, i \in Jobs : Works(u, i)' <=> Works(u, i)  BY <1>1 DEF Works
<1>4. OneEach'  BY <1>3 DEF SoloInv, OneEach
<1>5. ASSUME NEW i \in Jobs, NEW o, Repairable(i, o) PROVE Repairable(i, o)'
  BY <1>2, <1>5 DEF Repairable
<1>6. ASSUME NEW u \in Threads, thr[u].pc \notin Resting PROVE LabelOK(u)'
  <2>1. thr[u].job \in Jobs /\ LabelOK(u)  BY <1>6 DEF SoloInv, TypeInv, ThreadsHaveJobs
  <2>2. job'[thr[u].job].status = job[thr[u].job].status  BY <1>2, <2>1
  <2>. QED  BY <1>1, <1>5, <2>1, <2>2 DEF LabelOK
<1>7. ASSUME NEW i \in Jobs PROVE StaleOK(i)'
  <2>1. CASE i = j  BY <1>1, <1>2, <1>3, <2>1 DEF StaleOK
  <2>2. CASE i # j
    <3>1. StaleOK(i) /\ job'[i] = job[i]  BY <1>2, <2>2 DEF SoloInv
    <3>. QED  BY <1>1, <1>3, <3>1 DEF StaleOK
  <2>. QED  BY <2>1, <2>2
<1>8. ASSUME NEW a \in todo PROVE PlanOK(a)'
  <2>1. PlanOK(a) /\ a[1] \in Jobs  BY DEF SoloInv, TypeInv, TypeOK
  <2>. QED  BY <1>1, <1>3, <1>5, <2>1 DEF PlanOK
<1>. QED  BY <1>1, <1>4, <1>6, <1>7, <1>8 DEF SoloInv

(* So does the rest of the environment.                                    *)
LEMMA EnvironmentKeepsSolo ==
  ASSUME ~Stalls, TypeInv, TypeInv', SoloInv, Environment
  PROVE  SoloInv'
<1>1. CASE Crash \/ CrashInDisconnect
  BY <1>1, QuietKeepsSolo DEF Crash, CrashInDisconnect, LoseProcess, IdleThread, Resting
<1>2. CASE Restart
  BY <1>2, NamesAreApart, GotoFields, PlanKeepsSolo DEF Restart, Resting
<1>3. CASE BaseMoves \/ LeaseExpires \/ \E j \in Jobs : ForeignPush(j) \/ ClosePr(j)
  BY <1>3, QuietKeepsSolo DEF BaseMoves, LeaseExpires, ForeignPush, ClosePr, process
<1>. QED  BY <1>1, <1>2, <1>3, AgingKeepsSolo DEF Environment

(* Every step keeps it.                                                    *)
LEMMA SoloStep == ~Stalls /\ TypeInv /\ LockInv /\ SoloInv /\ [Next]_vars => SoloInv'
<1>. SUFFICES ASSUME ~Stalls, TypeInv, LockInv, SoloInv, [Next]_vars PROVE SoloInv'
  OBVIOUS
<1>1. TypeInv'  BY TypeStep
<1>2. CASE UNCHANGED vars  BY <1>1, <1>2, QuietKeepsSolo DEF vars
<1>. QED
  BY <1>1, <1>2, ThreadKeepsSolo, RecoveryKeepsSolo, ConnectionKeepsSolo, RequestsKeepSolo,
     EnvironmentKeepsSolo DEF Next

(* Initially there is no thread and no repair.                             *)
LEMMA SoloInit == Init => SoloInv
  BY DEF Init, IdleThread, SoloInv, OneEach, Works, StaleOK, Resting

-----------------------------------------------------------------------------
(* A job that needs a human leaves that state only by a request.           *)

AskedFor(j) ==
  job[j].status = "manual_intervention_required" /\ job'[j].status # job[j].status
    => Retry(j) \/ Cancel(j) \/ Disconnect

(* Neither a thread nor the recovery worker has anything to do with it.    *)
LEMMA ManualStep ==
  ASSUME TypeInv, LockInv, SoloInv, [Next]_vars, NEW j \in Jobs
  PROVE  AskedFor(j)
<1>. SUFFICES ASSUME job[j].status = "manual_intervention_required", job'[j].status # job[j].status
              PROVE  Retry(j) \/ Cancel(j) \/ Disconnect
  BY DEF AskedFor
<1>1. \A u \in Threads : ~Works(u, j)  BY NobodyWorks DEF Waiting, RetryableStatuses
<1>2. ASSUME NEW t \in Threads, ThreadStep(t) PROVE FALSE
  <2>1. LocalStep(t) /\ thr[t].pc \notin Resting  BY <1>2, ThreadStepIsLocal, StepIsBusy
  <2>2. JobOf(t) # j  BY <1>1, <2>1 DEF Works, JobOf
  <2>. QED  BY <2>1, <2>2 DEF LocalStep, RowLocal, OthersKeep
<1>3. ~RecoveryStep
  <2>1. ~(Tick \/ RepairWorktree \/ RepairDone \/ AutoRetryDone)
    BY DEF Tick, RepairWorktree, RepairDone, AutoRetryDone
  <2>2. ASSUME RepairStatus PROVE FALSE
    <3>1. Recovery \in Threads /\ thr[Recovery].pc = "repair_status"
      BY <2>2, NamesAreApart DEF RepairStatus, At
    <3>2. JobOf(Recovery) \in Jobs /\ JobOf(Recovery) # j
      BY <1>1, <3>1 DEF Works, JobOf, Resting, TypeInv, ThreadsHaveJobs
    <3>. QED  BY <2>2, <3>1, <3>2, RecordFields DEF RepairStatus
  <2>3. ASSUME NEW i \in Jobs, AutoRetry(i) PROVE FALSE
    BY <2>3 DEF AutoRetry, AutoRetryCandidate, AutoRetryable, StartRetry, TypeInv, TypeOK
  <2>. QED  BY <2>1, <2>2, <2>3 DEF RecoveryStep
<1>4. Connection => Disconnect
  BY DEF Connection, VerifyBegin, VerifyEnd, SyncBegin, SyncEnd
<1>5. Requests => Retry(j) \/ Cancel(j)
  <2>. SUFFICES ASSUME NEW i \in Jobs, Create(i) \/ Approve(i) \/ Retry(i) \/ Cancel(i) \/ RemoveWorktree(i)
                PROVE  Retry(j) \/ Cancel(j)
    BY DEF Requests
  <2>1. ~Create(i)  BY DEF Create, SetStatus, TypeInv, TypeOK, JobRows
  <2>2. ~Approve(i)  BY DEF Approve, TypeInv, TypeOK, JobRows
  <2>3. Retry(i) => i = j  BY DEF Retry, StartRetry, TypeInv, TypeOK, JobRows
  <2>4. Cancel(i) => i = j  BY DEF Cancel, TypeInv, TypeOK, JobRows
  <2>5. ASSUME RemoveWorktree(i) PROVE FALSE
    <3>1. PICK c : job' = [job EXCEPT ![i].cleanup = c]  BY <2>5 DEF RemoveWorktree
    <3>. QED  BY <3>1 DEF TypeInv, TypeOK, JobRows
  <2>. QED  BY <2>1, <2>2, <2>3, <2>4, <2>5
<1>6. ~Environment
  BY DEF Environment, Crash, CrashInDisconnect, Restart, BaseMoves, LeaseExpires, ForeignPush, ClosePr,
         HeartbeatAges, TypeInv, TypeOK, JobRows
<1>. QED  BY <1>2, <1>3, <1>4, <1>5, <1>6 DEF Next, vars

-----------------------------------------------------------------------------
(* Nothing is published once the connection is disconnected.               *)

OpenInv == conn = "disconnected" => \A j \in Jobs : job[j].status \notin PublishPhase

(* A disconnect waits for jobs that publish, and none starts to afterwards.*)
LEMMA OpenStep ==
  ASSUME TypeInv, LockInv, SoloInv, OpenInv, [Next]_vars
  PROVE  OpenInv'
<1>. SUFFICES ASSUME conn' = "disconnected", NEW j \in Jobs, job'[j].status \in PublishPhase PROVE FALSE
  BY DEF OpenInv
<1>1. ASSUME NEW t \in Threads, ThreadStep(t) PROVE FALSE
  <2>1. LocalStep(t) /\ thr[t].pc \notin Resting /\ conn = "disconnected"
    BY <1>1, ThreadStepIsLocal, StepIsBusy, ThreadKeepsConnection
  <2>. JobOf(t) \in Jobs /\ JobOf(t) = thr[t].job  BY <2>1 DEF LocalStep, JobOf
  <2>2. job[j].status \notin PublishPhase  BY <2>1 DEF OpenInv
  <2>3. j = JobOf(t)  BY <2>1, <2>2 DEF LocalStep, RowLocal, OthersKeep
  <2>4. thr[t].pc \notin PublishLabels \ {"tidy"}  BY <2>1, <2>2, <2>3 DEF SoloInv, LabelOK
  <2>5. ~Same(t)  BY <2>2, <2>3 DEF Same
  <2>6. CASE Prepare(t)
    BY <2>3, <2>5, <2>6, PrepareWrites DEF Writes, PreparePhase, PublishPhase
  <2>7. CASE Publish(t) \/ Reconcile(t)
    <3>1. Tidy(t)
      BY <2>4, <2>7 DEF Publish, StartPublish, Commit, RecordCommit, EnterPushing, Compare, Recheck, Push,
        EnterCreatingPr, ListPrs, CreatePr, RecordPr, Complete, Reconcile, ReadRow,
        StartReconcile, Inspect, Rebuild, Recommit, At, PublishLabels
    <3>2. PICK c : job' = [job EXCEPT ![JobOf(t)].cleanup = c]  BY <3>1 DEF Tidy
    <3>. QED  BY <2>5, <3>2 DEF Same, TypeInv, TypeOK, JobRows
  <2>8. CASE CallFails(t) \/ Cleanup(t) \/ Settle(t)
    <3>1. thr[t].outcome \in Outcomes  BY DEF TypeInv, TypeOK, ThreadStates
    <3>. QED  BY <2>3, <2>5, <2>8, <3>1, FailureWrites DEF Writes, Outcomes, PublishPhase
  <2>. QED  BY <1>1, <2>6, <2>7, <2>8 DEF ThreadStep
<1>2. ASSUME RecoveryStep PROVE FALSE
  <2>1. conn = "disconnected"
    BY <1>2 DEF RecoveryStep, Tick, RepairWorktree, RepairStatus, RepairDone, AutoRetryDone, AutoRetry
  <2>2. job[j].status \notin PublishPhase  BY <2>1 DEF OpenInv
  <2>3. ~(Tick \/ RepairWorktree \/ RepairDone \/ AutoRetryDone)
    BY <2>2 DEF Tick, RepairWorktree, RepairDone, AutoRetryDone
  <2>4. ASSUME RepairStatus PROVE FALSE
    <3>1. Recovery \in Threads /\ JobOf(Recovery) \in Jobs
      BY <2>4, NamesAreApart, BusyJobs DEF RepairStatus, Resting
    <3>2. thr[Recovery].outcome \in Outcomes  BY <3>1 DEF TypeInv, TypeOK, ThreadStates
    <3>. QED  BY <2>2, <2>4, <3>1, <3>2, RecordFields DEF RepairStatus, Outcomes, PublishPhase
  <2>5. ASSUME NEW i \in Jobs, AutoRetry(i) PROVE FALSE
    BY <2>1, <2>5 DEF AutoRetry, AutoRetryCandidate
  <2>. QED  BY <1>2, <2>3, <2>4, <2>5 DEF RecoveryStep
<1>3. ASSUME Connection PROVE FALSE
  <2>1. CASE Disconnect
    BY <2>1 DEF Disconnect, DisconnectAllowed, BlocksDisconnect, PublishPhase, TypeInv, TypeOK, JobRows
  <2>2. CASE VerifyBegin \/ VerifyEnd \/ SyncBegin \/ SyncEnd
    BY <2>2 DEF VerifyBegin, VerifyEnd, SyncBegin, SyncEnd, SetConn, OpenInv
  <2>. QED  BY <1>3, <2>1, <2>2 DEF Connection
<1>4. ASSUME Requests PROVE FALSE
  <2>. PICK i \in Jobs : Create(i) \/ Approve(i) \/ Retry(i) \/ Cancel(i) \/ RemoveWorktree(i)
    BY <1>4 DEF Requests
  <2>1. conn = "disconnected" /\ job[j].status \notin PublishPhase
    BY DEF Create, Approve, Retry, StartRetry, Cancel, RemoveWorktree, OpenInv
  <2>2. Cancel(i) \/ RemoveWorktree(i)  BY <2>1 DEF Create, Approve, Retry, StartRetry
  <2>. QED  BY <2>1, <2>2 DEF Cancel, RemoveWorktree, PublishPhase, TypeInv, TypeOK, JobRows
<1>5. ASSUME Environment PROVE FALSE
  <2>1. CASE CrashInDisconnect
    BY <2>1 DEF CrashInDisconnect, DisconnectAllowed, BlocksDisconnect
  <2>2. ASSUME NEW i \in Jobs, HeartbeatAges(i) PROVE FALSE
    <3>1. job'[j].status = job[j].status  BY <2>2 DEF HeartbeatAges, TypeInv, TypeOK, JobRows
    <3>. QED  BY <2>2, <3>1 DEF HeartbeatAges, OpenInv
  <2>3. ~(Crash \/ Restart \/ BaseMoves \/ LeaseExpires \/ \E i \in Jobs : ForeignPush(i) \/ ClosePr(i))
    BY DEF Crash, Restart, BaseMoves, LeaseExpires, ForeignPush, ClosePr, OpenInv
  <2>. QED  BY <1>5, <2>1, <2>2, <2>3 DEF Environment
<1>6. ~UNCHANGED vars  BY DEF vars, OpenInv
<1>. QED  BY <1>1, <1>2, <1>3, <1>4, <1>5, <1>6 DEF Next

PushesOpen == \A j \in Jobs : Pushes(j) => conn # "disconnected"

(* So a push finds the connection in place.                                *)
LEMMA PushStep ==
  ASSUME TypeInv, LockInv, SoloInv, OpenInv, [Next]_vars
  PROVE  PushesOpen
<1>. SUFFICES ASSUME NEW j \in Jobs, Pushes(j) PROVE conn # "disconnected"
  BY DEF PushesOpen
<1>1. remote' # remote  BY DEF Pushes
<1>2. ASSUME NEW t \in Threads, ThreadStep(t) PROVE conn # "disconnected"
  <2>1. Push(t)  BY <1>1, <1>2, BranchStays
  <2>2. thr[t].pc = "push" /\ thr[t].job \in Jobs  BY <2>1, BusyJobs DEF Push, At, Resting
  <2>3. job[thr[t].job].status \in PublishPhase
    BY <2>2 DEF SoloInv, LabelOK, Resting, PublishLabels
  <2>. QED  BY <2>2, <2>3 DEF OpenInv
<1>3. ~RecoveryStep
  BY <1>1 DEF RecoveryStep, Tick, RepairWorktree, RepairStatus, RepairDone, AutoRetryDone, AutoRetry, github
<1>4. ~Connection
  BY <1>1 DEF Connection, VerifyBegin, VerifyEnd, SyncBegin, SyncEnd, Disconnect, github
<1>5. ~Requests
  BY <1>1 DEF Requests, Create, Approve, Retry, Cancel, RemoveWorktree, github
<1>6. ~Environment
  <2>1. ASSUME NEW i \in Jobs, ForeignPush(i) PROVE FALSE
    BY <2>1 DEF ForeignPush, Above, Pushes, TypeInv, TypeOK
  <2>. QED
    BY <1>1, <2>1 DEF Environment, Crash, CrashInDisconnect, LoseProcess, Restart, BaseMoves, LeaseExpires,
           ClosePr, HeartbeatAges, github
<1>. QED  BY <1>1, <1>2, <1>3, <1>4, <1>5, <1>6 DEF Next, vars

-----------------------------------------------------------------------------
(* After the approval only a moved base branch or a lost connection closes *)
(* a job as failed.                                                        *)

Excused == baseMoved \/ connLost
FaultThread(t) ==
  thr[t].pc \in {"cleanup", "settle"} /\ thr[t].outcome = "failed" /\ job[thr[t].job].approved => Excused
FaultInv ==
  /\ \A t \in Threads : FaultThread(t)
  /\ \A j \in Jobs : job[j].approved => conn = "connected" \/ connLost

(* Who writes the connection, and who the base branch.                     *)
LEMMA ConnectionIsSet ==
  ASSUME [Next]_vars
  PROVE  /\ UNCHANGED <<conn, connLost>> \/ \E c : SetConn(c)
         /\ baseMoved' = baseMoved \/ baseMoved' = TRUE
<1>1. ASSUME NEW t \in Threads, ThreadStep(t) PROVE conn' = conn /\ connLost' = connLost /\ baseMoved' = baseMoved
  <2>1. baseMoved' = baseMoved
    BY <1>1
    DEF ThreadStep, Prepare, StartPrepare, Fetch, CheckOut, CreateWorktree, ApplyPatch, Offer,
        Publish, StartPublish, Commit, RecordCommit, EnterPushing, Compare, Recheck, Push,
        EnterCreatingPr, ListPrs, CreatePr, RecordPr, Complete, Tidy, Reconcile, ReadRow,
        StartReconcile, Inspect, Rebuild, Recommit, CallFails, Cleanup, Settle, github
  <2>. QED  BY <1>1, <2>1, ThreadKeepsConnection
<1>2. CASE RecoveryStep
  BY <1>2
  DEF RecoveryStep, Tick, RepairWorktree, RepairStatus, RepairDone, AutoRetryDone, AutoRetry, github
<1>3. CASE Connection
  BY <1>3 DEF Connection, VerifyBegin, VerifyEnd, SyncBegin, SyncEnd, Disconnect, github
<1>4. CASE Requests
  BY <1>4 DEF Requests, Create, Approve, Retry, Cancel, RemoveWorktree, github
<1>5. CASE Environment
  BY <1>5 DEF Environment, Crash, CrashInDisconnect, LoseProcess, Restart, BaseMoves, LeaseExpires,
         ForeignPush, ClosePr, HeartbeatAges, github
<1>6. CASE UNCHANGED vars  BY <1>6 DEF vars
<1>. QED  BY <1>1, <1>2, <1>3, <1>4, <1>5, <1>6 DEF Next

(* An excuse lasts.                                                        *)
LEMMA ExcuseLasts ==
  ASSUME [Next]_vars
  PROVE  /\ Excused => Excused'
         /\ connLost => connLost'
         /\ conn = "connected" => conn' = "connected" \/ connLost'
<1>1. baseMoved => baseMoved'
  <2>1. CASE baseMoved' = baseMoved  BY <2>1
  <2>2. CASE baseMoved' = TRUE  BY <2>2
  <2>. QED  BY <2>1, <2>2, ConnectionIsSet
<1>2. ASSUME NEW c, SetConn(c)
      PROVE  (connLost => connLost') /\ (conn = "connected" => conn' = "connected" \/ connLost')
  BY <1>2 DEF SetConn
<1>3. CASE UNCHANGED <<conn, connLost>>
  <2>1. connLost => connLost'  BY <1>3
  <2>2. conn = "connected" => conn' = "connected"  BY <1>3
  <2>. QED  BY <1>1, <2>1, <2>2 DEF Excused
<1>4. CASE \E c : SetConn(c)
  <2>1. (connLost => connLost') /\ (conn = "connected" => conn' = "connected" \/ connLost')  BY <1>2, <1>4
  <2>. QED  BY <1>1, <2>1 DEF Excused
<1>. QED  BY <1>3, <1>4, ConnectionIsSet

(* Only an approval, on a connected connection, approves.                  *)
LEMMA ApprovalIsAsked ==
  ASSUME TypeInv, LockInv, [Next]_vars, NEW j \in Jobs, job'[j].approved, ~job[j].approved
  PROVE  conn = "connected" /\ job[j].status = "awaiting_approval"
<1>1. ASSUME NEW t \in Threads PROVE ~ThreadStep(t)
  BY ThreadStepIsLocal DEF LocalStep, RowLocal, OthersKeep
<1>2. ~RecoveryStep
  <2>1. ~(Tick \/ RepairWorktree \/ RepairDone \/ AutoRetryDone)
    BY DEF Tick, RepairWorktree, RepairDone, AutoRetryDone
  <2>2. ASSUME RepairStatus PROVE FALSE
    <3>1. Recovery \in Threads /\ JobOf(Recovery) \in Jobs
      BY <2>2, NamesAreApart, BusyJobs DEF RepairStatus, Resting
    <3>. QED  BY <2>2, <3>1, RecordFields DEF RepairStatus
  <2>3. ASSUME NEW i \in Jobs, AutoRetry(i) PROVE FALSE
    BY <2>3 DEF AutoRetry, StartRetry, TypeInv, TypeOK, JobRows
  <2>. QED  BY <2>1, <2>2, <2>3 DEF RecoveryStep
<1>3. ~Connection
  BY DEF Connection, VerifyBegin, VerifyEnd, SyncBegin, SyncEnd, Disconnect, TypeInv, TypeOK, JobRows
<1>4. CASE Requests
  <2>. PICK i \in Jobs : Create(i) \/ Approve(i) \/ Retry(i) \/ Cancel(i) \/ RemoveWorktree(i)
    BY <1>4 DEF Requests
  <2>1. ~Create(i)  BY DEF Create, SetStatus, TypeInv, TypeOK, JobRows
  <2>2. ~Retry(i)  BY DEF Retry, StartRetry, TypeInv, TypeOK, JobRows
  <2>3. ~Cancel(i)  BY DEF Cancel, TypeInv, TypeOK, JobRows
  <2>4. ASSUME RemoveWorktree(i) PROVE FALSE
    <3>1. PICK c : job' = [job EXCEPT ![i].cleanup = c]  BY <2>4 DEF RemoveWorktree
    <3>. QED  BY <3>1 DEF TypeInv, TypeOK, JobRows
  <2>5. Approve(i)  BY <2>1, <2>2, <2>3, <2>4
  <2>. QED  BY <2>5 DEF Approve, TypeInv, TypeOK
<1>5. ~Environment
  BY DEF Environment, Crash, CrashInDisconnect, Restart, BaseMoves, LeaseExpires, ForeignPush, ClosePr,
         HeartbeatAges, TypeInv, TypeOK, JobRows
<1>. QED  BY <1>1, <1>2, <1>3, <1>4, <1>5 DEF Next, vars

(* A thread that fails as "failed" has an excuse or an unapproved job.     *)
LEMMA FailedIsExcused ==
  ASSUME TypeInv, LockInv, PrepareInv, FaultInv, NEW t \in Threads, ThreadStep(t), LabelOK(t),
         thr'[t].pc \in {"cleanup", "settle"}, thr'[t].outcome = "failed", job[thr[t].job].approved
  PROVE  Excused
<1>1. LocalStep(t)  BY ThreadStepIsLocal
<1>. JobOf(t) \in Jobs /\ JobOf(t) = thr[t].job  BY <1>1 DEF LocalStep, JobOf
<1>2. conn # "connected" => Excused  BY DEF FaultInv, Excused
<1>3. thr[t].pc \notin PrepareLabels  BY DEF PrepareInv, Prepares
<1>4. ~Prepare(t)
  BY <1>3 DEF Prepare, StartPrepare, Fetch, CheckOut, CreateWorktree, ApplyPatch, Offer, At, PrepareLabels, PrepareCalls
<1>5. ASSUME NEW o, Fail(t, o) PROVE o = "failed"  BY <1>5, FailFields
<1>6. ASSUME NEW s, NEW l, Enter(t, s, l) PROVE l \in {"cleanup", "settle"}
  BY <1>6, EnterIsKnown DEF Resting
<1>7. ASSUME NEW l, Goto(t, l) PROVE l \in {"cleanup", "settle"}  BY <1>7, GotoFields
<1>8. ~Leave(t)  BY LeaveFields
<1>9. CASE Publish(t)
  <2>1. CASE StartPublish(t) \/ Compare(t) \/ Recheck(t)
    BY <1>2, <1>6, <1>7, <2>1 DEF StartPublish, Compare, Recheck, Excused
  <2>2. ~(RecordCommit(t) \/ EnterPushing(t) \/ EnterCreatingPr(t) \/ ListPrs(t) \/ RecordPr(t) \/ Complete(t) \/ Tidy(t))
    BY <1>6, <1>7, <1>8
    DEF RecordCommit, EnterPushing, EnterCreatingPr, ListPrs, RecordPr, Complete, Tidy
  <2>3. ~(Push(t) \/ CreatePr(t))  BY <1>5, <1>7 DEF Push, CreatePr
  <2>4. ~Commit(t)  BY <1>5 DEF Commit, TypeInv, TypeOK, ThreadStates
  <2>. QED  BY <1>9, <2>1, <2>2, <2>3, <2>4 DEF Publish
<1>10. CASE Reconcile(t)
  <2>1. ~ReadRow(t)  BY DEF ReadRow, TypeInv, TypeOK, ThreadStates
  <2>2. ~(StartReconcile(t) \/ Recommit(t))  BY <1>6, <1>7, <1>8 DEF StartReconcile, Recommit
  <2>3. ~Rebuild(t)  BY <1>5, <1>7 DEF Rebuild
  <2>4. CASE Inspect(t)  BY <1>2, <1>5, <1>6, <1>7, <2>4 DEF Inspect, Excused
  <2>. QED  BY <1>10, <2>1, <2>2, <2>3, <2>4 DEF Reconcile
<1>11. ~CallFails(t)  BY <1>3, <1>5 DEF CallFails, FailureOutcome, PrepareLabels
<1>12. CASE Cleanup(t)
  <2>1. thr[t].pc = "cleanup" /\ thr[t].outcome = "failed"
    BY <1>12 DEF Cleanup, At, TypeInv, TypeOK, ThreadStates
  <2>. QED  BY <2>1 DEF FaultInv, FaultThread
<1>13. ~Settle(t)  BY <1>8 DEF Settle
<1>. QED  BY <1>4, <1>9, <1>10, <1>11, <1>12, <1>13 DEF ThreadStep

(* The excuses are kept.                                                   *)
LEMMA FaultStep ==
  ASSUME TypeInv, TypeInv', LockInv, PrepareInv, SoloInv, FaultInv, [Next]_vars
  PROVE  FaultInv'
<1>1. ASSUME NEW j \in Jobs, job'[j].approved PROVE conn' = "connected" \/ connLost'
  <2>1. conn = "connected" \/ connLost  BY <1>1, ApprovalIsAsked DEF FaultInv
  <2>. QED  BY <2>1, ExcuseLasts
<1>2. ASSUME NEW t \in Threads, thr'[t].pc \in {"cleanup", "settle"}, thr'[t].outcome = "failed",
             job'[thr'[t].job].approved
      PROVE  Excused'
  <2>1. CASE thr'[t] = thr[t]
    <3>1. thr[t].job \in Jobs /\ Works(t, thr[t].job)
      BY <1>2, <2>1 DEF TypeInv, ThreadsHaveJobs, Works, Resting
    <3>2. job[thr[t].job].status # "awaiting_approval"  BY <3>1, NobodyWorks DEF Waiting
    <3>3. job[thr[t].job].approved  BY <1>2, <2>1, <3>1, <3>2, ApprovalIsAsked
    <3>. QED  BY <1>2, <2>1, <3>3, ExcuseLasts DEF FaultInv, FaultThread
  <2>2. CASE thr'[t] # thr[t]
    <3>1. PICK u \in Threads : ThreadStep(u)
      BY <1>2, <2>2, OthersRest DEF Rests, Quiet
    <3>2. LocalStep(u) /\ thr[u].pc \notin Resting  BY <3>1, ThreadStepIsLocal, StepIsBusy
    <3>3. u = t  BY <2>2, <3>2 DEF LocalStep, ThreadLocal, OthersRun
    <3>4. thr'[t].job = thr[t].job /\ thr[t].job \in Jobs
      BY <1>2, <3>2, <3>3 DEF LocalStep, ThreadLocal, Resting, JobOf
    <3>5. job[thr[t].job].approved  BY <1>2, <3>2, <3>3, <3>4 DEF LocalStep, RowLocal, JobOf
    <3>6. LabelOK(t)  BY <3>2, <3>3 DEF SoloInv
    <3>. QED  BY <1>2, <3>1, <3>3, <3>5, <3>6, FailedIsExcused, ExcuseLasts
  <2>. QED  BY <2>1, <2>2
<1>. QED  BY <1>1, <1>2 DEF FaultInv, FaultThread

FailsExcused ==
  \A j \in Jobs :
    job[j].approved /\ job[j].status # "failed" /\ job'[j].status = "failed" => baseMoved \/ connLost

(* So an approved job that is closed as failed has an excuse.              *)
LEMMA FailStep ==
  ASSUME TypeInv, LockInv, OnwardInv, SoloInv, FaultInv, [Next]_vars
  PROVE  FailsExcused
<1>. SUFFICES ASSUME NEW j \in Jobs, job[j].approved, job[j].status # "failed", job'[j].status = "failed"
              PROVE  Excused
  BY DEF FailsExcused, Excused
<1>1. ASSUME NEW t \in Threads, ThreadStep(t) PROVE Excused
  <2>1. LocalStep(t) /\ thr[t].pc \notin Resting  BY <1>1, ThreadStepIsLocal, StepIsBusy
  <2>. JobOf(t) \in Jobs /\ JobOf(t) = thr[t].job  BY <2>1 DEF LocalStep, JobOf
  <2>2. j = JobOf(t)  BY <2>1 DEF LocalStep, RowLocal, OthersKeep
  <2>3. ~Same(t)  BY <2>2 DEF Same
  <2>4. ~(Prepare(t) \/ Publish(t) \/ Reconcile(t))
    BY <2>2, <2>3, PrepareWrites, PublishWrites, ReconcileWrites DEF Writes, PreparePhase, PublishPhase
  <2>5. Settle(t) /\ thr[t].outcome = "failed"
    BY <1>1, <2>2, <2>3, <2>4, FailureWrites DEF ThreadStep, Writes
  <2>. QED  BY <2>2, <2>5 DEF Settle, At, FaultInv, FaultThread
<1>2. ~RecoveryStep
  <2>1. ~(Tick \/ RepairWorktree \/ RepairDone \/ AutoRetryDone)
    BY DEF Tick, RepairWorktree, RepairDone, AutoRetryDone
  <2>2. ASSUME RepairStatus PROVE FALSE
    <3>1. Recovery \in Threads /\ JobOf(Recovery) \in Jobs /\ thr[Recovery].pc = "repair_status"
      BY <2>2, NamesAreApart, BusyJobs DEF RepairStatus, Resting, At
    <3>2. j = JobOf(Recovery) /\ Live(j) /\ thr[Recovery].outcome = "failed"
      BY <2>2, <3>1, RecordFields DEF RepairStatus
    <3>3. job[j].status \in PreparePhase
      BY <3>1, <3>2 DEF SoloInv, LabelOK, Repairable, Resting, JobOf, Live
    <3>. QED  BY <3>3 DEF OnwardInv, Onward, NeedsApproval, PreparePhase, PublishPhase, RetryableStatuses
  <2>3. ASSUME NEW i \in Jobs, AutoRetry(i) PROVE FALSE
    BY <2>3 DEF AutoRetry, StartRetry, TypeInv, TypeOK, JobRows
  <2>. QED  BY <2>1, <2>2, <2>3 DEF RecoveryStep
<1>3. ~Connection
  BY DEF Connection, VerifyBegin, VerifyEnd, SyncBegin, SyncEnd, Disconnect, TypeInv, TypeOK, JobRows
<1>4. ~Requests
  <2>. SUFFICES ASSUME NEW i \in Jobs, Create(i) \/ Approve(i) \/ Retry(i) \/ Cancel(i) \/ RemoveWorktree(i)
                PROVE  FALSE
    BY DEF Requests
  <2>1. ~Create(i)  BY DEF Create, SetStatus, TypeInv, TypeOK, JobRows
  <2>2. ~Approve(i)  BY DEF Approve, TypeInv, TypeOK, JobRows
  <2>3. ~Retry(i)  BY DEF Retry, StartRetry, TypeInv, TypeOK, JobRows
  <2>4. ~Cancel(i)  BY DEF Cancel, TypeInv, TypeOK, JobRows
  <2>5. ASSUME RemoveWorktree(i) PROVE FALSE
    <3>1. PICK c : job' = [job EXCEPT ![i].cleanup = c]  BY <2>5 DEF RemoveWorktree
    <3>. QED  BY <3>1 DEF TypeInv, TypeOK, JobRows
  <2>. QED  BY <2>1, <2>2, <2>3, <2>4, <2>5
<1>5. ~Environment
  BY DEF Environment, Crash, CrashInDisconnect, Restart, BaseMoves, LeaseExpires, ForeignPush, ClosePr,
         HeartbeatAges, TypeInv, TypeOK, JobRows
<1>. QED  BY <1>1, <1>2, <1>3, <1>4, <1>5 DEF Next, vars

-----------------------------------------------------------------------------
(* While the process does not die, the worktree of a closed job is gone,   *)
(* or its removal failed and was recorded, or somebody has it in hand: the *)
(* handler that closed the job, or the thread that completed it.  A        *)
(* prepare thread may check out a worktree after its job was closed; it is *)
(* then the handler, waiting for the lock this thread holds, that finds it.*)

Recorded(j) == wt[j] = Absent \/ job[j].cleanup = "cleanup_failed"
Tended(j) ==
  j \in removals \/ Recorded(j) \/ \E t \in Threads : thr[t].pc = "tidy" /\ thr[t].job = j
RemovalKnown(t) ==
  thr[t].pc \in {"settle", "repair_status"} => wt[thr[t].job] = Absent \/ thr[t].cleaned = "cleanup_failed"
CheckOutSeen(t) ==
  thr[t].pc \in PrepareCalls /\ job[thr[t].job].status \in Terminal => thr[t].job \in removals
ClosedTended == \A j \in Jobs : job[j].status \in Terminal => Tended(j)

TidyInv ==
  /\ \A t \in Threads : RemovalKnown(t)
  /\ crashes = 0 => server = "up" /\ ClosedTended /\ \A t \in Threads : CheckOutSeen(t)

(* What a removal leaves is what it records.                               *)
LEMMA CleanIsKnown ==
  ASSUME TypeInv, NEW j \in Jobs, NEW left, CleanWorktree(j, left)
  PROVE  /\ wt'[j] = left /\ left \in {Absent, wt[j]}
         /\ left = Absent \/ CleanupState(left) = "cleanup_failed"
         /\ \A i \in Jobs : wt'[i] \in {Absent, wt[i]}
  BY DEF CleanWorktree, CleanupState, TypeInv, TypeOK

(* Nobody checks out for job i, and its worktree is gone or recorded.      *)
Done(i) == Recorded(i)' /\ \A u \in Threads : thr[u].pc \in PrepareCalls => thr[u].job # i

(* A step that makes no worktree keeps the invariant if it closes only     *)
(* jobs it sees to, and moves no thread that has a removal in hand.        *)
LEMMA QuietKeepsTidy ==
  ASSUME TypeInv, TypeInv', TidyInv, crashes' = crashes, crashes = 0 => server' = "up",
         \A i \in Jobs : wt'[i] \in {Absent, wt[i]},
         \A i \in removals : i \in removals' \/ Done(i),
         \A u \in Threads : \/ thr'[u] = thr[u]
                            \/ thr[u].pc # "tidy" /\ thr'[u].pc \notin PrepareCalls /\ RemovalKnown(u)',
         \A i \in Jobs : \/ job'[i].status \notin Terminal
                         \/ job'[i].status = job[i].status /\ job'[i].cleanup = job[i].cleanup
                         \/ i \in removals'
                         \/ Done(i)
  PROVE  TidyInv'
<1>1. ASSUME NEW u \in Threads PROVE RemovalKnown(u)'
  <2>1. CASE thr'[u] = thr[u]
    <3>1. SUFFICES ASSUME thr[u].pc \in {"settle", "repair_status"}
                   PROVE  wt'[thr[u].job] = Absent \/ thr[u].cleaned = "cleanup_failed"
      BY <2>1 DEF RemovalKnown
    <3>2. thr[u].job \in Jobs  BY <3>1 DEF TypeInv, ThreadsHaveJobs, Resting
    <3>3. wt[thr[u].job] = Absent \/ thr[u].cleaned = "cleanup_failed"  BY <3>1 DEF TidyInv, RemovalKnown
    <3>. QED  BY <3>2, <3>3
  <2>. QED  BY <2>1
<1>2. ASSUME crashes = 0, NEW j \in Jobs, job'[j].status \in Terminal PROVE Tended(j)'
  <2>1. CASE j \in removals' \/ Done(j)  BY <2>1 DEF Tended, Done
  <2>2. CASE job'[j].status = job[j].status /\ job'[j].cleanup = job[j].cleanup
    <3>1. Tended(j)  BY <1>2, <2>2 DEF TidyInv, ClosedTended
    <3>2. CASE j \in removals  BY <2>1, <3>2
    <3>3. CASE Recorded(j)  BY <2>2, <3>3 DEF Recorded, Tended
    <3>4. ASSUME NEW t \in Threads, thr[t].pc = "tidy", thr[t].job = j PROVE Tended(j)'
      BY <3>4 DEF Tended
    <3>. QED  BY <3>1, <3>2, <3>3, <3>4 DEF Tended
  <2>. QED  BY <1>2, <2>1, <2>2
<1>3. ASSUME crashes = 0, NEW u \in Threads, thr'[u].pc \in PrepareCalls,
             job'[thr'[u].job].status \in Terminal
      PROVE  thr'[u].job \in removals'
  <2>1. thr'[u] = thr[u]  BY <1>3
  <2>2. thr[u].job \in Jobs  BY <1>3, <2>1 DEF TypeInv, ThreadsHaveJobs, Resting, PrepareCalls
  <2>3. ~Done(thr[u].job)  BY <1>3, <2>1 DEF Done
  <2>4. CASE job'[thr[u].job].status = job[thr[u].job].status
    <3>1. thr[u].job \in removals  BY <1>3, <2>1, <2>4 DEF TidyInv, CheckOutSeen
    <3>. QED  BY <2>1, <2>3, <3>1
  <2>. QED  BY <1>3, <2>1, <2>2, <2>3, <2>4
<1>. QED  BY <1>1, <1>2, <1>3 DEF TidyInv, ClosedTended, CheckOutSeen

(* The recovery worker removes a worktree before it records the removal.   *)
LEMMA RecoveryKeepsTidy ==
  ASSUME TypeInv, TypeInv', SoloInv, TidyInv, RecoveryStep
  PROVE  TidyInv'
<1>. Recovery \in Threads  BY NamesAreApart
<1>1. removals' = removals /\ crashes' = crashes /\ (crashes = 0 => server' = "up")
  BY DEF RecoveryStep, Tick, RepairWorktree, RepairStatus, RepairDone, AutoRetryDone, AutoRetry,
         process, TidyInv
<1>2. CASE Tick \/ RepairDone \/ AutoRetryDone
  <2>1. /\ wt' = wt /\ job' = job /\ OthersRun(Recovery)
        /\ thr[Recovery].pc # "tidy" /\ thr'[Recovery].pc \in Resting
    BY <1>2, GotoFields DEF Tick, RepairDone, AutoRetryDone, At, Resting, disk
  <2>. QED  BY <1>1, <2>1, QuietKeepsTidy DEF OthersRun, RemovalKnown, PrepareCalls, Resting
<1>3. CASE RepairWorktree
  <2>. DEFINE Repaired(item, left) ==
         /\ CleanWorktree(item[1], left)
         /\ thr' = [thr EXCEPT ![Recovery] =
                      [pc |-> "repair_status", job |-> item[1], commit |-> NoCommit,
                       outcome |-> item[2], cleaned |-> CleanupState(left)]]
  <2>0. PICK item \in todo : \E left : Repaired(item, left)
    BY <1>3 DEF RepairWorktree
  <2>1. PICK left : Repaired(item, left)  BY <2>0
  <2>2. item[1] \in Jobs  BY DEF TypeInv, TypeOK
  <2>3. /\ thr'[Recovery].pc = "repair_status" /\ thr'[Recovery].job = item[1]
        /\ thr'[Recovery].cleaned = CleanupState(left) /\ OthersRun(Recovery)
    BY <2>1 DEF TypeInv, TypeOK, OthersRun
  <2>4. RemovalKnown(Recovery)'  BY <2>1, <2>2, <2>3, CleanIsKnown DEF RemovalKnown
  <2>5. \A i \in Jobs : wt'[i] \in {Absent, wt[i]}  BY <2>1, <2>2, CleanIsKnown
  <2>6. job' = job /\ thr[Recovery].pc # "tidy"  BY <1>3 DEF RepairWorktree, At
  <2>. QED  BY <1>1, <2>3, <2>4, <2>5, <2>6, QuietKeepsTidy DEF OthersRun, PrepareCalls
<1>4. CASE RepairStatus
  <2>1. thr[Recovery].pc = "repair_status" /\ JobOf(Recovery) \in Jobs /\ JobOf(Recovery) = thr[Recovery].job
    BY <1>4, BusyJobs DEF RepairStatus, At, Resting, JobOf
  <2>2. thr'[Recovery].pc = "repair" /\ OthersRun(Recovery) /\ wt' = wt
    BY <1>4 DEF RepairStatus, TypeInv, TypeOK, OthersRun, IdleThread, disk
  <2>3. wt[thr[Recovery].job] = Absent \/ thr[Recovery].cleaned = "cleanup_failed"
    BY <2>1 DEF TidyInv, RemovalKnown
  <2>4. Works(Recovery, thr[Recovery].job)  BY <2>1 DEF Works, Resting
  <2>5. ASSUME NEW u \in Threads, thr[u].pc \in PrepareCalls PROVE thr[u].job # thr[Recovery].job
    BY <2>1, <2>4, <2>5 DEF SoloInv, OneEach, Works, PrepareCalls, Resting, JobOf
  <2>6. ASSUME NEW i \in Jobs
        PROVE  \/ job'[i].status = job[i].status /\ job'[i].cleanup = job[i].cleanup
               \/ Done(i)
    <3>1. CASE i # thr[Recovery].job \/ ~Live(i)
      BY <1>4, <2>1, <3>1 DEF RepairStatus, RecordFailure, TypeInv, TypeOK, JobOf
    <3>2. CASE i = thr[Recovery].job /\ Live(i)
      <4>1. job'[i].cleanup = thr[Recovery].cleaned
        BY <1>4, <2>1, <3>2 DEF RepairStatus, RecordFailure, TypeInv, TypeOK, JobRows, JobOf
      <4>. QED  BY <2>2, <2>3, <2>5, <3>2, <4>1 DEF Done, Recorded
    <3>. QED  BY <3>1, <3>2
  <2>. QED  BY <1>1, <2>1, <2>2, <2>6, QuietKeepsTidy DEF OthersRun, RemovalKnown, PrepareCalls
<1>5. ASSUME NEW j \in Jobs, AutoRetry(j) PROVE TidyInv'
  <2>1. /\ wt' = wt /\ OthersRun(Recovery)
        /\ thr[Recovery].pc # "tidy" /\ thr'[Recovery].pc = "read_row"
    BY <1>5 DEF AutoRetry, At, TypeInv, TypeOK, IdleThread, OthersRun, disk
  <2>2. job'[j].status \notin Terminal /\ \A i \in Jobs \ {j} : job'[i] = job[i]
    BY <1>5 DEF AutoRetry, StartRetry, TypeInv, TypeOK, JobRows, Terminal
  <2>. QED  BY <1>1, <2>1, <2>2, QuietKeepsTidy DEF OthersRun, RemovalKnown, PrepareCalls
<1>. QED  BY <1>2, <1>3, <1>4, <1>5 DEF RecoveryStep

(* The handlers remember the worktrees of the jobs they close.             *)
LEMMA HandlersKeepTidy ==
  ASSUME TypeInv, TypeInv', LockInv, TidyInv, Connection \/ Requests
  PROVE  TidyInv'
<1>1. crashes' = crashes /\ server' = server
  BY DEF Connection, VerifyBegin, VerifyEnd, SyncBegin, SyncEnd, Disconnect,
         Requests, Create, Approve, Retry, Cancel, RemoveWorktree, process
<1>2. CASE Connection
  <2>1. /\ wt' = wt /\ thr' = thr /\ removals \subseteq removals'
        /\ \A i \in Jobs : job'[i] = job[i] \/ i \in removals'
    BY <1>2 DEF Connection, VerifyBegin, VerifyEnd, SyncBegin, SyncEnd, Disconnect, disk, TypeInv, TypeOK
  <2>. QED  BY <1>1, <2>1, QuietKeepsTidy DEF TidyInv
<1>3. ASSUME NEW j \in Jobs, Create(j) \/ Approve(j) \/ Retry(j) PROVE TidyInv'
  <2>1. PICK w \in Workers : thr[w].pc = "idle" /\ OthersRun(w) /\ thr'[w].pc \in {"prepare", "publish", "read_row"}
    BY <1>3, SpawnFields DEF Create, Approve, Retry
  <2>2. job'[j].status \notin Terminal /\ \A i \in Jobs \ {j} : job'[i] = job[i]
    BY <1>3 DEF Create, SetStatus, Approve, Retry, StartRetry, TypeInv, TypeOK, JobRows, Terminal
  <2>3. wt' = wt /\ removals' = removals  BY <1>3 DEF Create, Approve, Retry, disk, process
  <2>. QED
    BY <1>1, <2>1, <2>2, <2>3, NamesAreApart, QuietKeepsTidy DEF OthersRun, RemovalKnown, PrepareCalls, TidyInv
<1>4. ASSUME NEW j \in Jobs, Cancel(j) PROVE TidyInv'
  <2>1. /\ wt' = wt /\ thr' = thr /\ removals' = removals \cup {j}
        /\ \A i \in Jobs \ {j} : job'[i] = job[i]
    BY <1>4 DEF Cancel, disk, TypeInv, TypeOK
  <2>. QED  BY <1>1, <2>1, QuietKeepsTidy DEF TidyInv
<1>5. ASSUME NEW j \in Jobs, RemoveWorktree(j) PROVE TidyInv'
  <2>1. PICK left : CleanWorktree(j, left) /\ job' = [job EXCEPT ![j].cleanup = CleanupState(left)]
    BY <1>5 DEF RemoveWorktree
  <2>2. removals' = removals \ {j} /\ thr' = thr /\ lock = None  BY <1>5 DEF RemoveWorktree
  <2>3. \A u \in Threads : thr[u].pc \notin PrepareCalls
    BY <2>2, ThreadAssumption DEF LockInv, UnlockedLabels, Resting, PrepareCalls
  <2>4. Done(j)
    BY <2>1, <2>3, CleanIsKnown DEF Done, Recorded, TypeInv, TypeOK, JobRows
  <2>5. \A i \in Jobs \ {j} : job'[i] = job[i]  BY <2>1 DEF TypeInv, TypeOK
  <2>. QED  BY <1>1, <2>1, <2>2, <2>4, <2>5, CleanIsKnown, QuietKeepsTidy DEF TidyInv
<1>. QED  BY <1>2, <1>3, <1>4, <1>5 DEF Requests

(* A crash ends what the invariant says of worktrees.                      *)
LEMMA EnvironmentKeepsTidy ==
  ASSUME TypeInv, TypeInv', TidyInv, Environment
  PROVE  TidyInv'
<1>1. CASE Crash \/ CrashInDisconnect
  <2>1. crashes' # 0 /\ \A u \in Threads : thr'[u].pc = "idle"
    BY <1>1 DEF Crash, CrashInDisconnect, LoseProcess, IdleThread, TypeInv, TypeOK
  <2>. QED  BY <2>1 DEF TidyInv, RemovalKnown
<1>2. CASE Restart
  <2>1. crashes' # 0 /\ wt' = wt  BY <1>2 DEF Restart, disk, TidyInv
  <2>2. \A u \in Threads : thr'[u] = thr[u] \/ thr'[u].pc = "repair"
    BY <1>2, NamesAreApart, GotoFields DEF Restart, OthersRun
  <2>. QED  BY <2>1, <2>2 DEF TidyInv, RemovalKnown
<1>3. CASE BaseMoves \/ LeaseExpires \/ \E j \in Jobs : ForeignPush(j) \/ ClosePr(j)
  BY <1>3, QuietKeepsTidy DEF BaseMoves, LeaseExpires, ForeignPush, ClosePr, process, disk, TidyInv
<1>4. ASSUME NEW j \in Jobs, HeartbeatAges(j) PROVE TidyInv'
  <2>1. \A i \in Jobs : job'[i].status = job[i].status /\ job'[i].cleanup = job[i].cleanup
    BY <1>4 DEF HeartbeatAges, TypeInv, TypeOK, JobRows
  <2>. QED  BY <1>4, <2>1, QuietKeepsTidy DEF HeartbeatAges, process, disk, TidyInv
<1>. QED  BY <1>1, <1>2, <1>3, <1>4 DEF Environment

(* A worktree is made by a thread that checks out, or by one that publishes*)
(* a job that is not closed.                                               *)
LEMMA WorktreeIsMade ==
  ASSUME TypeInv, LockInv, NEW t \in Threads, ThreadStep(t), LabelOK(t), thr[t].pc \notin PrepareCalls,
         job[JobOf(t)].status \in Terminal
  PROVE  wt'[JobOf(t)] \in {Absent, wt[JobOf(t)]}
<1>. JobOf(t) \in Jobs /\ JobOf(t) = thr[t].job  BY ThreadStepIsLocal DEF LocalStep, JobOf
<1>1. thr[t].pc \notin PublishLabels \ {"tidy"}
  BY DEF LabelOK, PublishPhase, Terminal
<1>2. CASE StartPrepare(t)  BY <1>2 DEF StartPrepare, disk
<1>3. CASE Tidy(t)  BY <1>3, CleanIsKnown DEF Tidy
<1>4. CASE Cleanup(t)  BY <1>4, CleanIsKnown DEF Cleanup
<1>5. CASE CallFails(t) \/ Settle(t)  BY <1>5 DEF CallFails, Settle, disk
<1>. QED
  BY <1>1, <1>2, <1>3, <1>4, <1>5
  DEF ThreadStep, Prepare, Fetch, CheckOut, CreateWorktree, ApplyPatch, Offer, PrepareCalls,
      Publish, StartPublish, Commit, RecordCommit, EnterPushing, Compare, Recheck, Push,
      EnterCreatingPr, ListPrs, CreatePr, RecordPr, Complete, Reconcile, ReadRow,
      StartReconcile, Inspect, Rebuild, Recommit, At, PublishLabels

(* A removal is recorded by the thread that tidies up, and with the        *)
(* outcome of a failed phase; nothing else writes what the row says of it. *)
LEMMA CleanupIsWritten ==
  ASSUME TypeInv, LockInv, NEW t \in Threads, ThreadStep(t)
  PROVE  \/ job'[JobOf(t)].cleanup = job[JobOf(t)].cleanup
         \/ Tidy(t)
         \/ Settle(t) /\ Live(JobOf(t))
<1>. JobOf(t) \in Jobs  BY ThreadStepIsLocal DEF LocalStep
<1>. DEFINE Kept == job'[JobOf(t)].cleanup = job[JobOf(t)].cleanup
<1>. USE DEF TypeInv, TypeOK, JobRows
<1>1. ASSUME NEW s, SetStatus(JobOf(t), s) PROVE Kept
  BY <1>1 DEF SetStatus
<1>2. ASSUME NEW s, NEW l, Enter(t, s, l) PROVE Kept
  BY <1>1, <1>2 DEF Enter
<1>3. CASE Prepare(t)
  BY <1>1, <1>2, <1>3
  DEF Prepare, StartPrepare, Fetch, CheckOut, CreateWorktree, ApplyPatch, Offer
<1>4. CASE Publish(t) /\ ~Tidy(t)
  <2>1. CASE StartPublish(t) \/ EnterPushing(t) \/ EnterCreatingPr(t) \/ Complete(t)
    BY <1>2, <2>1 DEF StartPublish, EnterPushing, EnterCreatingPr, Complete
  <2>2. CASE Commit(t) \/ Compare(t) \/ Recheck(t) \/ Push(t) \/ ListPrs(t) \/ CreatePr(t)
    BY <2>2 DEF Commit, Compare, Recheck, Push, ListPrs, CreatePr
  <2>3. CASE RecordCommit(t) \/ RecordPr(t)  BY <2>3 DEF RecordCommit, RecordPr, JobOf
  <2>. QED  BY <1>4, <2>1, <2>2, <2>3 DEF Publish
<1>5. CASE Reconcile(t)
  BY <1>1, <1>2, <1>5
  DEF Reconcile, ReadRow, StartReconcile, Inspect, Rebuild, Recommit, JobOf
<1>6. CASE CallFails(t) \/ Cleanup(t)  BY <1>6 DEF CallFails, Cleanup
<1>7. CASE Settle(t) /\ ~Live(JobOf(t))  BY <1>7 DEF Settle, RecordFailure, JobOf
<1>. QED  BY <1>3, <1>4, <1>5, <1>6, <1>7 DEF ThreadStep

(* A thread that goes to a label of the prepare phase has a live job, and  *)
(* one that goes to record a failure knows what became of the worktree.    *)
LEMMA LabelIsTidy ==
  ASSUME TypeInv, LockInv, NEW t \in Threads, ThreadStep(t), LabelOK(t), LabelOK(t)',
         thr'[t].pc \notin Resting
  PROVE  /\ thr'[t].pc \in PrepareCalls => job'[thr'[t].job].status \notin Terminal
         /\ RemovalKnown(t)'
<1>. JobOf(t) \in Jobs /\ JobOf(t) = thr[t].job  BY ThreadStepIsLocal DEF LocalStep, JobOf
<1>. DEFINE Good == /\ thr'[t].pc \in PrepareCalls => job'[thr'[t].job].status \notin Terminal
                    /\ RemovalKnown(t)'
<1>1. ASSUME NEW s, NEW l, Enter(t, s, l), s \notin Terminal, l \notin {"settle", "repair_status"} PROVE Good
  BY <1>1, EnterIsKnown DEF RemovalKnown
<1>2. ASSUME NEW o, Fail(t, o) PROVE Good
  BY <1>2, FailFields DEF RemovalKnown, PrepareCalls
<1>3. ASSUME NEW l, Goto(t, l), l \notin PrepareCalls \cup {"settle", "repair_status"} PROVE Good
  BY <1>3, GotoFields DEF RemovalKnown
<1>4. ~Leave(t)  BY LeaveFields DEF Resting
<1>5. CASE Prepare(t)
  BY <1>1, <1>2, <1>4, <1>5
  DEF Prepare, StartPrepare, Fetch, CheckOut, CreateWorktree, ApplyPatch, Offer, Terminal
<1>6. CASE Publish(t)
  <2>1. CASE StartPublish(t) \/ EnterPushing(t) \/ EnterCreatingPr(t)
    BY <1>1, <1>2, <2>1 DEF StartPublish, EnterPushing, EnterCreatingPr, Terminal
  <2>2. CASE Compare(t) \/ Recheck(t) \/ Push(t) \/ ListPrs(t) \/ CreatePr(t) \/ RecordCommit(t) \/ RecordPr(t)
    BY <1>2, <1>3, <2>2 DEF Compare, Recheck, Push, ListPrs, CreatePr, RecordCommit, RecordPr, PrepareCalls
  <2>3. CASE Commit(t)
    <3>1. (\E o : Fail(t, o)) \/ thr'[t].pc = "record"
      BY <2>3 DEF Commit, TypeInv, TypeOK, ThreadStates
    <3>. QED  BY <1>2, <3>1 DEF RemovalKnown, PrepareCalls
  <2>4. CASE Complete(t)
    <3>1. thr'[t].pc = "tidy"  BY <2>4, EnterIsKnown DEF Complete
    <3>. QED  BY <3>1 DEF RemovalKnown, PrepareCalls
  <2>5. ~Tidy(t)  BY <1>4 DEF Tidy
  <2>. QED  BY <1>6, <2>1, <2>2, <2>3, <2>4, <2>5 DEF Publish
<1>7. CASE Reconcile(t)
  <2>1. CASE ReadRow(t)
    <3>1. thr'[t].pc = "reconcile"  BY <2>1 DEF ReadRow, TypeInv, TypeOK, ThreadStates
    <3>. QED  BY <3>1 DEF RemovalKnown, PrepareCalls
  <2>2. CASE StartReconcile(t) \/ Inspect(t) \/ Rebuild(t) \/ Recommit(t)
    BY <1>1, <1>2, <1>3, <1>4, <2>2 DEF StartReconcile, Inspect, Rebuild, Recommit, PrepareCalls, Terminal
  <2>. QED  BY <1>7, <2>1, <2>2 DEF Reconcile
<1>8. CASE CallFails(t)  BY <1>2, <1>8 DEF CallFails
<1>9. CASE Cleanup(t)
  <2>1. PICK left : /\ CleanWorktree(thr[t].job, left)
                    /\ thr' = [thr EXCEPT ![t].pc = "settle", ![t].cleaned = CleanupState(left)]
    BY <1>9 DEF Cleanup
  <2>2. thr'[t].pc = "settle" /\ thr'[t].job = thr[t].job /\ thr'[t].cleaned = CleanupState(left)
    BY <2>1 DEF TypeInv, TypeOK, ThreadStates
  <2>. QED  BY <2>1, <2>2, CleanIsKnown DEF RemovalKnown, PrepareCalls
<1>10. ~Settle(t)  BY <1>4 DEF Settle
<1>. QED  BY <1>5, <1>6, <1>7, <1>8, <1>9, <1>10 DEF ThreadStep

(* A job that a thread closes is one it tidies up after.                   *)
LEMMA ClosedByThread ==
  ASSUME TypeInv, LockInv, TidyInv, NEW t \in Threads, ThreadStep(t), NEW j \in Jobs, thr[t].job = j,
         job[j].status \notin Terminal, job'[j].status \in Terminal
  PROVE  (thr'[t].pc = "tidy" /\ thr'[t].job = j) \/ Recorded(j)'
<1>. JobOf(t) = j  BY DEF JobOf
<1>1. ~Same(t)  BY DEF Same
<1>2. ~Prepare(t) /\ ~Reconcile(t)
  BY <1>1, PrepareWrites, ReconcileWrites DEF Writes, PreparePhase, PublishPhase, Terminal
<1>3. CASE Publish(t)
  <2>1. Complete(t)  BY <1>1, <1>3, PublishWrites DEF Writes, PublishPhase, Terminal
  <2>. QED  BY <2>1, EnterIsKnown DEF Complete, Live
<1>4. CASE CallFails(t) \/ Cleanup(t) \/ Settle(t)
  <2>1. Settle(t) /\ Live(j)  BY <1>1, <1>4, FailureWrites DEF Writes
  <2>2. wt[j] = Absent \/ thr[t].cleaned = "cleanup_failed"
    BY <2>1 DEF Settle, At, TidyInv, RemovalKnown
  <2>3. wt' = wt /\ job'[j].cleanup = thr[t].cleaned
    BY <2>1 DEF Settle, RecordFailure, disk, TypeInv, TypeOK, JobRows
  <2>. QED  BY <2>2, <2>3 DEF Recorded
<1>. QED  BY <1>2, <1>3, <1>4 DEF ThreadStep

(* A thread keeps the invariant.                                           *)
LEMMA ThreadKeepsTidy ==
  ASSUME TypeInv, TypeInv', LockInv, SoloInv, SoloInv', TidyInv, NEW t \in Threads, ThreadStep(t)
  PROVE  TidyInv'
<1>1. LocalStep(t) /\ thr[t].pc \notin Resting  BY ThreadStepIsLocal, StepIsBusy
<1>. PICK j \in Jobs : j = JobOf(t) /\ j = thr[t].job  BY <1>1 DEF LocalStep, JobOf
<1>2. Works(t, j) /\ LabelOK(t)  BY <1>1 DEF Works, SoloInv
<1>3. /\ removals' = removals /\ crashes' = crashes /\ server' = server
      /\ OthersRun(t)
      /\ \A i \in Jobs \ {j} : job'[i] = job[i] /\ wt'[i] = wt[i]
  BY <1>1, <1>2, ThreadKeepsConnection DEF LocalStep, ThreadLocal, RowLocal, OthersKeep
<1>4. thr'[t].pc \notin Resting => LabelOK(t)'  BY DEF SoloInv
<1>5. \A u \in Threads \ {t} : thr'[u] = thr[u] /\ (thr[u].pc \notin Resting => thr[u].job \in Jobs \ {j})
  BY <1>2, <1>3 DEF OthersRun, SoloInv, OneEach, Works, TypeInv, ThreadsHaveJobs
<1>6. ASSUME NEW u \in Threads PROVE RemovalKnown(u)'
  <2>1. CASE u = t
    BY <1>2, <1>4, <2>1, LabelIsTidy DEF RemovalKnown, Resting
  <2>2. CASE u # t
    BY <1>3, <1>5, <2>2 DEF RemovalKnown, TidyInv, Resting
  <2>. QED  BY <2>1, <2>2
<1>7. ASSUME crashes = 0, NEW i \in Jobs, job'[i].status \in Terminal PROVE Tended(i)'
  <2>1. CASE i # j
    <3>1. Tended(i) /\ wt'[i] = wt[i] /\ job'[i] = job[i]
      BY <1>3, <1>7, <2>1 DEF TidyInv, ClosedTended
    <3>2. \A u \in Threads : thr[u].job = i => thr'[u] = thr[u]
      BY <1>5, <2>1
    <3>. QED  BY <1>3, <3>1, <3>2 DEF Tended, Recorded
  <2>2. CASE i = j /\ job[j].status \notin Terminal
    BY <1>7, <2>2, ClosedByThread DEF Tended
  <2>3. CASE i = j /\ job[j].status \in Terminal /\ thr[t].pc = "tidy"
    <3>1. Tidy(t)
      BY <2>3 DEF ThreadStep, Prepare, StartPrepare, Fetch, CheckOut, CreateWorktree, ApplyPatch, Offer,
        Publish, StartPublish, Commit, RecordCommit, EnterPushing, Compare, Recheck, Push,
        EnterCreatingPr, ListPrs, CreatePr, RecordPr, Complete, Reconcile, ReadRow,
        StartReconcile, Inspect, Rebuild, Recommit, CallFails, PrepareCalls, PublishCalls,
        Cleanup, Settle, At
    <3>2. PICK left : CleanWorktree(j, left) /\ job' = [job EXCEPT ![j].cleanup = CleanupState(left)]
      BY <1>2, <3>1 DEF Tidy
    <3>3. Recorded(j)'
      BY <1>2, <3>2, CleanIsKnown DEF Recorded, TypeInv, TypeOK, JobRows
    <3>. QED  BY <2>3, <3>3 DEF Tended
  <2>4. CASE i = j /\ job[j].status \in Terminal /\ thr[t].pc # "tidy"
    <3>1. Tended(j)  BY <1>2, <1>7, <2>4 DEF TidyInv, ClosedTended
    <3>2. CASE j \in removals  BY <1>3, <2>4, <3>2 DEF Tended
    <3>3. CASE j \notin removals
      <4>1. Recorded(j)
        BY <1>2, <1>5, <2>4, <3>1, <3>3 DEF Tended, Resting
      <4>2. thr[t].pc \notin PrepareCalls  BY <1>2, <1>7, <2>4, <3>3 DEF TidyInv, CheckOutSeen
      <4>3. wt'[j] \in {Absent, wt[j]}  BY <1>2, <2>4, <4>2, WorktreeIsMade
      <4>4. job'[j].cleanup = job[j].cleanup
        BY <1>2, <2>4, CleanupIsWritten DEF Tidy, At, Live
      <4>. QED  BY <2>4, <4>1, <4>3, <4>4 DEF Recorded, Tended
    <3>. QED  BY <3>2, <3>3
  <2>. QED  BY <2>1, <2>2, <2>3, <2>4
<1>8. ASSUME crashes = 0, NEW u \in Threads PROVE CheckOutSeen(u)'
  <2>1. CASE u = t
    BY <1>2, <1>4, <2>1, LabelIsTidy DEF CheckOutSeen, Resting, PrepareCalls
  <2>2. CASE u # t
    BY <1>3, <1>5, <1>8, <2>2 DEF CheckOutSeen, TidyInv, Resting, PrepareCalls
  <2>. QED  BY <2>1, <2>2
<1>. QED  BY <1>3, <1>6, <1>7, <1>8 DEF TidyInv, ClosedTended

(* Every step keeps it.                                                    *)
LEMMA TidyStep ==
  ASSUME TypeInv, TypeInv', LockInv, SoloInv, SoloInv', TidyInv, [Next]_vars
  PROVE  TidyInv'
<1>1. CASE UNCHANGED vars  BY <1>1, QuietKeepsTidy DEF vars, TidyInv
<1>. QED
  BY <1>1, ThreadKeepsTidy, RecoveryKeepsTidy, HandlersKeepTidy, EnvironmentKeepsTidy DEF Next

(* A job without a thread is not being tidied up after.                    *)
LEMMA TidyIsRecorded == TidyInv => LeftoverIsRecorded
  BY DEF TidyInv, ClosedTended, Tended, Recorded, LeftoverIsRecorded, Busy

-----------------------------------------------------------------------------
(* The theorems of a server whose live threads keep their heartbeat.       *)

CalmInv == SeenInv /\ SoloInv /\ OpenInv /\ FaultInv /\ TidyInv

LEMMA CalmInit == Init => CalmInv
<1>. SUFFICES ASSUME Init PROVE CalmInv
  OBVIOUS
<1>1. SeenInv /\ SoloInv  BY SeenInit, SoloInit
<1>2. OpenInv /\ FaultInv /\ TidyInv
  BY DEF Init, IdleThread, OpenInv, FaultInv, FaultThread, TidyInv, RemovalKnown, ClosedTended,
         CheckOutSeen, PrepareCalls, Terminal
<1>. QED  BY <1>1, <1>2 DEF CalmInv

LEMMA CalmStep == ~Stalls /\ CalmInv /\ [Next]_vars => CalmInv'
<1>. SUFFICES ASSUME ~Stalls, CalmInv, [Next]_vars PROVE CalmInv'
  OBVIOUS
<1>1. SeenInv'  BY SeenStep DEF CalmInv
<1>2. TypeInv /\ TypeInv' /\ LockInv /\ PrepareInv  BY <1>1 DEF CalmInv, SeenInv, SafetyInv
<1>3. SoloInv'  BY <1>2, SoloStep DEF CalmInv
<1>. QED  BY <1>1, <1>2, <1>3, OpenStep, FaultStep, TidyStep DEF CalmInv

LEMMA CalmSafety == ~Stalls => (Spec => []CalmInv)
<1>. SUFFICES ASSUME ~Stalls PROVE Spec => []CalmInv
  OBVIOUS
<1>1. CalmInv /\ [Next]_vars => CalmInv'  BY CalmStep
<1>. QED  BY <1>1, CalmInit, PTL DEF Spec

(* With no crash, a worktree that outlives its closed job is one whose     *)
(* removal failed and was recorded.                                        *)
THEOREM LeftoversAreRecorded == ~Stalls => (Spec => []LeftoverIsRecorded)
<1>. SUFFICES ASSUME ~Stalls PROVE Spec => []LeftoverIsRecorded
  OBVIOUS
<1>1. CalmInv => LeftoverIsRecorded  BY TidyIsRecorded DEF CalmInv
<1>. QED  BY <1>1, CalmSafety, PTL

(* A job that needs a human leaves that state only by a request.           *)
THEOREM HumanIsAsked == ~Stalls => (Spec => ManualWaitsForHuman)
<1>. SUFFICES ASSUME ~Stalls PROVE Spec => ManualWaitsForHuman
  OBVIOUS
<1>1. CalmInv /\ [Next]_vars =>
        [\A j \in Jobs :
           job[j].status = "manual_intervention_required" /\ job'[j].status # job[j].status
             => Retry(j) \/ Cancel(j) \/ Disconnect]_vars
  BY ManualStep DEF AskedFor, CalmInv, SeenInv, SafetyInv
<1>. QED  BY <1>1, CalmSafety, PTL DEF Spec, ManualWaitsForHuman

(* No push leaves once the connection is disconnected.                     *)
THEOREM PushesAreConnected == ~Stalls => (Spec => NoPushAfterDisconnect)
<1>. SUFFICES ASSUME ~Stalls PROVE Spec => NoPushAfterDisconnect
  OBVIOUS
<1>1. CalmInv /\ [Next]_vars => [\A j \in Jobs : Pushes(j) => conn # "disconnected"]_vars
  BY PushStep DEF PushesOpen, CalmInv, SeenInv, SafetyInv
<1>. QED  BY <1>1, CalmSafety, PTL DEF Spec, NoPushAfterDisconnect

(* After the approval only a moved base branch or a lost connection closes *)
(* a job as failed.                                                        *)
THEOREM ApprovedIsRetryable == ~Stalls => (Spec => ApprovedStaysRetryable)
<1>. SUFFICES ASSUME ~Stalls PROVE Spec => ApprovedStaysRetryable
  OBVIOUS
<1>1. CalmInv /\ [Next]_vars =>
        [\A j \in Jobs :
           job[j].approved /\ job[j].status # "failed" /\ job'[j].status = "failed"
             => baseMoved \/ connLost]_vars
  BY FailStep DEF FailsExcused, CalmInv, SeenInv, SafetyInv
<1>. QED  BY <1>1, CalmSafety, PTL DEF Spec, ApprovedStaysRetryable
=============================================================================

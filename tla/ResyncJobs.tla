------------------------------ MODULE ResyncJobs ------------------------------
(***************************************************************************)
(* The resync of one System's repository: a job whose thread takes a       *)
(* snapshot of the committed files and indexes its symbols, next to the    *)
(* requests that do one of the two by themselves, and the repair of        *)
(* interrupted jobs at startup.                                            *)
(*                                                                         *)
(* A step is one connection's block or one reading of the repository.      *)
(* Both stages end in a transaction, so what they store is whole.          *)
(***************************************************************************)
EXTENDS Naturals, Sequences, FiniteSets

CONSTANTS
  Workers,    \* threads: of jobs and of requests
  Manual,     \* which single stages are requested: a subset of {"create", "index"}
  MaxJobs, MaxManual, MaxCommits, MaxFailures, MaxCrashes   \* bounds

VARIABLES
  head,     \* how many commits the repository has
  jobs,     \* repository_resync_jobs: status and pinned snapshot, 0 is none
  snaps,    \* repository_snapshots: status, commit, number of symbol-index runs,
            \* and by which job it was made, 0 is a request
  worker,   \* what each thread does, for which job (0: a request), the snapshot
            \* it made and the one it indexes
  up,       \* "repairing", "serving" or "down"
  used      \* how often each bounded action happened

vars == <<head, jobs, snaps, worker, up, used>>

Active(j) == jobs[j].status \in {"queued", "snapshotting", "indexing"}
Idle == [pc |-> "idle", job |-> 0, snap |-> 0, on |-> 0, commit |-> 0]

Init ==
  /\ head = 1 /\ jobs = <<>> /\ snaps = <<>> /\ up = "serving"
  /\ worker = [w \in Workers |-> Idle]
  /\ used = [manual |-> 0, failures |-> 0, crashes |-> 0]

Count(what) == used' = [used EXCEPT ![what] = @ + 1]
Go(w, label) == worker' = [worker EXCEPT ![w].pc = label]
Run(pc, job) ==
  \E w \in Workers : worker[w].pc = "idle" /\ worker' = [worker EXCEPT ![w] = [Idle EXCEPT !.pc = pc, !.job = job]]

Commit == head < MaxCommits /\ head' = head + 1 /\ UNCHANGED <<jobs, snaps, worker, up, used>>

-----------------------------------------------------------------------------
(* Requests.                                                               *)

Startable == \A j \in DOMAIN jobs : ~Active(j)

(* start_repository_resync_job(); the thread may fail to start, which ends *)
(* the job.                                                                *)
Start ==
  /\ up = "serving" /\ Len(jobs) < MaxJobs /\ Startable
  /\ \/ /\ jobs' = Append(jobs, [status |-> "queued", snap |-> 0])
        /\ Run("new", Len(jobs) + 1)
        /\ UNCHANGED used
     \/ /\ used.failures < MaxFailures
        /\ jobs' = Append(jobs, [status |-> "snapshot_failed", snap |-> 0])
        /\ Count("failures") /\ UNCHANGED worker
  /\ UNCHANGED <<head, snaps, up>>

RequestStage ==
  /\ up = "serving" /\ used.manual < MaxManual
  /\ \E stage \in Manual : Run(IF stage = "create" THEN "insert" ELSE "find", 0)
  /\ Count("manual")
  /\ UNCHANGED <<head, jobs, snaps, up>>

-----------------------------------------------------------------------------
(* _execute_job() and the services it calls, which a request calls alone.  *)

SetJob(w, status, snap) ==
  jobs' = IF worker[w].job = 0 THEN jobs
          ELSE [jobs EXCEPT ![worker[w].job] = [status |-> status, snap |-> IF snap # 0 THEN snap ELSE @.snap]]
End(w) == worker' = [worker EXCEPT ![w] = Idle]

Begin(w) ==
  /\ worker[w].pc = "new"
  /\ SetJob(w, "snapshotting", 0) /\ Go(w, "insert")
  /\ UNCHANGED <<head, snaps, up, used>>

(* create_snapshot_service(): a row, the files of HEAD, and their storing. *)
InsertSnapshot(w) ==
  /\ worker[w].pc = "insert"
  /\ snaps' = Append(snaps, [status |-> "indexing", commit |-> 0, runs |-> 0, by |-> worker[w].job])
  /\ worker' = [worker EXCEPT ![w].pc = "read", ![w].snap = Len(snaps) + 1]
  /\ UNCHANGED <<head, jobs, up, used>>

ReadHead(w) ==
  /\ worker[w].pc = "read"
  /\ worker' = [worker EXCEPT ![w].pc = "store", ![w].commit = head]
  /\ UNCHANGED <<head, jobs, snaps, up, used>>

After(w) == IF worker[w].job = 0 THEN End(w) ELSE Go(w, "pin")

GitFails(w) ==
  /\ worker[w].pc = "read" /\ used.failures < MaxFailures
  /\ snaps' = [snaps EXCEPT ![worker[w].snap].status = "failed"]
  /\ After(w) /\ Count("failures")
  /\ UNCHANGED <<head, jobs, up>>

StoreSnapshot(w) ==
  /\ worker[w].pc = "store"
  /\ snaps' = [snaps EXCEPT ![worker[w].snap] = [@ EXCEPT !.status = "ready", !.commit = worker[w].commit]]
  /\ After(w)
  /\ UNCHANGED <<head, jobs, up, used>>

(* The job is pinned to the snapshot it made, and ends or goes on.         *)
Pin(w) ==
  /\ worker[w].pc = "pin"
  /\ SetJob(w, "snapshotting", worker[w].snap)
  /\ Go(w, "judge")
  /\ UNCHANGED <<head, snaps, up, used>>

Judge(w) ==
  LET made == snaps[worker[w].snap].status = "ready" IN
  /\ worker[w].pc = "judge"
  /\ SetJob(w, IF made THEN "indexing" ELSE "snapshot_failed", worker[w].snap)
  /\ IF made THEN Go(w, "find") ELSE End(w)
  /\ UNCHANGED <<head, snaps, up, used>>

(* index_symbols_service(): the pinned snapshot, or the latest of any      *)
(* status when none is pinned.                                             *)
Bug_Target(w) == Len(snaps)
Target(w) == IF worker[w].snap # 0 THEN worker[w].snap ELSE Len(snaps)
Usable(s) == s # 0 /\ snaps[s].status = "ready"

Find(w) ==
  /\ worker[w].pc = "find"
  /\ IF Usable(Target(w))
     THEN worker' = [worker EXCEPT ![w].pc = "exists", ![w].on = Target(w)]
     ELSE Go(w, "unusable")
  /\ UNCHANGED <<head, jobs, snaps, up, used>>

Finished(w) == IF worker[w].job = 0 THEN End(w) ELSE Go(w, "complete")

Exists(w) ==
  /\ worker[w].pc = "exists"
  /\ IF snaps[worker[w].on].runs > 0 THEN Finished(w) ELSE Go(w, "index")
  /\ UNCHANGED <<head, jobs, snaps, up, used>>

StoreIndex(w) ==
  /\ worker[w].pc = "index"
  /\ snaps' = [snaps EXCEPT ![worker[w].on].runs = @ + 1]
  /\ Finished(w)
  /\ UNCHANGED <<head, jobs, up, used>>

Complete(w) ==
  /\ worker[w].pc = "complete"
  /\ SetJob(w, "completed", worker[w].snap) /\ End(w)
  /\ UNCHANGED <<head, snaps, up, used>>

(* An exception, in the stage it is raised in: _execute_job() stores it,   *)
(* or _run_safely() does, from the row it reads.                           *)
Creating == {"insert", "read", "store"}
Indexing == {"find", "exists", "index", "unusable"}
Bug_FailedAs(w) == "failed"
FailedAs(w) ==
  IF worker[w].pc \in Creating THEN "snapshot_failed"
  ELSE IF worker[w].pc \in Indexing THEN "index_failed"
  ELSE IF jobs[worker[w].job].snap # 0 THEN "index_failed" ELSE "snapshot_failed"

Fail(w) ==
  /\ SetJob(w, IF worker[w].job = 0 THEN "" ELSE FailedAs(w), IF worker[w].pc \in Indexing THEN worker[w].snap ELSE 0)
  /\ End(w)
  /\ UNCHANGED <<head, snaps, up>>

Unusable(w) == worker[w].pc = "unusable" /\ Fail(w) /\ UNCHANGED used
Raise(w) == worker[w].pc \notin {"idle", "unusable"} /\ used.failures < MaxFailures /\ Fail(w) /\ Count("failures")

-----------------------------------------------------------------------------
(* The end of the process, and the startup after it.                       *)

Crash ==
  /\ up = "serving" /\ used.crashes < MaxCrashes
  /\ up' = "repairing" /\ worker' = [w \in Workers |-> Idle] /\ Count("crashes")
  /\ UNCHANGED <<head, jobs, snaps>>

(* recover_interrupted_repository_resync_jobs(), before requests are served *)
Bug_Interrupted(j) == jobs[j].status \in {"snapshotting", "indexing"}
Bug_AnyJob(j) == TRUE
Interrupted(j) == Active(j)
Recovered(row) == IF row.status = "indexing" \/ row.snap # 0 THEN "index_failed" ELSE "snapshot_failed"

Recover ==
  /\ up = "repairing" /\ up' = "serving"
  /\ jobs' = [j \in DOMAIN jobs |->
                IF Interrupted(j) THEN [jobs[j] EXCEPT !.status = Recovered(jobs[j])] ELSE jobs[j]]
  /\ UNCHANGED <<head, snaps, worker, used>>

Work(w) ==
  \/ Begin(w) \/ InsertSnapshot(w) \/ ReadHead(w) \/ GitFails(w) \/ StoreSnapshot(w) \/ Pin(w) \/ Judge(w)
  \/ Find(w) \/ Exists(w) \/ StoreIndex(w) \/ Complete(w) \/ Unusable(w) \/ Raise(w)

Next == Commit \/ Start \/ RequestStage \/ Crash \/ Recover \/ \E w \in Workers : Work(w)

Spec == Init /\ [][Next]_vars

(* Threads are scheduled, and a process that starts repairs.               *)
FairSpec == Spec /\ WF_vars(Recover) /\ \A w \in Workers : WF_vars(Work(w))

-----------------------------------------------------------------------------
(* Every variable has its type.                                            *)
TypeOK ==
  /\ head \in 1..MaxCommits /\ up \in {"serving", "repairing"}
  /\ \A j \in DOMAIN jobs :
       /\ jobs[j].status \in {"queued", "snapshotting", "indexing", "completed", "snapshot_failed", "index_failed"}
       /\ jobs[j].snap \in 0..Len(snaps)
  /\ \A s \in DOMAIN snaps : snaps[s] \in [status : {"indexing", "ready", "failed"},
                                           commit : 0..head, runs : Nat, by : 0..Len(jobs)]

(* A completed job is pinned to a ready snapshot whose symbols are indexed, *)
(* and no two jobs are pinned to the same one.                             *)
CompletedIsIndexed ==
  \A j \in DOMAIN jobs : jobs[j].status = "completed" =>
    /\ jobs[j].snap # 0 /\ snaps[jobs[j].snap].status = "ready" /\ snaps[jobs[j].snap].runs > 0
    /\ \A k \in DOMAIN jobs : jobs[k].snap = jobs[j].snap => k = j

(* An active job has its thread, except between a crash and the repair.    *)
ActiveHasThread ==
  up = "serving" => \A j \in DOMAIN jobs : Active(j) => \E w \in Workers : worker[w].job = j

(* What the runs check of the above in every state.                        *)
ResyncInv == TypeOK /\ CompletedIsIndexed /\ ActiveHasThread

(* What is ended stays as it is: a late thread changes no ended job, and a *)
(* snapshot that is ready or failed stays so.                              *)
EndedStays ==
  [][/\ \A j \in DOMAIN jobs : ~Active(j) => jobs'[j] = jobs[j]
     /\ \A s \in DOMAIN snaps : snaps[s].status # "indexing" => snaps'[s].status = snaps[s].status]_vars

(* Every job ends, whatever fails and whenever the server restarts.        *)
EveryJobEnds == \A j \in 1..MaxJobs : (j \in DOMAIN jobs) ~> (j \in DOMAIN jobs /\ ~Active(j))
=============================================================================

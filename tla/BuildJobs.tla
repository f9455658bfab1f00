------------------------------- MODULE BuildJobs -------------------------------
(***************************************************************************)
(* System-understanding builds: one job per request with one row per step  *)
(* of the pipeline, run by a thread of its own; chunk tasks for the scan   *)
(* of the documentation; heartbeats, by whose absence a job is taken to    *)
(* have lost its thread; retry, cancellation of a job or of a step, and a  *)
(* new build that supersedes a stale one.                                  *)
(*                                                                         *)
(* A step is one connection's block: the process-wide database lock is     *)
(* held through it.  The connections are autocommit, so a server that dies *)
(* inside a block leaves the statements before it in the database.         *)
(***************************************************************************)
EXTENDS Naturals, Sequences, FiniteSets, FiniteSetsExt, SequencesExt

CONSTANTS
  StepOrder,     \* the steps of the pipeline, in the order they are run
  StepDepends,   \* for each step the steps it needs
  Stored,        \* the steps that leave an artifact of a snapshot behind
  Torn,          \* those of them whose artifact takes several statements
  Chunks,        \* documentation chunks of a snapshot
  Workers,       \* threads
  Silence,       \* whether a thread at work may be silent until it looks lost
  MaxBuilds, MaxRetries, MaxCancels, MaxCrashes, MaxFailures, MaxAttempts   \* bounds

Steps == Range(StepOrder)

ASSUME PipelineAssumption ==
  /\ StepOrder \in Seq(STRING) /\ IsInjective(StepOrder)
  /\ \A i \in DOMAIN StepOrder : \A d \in StepDepends[StepOrder[i]] :
       \E j \in 1..i - 1 : StepOrder[j] = d
  /\ "claim_scan" \in Steps => "understanding_graph" \in Stored
  /\ "understanding_graph" \in Stored => "claim_scan" \in StepDepends["understanding_graph"]
  /\ Torn \subseteq Stored \ {"understanding_graph"} /\ Stored \subseteq Steps /\ Silence \in BOOLEAN
  /\ {MaxBuilds, MaxRetries, MaxCancels, MaxCrashes, MaxFailures} \subseteq Nat
  /\ MaxAttempts \in Nat \ {0}

VARIABLES
  builds,     \* system_understanding_builds: status, cancel flag, heartbeat gone
  steps,      \* system_understanding_build_steps, of each build
  tasks,      \* system_understanding_llm_tasks, of each build
  artifact,   \* what is stored of each step for the snapshot
  newer,      \* a chunk was scanned after the understanding graph was stored
  ready,      \* whether the System has a ready snapshot
  worker,     \* what each thread is doing
  run,        \* system_understanding_build_runs: the run of each thread
  used        \* how often each bounded action happened

vars == <<builds, steps, tasks, artifact, newer, ready, worker, run, used>>
results == <<artifact, newer, ready>>
rows == <<builds, steps, tasks, results, run>>

Active(b) == builds[b].status \in {"queued", "running"}
Idle == [pc |-> "idle", build |-> 0, at |-> 0, mark |-> "", stop |-> FALSE,
         todo |-> {}, chunk |-> {}, tries |-> 0]

(* A thread is alive from its start until it ends or its process dies.     *)
Alive(w) == worker[w].pc \notin {"idle", "gone"}
Live(b) == {w \in Workers : Alive(w) /\ worker[w].build = b}
StepOf(w) == StepOrder[worker[w].at]

Init ==
  /\ builds = <<>> /\ steps = <<>> /\ tasks = <<>>
  /\ artifact = [s \in Stored |-> "none"] /\ newer = FALSE /\ ready = FALSE
  /\ worker = [w \in Workers |-> Idle]
  /\ run = [w \in Workers |-> "none"]
  /\ used = [retries |-> 0, cancels |-> 0, crashes |-> 0, failures |-> 0, history |-> 0]

(* _spawn and _open_run: a thread that has not been used, and its run.     *)
Spawn(b, closed) ==
  \E w \in Workers :
    /\ worker[w].pc = "idle"
    /\ worker' = [worker EXCEPT ![w] = [Idle EXCEPT !.pc = "new", !.build = b, !.at = 1]]
    /\ run' = [closed EXCEPT ![w] = "running"]

Go(w, label) == worker' = [worker EXCEPT ![w].pc = label]
Mark(w, status) == worker' = [worker EXCEPT ![w].pc = "mark", ![w].mark = status]
Lost == worker' = [w \in Workers |-> IF Alive(w) THEN [worker[w] EXCEPT !.pc = "gone"] ELSE worker[w]]
Count(what) == used' = [used EXCEPT ![what] = @ + 1]

-----------------------------------------------------------------------------
(* Requests of users.                                                      *)

(* start_system_understanding_build(): return the newest active build when *)
(* it is healthy, else mark it failed and start another.                   *)
Newest == {b \in DOMAIN builds : Active(b) /\ \A c \in DOMAIN builds : Active(c) => c <= b}
Bug_Startable == TRUE
Startable == \A b \in Newest : builds[b].stale
Failed(row) == [row EXCEPT !.status = "failed"]
Superseded(b) == [s \in DOMAIN steps[b] |->
                    IF steps[b][s].status = "running" THEN Failed(steps[b][s]) ELSE steps[b][s]]
Bug_CloseRuns(b, status) == run
CloseRuns(b, status) == [w \in Workers |->
  IF worker[w].build = b /\ run[w] = "running" THEN status ELSE run[w]]
CloseNewest == [w \in Workers |->
  IF worker[w].build \in Newest /\ run[w] = "running" THEN "failed" ELSE run[w]]

NewBuild == [status |-> "queued", cancel |-> FALSE, stale |-> FALSE, pinned |-> ready]
NewStep == [status |-> "pending", cancel |-> FALSE, reused |-> FALSE]

Insert(names) ==
  /\ builds' = Append([b \in DOMAIN builds |->
                         IF b \in Newest THEN Failed(builds[b]) ELSE builds[b]], NewBuild)
  /\ steps' = Append([b \in DOMAIN steps |->
                        IF b \in Newest THEN Superseded(b) ELSE steps[b]],
                     [s \in names |-> NewStep])
  /\ tasks' = Append(tasks, [c \in Chunks |-> "none"])

Start ==
  /\ Len(builds) < MaxBuilds /\ Startable
  /\ Insert(Steps)
  /\ Spawn(Len(builds) + 1, CloseNewest)
  /\ UNCHANGED <<results, used>>

(* The server dies while it inserts the rows of the steps.                 *)
StartTorn ==
  /\ Len(builds) < MaxBuilds /\ Startable /\ used.crashes < MaxCrashes
  /\ \E n \in 0..Len(StepOrder) - 1 : Insert({StepOrder[i] : i \in 1..n})
  /\ Lost
  /\ Count("crashes")
  /\ run' = CloseNewest
  /\ UNCHANGED results

(* _dependents_closure(): the steps that need a step, directly or not.     *)
Dependents(step) ==
  LET grow(found, s) == IF StepDepends[s] \cap (found \cup {step}) # {} THEN found \cup {s} ELSE found
  IN FoldLeft(grow, {}, StepOrder)

(* retry_build(): reset what is not completed and run the job again.       *)
Bug_Resettable(b, targets) == targets \cap DOMAIN steps[b]
Resettable(b, targets) == {s \in targets \cap DOMAIN steps[b] : steps[b][s].status # "completed"}
Bug_ResetTask(status) == IF status \in {"failed", "cancelled"} THEN "pending" ELSE status
ResetTask(status) == IF status \in {"failed", "cancelled", "running"} THEN "pending" ELSE status

Retry(b, targets) ==
  /\ used.retries < MaxRetries
  /\ Active(b) => builds[b].stale
  /\ builds' = [builds EXCEPT ![b] = [NewBuild EXCEPT !.pinned = builds[b].pinned]]
  /\ steps' = [steps EXCEPT ![b] = [s \in DOMAIN @ |->
                 IF s \in Resettable(b, targets) THEN NewStep ELSE @[s]]]
  /\ tasks' = [tasks EXCEPT ![b] = [c \in Chunks |-> ResetTask(@[c])]]
  /\ Spawn(b, CloseRuns(b, "failed"))
  /\ Count("retries")
  /\ UNCHANGED results

RetryAll(b) == Retry(b, Steps)
RetryStep(b) ==
  \E s \in DOMAIN steps[b] : steps[b][s].status # "completed" /\ Retry(b, {s} \cup Dependents(s))

(* cancel_build(): raise the flag; the request itself finalises a job that *)
(* is stale, as the thread of a job does at its end.                       *)
CancelBuild(b) ==
  /\ used.cancels < MaxCancels /\ Active(b)
  /\ builds' = [builds EXCEPT ![b].cancel = TRUE]
  /\ IF builds[b].stale
     THEN \E w \in Workers :
            /\ worker[w].pc = "idle"
            /\ worker' = [worker EXCEPT ![w] = [Idle EXCEPT !.pc = "finalize", !.build = b, !.stop = TRUE]]
     ELSE UNCHANGED worker
  /\ Count("cancels")
  /\ UNCHANGED <<steps, tasks, results, run>>

CancelStep(b) ==
  /\ used.cancels < MaxCancels
  /\ \E s \in DOMAIN steps[b] :
       /\ steps[b][s].status \in {"pending", "running"}
       /\ steps' = [steps EXCEPT ![b][s].status = IF Active(b) /\ ~builds[b].stale THEN @ ELSE "cancelled",
                                 ![b][s].cancel = TRUE]
  /\ Count("cancels")
  /\ UNCHANGED <<builds, tasks, results, worker, run>>

-----------------------------------------------------------------------------
(* _execute_job(): the thread of a job.                                    *)

(* Its first block: the job runs, pinned to the snapshot it was created    *)
(* with, or to the latest one when there was none.                         *)
Begin(w) ==
  LET b == worker[w].build  found == builds[b].pinned \/ ready IN
  /\ worker[w].pc = "new"
  /\ builds' = [builds EXCEPT ![b].status = "running", ![b].stale = FALSE, ![b].pinned = found]
  /\ Go(w, IF found THEN "step" ELSE "unready")
  /\ UNCHANGED <<steps, tasks, results, run, used>>

Settle(b, status) == builds' = [builds EXCEPT ![b].status = status, ![b].stale = FALSE]

(* _fail_job_without_snapshot()                                            *)
Bug_FailUnready(w) ==
  LET b == worker[w].build IN
  /\ worker[w].pc = "unready"
  /\ steps' = [steps EXCEPT ![b] = [s \in DOMAIN @ |-> [@[s] EXCEPT !.status = "blocked"]]]
  /\ Go(w, "gone")
  /\ UNCHANGED <<builds, tasks, results, run, used>>

FailUnready(w) ==
  LET b == worker[w].build IN
  /\ worker[w].pc = "unready"
  /\ steps' = [steps EXCEPT ![b] = [s \in DOMAIN @ |->
       IF @[s].status = "pending" THEN [@[s] EXCEPT !.status = "blocked"] ELSE @[s]]]
  /\ Settle(b, "failed") /\ run' = CloseRuns(b, "failed")
  /\ Go(w, "gone")
  /\ UNCHANGED <<tasks, results, used>>

(* The rows of the job and of its steps, read at the top of the loop.      *)
Bug_Unmet(b, s) == {d \in StepDepends[s] \cap DOMAIN steps[b] : steps[b][d].status = "failed"}
Unmet(b, s) == {d \in StepDepends[s] : d \notin DOMAIN steps[b] \/ steps[b][d].status # "completed"}
Onward(w) == worker' = [worker EXCEPT ![w].at = @ + 1, ![w].pc = "step"]
Missing(w) == StepOf(w) \notin DOMAIN steps[worker[w].build]

LookEnd(w) ==
  /\ worker[w].pc = "step"
  /\ worker[w].at > Len(StepOrder) \/ builds[worker[w].build].cancel
  /\ worker' = [worker EXCEPT ![w].pc = "finalize",
                 ![w].stop = worker[w].at <= Len(StepOrder)]
  /\ UNCHANGED <<rows, used>>

Look(w) ==
  LET b == worker[w].build  row == steps[b][StepOf(w)] IN
  /\ worker[w].pc = "step" /\ worker[w].at <= Len(StepOrder) /\ ~builds[b].cancel
  /\ IF Missing(w) THEN Go(w, "raised")
     ELSE IF row.status \in {"completed", "cancelled"} THEN Onward(w)
     ELSE IF row.cancel THEN Mark(w, "cancelled")
     ELSE IF Unmet(b, StepOf(w)) # {} THEN Mark(w, "blocked")
     ELSE Go(w, "check")
  /\ UNCHANGED <<rows, used>>

Unconfigured(w) ==
  /\ worker[w].pc = "check" /\ StepOf(w) = "claim_scan" /\ used.failures < MaxFailures
  /\ Mark(w, "blocked") /\ Count("failures")
  /\ UNCHANGED rows

(* _EXISTING_CHECKS: an artifact of the snapshot makes the step complete.  *)
Existing(s) ==
  IF s \in {"claim_scan", "understanding_graph"}
  THEN artifact["understanding_graph"] # "none" /\ ~newer
  ELSE s \in Stored /\ artifact[s] # "none"

Check(w) ==
  /\ worker[w].pc = "check"
  /\ IF Existing(StepOf(w)) THEN Mark(w, "reused") ELSE Go(w, "begin")
  /\ UNCHANGED <<rows, used>>

(* _mark_step(), and the row of the job which names the step.              *)
BeginStep(w) ==
  LET b == worker[w].build IN
  /\ worker[w].pc = "begin"
  /\ builds' = [builds EXCEPT ![b].stale = FALSE]
  /\ steps' = [steps EXCEPT ![b][StepOf(w)].status = "running"]
  /\ Go(w, "run")
  /\ UNCHANGED <<tasks, results, run, used>>

Bug_StatusOf(how) == how
StatusOf(how) == IF how = "reused" THEN "completed" ELSE how

MarkStep(w) ==
  LET b == worker[w].build  how == worker[w].mark IN
  /\ worker[w].pc = "mark"
  /\ steps' = [steps EXCEPT ![b][StepOf(w)].status = StatusOf(how),
                            ![b][StepOf(w)].reused = @ \/ how = "reused"]
  /\ IF worker[w].stop THEN Go(w, "finalize") ELSE Onward(w)
  /\ UNCHANGED <<builds, tasks, results, run, used>>

-----------------------------------------------------------------------------
(* _STEP_RUNNERS: read and compute, then store; the scan goes chunk by     *)
(* chunk.                                                                  *)

Scanned(b) == \A c \in Chunks : tasks[b][c] = "completed"

Compute(w) ==
  /\ worker[w].pc = "run" /\ StepOf(w) # "claim_scan"
  /\ worker' = [worker EXCEPT ![w].pc = "save",
       ![w].mark = IF StepOf(w) = "understanding_graph" /\ ~Scanned(worker[w].build)
                   THEN "part" ELSE "whole"]
  /\ UNCHANGED <<rows, used>>

Save(w) ==
  LET b == worker[w].build  s == StepOf(w) IN
  /\ worker[w].pc = "save"
  /\ builds' = [builds EXCEPT ![b].stale = FALSE]
  /\ artifact' = [t \in Stored |-> IF t = s THEN worker[w].mark ELSE artifact[t]]
  /\ newer' = (newer /\ s # "understanding_graph")
  /\ Mark(w, "completed")
  /\ UNCHANGED <<steps, tasks, ready, run, used>>

(* The rows of symbols and entrypoints are inserted unless they are there, *)
(* so a second run leaves a whole index whole; a hierarchy is of its run.  *)
Cut(s) == IF artifact[s] = "whole" /\ s # "capability_hierarchy" THEN "whole" ELSE "part"
CutShort(w) == artifact' = [artifact EXCEPT ![StepOf(w)] = Cut(StepOf(w))]

StepFails(w) ==
  /\ worker[w].pc \in {"run", "save", "called"} /\ used.failures < MaxFailures
  /\ \/ UNCHANGED artifact
     \/ worker[w].pc = "save" /\ StepOf(w) \in Torn /\ CutShort(w)
  /\ worker' = [worker EXCEPT ![w].pc = "mark", ![w].mark = "failed",
                              ![w].todo = {}, ![w].chunk = {}, ![w].tries = 0]
  /\ Count("failures")
  /\ UNCHANGED <<builds, steps, tasks, newer, ready, run>>

(* _run_claim_scan(): a task for each chunk, completed at once when another *)
(* build has scanned it; then the pending ones in turn.                    *)
Elsewhere(b) == {c \in Chunks : \E o \in DOMAIN tasks \ {b} : tasks[o][c] = "completed"}
Fresher(done) == newer' = (newer \/ (done # {} /\ artifact["understanding_graph"] # "none"))

Plan(w) ==
  LET b == worker[w].build
      pending == {c \in Chunks : tasks[b][c] \in {"none", "pending"}}
      reusable == pending \cap Elsewhere(b) IN
  /\ worker[w].pc = "run" /\ StepOf(w) = "claim_scan"
  /\ tasks' = [tasks EXCEPT ![b] = [c \in Chunks |->
       IF c \in reusable THEN "completed" ELSE IF c \in pending THEN "pending" ELSE @[c]]]
  /\ Fresher(reusable)
  /\ worker' = [worker EXCEPT ![w].pc = "scan", ![w].todo = pending \ reusable]
  /\ UNCHANGED <<builds, steps, artifact, ready, run, used>>

(* check_cancelled(), before a chunk and during a backoff.                 *)
Cancelled(w) ==
  LET b == worker[w].build  build == builds[b].cancel IN
  /\ worker[w].pc = "backoff" \/ (worker[w].pc = "scan" /\ worker[w].todo # {})
  /\ build \/ steps[b][StepOf(w)].cancel
  /\ worker' = [worker EXCEPT ![w].pc = "mark", ![w].mark = "cancelled", ![w].stop = build,
                              ![w].todo = {}, ![w].chunk = {}, ![w].tries = 0]
  /\ UNCHANGED <<rows, used>>

NotCancelled(w) == LET b == worker[w].build IN ~builds[b].cancel /\ ~steps[b][StepOf(w)].cancel

NextChunk(w) ==
  /\ worker[w].pc = "scan" /\ NotCancelled(w)
  /\ \E c \in worker[w].todo :
       worker' = [worker EXCEPT ![w].pc = "call", ![w].chunk = {c}, ![w].tries = 0,
                                ![w].todo = @ \ {c}]
  /\ UNCHANGED <<rows, used>>

Again(w) ==
  /\ worker[w].pc = "backoff" /\ NotCancelled(w)
  /\ Go(w, "call")
  /\ UNCHANGED <<rows, used>>

SetChunk(w, status) == tasks' = [tasks EXCEPT ![worker[w].build] = [c \in Chunks |->
                         IF c \in worker[w].chunk THEN status ELSE @[c]]]

Call(w) ==
  /\ worker[w].pc = "call"
  /\ SetChunk(w, "running")
  /\ builds' = [builds EXCEPT ![worker[w].build].stale = FALSE]
  /\ worker' = [worker EXCEPT ![w].pc = "called", ![w].tries = @ + 1]
  /\ UNCHANGED <<steps, results, run, used>>

ChunkScanned(w) ==
  /\ worker[w].pc = "called"
  /\ SetChunk(w, "completed") /\ Fresher(worker[w].chunk)
  /\ Go(w, "scan")
  /\ UNCHANGED <<builds, steps, artifact, ready, run, used>>

ChunkFails(w) ==
  /\ worker[w].pc = "called" /\ used.failures < MaxFailures
  /\ IF worker[w].tries < MaxAttempts
     THEN Go(w, "backoff") /\ UNCHANGED tasks
     ELSE Go(w, "scan") /\ SetChunk(w, "failed")
  /\ Count("failures")
  /\ UNCHANGED <<builds, steps, results, run>>

ScanResult(b) == IF \E c \in Chunks : tasks[b][c] = "failed" THEN "failed" ELSE "completed"

ScanEnds(w) ==
  /\ worker[w].pc = "scan" /\ worker[w].todo = {}
  /\ worker' = [worker EXCEPT ![w].pc = "mark", ![w].mark = ScanResult(worker[w].build),
                              ![w].chunk = {}, ![w].tries = 0]
  /\ UNCHANGED <<rows, used>>

-----------------------------------------------------------------------------
(* _finalize_job(): cancel what is left, compute the status; then store it *)
(* and close the runs.  Storing the history of gaps afterwards may fail;   *)
(* _run_job_safely() stores what was raised.                               *)

Outcome(rowsOf) ==
  IF \A s \in DOMAIN rowsOf : rowsOf[s].status = "completed" THEN "completed"
  ELSE IF \E s \in DOMAIN rowsOf : rowsOf[s].status = "completed" THEN "partial" ELSE "failed"

Left == {"pending", "running"}

Finalize(w) ==
  LET b == worker[w].build  stop == worker[w].stop \/ builds[b].cancel IN
  /\ worker[w].pc = "finalize"
  /\ IF stop
     THEN /\ steps' = [steps EXCEPT ![b] = [s \in DOMAIN @ |->
               IF @[s].status \in Left THEN [@[s] EXCEPT !.status = "cancelled"] ELSE @[s]]]
          /\ tasks' = [tasks EXCEPT ![b] = [c \in Chunks |->
               IF @[c] \in Left THEN "cancelled" ELSE @[c]]]
     ELSE UNCHANGED <<steps, tasks>>
  /\ worker' = [worker EXCEPT ![w].pc = "write",
                              ![w].mark = IF stop THEN "cancelled" ELSE Outcome(steps[b])]
  /\ UNCHANGED <<builds, results, run, used>>

Write(w) ==
  LET b == worker[w].build  status == worker[w].mark IN
  /\ worker[w].pc = "write"
  /\ Settle(b, status) /\ run' = CloseRuns(b, status)
  /\ \/ Go(w, "gone") /\ UNCHANGED used
     \/ /\ status \in {"completed", "partial"} /\ used.history < MaxFailures
        /\ Go(w, "raised") /\ Count("history")
  /\ UNCHANGED <<steps, tasks, results>>

Raised(w) ==
  LET b == worker[w].build IN
  /\ worker[w].pc = "raised"
  /\ Settle(b, "failed") /\ run' = CloseRuns(b, "failed")
  /\ Go(w, "gone")
  /\ UNCHANGED <<steps, tasks, results, used>>

-----------------------------------------------------------------------------
(* The environment.                                                        *)

SnapshotReady ==
  /\ ~ready /\ ready' = TRUE
  /\ UNCHANGED <<builds, steps, tasks, artifact, newer, worker, run, used>>

(* No heartbeat for as long as a lost thread is waited for.                *)
GoSilent(b) ==
  /\ Active(b) /\ ~builds[b].stale
  /\ Silence \/ {w \in Live(b) : run[w] # "none"} = {}
  /\ builds' = [builds EXCEPT ![b].stale = TRUE]
  /\ UNCHANGED <<steps, tasks, results, worker, run, used>>

(* The process ends, perhaps inside the block that stores an artifact.     *)
Crash ==
  /\ used.crashes < MaxCrashes /\ \E w \in Workers : Alive(w)
  /\ \/ UNCHANGED artifact
     \/ \E w \in Workers : worker[w].pc = "save" /\ StepOf(w) \in Torn /\ CutShort(w)
  /\ Lost /\ Count("crashes")
  /\ UNCHANGED <<builds, steps, tasks, newer, ready, run>>

Work(w) ==
  \/ Begin(w) \/ FailUnready(w) \/ LookEnd(w) \/ Look(w) \/ Check(w) \/ BeginStep(w) \/ MarkStep(w)
  \/ Compute(w) \/ Save(w) \/ Plan(w) \/ Cancelled(w) \/ NextChunk(w) \/ Again(w) \/ Call(w)
  \/ ChunkScanned(w) \/ ScanEnds(w) \/ Finalize(w) \/ Write(w) \/ Raised(w)

Trouble(w) == Unconfigured(w) \/ StepFails(w) \/ ChunkFails(w)

Next ==
  \/ Start \/ StartTorn \/ SnapshotReady \/ Crash
  \/ \E b \in DOMAIN builds : RetryAll(b) \/ RetryStep(b) \/ CancelBuild(b) \/ CancelStep(b) \/ GoSilent(b)
  \/ \E w \in Workers : Work(w) \/ Trouble(w)

Spec == Init /\ [][Next]_vars

-----------------------------------------------------------------------------
(* What the job promises.                                                  *)

StepStates == {"pending", "running", "completed", "failed", "blocked", "cancelled"}
JobStates == {"queued", "running", "completed", "partial", "failed", "cancelled"}

(* Every variable has its type; only a torn start leaves steps out.        *)
TypeOK ==
  /\ Len(builds) <= MaxBuilds /\ Len(steps) = Len(builds) /\ Len(tasks) = Len(builds)
  /\ \A b \in DOMAIN builds :
       /\ builds[b] \in [status : JobStates, cancel : BOOLEAN, stale : BOOLEAN, pinned : BOOLEAN]
       /\ DOMAIN steps[b] \subseteq Steps
       /\ \A s \in DOMAIN steps[b] :
            steps[b][s] \in [status : StepStates, cancel : BOOLEAN, reused : BOOLEAN]
       /\ tasks[b] \in [Chunks -> {"none", "pending", "running", "completed", "failed", "cancelled"}]
       /\ used.crashes = 0 => DOMAIN steps[b] = Steps
  /\ artifact \in [Stored -> {"none", "part", "whole"}]
  /\ newer \in BOOLEAN /\ ready \in BOOLEAN

(* A retry is not waited for by what settles the job late: the thread that *)
(* failed to store the history of a job it had settled, and the request    *)
(* that cancels a job whose thread was lost.  After it a second retry may  *)
(* give the job two threads.                                               *)
LateSettling ==
  used.retries > 0 /\ (used.history > 0 \/ (used.cancels > 0 /\ used.crashes > 0))
TwoThreads == LateSettling /\ used.retries > 1

(* A completed step rests on completed steps: whatever is cancelled, fails *)
(* or is retried, nothing is run before what STEP_DEPENDS names.           *)
DependenciesFirst ==
  ~TwoThreads => \A b \in DOMAIN steps : \A s \in DOMAIN steps[b] :
    steps[b][s].status \in {"running", "completed"} => Unmet(b, s) = {}

(* A step that a job has completed is not reset or run again by that job,  *)
(* as the head of the file and retry_build() say.                          *)
NeverReExecuted ==
  [][~TwoThreads => \A b \in DOMAIN steps : \A s \in DOMAIN steps[b] :
       steps[b][s].status = "completed" => steps'[b][s].status = "completed"]_vars

(* A scan that the job itself made and calls complete has scanned every    *)
(* chunk: none was left to a thread that was lost, or to a cancellation    *)
(* (but a late one cancels chunks under the retry).                        *)
ScanIsComplete ==
  \A b \in DOMAIN steps : "claim_scan" \in DOMAIN steps[b] =>
    LET row == steps[b]["claim_scan"] IN
    row.status = "completed" /\ ~row.reused /\ ~LateSettling => Scanned(b)

(* A graph that is stored contains every chunk.  A retry starts next to    *)
(* the thread of a newer job; of three jobs, one may have reused the graph *)
(* of another when the scan of a third outdates it, and then builds one of *)
(* the chunks it did not scan.                                             *)
GraphIsWhole ==
  "understanding_graph" \in Stored /\ ~LateSettling /\ (used.retries = 0 \/ Len(builds) <= 2) =>
    artifact["understanding_graph"] # "part"

(* While no process has died a run is open exactly while its thread is at  *)
(* work on the job.                                                        *)
RunIsOfItsThread ==
  used.crashes = 0 /\ ~LateSettling => \A w \in Workers :
    run[w] # "none" /\ worker[w].pc # "raised" => (run[w] = "running" <=> Alive(w))

(* What the runs check of the above in every state.                        *)
BuildInv == TypeOK /\ DependenciesFirst /\ ScanIsComplete /\ GraphIsWhole /\ RunIsOfItsThread

(* A settled job, also one that was superseded, runs or completes again    *)
(* only after a retry, but for the two races above.                        *)
SettledStays ==
  [][\A b \in DOMAIN builds : ~Active(b) /\ ~LateSettling =>
       builds'[b].status \notin {"running", "completed", "partial"} \ {builds[b].status}]_vars
===========================================================================

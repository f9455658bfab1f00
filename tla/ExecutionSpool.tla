--------------------------- MODULE ExecutionSpool ---------------------------
(***************************************************************************)
(* The execution spool of the production deployment: threads of the        *)
(* control server (WorkerExecutionBackend.execute) publish one directory   *)
(* per command under jobs/, workers in another container claim it, run the *)
(* command in a sandbox and leave the result in the directory, and the     *)
(* thread that published it polls, reads the result and removes the        *)
(* directory.  The two sides share nothing but the file system.            *)
(*                                                                         *)
(* A step is one system call that the other side can see.  A command, and  *)
(* what it prints, is not modelled; a job that timed out or failed has a   *)
(* result like any other.                                                  *)
(***************************************************************************)
EXTENDS Integers, FiniteSets

CONSTANTS
  Jobs,      \* calls of execute(): each has its own random job id
  Workers,   \* worker processes
  None,      \* no job
  Crashes,   \* may the server and the workers die?
  GivesUp    \* may the server's deadline pass?

VARIABLES
  dir,      \* the job's directory: does it exist, and which files are in it
  client,   \* the thread in execute(): its step, its answer, what rmtree still removes
  worker,   \* what each worker is doing
  starts    \* history: how often the command of a job was started

vars == <<dir, client, worker, starts>>

Idle == [pc |-> "idle", job |-> None, content |-> "run"]
Files == {"request", "claimed", "temp", "result"}

Init ==
  /\ dir = [j \in Jobs |-> [name |-> "none", files |-> {}, content |-> "run"]]
  /\ client = [j \in Jobs |-> [pc |-> "idle", answer |-> "none", toRemove |-> {}]]
  /\ worker = [w \in Workers |-> Idle]
  /\ starts = [j \in Jobs |-> 0]

Exists(j) == dir[j].name = "published"
InDir(j, f) == Exists(j) /\ f \in dir[j].files
ClientTo(j, label) == client' = [client EXCEPT ![j].pc = label]
WorkerTo(w, label) == worker' = [worker EXCEPT ![w].pc = label]
AddFile(j, f) == dir' = [dir EXCEPT ![j].files = @ \cup {f}]

-----------------------------------------------------------------------------
(* execute().  The request is written to a directory with another name,    *)
(* which no worker looks at, and appears under the job id at once.         *)

Stage(j) ==
  /\ client[j].pc = "idle" /\ ClientTo(j, "publish")
  /\ dir' = [dir EXCEPT ![j].name = "staged", ![j].files = {"request"}]
  /\ UNCHANGED <<worker, starts>>

Publish(j) ==
  /\ client[j].pc = "publish" /\ ClientTo(j, "wait")
  /\ dir' = [dir EXCEPT ![j].name = "published"]
  /\ UNCHANGED <<worker, starts>>

Bug_Readable(j) == InDir(j, "temp") \/ InDir(j, "result")
Readable(j) == InDir(j, "result")

Poll(j) ==
  /\ client[j].pc = "wait" /\ Readable(j)
  /\ client' = [client EXCEPT ![j].pc = "remove",
       ![j].answer = IF "result" \in dir[j].files THEN dir[j].content ELSE "torn"]
  /\ UNCHANGED <<dir, worker, starts>>

(* timeout_seconds plus the grace have passed since the request appeared,  *)
(* whatever the workers had to do before they came to it.                  *)
Deadline(j) ==
  /\ GivesUp /\ client[j].pc = "wait"
  /\ client' = [client EXCEPT ![j].pc = "remove", ![j].answer = "gave_up"]
  /\ UNCHANGED <<dir, worker, starts>>

(* shutil.rmtree(job_dir, ignore_errors=True): list, unlink, rmdir, which  *)
(* fails without a word when a file has appeared since.                    *)
Bug_ToRemove(j) == IF client[j].answer = "gave_up" THEN {} ELSE dir[j].files
ToRemove(j) == dir[j].files

RmList(j) ==
  /\ client[j].pc = "remove"
  /\ client' = [client EXCEPT ![j].pc = "unlink", ![j].toRemove = ToRemove(j)]
  /\ UNCHANGED <<dir, worker, starts>>

Unlink(j) ==
  /\ client[j].pc = "unlink"
  /\ \E f \in client[j].toRemove :
       /\ client' = [client EXCEPT ![j].toRemove = @ \ {f}]
       /\ dir' = [dir EXCEPT ![j].files = @ \ {f}]
  /\ UNCHANGED <<worker, starts>>

RmDir(j) ==
  /\ client[j].pc = "unlink" /\ client[j].toRemove = {}
  /\ dir' = [dir EXCEPT ![j].name = IF dir[j].files = {} THEN "none" ELSE @]
  /\ ClientTo(j, "done")
  /\ UNCHANGED <<worker, starts>>

-----------------------------------------------------------------------------
(* process_job, for the directories run_once lists.                        *)

Bug_Claimable(j) == Exists(j) /\ "result" \notin dir[j].files
Claimable(j) == Exists(j) /\ "claimed" \notin dir[j].files

Claim(w, j) ==
  /\ worker[w].pc = "idle" /\ Claimable(j)
  /\ AddFile(j, "claimed")
  /\ worker' = [worker EXCEPT ![w] = [Idle EXCEPT !.pc = "read", !.job = j]]
  /\ UNCHANGED <<client, starts>>

(* A request that cannot be read, or names no workspace, has an error for  *)
(* a result.                                                               *)
Bug_Unreadable(w) == Idle
Bug_LooksRun(w) == [worker[w] EXCEPT !.pc = "check"]
Unreadable(w) == [worker[w] EXCEPT !.pc = "check", !.content = "error"]

ReadRequest(w) ==
  /\ worker[w].pc = "read"
  /\ \/ /\ InDir(worker[w].job, "request")
        /\ WorkerTo(w, "run")
        /\ starts' = [starts EXCEPT ![worker[w].job] = @ + 1]
     \/ worker' = [worker EXCEPT ![w] = Unreadable(w)] /\ UNCHANGED starts
  /\ UNCHANGED <<dir, client>>

RunEnds(w) ==
  /\ worker[w].pc = "run" /\ WorkerTo(w, "check")
  /\ UNCHANGED <<dir, client, starts>>

(* `if os.path.isdir(job_dir)`, and _write_result in the directory, which  *)
(* may vanish at any moment.                                               *)
Check(w) ==
  /\ worker[w].pc = "check"
  /\ worker' = [worker EXCEPT ![w] = IF Exists(@.job) THEN [@ EXCEPT !.pc = "temp"] ELSE Idle]
  /\ UNCHANGED <<dir, client, starts>>

WriteTemp(w) ==
  /\ worker[w].pc = "temp"
  /\ IF Exists(worker[w].job)
     THEN AddFile(worker[w].job, "temp") /\ WorkerTo(w, "replace")
     ELSE worker' = [worker EXCEPT ![w] = Idle] /\ UNCHANGED dir
  /\ UNCHANGED <<client, starts>>

Replace(w) ==
  /\ worker[w].pc = "replace"
  /\ LET j == worker[w].job IN
       dir' = IF InDir(j, "temp")
              THEN [dir EXCEPT ![j].files = (@ \ {"temp"}) \cup {"result"},
                               ![j].content = worker[w].content]
              ELSE dir
  /\ worker' = [worker EXCEPT ![w] = Idle]
  /\ UNCHANGED <<client, starts>>

-----------------------------------------------------------------------------
(* The server dies with all its threads, or a worker with its command      *)
(* (--die-with-parent).  Nobody cleans the spool afterwards.               *)

ServerCrash ==
  /\ Crashes
  /\ client' = [j \in Jobs |-> IF client[j].pc \in {"idle", "done"} THEN client[j]
                               ELSE [client[j] EXCEPT !.pc = "dead", !.toRemove = {}]]
  /\ client' # client
  /\ UNCHANGED <<dir, worker, starts>>

WorkerCrash(w) ==
  /\ Crashes /\ worker[w].pc # "idle"
  /\ worker' = [worker EXCEPT ![w] = Idle]
  /\ UNCHANGED <<dir, client, starts>>

Execute(j) == Stage(j) \/ Publish(j) \/ Poll(j) \/ RmList(j) \/ Unlink(j) \/ RmDir(j)
Work(w) == ReadRequest(w) \/ RunEnds(w) \/ Check(w) \/ WriteTemp(w) \/ Replace(w)

(* Workers find nothing to claim, and threads that wait poll.              *)
Quiet ==
  /\ \A j \in Jobs : client[j].pc \in {"wait", "done", "dead"}
  /\ \A w \in Workers : worker[w].pc = "idle"
  /\ UNCHANGED vars

Next ==
  \/ \E j \in Jobs : Execute(j) \/ Deadline(j)
  \/ \E w \in Workers : Work(w) \/ WorkerCrash(w) \/ \E j \in Jobs : Claim(w, j)
  \/ ServerCrash
  \/ Quiet

Spec == Init /\ [][Next]_vars

(* Threads run, a worker lists jobs/ again and again, and subprocess.run   *)
(* ends by its timeout.  No deadline is needed for anything to happen.     *)
Fairness ==
  /\ \A j \in Jobs : WF_vars(Execute(j))
  /\ \A w \in Workers : WF_vars(Work(w)) /\ \A j \in Jobs : SF_vars(Claim(w, j))
LiveSpec == Spec /\ Fairness

-----------------------------------------------------------------------------
(* Properties.                                                             *)

TypeOK ==
  /\ \A j \in Jobs :
       /\ dir[j].name \in {"none", "staged", "published"} /\ dir[j].files \subseteq Files
       /\ dir[j].content \in {"run", "error"}
       /\ client[j].pc \in {"idle", "publish", "wait", "remove", "unlink", "done", "dead"}
       /\ client[j].answer \in {"none", "run", "error", "gave_up"}
       /\ client[j].toRemove \subseteq Files
  /\ \A w \in Workers :
       /\ worker[w].pc \in {"idle", "read", "run", "check", "temp", "replace"}
       /\ worker[w].job \in Jobs \cup {None}

Awaited(j) == client[j].pc = "wait"

(* A command runs at most once while somebody waits for its result,        *)
(* however many workers list the spool and whoever crashes: a job is never *)
(* given to a second worker.                                               *)
ExecutedAtMostOnce == \A j \in Jobs : Awaited(j) => starts[j] <= 1

(* An answer that is a run's result belongs to a run of this job that has  *)
(* ended; it is never a half-written file.                                 *)
AnswerIsGenuine ==
  \A j \in Jobs : client[j].answer = "run" =>
    starts[j] >= 1 /\ (client[j].pc = "remove" => \A w \in Workers : worker[w].job # j)

(* What rmtree leaves behind when a worker writes its result at the same   *)
(* moment cannot be run again: execute() that came back has removed the    *)
(* request.                                                                *)
LeftoverIsInert ==
  \A j \in Jobs : client[j].pc = "done" => "request" \notin dir[j].files

(* What the runs check of the above in every state.                        *)
SpoolInv == TypeOK /\ ExecutedAtMostOnce /\ AnswerIsGenuine /\ LeftoverIsInert

(* With the workers alive every call of execute() comes back without the   *)
(* help of its deadline, with a result or an error.                        *)
EveryCallIsAnswered ==
  \A j \in Jobs : (client[j].pc = "wait") ~> (client[j].pc = "done")
=============================================================================

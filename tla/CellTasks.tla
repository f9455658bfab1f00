------------------------------ MODULE CellTasks ------------------------------
(***************************************************************************)
(* The ledger of tasks and escalations of the Probe Cells.                 *)
(*                                                                         *)
(* A request reads what it decides on and then writes in one transaction.  *)
(* In one process the connection is locked from the first to the last, so  *)
(* one member of Processes stands for a deployment; with two, what a       *)
(* request has read may be old when it writes, which the compare-and-set   *)
(* on the status and the unique keys are there for.                        *)
(*                                                                         *)
(* Of the events of a task, `logged' is the status the last transition     *)
(* event leads to, `gap' says that some transition event does not start    *)
(* where the one before it ended, and `stray' that some event of a return  *)
(* names another status than the transition event before it.  What a task  *)
(* is about is left out.                                                   *)
(***************************************************************************)
EXTENDS Naturals, Sequences, FiniteSets

CONSTANTS
  Processes,   \* requests that run at a time
  Keys,        \* idempotency keys; a request without one is as good as a new key
  RetryLimit,  \* retry_limit of a task
  MaxTasks, MaxEscalations, MaxRetries   \* bounds

ASSUME ConstantsAssumption ==
  /\ {RetryLimit, MaxTasks, MaxEscalations, MaxRetries} \subseteq Nat /\ "none" \notin Keys

VARIABLES
  tasks,        \* cell_tasks, in order of id
  escalations,  \* cell_escalations with the key of their report, in order of id
  suspended,    \* whether the intake of the Cell is suspended
  call          \* what each request has read

vars == <<tasks, escalations, suspended, call>>

Idle == [op |-> "idle"]
Statuses == {"todo", "doing", "review", "done", "blocked", "failed"}

Transitions(status) == CASE
  status = "todo" -> {"doing", "failed", "blocked"}
  [] status = "doing" -> {"review", "failed", "blocked"}
  [] status = "review" -> {"done", "failed", "doing"}
  [] status = "blocked" -> {"todo", "doing", "failed"}
  [] status = "failed" -> {"todo"}
  [] OTHER -> {}

Init ==
  /\ tasks = <<>> /\ escalations = <<>> /\ suspended = FALSE
  /\ call = [p \in Processes |-> Idle]

Used(rows, key) == \E n \in DOMAIN rows : rows[n].key = key
Begin(p, c) == call[p] = Idle /\ call' = [call EXCEPT ![p] = c] /\ UNCHANGED <<tasks, escalations, suspended>>
End(p) == call' = [call EXCEPT ![p] = Idle]

-----------------------------------------------------------------------------
(* Delegation                                                              *)

Task(key) == [key |-> key, status |-> "todo", retries |-> 0, blockedBy |-> {}, returned |-> FALSE,
              logged |-> "todo", gap |-> FALSE, stray |-> FALSE]

(* A key that is known answers with its row; a suspended Cell takes nothing.*)
Delegate(p, key) ==
  /\ Len(tasks) < MaxTasks
  /\ ~Used(tasks, key) /\ ~suspended
  /\ Begin(p, [op |-> "delegate", key |-> key])

(* A key used meanwhile answers with the row that used it.                 *)
Bug_Insert(rows, row) == Append(rows, row)
Insert(rows, row) == IF Used(rows, row.key) THEN rows ELSE Append(rows, row)

DelegateWrite(p) ==
  /\ call[p].op = "delegate"
  /\ tasks' = Insert(tasks, Task(call[p].key))
  /\ End(p) /\ UNCHANGED <<escalations, suspended>>

-----------------------------------------------------------------------------
(* Transitions                                                             *)

Retry(from, to) == from = "failed" /\ to = "todo"

Bug_Permitted(task, to) == to \in Transitions(task.status)
Permitted(task, to) ==
  /\ to \in Transitions(task.status)
  /\ Retry(task.status, to) => task.retries < RetryLimit

(* A task may be blocked by any tasks of the System, or by what is said.   *)
Move(p, t, to, blockers) ==
  /\ Permitted(tasks[t], to) /\ tasks[t].retries < MaxRetries
  /\ to # "blocked" => blockers = {}
  /\ Begin(p, [op |-> "move", task |-> t, from |-> tasks[t].status, to |-> to, blockers |-> blockers])

Bug_Unmoved(c) == TRUE
Unmoved(c) == tasks[c.task].status = c.from

(* The blockers of a task are those of its last blocking, and none else.   *)
Bug_Blockers(old, c) == IF c.to = "blocked" THEN c.blockers ELSE old
Blockers(old, c) == IF c.to = "blocked" THEN c.blockers ELSE IF c.from = "blocked" THEN {} ELSE old

MoveWrite(p) ==
  LET c == call[p]
      task == tasks[c.task] IN
  /\ c.op = "move" /\ Unmoved(c)
  /\ tasks' = [tasks EXCEPT ![c.task] =
       [task EXCEPT !.status = c.to, !.blockedBy = Blockers(task.blockedBy, c), !.logged = c.to,
                    !.gap = @ \/ task.logged # c.from,
                    !.retries = IF Retry(c.from, c.to) THEN @ + 1 ELSE @]]
  /\ End(p) /\ UNCHANGED <<escalations, suspended>>

MoveConflict(p) ==
  /\ call[p].op = "move" /\ ~Unmoved(call[p])
  /\ End(p) /\ UNCHANGED <<tasks, escalations, suspended>>

Return(p, t) ==
  /\ tasks[t].status \in {"failed", "blocked"}
  /\ Begin(p, [op |-> "return", task |-> t, from |-> tasks[t].status])

(* The event names the status that was read, and nothing compares it.      *)
ReturnWrite(p) ==
  LET c == call[p]
      task == tasks[c.task] IN
  /\ c.op = "return"
  /\ tasks' = [tasks EXCEPT ![c.task] = [task EXCEPT !.returned = TRUE, !.stray = @ \/ task.logged # c.from]]
  /\ End(p) /\ UNCHANGED <<escalations, suspended>>

-----------------------------------------------------------------------------
(* Escalations                                                             *)

Report(p, key) ==
  /\ Len(escalations) < MaxEscalations /\ ~Used(escalations, key)
  /\ Begin(p, [op |-> "report", key |-> key])

ReportWrite(p) ==
  /\ call[p].op = "report"
  /\ escalations' = Insert(escalations, [key |-> call[p].key, status |-> "open"])
  /\ End(p) /\ UNCHANGED <<tasks, suspended>>

Bug_Settles(status, to) == status # to
Settles(status, to) == IF to = "acknowledged" THEN status = "open" ELSE status # "resolved"

Settle(p, e, to) ==
  /\ Settles(escalations[e].status, to)
  /\ Begin(p, [op |-> "settle", escalation |-> e, to |-> to])

SettleWrite(p) ==
  /\ call[p].op = "settle"
  /\ escalations' = [escalations EXCEPT ![call[p].escalation].status = call[p].to]
  /\ End(p) /\ UNCHANGED <<tasks, suspended>>

(* The quality floor suspends the intake and an operator resumes it.       *)
SetIntake(p) ==
  /\ call[p] = Idle /\ suspended' = ~suspended
  /\ UNCHANGED <<tasks, escalations, call>>

-----------------------------------------------------------------------------
Next ==
  \E p \in Processes :
       \/ \E key \in Keys : Delegate(p, key) \/ Report(p, key)
       \/ \E t \in DOMAIN tasks :
            \/ \E to \in Statuses, blockers \in SUBSET DOMAIN tasks : Move(p, t, to, blockers)
            \/ Return(p, t)
       \/ \E e \in DOMAIN escalations, to \in {"acknowledged", "resolved"} : Settle(p, e, to)
       \/ DelegateWrite(p) \/ MoveWrite(p) \/ MoveConflict(p) \/ ReturnWrite(p)
       \/ ReportWrite(p) \/ SettleWrite(p) \/ SetIntake(p)

Spec == Init /\ [][Next]_vars

-----------------------------------------------------------------------------
(* Rows are as the schema has them, and only a blocked task has blockers.  *)
TypeOK ==
  /\ \A t \in DOMAIN tasks :
       /\ tasks[t].status \in Statuses /\ tasks[t].key \in Keys
       /\ tasks[t].blockedBy \subseteq DOMAIN tasks
       /\ tasks[t].blockedBy # {} => tasks[t].status = "blocked"
  /\ \A e \in DOMAIN escalations : escalations[e].status \in {"open", "acknowledged", "resolved"}
  /\ suspended \in BOOLEAN

(* The transition events of a task, read in order, are the path it took to *)
(* where it is: no two requests write one from the same status             *)
(* (transition_task()'s compare-and-set).                                  *)
EventsTellThePath == \A t \in DOMAIN tasks : ~tasks[t].gap /\ tasks[t].logged = tasks[t].status

(* However often and however concurrently a delegation or a report is      *)
(* sent, it is stored once (the unique keys of the two tables).            *)
SentOnce == \A rows \in {tasks, escalations} : \A m, n \in DOMAIN rows : rows[m].key = rows[n].key => m = n

(* The event of a return names the status the task had when it was written.*)
ReturnsFit == \A t \in DOMAIN tasks : ~tasks[t].stray

(* A task is retried no more often than its limit.                         *)
RetriesAreBounded == \A t \in DOMAIN tasks : tasks[t].retries <= RetryLimit

(* Escalations go from open over acknowledged to resolved and not back.    *)
Rank(status) == CASE status = "open" -> 0 [] status = "acknowledged" -> 1 [] OTHER -> 2
Advance == \A e \in DOMAIN escalations : Rank(escalations'[e].status) >= Rank(escalations[e].status)

(* What the runs check in every state, however many requests there are.    *)
TasksInv == TypeOK /\ EventsTellThePath /\ SentOnce
=============================================================================

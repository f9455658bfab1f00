--------------------------- MODULE CellsProofs -----------------------------
(***************************************************************************)
(* Proofs about the Cell fabric, for any processes, Cells, samples and     *)
(* limits: of the ledger (CellTasks), what holds however many requests     *)
(* there are at a time and what needs them to come one after the other; of *)
(* the rosters (CellRoster), that no sequence of checked changes closes a  *)
(* circle or makes a chain too long, and that a digest is complete; of the *)
(* quality floor (CellQuality), that suspension and resumption are earned. *)
(***************************************************************************)
EXTENDS MCCells, SequenceTheorems, FiniteSetTheorems, WellFoundedInduction, TLAPS

EscalationStatuses == {"open", "acknowledged", "resolved"}
TaskRows ==
  [key : Keys, status : Statuses, retries : Nat, blockedBy : SUBSET Nat, returned : BOOLEAN,
   logged : Statuses, gap : BOOLEAN, stray : BOOLEAN]
EscalationRows == [key : Keys, status : EscalationStatuses]

(* What a request may have read, of a ledger with these rows.              *)
KeyCalls == [op : {"delegate", "report"}, key : Keys]
MoveCalls(ts) == [op : {"move"}, task : ts, from : Statuses, to : Statuses, blockers : SUBSET ts]
ReturnCalls(ts) == [op : {"return"}, task : ts, from : Statuses]
SettleCalls(es) == [op : {"settle"}, escalation : es, to : {"acknowledged", "resolved"}]

Made(c, ts, es) ==
  \/ c = Idle
  \/ c \in KeyCalls
  \/ c \in MoveCalls(ts) /\ (c.to # "blocked" => c.blockers = {})
  \/ c \in ReturnCalls(ts)
  \/ c \in SettleCalls(es)

Typed ==
  /\ tasks \in Seq(TaskRows) /\ escalations \in Seq(EscalationRows)
  /\ call = [p \in Processes |-> call[p]]
  /\ \A p \in Processes : Made(call[p], DOMAIN tasks, DOMAIN escalations)

IInv == Typed /\ TasksInv

-----------------------------------------------------------------------------
(* Insertion into a sequence of rows with a key.                           *)
LEMMA InsertKeeps ==
  ASSUME NEW Rows, NEW rows \in Seq(Rows), NEW row \in Rows
  PROVE  /\ Insert(rows, row) \in Seq(Rows)
         /\ DOMAIN rows \subseteq DOMAIN Insert(rows, row)
         /\ \A n \in DOMAIN rows : Insert(rows, row)[n] = rows[n]
         /\ \A n \in DOMAIN Insert(rows, row) : n \notin DOMAIN rows =>
              Insert(rows, row)[n] = row /\ ~Used(rows, row.key) /\ n = Len(rows) + 1
<1>1. CASE Used(rows, row.key)  BY <1>1 DEF Insert
<1>2. CASE ~Used(rows, row.key)
  <2>1. Insert(rows, row) = Append(rows, row)  BY <1>2 DEF Insert
  <2>2. /\ Append(rows, row) \in Seq(Rows) /\ Len(Append(rows, row)) = Len(rows) + 1
        /\ \A n \in 1..Len(rows) : Append(rows, row)[n] = rows[n]
        /\ Append(rows, row)[Len(rows) + 1] = row
    OBVIOUS
  <2>3. DOMAIN rows = 1..Len(rows) /\ DOMAIN Append(rows, row) = 1..(Len(rows) + 1) /\ Len(rows) \in Nat
    BY <2>2
  <2>. QED  BY <1>2, <2>1, <2>2, <2>3
<1>. QED  BY <1>1, <1>2

(* Rows with different keys stay so.                                       *)
LEMMA InsertedOnce ==
  ASSUME NEW Rows, NEW rows \in Seq(Rows), NEW row \in Rows,
         \A m, n \in DOMAIN rows : rows[m].key = rows[n].key => m = n
  PROVE  \A m, n \in DOMAIN Insert(rows, row) : Insert(rows, row)[m].key = Insert(rows, row)[n].key => m = n
<1>. DEFINE new == Insert(rows, row)
<1>. SUFFICES ASSUME NEW m \in DOMAIN new, NEW n \in DOMAIN new, new[m].key = new[n].key
              PROVE  m = n
  OBVIOUS
<1>. HIDE DEF new
<1>1. /\ \A i \in DOMAIN rows : new[i] = rows[i]
      /\ \A i \in DOMAIN new : i \notin DOMAIN rows => new[i] = row /\ ~Used(rows, row.key) /\ i = Len(rows) + 1
  <2>1. ASSUME NEW i \in DOMAIN rows PROVE new[i] = rows[i]
    BY <2>1, InsertKeeps DEF new
  <2>2. ASSUME NEW i \in DOMAIN new, i \notin DOMAIN rows
        PROVE  new[i] = row /\ ~Used(rows, row.key) /\ i = Len(rows) + 1
    BY <2>2, InsertKeeps DEF new
  <2>. QED  BY <2>1, <2>2
<1>. HIDE DEF new
<1>2. CASE m \in DOMAIN rows /\ n \in DOMAIN rows  BY <1>1, <1>2
<1>3. CASE m \in DOMAIN rows /\ n \notin DOMAIN rows  BY <1>1, <1>3 DEF Used
<1>4. CASE m \notin DOMAIN rows /\ n \in DOMAIN rows  BY <1>1, <1>4 DEF Used
<1>5. CASE m \notin DOMAIN rows /\ n \notin DOMAIN rows  BY <1>1, <1>5
<1>. QED  BY <1>2, <1>3, <1>4, <1>5

(* What a request has read stays of the ledger as rows are added.          *)
LEMMA MadeGrows ==
  ASSUME NEW c, NEW S, NEW T, NEW U, NEW V, S \subseteq T, U \subseteq V, Made(c, S, U)
  PROVE  Made(c, T, V)
BY DEF Made, MoveCalls, ReturnCalls, SettleCalls

LEMMA OpsDiffer ==
  ASSUME NEW c, NEW ts, NEW es, Made(c, ts, es)
  PROVE  /\ c.op \in {"delegate", "report"} => c \in KeyCalls
         /\ c.op = "move" => c \in MoveCalls(ts) /\ (c.to # "blocked" => c.blockers = {})
         /\ c.op = "return" => c \in ReturnCalls(ts)
         /\ c.op = "settle" => c \in SettleCalls(es)
<1>1. c = Idle => c.op = "idle"  BY DEF Idle
<1>2. c \in KeyCalls => c.op \in {"delegate", "report"}  BY DEF KeyCalls
<1>3. c \in MoveCalls(ts) => c.op = "move"  BY DEF MoveCalls
<1>4. c \in ReturnCalls(ts) => c.op = "return"  BY DEF ReturnCalls
<1>5. c \in SettleCalls(es) => c.op = "settle"  BY DEF SettleCalls
<1>. QED  BY <1>1, <1>2, <1>3, <1>4, <1>5 DEF Made

-----------------------------------------------------------------------------
(* The invariant is inductive.                                             *)

LEMMA Initially == Init => IInv
<1>. SUFFICES ASSUME Init PROVE IInv  OBVIOUS
<1>1. /\ tasks \in Seq(TaskRows) /\ escalations \in Seq(EscalationRows)
      /\ DOMAIN tasks = {} /\ DOMAIN escalations = {} /\ suspended = FALSE
  BY DEF Init
<1>2. Typed  BY <1>1 DEF Init, Typed, Made
<1>3. TasksInv  BY <1>1 DEF TasksInv, TypeOK, EventsTellThePath, SentOnce
<1>. QED  BY <1>2, <1>3 DEF IInv

(* A step that only reads, or only ends a request, keeps the ledger.       *)
LEMMA CallKeeps ==
  ASSUME IInv, NEW p \in Processes, NEW c, Made(c, DOMAIN tasks, DOMAIN escalations),
         call' = [call EXCEPT ![p] = c], UNCHANGED <<tasks, escalations>>, suspended' \in BOOLEAN
  PROVE  IInv'
BY DEF IInv, Typed, TasksInv, TypeOK, EventsTellThePath, SentOnce

LEMMA ReadKeeps ==
  ASSUME IInv, NEW p \in Processes,
         \/ \E key \in Keys : Delegate(p, key) \/ Report(p, key)
         \/ \E t \in DOMAIN tasks : Return(p, t)
         \/ \E t \in DOMAIN tasks, to \in Statuses, blockers \in SUBSET DOMAIN tasks : Move(p, t, to, blockers)
         \/ \E e \in DOMAIN escalations, to \in {"acknowledged", "resolved"} : Settle(p, e, to)
  PROVE  IInv'
<1>. suspended \in BOOLEAN  BY DEF IInv, TasksInv, TypeOK
<1>1. CASE \E key \in Keys : Delegate(p, key) \/ Report(p, key)
  BY <1>1, CallKeeps DEF Delegate, Report, Begin, Made, KeyCalls
<1>2. ASSUME NEW t \in DOMAIN tasks, Return(p, t) PROVE IInv'
  <2>. DEFINE c == [op |-> "return", task |-> t, from |-> tasks[t].status]
  <2>1. c \in ReturnCalls(DOMAIN tasks)  BY DEF ReturnCalls, IInv, TasksInv, TypeOK
  <2>. QED  BY <1>2, <2>1, CallKeeps DEF Return, Begin, Made
<1>3. CASE \E e \in DOMAIN escalations, to \in {"acknowledged", "resolved"} : Settle(p, e, to)
  BY <1>3, CallKeeps DEF Settle, Begin, Made, SettleCalls
<1>4. ASSUME NEW t \in DOMAIN tasks, NEW to \in Statuses, NEW blockers \in SUBSET DOMAIN tasks,
             Move(p, t, to, blockers)
      PROVE  IInv'
  <2>. DEFINE c == [op |-> "move", task |-> t, from |-> tasks[t].status, to |-> to, blockers |-> blockers]
  <2>1. tasks[t].status \in Statuses  BY DEF IInv, TasksInv, TypeOK
  <2>2. c \in MoveCalls(DOMAIN tasks) /\ (c.to # "blocked" => c.blockers = {})
    BY <1>4, <2>1 DEF Move, MoveCalls
  <2>. QED  BY <1>4, <2>2, CallKeeps DEF Move, Begin, Made
<1>. QED  BY <1>1, <1>2, <1>3, <1>4

LEMMA EndKeeps ==
  ASSUME IInv, NEW p \in Processes, MoveConflict(p) \/ SetIntake(p)
  PROVE  IInv'
<1>1. suspended \in BOOLEAN  BY DEF IInv, TasksInv, TypeOK
<1>2. CASE MoveConflict(p)  BY <1>1, <1>2, CallKeeps DEF MoveConflict, End, Made
<1>3. CASE SetIntake(p)
  BY <1>1, <1>3 DEF SetIntake, IInv, Typed, TasksInv, TypeOK, EventsTellThePath, SentOnce
<1>. QED  BY <1>2, <1>3

LEMMA DelegateWriteKeeps ==
  ASSUME IInv, NEW p \in Processes, DelegateWrite(p)
  PROVE  IInv'
<1>. DEFINE row == Task(call[p].key)
<1>1. call[p].key \in Keys  BY OpsDiffer DEF IInv, Typed, DelegateWrite, KeyCalls
<1>2. row \in TaskRows /\ row.status = "todo" /\ row.logged = "todo" /\ ~row.gap /\ row.blockedBy = {}
  BY <1>1 DEF Task, TaskRows, Statuses
<1>3. /\ tasks' \in Seq(TaskRows) /\ DOMAIN tasks \subseteq DOMAIN tasks'
      /\ \A n \in DOMAIN tasks : tasks'[n] = tasks[n]
      /\ \A n \in DOMAIN tasks' : n \notin DOMAIN tasks => tasks'[n] = row
  BY <1>2, InsertKeeps DEF DelegateWrite, IInv, Typed
<1>4. Typed'
  BY <1>3, MadeGrows DEF DelegateWrite, End, IInv, Typed, Made
<1>5. TypeOK'
  BY <1>1, <1>2, <1>3 DEF DelegateWrite, IInv, TasksInv, TypeOK, TaskRows
<1>6. EventsTellThePath'
  BY <1>2, <1>3 DEF IInv, TasksInv, EventsTellThePath
<1>7. SentOnce'
  <2>1. \A m, n \in DOMAIN tasks' : tasks'[m].key = tasks'[n].key => m = n
    BY <1>2, InsertedOnce DEF DelegateWrite, IInv, Typed, TasksInv, SentOnce
  <2>2. \A m, n \in DOMAIN escalations : escalations[m].key = escalations[n].key => m = n
    BY DEF IInv, TasksInv, SentOnce
  <2>. QED  BY <2>1, <2>2 DEF DelegateWrite, SentOnce
<1>. QED  BY <1>4, <1>5, <1>6, <1>7 DEF IInv, TasksInv

LEMMA ReportWriteKeeps ==
  ASSUME IInv, NEW p \in Processes, ReportWrite(p)
  PROVE  IInv'
<1>. DEFINE row == [key |-> call[p].key, status |-> "open"]
<1>1. call[p].key \in Keys  BY OpsDiffer DEF IInv, Typed, ReportWrite, KeyCalls
<1>2. row \in EscalationRows /\ row.status = "open"  BY <1>1 DEF EscalationRows, EscalationStatuses
<1>3. /\ escalations' \in Seq(EscalationRows) /\ DOMAIN escalations \subseteq DOMAIN escalations'
      /\ \A n \in DOMAIN escalations : escalations'[n] = escalations[n]
      /\ \A n \in DOMAIN escalations' : n \notin DOMAIN escalations => escalations'[n] = row
  BY <1>2, InsertKeeps DEF ReportWrite, IInv, Typed
<1>4. Typed'
  BY <1>3, MadeGrows DEF ReportWrite, End, IInv, Typed, Made
<1>5. TypeOK'
  BY <1>2, <1>3 DEF ReportWrite, IInv, TasksInv, TypeOK
<1>6. EventsTellThePath'  BY DEF ReportWrite, IInv, TasksInv, EventsTellThePath
<1>7. SentOnce'
  <2>1. \A m, n \in DOMAIN escalations' : escalations'[m].key = escalations'[n].key => m = n
    BY <1>2, InsertedOnce DEF ReportWrite, IInv, Typed, TasksInv, SentOnce
  <2>2. \A m, n \in DOMAIN tasks : tasks[m].key = tasks[n].key => m = n
    BY DEF IInv, TasksInv, SentOnce
  <2>. QED  BY <2>1, <2>2 DEF ReportWrite, SentOnce
<1>. QED  BY <1>4, <1>5, <1>6, <1>7 DEF IInv, TasksInv

(* A transition is written from the status the last event leads to.        *)
LEMMA MoveWriteKeeps ==
  ASSUME IInv, NEW p \in Processes, MoveWrite(p)
  PROVE  IInv'
<1>. DEFINE c == call[p]
            t == c.task
            row == tasks'[t]
<1>1. c \in MoveCalls(DOMAIN tasks) /\ (c.to # "blocked" => c.blockers = {})
  BY OpsDiffer DEF IInv, Typed, MoveWrite
<1>2. /\ t \in DOMAIN tasks /\ c.to \in Statuses /\ c.blockers \subseteq DOMAIN tasks
      /\ tasks[t] \in TaskRows /\ DOMAIN tasks \subseteq Nat
  BY <1>1 DEF MoveCalls, IInv, Typed
<1>3. tasks[t].status = c.from /\ tasks[t].logged = c.from /\ ~tasks[t].gap
  BY <1>2 DEF MoveWrite, Unmoved, IInv, TasksInv, EventsTellThePath
<1>4. /\ tasks' = [tasks EXCEPT ![t] = row]
      /\ row.key = tasks[t].key /\ row.status = c.to /\ row.logged = c.to /\ row.gap = FALSE
      /\ row.blockedBy = Blockers(tasks[t].blockedBy, c)
      /\ row.retries \in Nat /\ row \in TaskRows
      /\ row.blockedBy \subseteq DOMAIN tasks /\ (row.blockedBy # {} => row.status = "blocked")
  <2>1. /\ Blockers(tasks[t].blockedBy, c) \subseteq DOMAIN tasks
        /\ Blockers(tasks[t].blockedBy, c) # {} => c.to = "blocked"
    BY <1>1, <1>2, <1>3 DEF Blockers, IInv, TasksInv, TypeOK
  <2>2. row = [tasks[t] EXCEPT !.status = c.to, !.blockedBy = Blockers(tasks[t].blockedBy, c),
                 !.logged = c.to, !.gap = tasks[t].gap \/ tasks[t].logged # c.from,
                 !.retries = IF Retry(c.from, c.to) THEN tasks[t].retries + 1 ELSE tasks[t].retries]
    BY <1>2 DEF MoveWrite, IInv, Typed
  <2>3. /\ tasks[t].retries \in Nat
        /\ tasks[t] = [key |-> tasks[t].key, status |-> tasks[t].status, retries |-> tasks[t].retries,
                       blockedBy |-> tasks[t].blockedBy, returned |-> tasks[t].returned,
                       logged |-> tasks[t].logged, gap |-> tasks[t].gap, stray |-> tasks[t].stray]
    BY <1>2 DEF TaskRows
  <2>4. tasks' = [tasks EXCEPT ![t] = row]  BY <1>2, <2>2 DEF MoveWrite
  <2>5. /\ row.key = tasks[t].key /\ row.status = c.to /\ row.logged = c.to
        /\ row.blockedBy = Blockers(tasks[t].blockedBy, c)
        /\ row.returned = tasks[t].returned /\ row.stray = tasks[t].stray
        /\ row.retries = IF Retry(c.from, c.to) THEN tasks[t].retries + 1 ELSE tasks[t].retries
        /\ row.gap = (tasks[t].gap \/ tasks[t].logged # c.from)
    BY <2>2, <2>3
  <2>6. row.gap = FALSE  BY <1>3, <2>5
  <2>7. row.retries \in Nat  BY <2>3, <2>5
  <2>8. row \in TaskRows
    BY <1>2, <1>3, <2>1, <2>2, <2>3, <2>7 DEF TaskRows
  <2>. QED  BY <2>1, <2>4, <2>5, <2>6, <2>7, <2>8
<1>5. DOMAIN tasks' = DOMAIN tasks /\ \A n \in DOMAIN tasks : n # t => tasks'[n] = tasks[n]
  BY <1>4
<1>. HIDE DEF row
<1>6. Typed'
  <2>1. tasks' \in Seq(TaskRows)  BY <1>2, <1>4 DEF IInv, Typed
  <2>2. DOMAIN escalations' = DOMAIN escalations /\ \A q \in Processes : call'[q] \in {call[q], Idle}
    BY DEF MoveWrite, End, IInv, Typed
  <2>3. ASSUME NEW q \in Processes PROVE Made(call'[q], DOMAIN tasks', DOMAIN escalations')
    BY <1>5, <2>2 DEF IInv, Typed, Made
  <2>4. escalations' = escalations /\ call' = [q \in Processes |-> call'[q]]
    BY DEF MoveWrite, End, IInv, Typed
  <2>. QED  BY <2>1, <2>3, <2>4 DEF IInv, Typed
<1>7. TypeOK'
  BY <1>2, <1>4, <1>5 DEF MoveWrite, IInv, TasksInv, TypeOK
<1>8. EventsTellThePath'
  BY <1>4, <1>5 DEF IInv, TasksInv, EventsTellThePath
<1>9. SentOnce'
  <2>1. \A m \in DOMAIN tasks : tasks'[m].key = tasks[m].key  BY <1>4, <1>5
  <2>2. \A m, n \in DOMAIN tasks' : tasks'[m].key = tasks'[n].key => m = n
    BY <1>5, <2>1 DEF IInv, TasksInv, SentOnce
  <2>3. \A m, n \in DOMAIN escalations : escalations[m].key = escalations[n].key => m = n
    BY DEF IInv, TasksInv, SentOnce
  <2>4. escalations' = escalations  BY DEF MoveWrite
  <2>. QED  BY <2>2, <2>3, <2>4 DEF SentOnce
<1>. QED  BY <1>6, <1>7, <1>8, <1>9 DEF IInv, TasksInv

(* The event of a return is no transition event.                           *)
LEMMA ReturnWriteKeeps ==
  ASSUME IInv, NEW p \in Processes, ReturnWrite(p)
  PROVE  IInv'
<1>. DEFINE t == call[p].task
            stray == tasks[t].stray \/ tasks[t].logged # call[p].from
<1>1. t \in DOMAIN tasks  BY OpsDiffer DEF IInv, Typed, ReturnWrite, ReturnCalls
<1>2. tasks[t] \in TaskRows /\ tasks'[t] = [tasks[t] EXCEPT !.returned = TRUE, !.stray = stray] /\ stray \in BOOLEAN
  BY <1>1 DEF IInv, Typed, ReturnWrite
<1>. HIDE DEF stray
<1>3. /\ tasks' \in Seq(TaskRows) /\ DOMAIN tasks' = DOMAIN tasks
      /\ \A n \in DOMAIN tasks : /\ tasks'[n].key = tasks[n].key /\ tasks'[n].status = tasks[n].status
                                 /\ tasks'[n].blockedBy = tasks[n].blockedBy
                                 /\ tasks'[n].logged = tasks[n].logged /\ tasks'[n].gap = tasks[n].gap
  <2>1. tasks' = [tasks EXCEPT ![t] = tasks'[t]] /\ tasks'[t] \in TaskRows
    BY <1>1, <1>2 DEF ReturnWrite, IInv, Typed, TaskRows
  <2>2. tasks' \in Seq(TaskRows)  BY <1>1, <2>1 DEF IInv, Typed
  <2>3. /\ tasks'[t].key = tasks[t].key /\ tasks'[t].status = tasks[t].status
        /\ tasks'[t].blockedBy = tasks[t].blockedBy
        /\ tasks'[t].logged = tasks[t].logged /\ tasks'[t].gap = tasks[t].gap
    BY <1>2 DEF TaskRows
  <2>. QED  BY <2>1, <2>2, <2>3
<1>4. Typed'  BY <1>3 DEF ReturnWrite, End, IInv, Typed, Made
<1>5. TypeOK'  BY <1>3 DEF ReturnWrite, IInv, TasksInv, TypeOK
<1>6. EventsTellThePath' /\ SentOnce'
  BY <1>3 DEF ReturnWrite, IInv, TasksInv, EventsTellThePath, SentOnce
<1>. QED  BY <1>4, <1>5, <1>6 DEF IInv, TasksInv

LEMMA SettleWriteKeeps ==
  ASSUME IInv, NEW p \in Processes, SettleWrite(p)
  PROVE  IInv'
<1>. DEFINE e == call[p].escalation
<1>1. e \in DOMAIN escalations /\ call[p].to \in EscalationStatuses
  BY OpsDiffer DEF IInv, Typed, SettleWrite, SettleCalls, EscalationStatuses
<1>2. escalations[e] \in EscalationRows /\ escalations'[e] = [escalations[e] EXCEPT !.status = call[p].to]
  BY <1>1 DEF IInv, Typed, SettleWrite
<1>3. /\ escalations' \in Seq(EscalationRows) /\ DOMAIN escalations' = DOMAIN escalations
      /\ \A n \in DOMAIN escalations : escalations'[n].key = escalations[n].key
  <2>1. escalations' = [escalations EXCEPT ![e] = escalations'[e]] /\ escalations'[e] \in EscalationRows
    BY <1>1, <1>2 DEF SettleWrite, IInv, Typed, EscalationRows
  <2>2. escalations' \in Seq(EscalationRows)  BY <1>1, <2>1 DEF IInv, Typed
  <2>3. escalations'[e].key = escalations[e].key  BY <1>2 DEF EscalationRows
  <2>. QED  BY <2>1, <2>2, <2>3
<1>4. Typed'  BY <1>3 DEF SettleWrite, End, IInv, Typed, Made
<1>5. TypeOK'
  <2>1. \A n \in DOMAIN escalations' : escalations'[n] \in EscalationRows  BY <1>3
  <2>. QED  BY <2>1 DEF SettleWrite, IInv, TasksInv, TypeOK, EscalationRows, EscalationStatuses
<1>6. EventsTellThePath' /\ SentOnce'
  BY <1>3 DEF SettleWrite, IInv, TasksInv, EventsTellThePath, SentOnce
<1>. QED  BY <1>4, <1>5, <1>6 DEF IInv, TasksInv

LEMMA Inductive == IInv /\ [Next]_vars => IInv'
<1>. SUFFICES ASSUME IInv, [Next]_vars PROVE IInv'  OBVIOUS
<1>1. CASE UNCHANGED vars
  BY <1>1 DEF vars, IInv, Typed, TasksInv, TypeOK, EventsTellThePath, SentOnce
<1>2. CASE Next
  BY <1>2, ReadKeeps, EndKeeps, DelegateWriteKeeps, ReportWriteKeeps, MoveWriteKeeps, ReturnWriteKeeps,
     SettleWriteKeeps
  DEF Next
<1>. QED  BY <1>1, <1>2

(* However many requests read an older state of the ledger, the events of  *)
(* a task tell its path and what is sent twice is stored once.             *)
THEOREM LedgerHolds == Spec => []TasksInv
<1>1. IInv => TasksInv  BY DEF IInv
<1>. QED  BY Initially, Inductive, <1>1, PTL DEF Spec

-----------------------------------------------------------------------------
(* With one request at a time, what it has read is still so when it writes.*)

OneProcess == \A p, q \in Processes : p = q

Fresh(c) ==
  /\ (c.op = "move" /\ Retry(tasks[c.task].status, c.to)) => tasks[c.task].retries < RetryLimit
  /\ c.op = "return" => tasks[c.task].status = c.from
  /\ c.op = "settle" => Settles(escalations[c.escalation].status, c.to)

OneInv == IInv /\ RetriesAreBounded /\ ReturnsFit /\ \A p \in Processes : Fresh(call[p])

LEMMA OneInitially == Init => OneInv
<1>. SUFFICES ASSUME Init PROVE OneInv  OBVIOUS
<1>1. DOMAIN tasks = {}  BY DEF Init
<1>2. IInv  BY Initially
<1>. QED  BY <1>1, <1>2 DEF OneInv, Init, Idle, RetriesAreBounded, ReturnsFit, Fresh

(* What is idle after the step has read nothing.                           *)
LEMMA IdleIsFresh ==
  ASSUME OneProcess, IInv, NEW p \in Processes, End(p)
  PROVE  \A q \in Processes : Fresh(call[q])'
BY DEF OneProcess, IInv, Typed, End, Idle, Fresh

LEMMA ReadIsFresh ==
  ASSUME OneProcess, OneInv, NEW p \in Processes, UNCHANGED <<tasks, escalations>>,
         NEW c, call' = [call EXCEPT ![p] = c], Fresh(c)
  PROVE  RetriesAreBounded' /\ ReturnsFit' /\ \A q \in Processes : Fresh(call[q])'
<1>1. \A q \in Processes : call'[q] = c  BY DEF OneProcess, OneInv, IInv, Typed
<1>. QED  BY <1>1 DEF OneInv, RetriesAreBounded, ReturnsFit, Fresh

LEMMA OneMoveWrite ==
  ASSUME OneInv, NEW p \in Processes, MoveWrite(p)
  PROVE  RetriesAreBounded' /\ ReturnsFit'
<1>. DEFINE c == call[p]
            t == c.task
<1>1. t \in DOMAIN tasks /\ tasks[t] \in TaskRows
  BY OpsDiffer DEF OneInv, IInv, Typed, MoveWrite, MoveCalls
<1>2. tasks[t].status = c.from /\ (Retry(c.from, c.to) => tasks[t].retries < RetryLimit)
  BY DEF OneInv, Fresh, MoveWrite, Unmoved
<1>3. tasks[t].retries \in Nat /\ tasks[t].retries <= RetryLimit /\ RetryLimit \in Nat
  BY <1>1, ConstantsAssumption DEF TaskRows, OneInv, RetriesAreBounded
<1>4. tasks'[t].retries = IF Retry(c.from, c.to) THEN tasks[t].retries + 1 ELSE tasks[t].retries
  BY <1>1 DEF MoveWrite, TaskRows
<1>5. DOMAIN tasks' = DOMAIN tasks /\ \A n \in DOMAIN tasks : n # t => tasks'[n] = tasks[n]
  BY DEF MoveWrite
<1>6. tasks'[t].retries <= RetryLimit  BY <1>2, <1>3, <1>4
<1>7. tasks'[t].stray = tasks[t].stray  BY <1>1 DEF MoveWrite, TaskRows
<1>. QED  BY <1>5, <1>6, <1>7 DEF OneInv, RetriesAreBounded, ReturnsFit

LEMMA OneInductive == OneProcess /\ OneInv /\ [Next]_vars => OneInv'
<1>. SUFFICES ASSUME OneProcess, OneInv, [Next]_vars PROVE OneInv'  OBVIOUS
<1>1. IInv'  BY Inductive DEF OneInv
<1>2. CASE UNCHANGED vars
  BY <1>1, <1>2 DEF vars, OneInv, RetriesAreBounded, ReturnsFit, Fresh
<1>. SUFFICES ASSUME NEW p \in Processes, Next PROVE RetriesAreBounded' /\ ReturnsFit' /\ \A q \in Processes : Fresh(call[q])'
  BY <1>1, <1>2 DEF Next, OneInv
<1>3. ASSUME NEW key \in Keys, Delegate(p, key) \/ Report(p, key)
      PROVE  RetriesAreBounded' /\ ReturnsFit' /\ \A q \in Processes : Fresh(call[q])'
  BY <1>3, ReadIsFresh DEF Delegate, Report, Begin, Fresh
<1>4. ASSUME NEW t \in DOMAIN tasks, NEW to \in Statuses, NEW blockers \in SUBSET DOMAIN tasks,
             Move(p, t, to, blockers)
      PROVE  RetriesAreBounded' /\ ReturnsFit' /\ \A q \in Processes : Fresh(call[q])'
  BY <1>4, ReadIsFresh DEF Move, Begin, Fresh, Permitted
<1>5. ASSUME NEW t \in DOMAIN tasks, Return(p, t)
      PROVE  RetriesAreBounded' /\ ReturnsFit' /\ \A q \in Processes : Fresh(call[q])'
  BY <1>5, ReadIsFresh DEF Return, Begin, Fresh
<1>6. ASSUME NEW e \in DOMAIN escalations, NEW to \in {"acknowledged", "resolved"}, Settle(p, e, to)
      PROVE  RetriesAreBounded' /\ ReturnsFit' /\ \A q \in Processes : Fresh(call[q])'
  BY <1>6, ReadIsFresh DEF Settle, Begin, Fresh
<1>7. CASE DelegateWrite(p)
  <2>1. \A q \in Processes : Fresh(call[q])'  BY <1>7, IdleIsFresh DEF DelegateWrite, OneInv
  <2>2. call[p].key \in Keys
    BY <1>7, OpsDiffer DEF OneInv, IInv, Typed, DelegateWrite, KeyCalls
  <2>3. Task(call[p].key) \in TaskRows /\ Task(call[p].key).retries = 0 /\ ~Task(call[p].key).stray
    BY <2>2 DEF Task, TaskRows, Statuses
  <2>4. \A n \in DOMAIN tasks' : tasks'[n] = Task(call[p].key) \/ (n \in DOMAIN tasks /\ tasks'[n] = tasks[n])
    BY <1>7, <2>3, InsertKeeps DEF DelegateWrite, OneInv, IInv, Typed
  <2>5. RetryLimit \in Nat  BY ConstantsAssumption
  <2>6. RetriesAreBounded' /\ ReturnsFit'  BY <2>3, <2>4, <2>5 DEF OneInv, RetriesAreBounded, ReturnsFit
  <2>. QED  BY <2>1, <2>6
<1>8. CASE MoveWrite(p)
  <2>1. End(p)  BY <1>8 DEF MoveWrite
  <2>2. RetriesAreBounded' /\ ReturnsFit'  BY <1>8, OneMoveWrite
  <2>3. \A q \in Processes : Fresh(call[q])'  BY <2>1, IdleIsFresh DEF OneInv
  <2>. QED  BY <2>2, <2>3
<1>9. CASE MoveConflict(p)
  BY <1>9, IdleIsFresh DEF MoveConflict, OneInv, RetriesAreBounded, ReturnsFit
<1>10. CASE ReturnWrite(p)
  <2>1. call[p].task \in DOMAIN tasks  BY <1>10, OpsDiffer DEF OneInv, IInv, Typed, ReturnWrite, ReturnCalls
  <2>2. /\ tasks[call[p].task] \in TaskRows /\ ~tasks[call[p].task].stray
        /\ tasks[call[p].task].logged = call[p].from
    <3>1. tasks[call[p].task].status = call[p].from  BY <1>10 DEF OneInv, Fresh, ReturnWrite
    <3>. QED  BY <2>1, <3>1 DEF OneInv, IInv, Typed, TasksInv, EventsTellThePath, ReturnsFit
  <2>3. DOMAIN tasks' = DOMAIN tasks
        /\ \A n \in DOMAIN tasks : tasks'[n].retries = tasks[n].retries /\ tasks'[n].stray = tasks[n].stray
    BY <1>10, <2>1, <2>2 DEF ReturnWrite, TaskRows, OneInv, ReturnsFit
  <2>4. RetriesAreBounded' /\ ReturnsFit'  BY <2>3 DEF OneInv, RetriesAreBounded, ReturnsFit
  <2>. QED  BY <1>10, <2>4, IdleIsFresh DEF ReturnWrite, OneInv
<1>11. CASE ReportWrite(p) \/ SettleWrite(p)
  BY <1>11, IdleIsFresh DEF ReportWrite, SettleWrite, OneInv, RetriesAreBounded, ReturnsFit
<1>12. CASE SetIntake(p)
  BY <1>12 DEF SetIntake, OneInv, RetriesAreBounded, ReturnsFit, Fresh
<1>13. \A q \in Processes : q = p  BY DEF OneProcess
<1>. QED  BY <1>3, <1>4, <1>5, <1>6, <1>7, <1>8, <1>9, <1>10, <1>11, <1>12, <1>13 DEF Next

(* An escalation that is settled by what was read of it only advances.     *)
LEMMA StepAdvances == OneInv /\ [Next]_vars => Advance
<1>. SUFFICES ASSUME OneInv, [Next]_vars, NEW e \in DOMAIN escalations
              PROVE  Rank(escalations'[e].status) >= Rank(escalations[e].status)
  BY DEF Advance
<1>1. escalations[e] \in EscalationRows  BY DEF OneInv, IInv, Typed
<1>2. Rank(escalations[e].status) \in 0..2  BY DEF Rank
<1>3. CASE escalations'[e] = escalations[e]  BY <1>2, <1>3
<1>4. ASSUME NEW p \in Processes, SettleWrite(p)
      PROVE  Rank(escalations'[e].status) >= Rank(escalations[e].status)
  <2>. DEFINE f == call[p].escalation
  <2>1. f \in DOMAIN escalations /\ call[p].to \in {"acknowledged", "resolved"}
    BY <1>4, OpsDiffer DEF OneInv, IInv, Typed, SettleWrite, SettleCalls
  <2>2. Settles(escalations[f].status, call[p].to)  BY <1>4 DEF OneInv, Fresh, SettleWrite
  <2>3. CASE e # f  BY <1>3, <1>4, <2>3 DEF SettleWrite
  <2>4. CASE e = f
    <3>1. escalations'[e].status = call[p].to
      BY <1>1, <1>4, <2>1, <2>4 DEF SettleWrite, EscalationRows
    <3>. QED  BY <1>1, <2>1, <2>2, <2>4, <3>1 DEF Settles, Rank, EscalationRows, EscalationStatuses
  <2>. QED  BY <2>3, <2>4
<1>5. ASSUME NEW p \in Processes, ReportWrite(p)
      PROVE  escalations'[e] = escalations[e]
  <2>1. call[p].key \in Keys  BY <1>5, OpsDiffer DEF OneInv, IInv, Typed, ReportWrite, KeyCalls
  <2>2. [key |-> call[p].key, status |-> "open"] \in EscalationRows
    BY <2>1 DEF EscalationRows, EscalationStatuses
  <2>. QED  BY <1>5, <2>2, InsertKeeps DEF ReportWrite, OneInv, IInv, Typed
<1>6. (\E p \in Processes : SettleWrite(p) \/ ReportWrite(p)) \/ escalations' = escalations
  <2>1. CASE UNCHANGED vars  BY <2>1 DEF vars
  <2>2. ASSUME NEW p \in Processes, MoveWrite(p) PROVE escalations' = escalations
    BY <2>2 DEF MoveWrite
  <2>3. CASE Next
    BY <2>2, <2>3
    DEF Next, Delegate, Report, Move, Return, Settle, Begin, DelegateWrite, MoveConflict, ReturnWrite, SetIntake
  <2>. QED  BY <2>1, <2>3
<1>. QED  BY <1>3, <1>4, <1>5, <1>6

(* In one process no task is retried more often than its limit, the event  *)
(* of a return names the status the task has, and no escalation goes back: *)
(* what a request decides on is still so when it writes.  With two         *)
(* processes none of these holds.                                          *)
THEOREM OneProcessIsSerial == OneProcess => (Spec => [](RetriesAreBounded /\ ReturnsFit) /\ [][Advance]_vars)
<1>. SUFFICES ASSUME OneProcess PROVE Spec => [](RetriesAreBounded /\ ReturnsFit) /\ [][Advance]_vars
  OBVIOUS
<1>1. OneInv /\ [Next]_vars => OneInv'  BY OneInductive
<1>2. OneInv => RetriesAreBounded /\ ReturnsFit  BY DEF OneInv
<1>. QED  BY OneInitially, <1>1, <1>2, StepAdvances, PTL DEF Spec

-----------------------------------------------------------------------------
(* Numbers: a set has a least one, and one that is bounded a greatest.     *)

LEMMA LeastNumber ==
  ASSUME NEW S \in SUBSET Nat, S # {}
  PROVE  \E m \in S : \A n \in S : m <= n
<1>. DEFINE R == {pair \in Nat \X Nat : pair[1] < pair[2]}
<1>1. IsWellFoundedOn(R, Nat)  BY NatLessThanWellFounded DEF OpToRel
<1>. HIDE DEF R
<1>2. PICK m \in S : \A n \in S : <<n, m>> \notin R  BY <1>1, WFMin
<1>3. \A n \in S : ~(n < m)  BY <1>2 DEF R
<1>. QED  BY <1>3

LEMMA GreatestNumber ==
  ASSUME NEW N \in Nat, NEW S \in SUBSET (0..N), S # {}
  PROVE  \E m \in S : \A n \in S : m >= n
<1>. DEFINE U == {m \in 0..N : \A n \in S : n <= m}
<1>1. U \in SUBSET Nat /\ N \in U  OBVIOUS
<1>2. PICK m \in U : \A n \in U : m <= n  BY <1>1, LeastNumber
<1>3. m \in S
  <2>. SUFFICES ASSUME m \notin S PROVE FALSE  OBVIOUS
  <2>1. m \in 0..N /\ \A n \in S : n <= m /\ n # m /\ n \in 0..N  BY <1>2
  <2>2. m # 0
    <3>1. PICK n \in S : TRUE  OBVIOUS
    <3>2. n \in 0..N /\ n <= m /\ n # m  BY <2>1
    <3>. QED  BY <3>2
  <2>3. m \in 0..N  BY <2>1
  <2>4. m - 1 \in 0..N /\ ~(m <= m - 1)  BY <2>2, <2>3
  <2>5. \A n \in S : n <= m - 1
    <3>. SUFFICES ASSUME NEW n \in S PROVE n <= m - 1  OBVIOUS
    <3>1. n \in 0..N /\ n <= m /\ n # m  BY <2>1
    <3>. QED  BY <2>3, <3>1
  <2>6. m - 1 \in U  BY <2>4, <2>5
  <2>. QED  BY <1>2, <2>4, <2>6
<1>. QED  BY <1>2, <1>3

(* What MaxOf finds of numbers up to N (_cell_row_depth()).                *)
LEMMA MaxOfBounded ==
  ASSUME NEW N \in Nat, NEW S \in SUBSET (0..N)
  PROVE  Roster!MaxOf(S) \in 0..N /\ \A n \in S : n <= Roster!MaxOf(S)
<1>. DEFINE T == S \cup {0}
<1>1. T \in SUBSET (0..N) /\ S \subseteq T /\ T # {}  OBVIOUS
<1>2. Roster!MaxOf(S) = CHOOSE m \in T : \A n \in T : m >= n  BY DEF Roster!MaxOf, Roster!Max
<1>. HIDE DEF T
<1>3. \E m \in T : \A n \in T : m >= n  BY <1>1, GreatestNumber
<1>4. Roster!MaxOf(S) \in T /\ \A n \in T : Roster!MaxOf(S) >= n  BY <1>2, <1>3
<1>. QED  BY <1>1, <1>4

-----------------------------------------------------------------------------
(* Rosters: what is below a Cell, and chains of orchestrators.             *)

Rostered(g) == DOMAIN g \subseteq Cells /\ \A c \in DOMAIN g : g[c] \subseteq Cells
Acyclic(g) == \A c \in DOMAIN g : c \notin Roster!Below(g, g[c])

(* What is below some Cells is the least closed set that contains them.    *)
LEMMA BelowIsLeast ==
  ASSUME NEW g, Rostered(g), NEW M \in SUBSET Cells
  PROVE  /\ M \subseteq Roster!Below(g, M) /\ Roster!Below(g, M) \subseteq Cells
         /\ Roster!Closed(g, Roster!Below(g, M))
         /\ \A S \in SUBSET Cells : M \subseteq S /\ Roster!Closed(g, S) => Roster!Below(g, M) \subseteq S
<1>1. /\ M \subseteq Roster!Below(g, M) /\ Roster!Below(g, M) \subseteq Cells
      /\ \A S \in SUBSET Cells : M \subseteq S /\ Roster!Closed(g, S) => Roster!Below(g, M) \subseteq S
  BY DEF Roster!Below
<1>2. ASSUME NEW c \in Roster!Below(g, M), NEW d \in Roster!RosterOf(g, c)
      PROVE  d \in Roster!Below(g, M)
  <2>1. d \in Cells  BY DEF Roster!RosterOf, Rostered
  <2>2. ASSUME NEW S \in SUBSET Cells, M \subseteq S, Roster!Closed(g, S)
        PROVE  d \in S
    BY <1>1, <2>2 DEF Roster!Closed
  <2>. QED  BY <2>1, <2>2 DEF Roster!Below
<1>. QED  BY <1>1, <1>2 DEF Roster!Closed

(* What is further along a chain is below what comes before it.            *)
LEMMA ChainGoesDown ==
  ASSUME NEW g, Rostered(g), NEW n \in Nat, NEW chain \in Roster!Chains(g, n),
         NEW i \in 1..n, NEW j \in 1..n, i < j
  PROVE  chain[j] \in Roster!Below(g, g[chain[i]])
<1>1. /\ \A k \in 1..n : chain[k] \in DOMAIN g
      /\ \A k \in 1..n - 1 : chain[k + 1] \in g[chain[k]]
  BY DEF Roster!Chains
<1>. DEFINE B == Roster!Below(g, g[chain[i]])
            Beyond == {k \in Nat : i < k /\ k <= j /\ chain[k] \notin B}
<1>2. g[chain[i]] \subseteq B /\ Roster!Closed(g, B)
  <2>1. g[chain[i]] \in SUBSET Cells  BY <1>1 DEF Rostered
  <2>. QED  BY <2>1, BelowIsLeast
<1>. HIDE DEF B
<1>3. SUFFICES ASSUME Beyond # {} PROVE FALSE  BY DEF B
<1>4. PICK m \in Beyond : \A k \in Beyond : m <= k  BY <1>3, LeastNumber
<1>5. m - 1 \in 1..n - 1 /\ (m - 1) + 1 = m  BY <1>4
<1>6. chain[m] \in g[chain[m - 1]]  BY <1>1, <1>5
<1>7. CASE m - 1 = i  BY <1>2, <1>4, <1>6, <1>7
<1>8. CASE m - 1 # i
  <2>1. chain[m - 1] \in B  BY <1>4, <1>5, <1>8
  <2>2. chain[m - 1] \in DOMAIN g  BY <1>1, <1>5
  <2>. QED  BY <1>2, <1>4, <1>6, <2>1, <2>2 DEF Roster!Closed, Roster!RosterOf
<1>. QED  BY <1>7, <1>8

(* Without a circle no chain comes past an orchestrator twice.             *)
LEMMA ChainIsInjective ==
  ASSUME NEW g, Rostered(g), Acyclic(g), NEW n \in Nat, NEW chain \in Roster!Chains(g, n),
         NEW i \in 1..n, NEW j \in 1..n, chain[i] = chain[j]
  PROVE  i = j
<1>1. chain[i] \in DOMAIN g /\ chain[j] \in DOMAIN g  BY DEF Roster!Chains
<1>2. ~(i < j)  BY <1>1, ChainGoesDown DEF Acyclic
<1>3. ~(j < i)  BY <1>1, ChainGoesDown DEF Acyclic
<1>. QED  BY <1>2, <1>3

(* A piece of a chain is a chain.                                          *)
LEMMA PieceOfChain ==
  ASSUME NEW g, NEW n \in Nat, NEW chain \in Roster!Chains(g, n), NEW k \in Nat, NEW m \in Nat, k + m <= n
  PROVE  [i \in 1..m |-> chain[k + i]] \in Roster!Chains(g, m)
<1>. DEFINE piece == [i \in 1..m |-> chain[k + i]]
<1>1. /\ \A i \in 1..n : chain[i] \in DOMAIN g
      /\ \A i \in 1..n - 1 : chain[i + 1] \in g[chain[i]]
  BY DEF Roster!Chains
<1>2. piece \in [1..m -> DOMAIN g]
  <2>1. \A i \in 1..m : k + i \in 1..n  OBVIOUS
  <2>. QED  BY <1>1, <2>1
<1>3. ASSUME NEW i \in 1..m - 1 PROVE piece[i + 1] \in g[piece[i]]
  <2>1. k + i \in 1..n - 1 /\ k + (i + 1) = (k + i) + 1 /\ i \in 1..m /\ i + 1 \in 1..m  OBVIOUS
  <2>2. piece[i + 1] = chain[(k + i) + 1] /\ piece[i] = chain[k + i]  BY <2>1
  <2>. QED  BY <1>1, <2>1, <2>2
<1>. QED  BY <1>2, <1>3 DEF Roster!Chains

(* Depth and height are at least the lengths of the chains there are, up   *)
(* to one above the limit (_cell_row_depth(), _max_ancestor_height()).     *)
LEMMA DepthOfChain ==
  ASSUME NEW g, NEW c
  PROVE  /\ Roster!Depth(g, c) \in 0..MaxDepth + 1 /\ Roster!Height(g, c) \in 0..MaxDepth + 1
         /\ \A n \in 1..MaxDepth + 1 : \A chain \in Roster!Chains(g, n) :
              /\ chain[1] = c => n <= Roster!Depth(g, c)
              /\ c \in g[chain[n]] => n <= Roster!Height(g, c)
<1>. DEFINE D == {n \in Roster!Lengths : \E chain \in Roster!Chains(g, n) : chain[1] = c}
            H == {n \in Roster!Lengths : \E chain \in Roster!Chains(g, n) : c \in g[chain[n]]}
<1>1. MaxDepth + 1 \in Nat  BY RosterAssumption
<1>2. D \in SUBSET (0..MaxDepth + 1) /\ H \in SUBSET (0..MaxDepth + 1)  BY <1>1 DEF Roster!Lengths
<1>3. Roster!Depth(g, c) = Roster!MaxOf(D) /\ Roster!Height(g, c) = Roster!MaxOf(H)
  BY DEF Roster!Depth, Roster!Height
<1>4. /\ \A n \in 1..MaxDepth + 1 : \A chain \in Roster!Chains(g, n) : chain[1] = c => n \in D
      /\ \A n \in 1..MaxDepth + 1 : \A chain \in Roster!Chains(g, n) : c \in g[chain[n]] => n \in H
  BY DEF Roster!Lengths
<1>. HIDE DEF D, H
<1>5. /\ Roster!MaxOf(D) \in 0..MaxDepth + 1 /\ \A n \in D : n <= Roster!MaxOf(D)
      /\ Roster!MaxOf(H) \in 0..MaxDepth + 1 /\ \A n \in H : n <= Roster!MaxOf(H)
  BY <1>1, <1>2, MaxOfBounded
<1>. QED  BY <1>3, <1>4, <1>5

-----------------------------------------------------------------------------
(* The rosters of a System.                                                *)

RosterIInv == Roster!TypeOK /\ Acyclic(roster) /\ Roster!DepthIsBounded

(* The rosters after one was set (validate_roster(), update_cell_roster()).*)
WithRoster(c, M) == [o \in DOMAIN roster \cup {c} |-> IF o = c THEN M ELSE roster[o]]

LEMMA RosterSet ==
  ASSUME Rostered(roster), NEW c \in Cells, NEW M \in SUBSET Cells
  PROVE  /\ Rostered(WithRoster(c, M)) /\ DOMAIN WithRoster(c, M) = DOMAIN roster \cup {c}
         /\ WithRoster(c, M)[c] = M
         /\ \A o \in DOMAIN roster : o # c => WithRoster(c, M)[o] = roster[o]
         /\ Roster!RosterOf(WithRoster(c, M), c) = M
         /\ \A d \in Cells : d # c => Roster!RosterOf(WithRoster(c, M), d) = Roster!RosterOf(roster, d)
BY DEF Rostered, WithRoster, Roster!RosterOf

(* A roster below which its Cell is not makes no circle, not even for      *)
(* those above the Cell.                                                   *)
LEMMA SetKeepsAcyclic ==
  ASSUME Rostered(roster), Acyclic(roster), NEW c \in Cells, NEW M \in SUBSET Cells,
         c \notin Roster!Below(roster, M)
  PROVE  Acyclic(WithRoster(c, M))
<1>. DEFINE h == WithRoster(c, M)
            B == Roster!Below(roster, M)
<1>1. /\ Rostered(h) /\ DOMAIN h = DOMAIN roster \cup {c} /\ h[c] = M
      /\ \A o \in DOMAIN roster : o # c => h[o] = roster[o]
      /\ Roster!RosterOf(h, c) = M
      /\ \A d \in Cells : d # c => Roster!RosterOf(h, d) = Roster!RosterOf(roster, d)
  BY RosterSet
<1>2. M \subseteq B /\ B \subseteq Cells /\ Roster!Closed(roster, B) /\ c \notin B
  BY BelowIsLeast
<1>. HIDE DEF h
<1>3. ASSUME NEW S \in SUBSET Cells, Roster!Closed(roster, S), c \in S => M \subseteq S
      PROVE  Roster!Closed(h, S)
  BY <1>1, <1>3 DEF Roster!Closed
<1>4. c \notin Roster!Below(h, M)
  <2>1. Roster!Closed(h, B)  BY <1>2, <1>3
  <2>2. Roster!Below(h, M) \subseteq B  BY <1>1, <1>2, <2>1, BelowIsLeast
  <2>. QED  BY <1>2, <2>2
<1>5. ASSUME NEW e \in DOMAIN roster, e # c
      PROVE  e \notin Roster!Below(h, h[e])
  <2>. DEFINE C == Roster!Below(roster, roster[e])
  <2>1. h[e] = roster[e] /\ roster[e] \in SUBSET Cells  BY <1>1, <1>5 DEF Rostered
  <2>2. roster[e] \subseteq C /\ C \subseteq Cells /\ Roster!Closed(roster, C)  BY <2>1, BelowIsLeast
  <2>3. e \notin C  BY DEF Acyclic
  <2>4. CASE c \notin C
    <3>1. Roster!Closed(h, C)  BY <1>3, <2>2, <2>4
    <3>2. Roster!Below(h, h[e]) \subseteq C  BY <1>1, <2>1, <2>2, <3>1, BelowIsLeast
    <3>. QED  BY <2>3, <3>2
  <2>5. CASE c \in C
    <3>1. e \notin B
      <4>. SUFFICES ASSUME e \in B PROVE FALSE  OBVIOUS
      <4>1. roster[e] \subseteq B  BY <1>2 DEF Roster!Closed, Roster!RosterOf
      <4>2. C \subseteq B  BY <1>2, <2>1, <4>1, BelowIsLeast
      <4>. QED  BY <1>2, <2>5, <4>2
    <3>2. Roster!Closed(roster, C \cup B)  BY <1>2, <2>2 DEF Roster!Closed
    <3>3. Roster!Closed(h, C \cup B)  BY <1>2, <1>3, <2>2, <3>2
    <3>4. Roster!Below(h, h[e]) \subseteq C \cup B
      <4>1. h[e] \subseteq C \cup B /\ C \cup B \in SUBSET Cells  BY <1>2, <2>1, <2>2
      <4>. QED  BY <1>1, <2>1, <3>3, <4>1, BelowIsLeast
    <3>. QED  BY <2>3, <3>1, <3>4
  <2>. QED  BY <2>4, <2>5
<1>. QED  BY <1>1, <1>4, <1>5 DEF Acyclic, h

(* A roster that passes the check of the depth makes no chain too long,    *)
(* wherever in it the Cell stands.                                         *)
LEMMA SetKeepsDepth ==
  ASSUME NEW c \in Cells, NEW M \in SUBSET Cells, Rostered(roster), Acyclic(WithRoster(c, M)),
         Roster!DepthIsBounded, Roster!Height(roster, c) + Roster!ProposedDepth(M) <= MaxDepth
  PROVE  Roster!Chains(WithRoster(c, M), MaxDepth + 1) = {}
<1>. DEFINE h == WithRoster(c, M)
            N == MaxDepth + 1
<1>1. /\ Rostered(h) /\ DOMAIN h = DOMAIN roster \cup {c} /\ h[c] = M
      /\ \A o \in DOMAIN roster : o # c => h[o] = roster[o]
  BY RosterSet
<1>2. MaxDepth \in Nat /\ N \in Nat /\ N >= 1 /\ N = MaxDepth + 1  BY RosterAssumption
<1>. HIDE DEF h, N
<1>3. SUFFICES ASSUME NEW chain \in Roster!Chains(h, N) PROVE FALSE  BY DEF h, N
<1>4. /\ chain \in [1..N -> DOMAIN h]
      /\ \A i \in 1..N - 1 : chain[i + 1] \in h[chain[i]]
  BY DEF Roster!Chains
<1>5. PICK k \in 1..N : chain[k] = c
  <2>. SUFFICES ASSUME \A k \in 1..N : chain[k] # c PROVE FALSE  OBVIOUS
  <2>1. chain \in [1..N -> DOMAIN roster]  BY <1>1, <1>4
  <2>2. \A i \in 1..N - 1 : chain[i + 1] \in roster[chain[i]]  BY <1>1, <1>2, <1>4, <2>1
  <2>. QED  BY <1>2, <2>1, <2>2 DEF Roster!DepthIsBounded, Roster!Chains
<1>6. \A i \in 1..N : i # k => chain[i] # c  BY <1>1, <1>2, <1>5, ChainIsInjective DEF h
<1>7. /\ \A i \in 1..N : i # k => chain[i] \in DOMAIN roster
      /\ \A i \in 1..N - 1 : i # k => chain[i + 1] \in roster[chain[i]]
  BY <1>1, <1>2, <1>4, <1>6
<1>8. k - 1 <= Roster!Height(roster, c)
  <2>1. CASE k = 1  BY <2>1, DepthOfChain
  <2>2. CASE k > 1
    <3>. DEFINE above == [i \in 1..k - 1 |-> chain[i]]
    <3>1. k - 1 \in 1..MaxDepth + 1 /\ 1..k - 1 \subseteq 1..N - 1 /\ k - 1 \in 1..k - 1
      BY <1>2, <2>2
    <3>2. above \in [1..k - 1 -> DOMAIN roster]  BY <1>2, <1>7, <3>1
    <3>3. ASSUME NEW i \in 1..(k - 1) - 1 PROVE above[i + 1] \in roster[above[i]]
      <4>1. i \in 1..k - 1 /\ i + 1 \in 1..k - 1 /\ i \in 1..N - 1 /\ i # k  BY <1>2
      <4>. QED  BY <1>7, <4>1
    <3>4. above \in Roster!Chains(roster, k - 1)  BY <3>2, <3>3 DEF Roster!Chains
    <3>5. c \in roster[above[k - 1]]
      <4>1. k - 1 \in 1..N - 1 /\ k - 1 # k /\ (k - 1) + 1 = k  BY <1>2, <2>2
      <4>. QED  BY <1>5, <1>7, <3>1, <4>1
    <3>. QED  BY <3>1, <3>4, <3>5, DepthOfChain
  <2>. QED  BY <2>1, <2>2
<1>9. 1 + (N - k) <= Roster!ProposedDepth(M) /\ Roster!ProposedDepth(M) \in Nat
  <2>. DEFINE depths == {Roster!Depth(roster, d) : d \in M}
  <2>1. depths \in SUBSET (0..N) /\ Roster!ProposedDepth(M) = 1 + Roster!MaxOf(depths)
    BY <1>2, DepthOfChain DEF Roster!ProposedDepth
  <2>2. Roster!MaxOf(depths) \in 0..N /\ \A n \in depths : n <= Roster!MaxOf(depths)
    <3>. HIDE DEF depths
    <3>. QED  BY <1>2, <2>1, MaxOfBounded
  <2>3. CASE k = N  BY <1>2, <2>1, <2>2, <2>3
  <2>4. CASE k < N
    <3>. DEFINE m == N - k
                below == [i \in 1..m |-> chain[k + i]]
    <3>1. m \in 1..MaxDepth + 1 /\ 1 \in 1..m  BY <1>2, <2>4
    <3>2. below \in [1..m -> DOMAIN roster]
      <4>1. \A i \in 1..m : k + i \in 1..N /\ k + i # k  BY <1>2
      <4>. QED  BY <1>7, <4>1
    <3>3. ASSUME NEW i \in 1..m - 1 PROVE below[i + 1] \in roster[below[i]]
      <4>1. /\ i \in 1..m /\ i + 1 \in 1..m /\ k + i \in 1..N - 1 /\ k + i # k
            /\ k + (i + 1) = (k + i) + 1
        BY <1>2
      <4>. QED  BY <1>7, <4>1
    <3>4. below \in Roster!Chains(roster, m)  BY <3>2, <3>3 DEF Roster!Chains
    <3>5. below[1] \in M
      <4>1. k \in 1..N - 1  BY <1>2, <2>4
      <4>. QED  BY <1>1, <1>4, <1>5, <3>1, <4>1
    <3>6. m <= Roster!Depth(roster, below[1])  BY <3>1, <3>4, DepthOfChain
    <3>7. PICK depth \in depths : m <= depth  BY <3>5, <3>6
    <3>. HIDE DEF depths
    <3>8. m <= Roster!MaxOf(depths)  BY <1>2, <2>1, <2>2, <3>7
    <3>9. N - k <= Roster!MaxOf(depths) /\ Roster!MaxOf(depths) \in Nat /\ N - k \in Nat
      BY <1>2, <2>2, <3>8
    <3>. QED  BY <2>1, <3>9
  <2>. QED  BY <1>2, <2>3, <2>4
<1>10. Roster!Height(roster, c) \in Nat  BY <1>2, DepthOfChain
<1>. QED  BY <1>2, <1>8, <1>9, <1>10

(* Requests one after the other keep rosters without a circle and within   *)
(* the limit.                                                              *)
LEMMA RosterFacts ==
  ASSUME Roster!TypeOK
  PROVE  Rostered(roster) /\ Roster!Existing \subseteq Cells
BY DEF Roster!TypeOK, Rostered, Roster!Orchestrators, Roster!Existing

LEMMA RosterInit == Roster!Init => RosterIInv
<1>. SUFFICES ASSUME Roster!Init PROVE RosterIInv  OBVIOUS
<1>1. workers = {} /\ DOMAIN roster = {}  BY DEF Roster!Init
<1>2. Roster!TypeOK /\ Acyclic(roster)
  BY <1>1 DEF Roster!TypeOK, Acyclic, Roster!Orchestrators, Roster!Existing
<1>3. Roster!DepthIsBounded
  <2>1. 1 \in 1..MaxDepth + 1  BY RosterAssumption
  <2>. QED  BY <1>1, <2>1 DEF Roster!DepthIsBounded, Roster!Chains
<1>. QED  BY <1>2, <1>3 DEF RosterIInv

LEMMA RosterNext == RosterIInv /\ [Roster!Next]_rosters => RosterIInv'
<1>. SUFFICES ASSUME RosterIInv, [Roster!Next]_rosters PROVE RosterIInv'  OBVIOUS
<1>. USE DEF RosterIInv
<1>1. Rostered(roster) /\ Roster!Existing \subseteq Cells  BY RosterFacts
<1>2. CASE roster' = roster /\ Roster!TypeOK'
  BY <1>2 DEF Acyclic, Roster!DepthIsBounded
<1>3. ASSUME NEW c \in Cells, Roster!CreateWorker(c) PROVE RosterIInv'
  <2>1. Roster!TypeOK'
    BY <1>3 DEF Roster!CreateWorker, Roster!TypeOK, Roster!Orchestrators, Roster!Existing
  <2>. QED  BY <1>2, <1>3, <2>1 DEF Roster!CreateWorker
<1>4. ASSUME NEW c \in Cells, NEW M \in SUBSET Cells, Roster!Valid(c, M), Roster!SetRoster(c, M),
             workers' = workers \ {c}
      PROVE  RosterIInv'
  <2>1. roster' = WithRoster(c, M)  BY <1>4 DEF Roster!SetRoster, WithRoster, Roster!Orchestrators
  <2>2. /\ DOMAIN roster' = DOMAIN roster \cup {c} /\ roster'[c] = M
        /\ \A o \in DOMAIN roster : o # c => roster'[o] = roster[o]
    BY <1>1, <2>1, RosterSet
  <2>4. Roster!TypeOK'
    BY <1>4, <2>2 DEF Roster!Valid, Roster!TypeOK, Roster!Orchestrators, Roster!Existing
  <2>5. Acyclic(roster')  BY <1>1, <1>4, <2>1, SetKeepsAcyclic DEF Roster!Valid
  <2>6. Roster!Chains(roster', MaxDepth + 1) = {}
    BY <1>1, <1>4, <2>1, <2>5, SetKeepsDepth DEF Roster!Valid
  <2>. QED  BY <2>4, <2>5, <2>6 DEF Acyclic, Roster!DepthIsBounded
<1>5. ASSUME NEW c \in Cells, NEW M \in SUBSET Cells, Roster!CreateOrchestrator(c, M) \/ Roster!UpdateRoster(c, M)
      PROVE  RosterIInv'
  <2>1. workers' = workers \ {c}
    BY <1>5 DEF Roster!CreateOrchestrator, Roster!UpdateRoster, Roster!Existing
  <2>. QED  BY <1>4, <1>5, <2>1 DEF Roster!CreateOrchestrator, Roster!UpdateRoster
<1>6. CASE UNCHANGED rosters
  BY <1>2, <1>6 DEF rosters, Roster!TypeOK, Roster!Orchestrators, Roster!Existing
<1>. QED  BY <1>3, <1>5, <1>6 DEF Roster!Next

(* A digest counts whatever is below its orchestrator: every chain down is *)
(* short enough, and comes past no Cell twice (_rollup_task_counts()).     *)
LEMMA DigestIsComplete == RosterIInv => Roster!RollupIsComplete
<1>. SUFFICES ASSUME RosterIInv, NEW c \in Roster!Orchestrators
              PROVE  \A of \in Roster!Below(roster, roster[c]) : Roster!Counted(roster, of, c)
  BY DEF Roster!RollupIsComplete
<1>1. /\ Rostered(roster) /\ Acyclic(roster) /\ c \in DOMAIN roster /\ MaxDepth \in Nat
  BY RosterFacts, RosterAssumption DEF RosterIInv, Roster!Orchestrators
<1>2. roster[c] \in SUBSET Cells  BY <1>1 DEF Rostered
<1>. DEFINE Reached == {d \in Cells : \E n \in 1..MaxDepth : \E chain \in Roster!Chains(roster, n) :
                                        chain[1] = c /\ d \in roster[chain[n]]}
<1>3. ASSUME NEW n \in 1..MaxDepth + 1, NEW chain \in Roster!Chains(roster, n)
      PROVE  n \in 1..MaxDepth
  BY <1>1, <1>3 DEF RosterIInv, Roster!DepthIsBounded
<1>4. roster[c] \subseteq Reached
  <2>. DEFINE chain == [i \in 1..1 |-> c]
  <2>1. chain \in Roster!Chains(roster, 1) /\ chain[1] = c  BY <1>1 DEF Roster!Chains
  <2>2. 1 \in 1..MaxDepth  BY <1>1, <1>3, <2>1
  <2>. QED  BY <1>2, <2>1, <2>2
<1>5. ASSUME NEW d \in Reached, NEW e \in Roster!RosterOf(roster, d)
      PROVE  e \in Reached
  <2>1. d \in DOMAIN roster /\ e \in roster[d] /\ e \in Cells  BY <1>1 DEF Roster!RosterOf, Rostered
  <2>2. PICK n \in 1..MaxDepth : \E chain \in Roster!Chains(roster, n) : chain[1] = c /\ d \in roster[chain[n]]
    OBVIOUS
  <2>3. PICK chain \in Roster!Chains(roster, n) : chain[1] = c /\ d \in roster[chain[n]]  BY <2>2
  <2>. DEFINE longer == [i \in 1..n + 1 |-> IF i = n + 1 THEN d ELSE chain[i]]
  <2>4. /\ chain \in [1..n -> DOMAIN roster]
        /\ \A i \in 1..n - 1 : chain[i + 1] \in roster[chain[i]]
    BY DEF Roster!Chains
  <2>5. longer \in [1..n + 1 -> DOMAIN roster]
    <3>1. \A i \in 1..n + 1 : i # n + 1 => i \in 1..n  OBVIOUS
    <3>. QED  BY <2>1, <2>4, <3>1
  <2>6. ASSUME NEW i \in 1..(n + 1) - 1 PROVE longer[i + 1] \in roster[longer[i]]
    <3>1. i \in 1..n /\ i + 1 \in 1..n + 1 /\ i \in 1..n + 1 /\ i # n + 1  OBVIOUS
    <3>2. CASE i = n  BY <2>3, <3>1, <3>2
    <3>3. CASE i # n
      <4>1. i \in 1..n - 1 /\ i + 1 # n + 1  BY <3>1, <3>3
      <4>. QED  BY <2>4, <3>1, <4>1
    <3>. QED  BY <3>2, <3>3
  <2>7. longer \in Roster!Chains(roster, n + 1)  BY <2>5, <2>6 DEF Roster!Chains
  <2>8. longer[1] = c /\ longer[n + 1] = d  BY <2>3
  <2>9. n + 1 \in 1..MaxDepth
    <3>1. n + 1 \in 1..MaxDepth + 1  BY <1>1
    <3>. HIDE DEF longer
    <3>. QED  BY <1>3, <2>7, <3>1
  <2>. HIDE DEF longer
  <2>. QED  BY <2>1, <2>7, <2>8, <2>9
<1>6. ASSUME NEW of \in Reached PROVE Roster!Counted(roster, of, c)
  <2>1. PICK n \in 1..MaxDepth : \E chain \in Roster!Chains(roster, n) : chain[1] = c /\ of \in roster[chain[n]]
    OBVIOUS
  <2>2. PICK chain \in Roster!Chains(roster, n) : chain[1] = c /\ of \in roster[chain[n]]  BY <2>1
  <2>3. \A i, j \in 2..n : chain[i] = chain[j] => i = j  BY <1>1, ChainIsInjective
  <2>4. n \in 1..Roster!Levels + 1  BY <1>1 DEF Roster!Levels
  <2>. QED  BY <2>2, <2>3, <2>4 DEF Roster!Counted
<1>7. Roster!Below(roster, roster[c]) \subseteq Reached
  <2>1. Reached \in SUBSET Cells /\ Roster!Closed(roster, Reached)  BY <1>5 DEF Roster!Closed
  <2>. HIDE DEF Reached
  <2>. QED  BY <1>1, <1>2, <1>4, <2>1, BelowIsLeast
<1>. QED  BY <1>6, <1>7

LEMMA RosterPromises == RosterIInv => Roster!RosterInv
<1>. SUFFICES ASSUME RosterIInv PROVE Roster!RosterInv  OBVIOUS
<1>1. Roster!RosterIsAcyclic
  <2>. SUFFICES ASSUME NEW c \in Roster!Existing PROVE c \notin Roster!Below(roster, Roster!RosterOf(roster, c))
    BY DEF Roster!RosterIsAcyclic
  <2>1. CASE c \in DOMAIN roster  BY <2>1 DEF RosterIInv, Acyclic, Roster!RosterOf
  <2>2. CASE c \notin DOMAIN roster
    <3>1. Roster!Closed(roster, {})  BY DEF Roster!Closed
    <3>2. Roster!RosterOf(roster, c) = {}  BY <2>2 DEF Roster!RosterOf
    <3>. QED  BY <3>1, <3>2, RosterFacts, BelowIsLeast DEF RosterIInv
  <2>. QED  BY <2>1, <2>2
<1>. QED  BY <1>1, DigestIsComplete DEF RosterIInv, Roster!RosterInv

-----------------------------------------------------------------------------
(* The quality of a Cell.                                                  *)

Audits == [sample : Samples, verdict : Quality!Verdicts]
QualityIInv ==
  /\ Quality!TypeOK /\ Quality!BudgetHolds /\ budget <= granted
  /\ verdict \in [Samples -> Quality!Verdicts] /\ audits \in Seq(Audits)
  /\ audit \in [Auditors -> SUBSET Audits] /\ reports \in Seq(Nat)

LEMMA QualityInit == Quality!Init => QualityIInv
BY QualityAssumption
DEF Quality!Init, QualityIInv, Quality!TypeOK, Quality!BudgetHolds, Quality!Accepting, Quality!None

LEMMA QualityNext == QualityIInv /\ [Quality!Next]_quality => QualityIInv'
<1>. SUFFICES ASSUME QualityIInv, [Quality!Next]_quality PROVE QualityIInv'  OBVIOUS
<1>. USE DEF QualityIInv
<1>1. /\ used \in Nat /\ own \in Nat /\ budget \in Budgets /\ granted \in Budgets /\ Budgets \subseteq Nat
      /\ own <= used /\ own <= granted /\ budget <= granted
  BY QualityAssumption DEF Quality!TypeOK, Quality!BudgetHolds
<1>. DEFINE Counted == /\ used' \in Nat /\ own' \in Nat /\ budget' \in Budgets /\ granted' \in Budgets
                       /\ own' <= used' /\ own' <= granted' /\ budget' <= granted'
<1>2. ASSUME UNCHANGED <<audits, intake, reports>>, Counted,
             verdict' \in [Samples -> Quality!Verdicts], audit' \in [Auditors -> SUBSET Audits]
      PROVE  QualityIInv'
  BY <1>2 DEF Quality!TypeOK, Quality!BudgetHolds
<1>3. ASSUME NEW a \in Auditors, NEW s \in Samples, Quality!Read(a, s) PROVE QualityIInv'
  <2>1. [sample |-> s, verdict |-> verdict[s]] \in Audits  BY DEF Audits
  <2>2. used < budget /\ used' = used + 1 /\ own' = own + 1 /\ UNCHANGED <<budget, granted>>
    BY <1>3 DEF Quality!Read, Quality!HasBudget
  <2>3. Counted  BY <1>1, <2>2
  <2>4. audit' \in [Auditors -> SUBSET Audits]  BY <1>3, <2>1 DEF Quality!Read
  <2>. QED  BY <1>2, <1>3, <2>3, <2>4 DEF Quality!Read
<1>4. ASSUME NEW a \in Auditors, Quality!Store(a) PROVE QualityIInv'
  <2>1. PICK found \in audit[a] : audits' = Append(audits, found)  BY <1>4 DEF Quality!Store
  <2>2. found \in Audits  BY <1>4
  <2>3. audits' \in Seq(Audits) /\ audit' \in [Auditors -> SUBSET Audits]
    BY <1>4, <2>1, <2>2 DEF Quality!Store
  <2>4. \A n \in DOMAIN audits' : audits'[n] \in Audits  BY <2>3
  <2>. QED  BY <1>4, <2>3, <2>4 DEF Quality!Store, Quality!days, Quality!TypeOK, Quality!BudgetHolds, Audits
<1>5. ASSUME NEW a \in Auditors, Quality!GiveUp(a) PROVE QualityIInv'
  <2>1. Counted /\ audit' \in [Auditors -> SUBSET Audits]
    BY <1>1, <1>5 DEF Quality!GiveUp, Quality!days
  <2>. QED  BY <1>2, <1>5, <2>1 DEF Quality!GiveUp
<1>6. CASE Quality!OtherCell
  <2>1. Counted  BY <1>1, <1>6 DEF Quality!OtherCell, Quality!days
  <2>. QED  BY <1>2, <1>6, <2>1 DEF Quality!OtherCell
<1>7. CASE Quality!NextDay
  <2>1. Counted  BY <1>1, <1>7 DEF Quality!NextDay
  <2>. QED  BY <1>2, <1>7, <2>1 DEF Quality!NextDay
<1>11. ASSUME NEW s \in Samples, NEW v \in Quality!Verdicts, Quality!EditCriteria(s, v) PROVE QualityIInv'
  <2>1. Counted  BY <1>1, <1>11 DEF Quality!EditCriteria, Quality!days
  <2>. QED  BY <1>2, <1>11, <2>1 DEF Quality!EditCriteria
<1>12. ASSUME NEW limit \in Budgets, Quality!EditBudget(limit) PROVE QualityIInv'
  <2>1. limit \in Nat /\ granted \in Nat /\ budget' = limit /\ UNCHANGED <<used, own>>
        /\ granted' = IF limit > granted THEN limit ELSE granted
    BY <1>1, <1>12 DEF Quality!EditBudget
  <2>2. Counted  BY <1>1, <2>1
  <2>. QED  BY <1>2, <1>12, <2>2 DEF Quality!EditBudget
<1>8. CASE Quality!Evaluate
  <2>1. Len(audits) \in Nat  OBVIOUS
  <2>2. reports' \in Seq(Nat) /\ DOMAIN reports \subseteq DOMAIN reports'
    <3>1. /\ Append(reports, Len(audits)) \in Seq(Nat)
          /\ DOMAIN reports \subseteq DOMAIN Append(reports, Len(audits))
      BY <2>1
    <3>. QED  BY <1>8, <3>1 DEF Quality!Evaluate
  <2>3. /\ intake'.status = "suspended"
        /\ intake'.escalation \in {Quality!None} \cup DOMAIN reports'
    BY <1>8, <2>1 DEF Quality!Evaluate, Quality!Suspended
  <2>. QED  BY <1>8, <2>2, <2>3 DEF Quality!Evaluate, Quality!days, Quality!TypeOK, Quality!BudgetHolds
<1>9. CASE Quality!Resume
  BY <1>9 DEF Quality!Resume, Quality!days, Quality!Accepting, Quality!TypeOK, Quality!BudgetHolds
<1>10. CASE UNCHANGED quality
  <2>1. Counted  BY <1>1, <1>10 DEF quality
  <2>. QED  BY <1>2, <1>10, <2>1 DEF quality
<1>. QED  BY <1>3, <1>4, <1>5, <1>6, <1>7, <1>8, <1>9, <1>10, <1>11, <1>12 DEF Quality!Next

(* A set that maps one to one into another is not larger.                  *)
LEMMA NoMore ==
  ASSUME NEW S, IsFiniteSet(S), NEW T, IsFiniteSet(T), NEW f \in [S -> T],
         \A x, y \in S : f[x] = f[y] => x = y
  PROVE  Quality!Cardinality(S) <= Quality!Cardinality(T)
<1>1. Cardinality(S) \in Nat /\ Cardinality(T) \in Nat  BY FS_CardinalityType
<1>2. ~(Cardinality(T) < Cardinality(S))  BY FS_PigeonHole
<1>3. Quality!Cardinality(S) = Cardinality(S) /\ Quality!Cardinality(T) = Cardinality(T)
  BY DEF Quality!Cardinality, Cardinality
<1>. QED  BY <1>1, <1>2, <1>3

LEMMA Counts ==
  ASSUME NEW S, IsFiniteSet(S), NEW T \in SUBSET S
  PROVE  /\ IsFiniteSet(T) /\ IsFiniteSet(S \ T)
         /\ Quality!Cardinality(S) \in Nat /\ Quality!Cardinality(T) \in Nat /\ Quality!Cardinality(S \ T) \in Nat
         /\ Quality!Cardinality(T) <= Quality!Cardinality(S)
         /\ Quality!Cardinality(S \ T) = Quality!Cardinality(S) - Quality!Cardinality(T)
         /\ T # S => Quality!Cardinality(T) < Quality!Cardinality(S)
<1>1. \A X : Quality!Cardinality(X) = Cardinality(X)  BY DEF Quality!Cardinality, Cardinality
<1>2. IsFiniteSet(T) /\ Cardinality(T) <= Cardinality(S) /\ (Cardinality(S) = Cardinality(T) => S = T)
  BY FS_Subset
<1>3. IsFiniteSet(S \ T) /\ Cardinality(S \ T) = Cardinality(S) - Cardinality(S \cap T)  BY FS_Difference
<1>4. S \cap T = T  OBVIOUS
<1>5. Cardinality(S) \in Nat /\ Cardinality(T) \in Nat /\ Cardinality(S \ T) \in Nat
  BY <1>2, <1>3, FS_CardinalityType
<1>6. Cardinality(S \ T) = Cardinality(S) - Cardinality(T)  BY <1>3, <1>4
<1>7. T # S => Cardinality(T) < Cardinality(S)
  <2>. DEFINE t == Cardinality(T)
              s == Cardinality(S)
  <2>1. t \in Nat /\ s \in Nat /\ t <= s /\ (s = t => S = T)  BY <1>2, <1>5
  <2>. HIDE DEF t, s
  <2>2. T # S => t < s  BY <2>1
  <2>. QED  BY <2>2 DEF t, s
<1>. QED  BY <1>1, <1>2, <1>3, <1>5, <1>6, <1>7

(* Shares of a whole (_rolling_pass_rate()): products grow with their      *)
(* factors,                                                                *)
LEMMA ProductsGrow ==
  ASSUME NEW i \in Nat, NEW j \in Nat, NEW k \in Nat, i <= j
  PROVE  k * i <= k * j /\ i * k <= j * k
<1>1. k * j = k * i + k * (j - i) /\ j * k = k * j /\ i * k = k * i  OBVIOUS
<1>2. k * (j - i) \in Nat /\ k * i \in Nat /\ k * j \in Nat
  <2>1. j - i \in Nat  OBVIOUS
  <2>. QED  BY <2>1
<1>. QED  BY <1>1, <1>2

(* when fewer than P in W of n pass, more than W - P in W fail,            *)
LEMMA Shares ==
  ASSUME NEW P \in Nat, NEW W \in Nat, P <= W, NEW n \in Nat, NEW p \in Nat, p <= n,
         NEW d \in Nat, n - p <= d, NEW m \in Nat, m <= n, p * W < P * n
  PROVE  (W - P) * m < W * d
<1>1. W - P \in Nat /\ n - p \in Nat  OBVIOUS
<1>2. (W - P) * m <= (W - P) * n /\ W * (n - p) <= W * d  BY <1>1, ProductsGrow
<1>3. (W - P) * n = W * n - P * n /\ W * (n - p) = W * n - W * p /\ W * p = p * W  OBVIOUS
<1>4. W * n \in Nat /\ P * n \in Nat /\ p * W \in Nat /\ (W - P) * m \in Nat /\ W * d \in Nat  BY <1>1
<1>. QED  BY <1>2, <1>3, <1>4

(* and a share is no smaller of no more with no fewer passes.              *)
LEMMA SharesGrow ==
  ASSUME NEW P \in Nat, NEW W \in Nat, NEW n \in Nat, NEW p \in Nat, ~(p * W < P * n),
         NEW q \in Nat, p <= q, NEW m \in Nat, m <= n
  PROVE  q * W >= P * m
<1>1. p * W <= q * W /\ P * m <= P * n  BY ProductsGrow
<1>2. p * W \in Nat /\ q * W \in Nat /\ P * m \in Nat /\ P * n \in Nat  OBVIOUS
<1>. QED  BY <1>1, <1>2

-----------------------------------------------------------------------------
(* The rolling rate.                                                       *)

(* The audits of the window are of different samples (_rolling_pass_rate).*)
LEMMA WindowOfSamples ==
  ASSUME QualityIInv
  PROVE  /\ DOMAIN audits = 1..Len(audits) /\ Len(audits) \in Nat /\ IsFiniteSet(DOMAIN audits)
         /\ \A n \in DOMAIN audits : audits[n] \in Audits
         /\ Quality!LatestOfSample \subseteq DOMAIN audits /\ Quality!Window \subseteq Quality!LatestOfSample
         /\ Quality!Considered \subseteq Quality!Window /\ Quality!Passed \subseteq Quality!Considered
         /\ \A m, n \in Quality!LatestOfSample : audits[m].sample = audits[n].sample => m = n
<1>1. DOMAIN audits = 1..Len(audits) /\ Len(audits) \in Nat /\ \A n \in DOMAIN audits : audits[n] \in Audits
  BY DEF QualityIInv
<1>2. IsFiniteSet(DOMAIN audits)  BY <1>1, FS_Interval
<1>3. /\ Quality!LatestOfSample \subseteq DOMAIN audits /\ Quality!Window \subseteq Quality!LatestOfSample
      /\ Quality!Considered \subseteq Quality!Window /\ Quality!Passed \subseteq Quality!Considered
  BY DEF Quality!LatestOfSample, Quality!Window, Quality!Considered, Quality!Passed
<1>4. ASSUME NEW m \in Quality!LatestOfSample, NEW n \in Quality!LatestOfSample,
             audits[m].sample = audits[n].sample
      PROVE  m = n
  <2>1. m \in DOMAIN audits /\ n \in DOMAIN audits /\ Quality!Later(m) = {} /\ Quality!Later(n) = {}
    BY DEF Quality!LatestOfSample
  <2>2. ~(m > n) /\ ~(n > m)  BY <1>4, <2>1 DEF Quality!Later
  <2>. QED  BY <1>1, <2>1, <2>2
<1>. QED  BY <1>1, <1>2, <1>3, <1>4

(* A floor that is breached was breached by failures of different samples, *)
(* however often one of them was audited.                                  *)
LEMMA BreachIsEarned ==
  ASSUME QualityIInv, Quality!Breached
  PROVE  (FloorWhole - FloorPart) * MinCount < FloorWhole * Quality!Cardinality(Quality!DistinctFailures)
<1>. DEFINE C == Quality!Considered
            P == Quality!Passed
            Failing == {m \in DOMAIN audits : audits[m].verdict = "fail"}
            D == Quality!DistinctFailures
<1>1. /\ C \subseteq DOMAIN audits /\ C \subseteq Quality!LatestOfSample /\ P \in SUBSET C
      /\ IsFiniteSet(DOMAIN audits)
      /\ \A m, n \in C : audits[m].sample = audits[n].sample => m = n
      /\ \A n \in DOMAIN audits : audits[n] \in Audits
  BY WindowOfSamples
<1>2. IsFiniteSet(C)  BY <1>1, FS_Subset
<1>3. \A n \in C \ P : audits[n].verdict = "fail"
  <2>1. \A n \in C \ P : audits[n].verdict \notin {"no_criteria", "pass"} /\ audits[n] \in Audits
    BY <1>1 DEF Quality!Considered, Quality!Passed
  <2>. QED  BY <2>1 DEF Audits, Quality!Verdicts
<1>4. D = {audits[n].sample : n \in Failing}  BY DEF Quality!DistinctFailures
<1>5. D \subseteq Samples /\ IsFiniteSet(D)
  <2>1. D \subseteq Samples  BY <1>1, <1>4 DEF Audits
  <2>. QED  BY <2>1, FS_Subset, QualityAssumption
<1>6. Quality!Cardinality(C \ P) <= Quality!Cardinality(D)
  <2>. DEFINE f == [n \in C \ P |-> audits[n].sample]
  <2>1. f \in [C \ P -> D]  BY <1>1, <1>3, <1>4
  <2>2. \A m, n \in C \ P : f[m] = f[n] => m = n  BY <1>1
  <2>3. IsFiniteSet(C \ P)  BY <1>1, <1>2, FS_Difference
  <2>. HIDE DEF f, C, P, D
  <2>. QED  BY <1>5, <2>1, <2>2, <2>3, NoMore
<1>7. /\ Quality!Cardinality(C) \in Nat /\ Quality!Cardinality(P) \in Nat
      /\ Quality!Cardinality(P) <= Quality!Cardinality(C)
      /\ Quality!Cardinality(C \ P) = Quality!Cardinality(C) - Quality!Cardinality(P)
  BY <1>1, <1>2, Counts
<1>8. Quality!Cardinality(D) \in Nat  BY <1>5, Counts
<1>9. MinCount <= Quality!Cardinality(C) /\ Quality!Cardinality(P) * FloorWhole < FloorPart * Quality!Cardinality(C)
  BY <1>7, QualityAssumption DEF Quality!Breached, Quality!BelowFloor
<1>10. MinCount \in Nat /\ FloorPart \in Nat /\ FloorWhole \in Nat /\ FloorPart <= FloorWhole
  BY QualityAssumption
<1>. HIDE DEF C, P, D
<1>11. Quality!Cardinality(C) - Quality!Cardinality(P) <= Quality!Cardinality(D)  BY <1>6, <1>7
<1>. QED  BY <1>7, <1>8, <1>9, <1>10, <1>11, Shares DEF D

(* The last audit of a sample.                                             *)
LEMMA LastIsLatest ==
  ASSUME QualityIInv, NEW s \in Quality!Audited
  PROVE  Quality!LastAudit(s) \in Quality!LatestOfSample /\ audits[Quality!LastAudit(s)].sample = s
<1>. DEFINE S == {n \in DOMAIN audits : audits[n].sample = s}
<1>1. DOMAIN audits = 1..Len(audits) /\ Len(audits) \in Nat  BY WindowOfSamples
<1>2. S \in SUBSET (0..Len(audits)) /\ S # {}  BY <1>1 DEF Quality!Audited
<1>3. \E m \in S : \A n \in S : m >= n
  <2>. HIDE DEF S
  <2>. QED  BY <1>1, <1>2, GreatestNumber
<1>4. Quality!LastAudit(s) = CHOOSE m \in S : \A n \in S : m >= n  BY DEF Quality!LastAudit, Quality!Max
<1>5. Quality!LastAudit(s) \in S /\ \A n \in S : Quality!LastAudit(s) >= n
  <2>. HIDE DEF S
  <2>. QED  BY <1>3, <1>4
<1>6. Quality!Later(Quality!LastAudit(s)) = {}
  BY <1>1, <1>5 DEF Quality!Later
<1>. QED  BY <1>5, <1>6 DEF Quality!LatestOfSample

(* The window holds the last audits of the samples that were audited last: *)
(* there are as many later audits in it as samples audited later.          *)
LEMMA WindowIsRecent ==
  ASSUME QualityIInv, NEW s \in Quality!Audited
  PROVE  s \in Quality!Recent <=> Quality!LastAudit(s) \in Quality!Window
<1>. DEFINE A == Quality!Audited
            L == Quality!LatestOfSample
            after == {t \in A : Quality!LastAudit(t) > Quality!LastAudit(s)}
            later == {m \in L : m > Quality!LastAudit(s)}
<1>1. /\ L \subseteq DOMAIN audits /\ IsFiniteSet(DOMAIN audits)
      /\ \A m, n \in L : audits[m].sample = audits[n].sample => m = n
      /\ \A n \in DOMAIN audits : audits[n] \in Audits
  BY WindowOfSamples
<1>2. A = {audits[n].sample : n \in DOMAIN audits}  BY DEF Quality!Audited
<1>3. \A t \in A : Quality!LastAudit(t) \in L /\ audits[Quality!LastAudit(t)].sample = t  BY LastIsLatest
<1>4. \A n \in L : audits[n].sample \in A /\ Quality!LastAudit(audits[n].sample) = n  BY <1>1, <1>2, <1>3
<1>5. IsFiniteSet(after) /\ IsFiniteSet(later)
  <2>1. A \subseteq Samples  BY <1>1, <1>2 DEF Audits
  <2>2. after \in SUBSET Samples /\ later \in SUBSET DOMAIN audits  BY <1>1, <2>1
  <2>. HIDE DEF after, later
  <2>. QED  BY <1>1, <2>2, FS_Subset, QualityAssumption
<1>6. Quality!Cardinality(after) <= Quality!Cardinality(later)
  <2>. DEFINE f == [t \in after |-> Quality!LastAudit(t)]
  <2>1. f \in [after -> later] /\ \A t, u \in after : f[t] = f[u] => t = u  BY <1>3
  <2>. HIDE DEF f, after, later
  <2>. QED  BY <1>5, <2>1, NoMore
<1>7. Quality!Cardinality(later) <= Quality!Cardinality(after)
  <2>. DEFINE f == [m \in later |-> audits[m].sample]
  <2>1. f \in [later -> after] /\ \A m, n \in later : f[m] = f[n] => m = n  BY <1>1, <1>4
  <2>. HIDE DEF f, after, later
  <2>. QED  BY <1>5, <2>1, NoMore
<1>8. Quality!Cardinality(after) = Quality!Cardinality(later)
  <2>1. Quality!Cardinality(after) \in Nat /\ Quality!Cardinality(later) \in Nat
    <3>. HIDE DEF after, later
    <3>. QED  BY <1>5, Counts
  <2>. QED  BY <1>6, <1>7, <2>1
<1>. QED  BY <1>3, <1>8 DEF Quality!Recent, Quality!Window

(* An intake that may be resumed has, by the last verdicts of the samples  *)
(* that were audited last, as many passes as the floor asks for            *)
(* (resume_intake()).                                                      *)
LEMMA ResumptionIsEarned ==
  ASSUME QualityIInv, Quality!Resumable
  PROVE  LET passing == {s \in Quality!Recent : Quality!LastVerdict(s) = "pass"}
             judged == {s \in Quality!Recent : Quality!LastVerdict(s) # "no_criteria"} IN
         judged # {} /\ Quality!Cardinality(passing) * FloorWhole >= FloorPart * Quality!Cardinality(judged)
<1>. DEFINE A == Quality!Audited
            R == Quality!Recent
            W == Quality!Window
            C == Quality!Considered
            P == Quality!Passed
            passing == {s \in R : Quality!LastVerdict(s) = "pass"}
            judged == {s \in R : Quality!LastVerdict(s) # "no_criteria"}
<1>1. /\ Quality!LatestOfSample \subseteq DOMAIN audits /\ IsFiniteSet(DOMAIN audits)
      /\ W \subseteq Quality!LatestOfSample
      /\ \A m, n \in W : audits[m].sample = audits[n].sample => m = n
      /\ \A n \in DOMAIN audits : audits[n] \in Audits
  BY WindowOfSamples
<1>2. C = {n \in W : audits[n].verdict # "no_criteria"} /\ P = {n \in C : audits[n].verdict = "pass"}
  BY DEF Quality!Considered, Quality!Passed
<1>3. IsFiniteSet(C) /\ IsFiniteSet(P)
  <2>1. C \in SUBSET DOMAIN audits /\ P \in SUBSET DOMAIN audits  BY <1>1, <1>2
  <2>. HIDE DEF C, P
  <2>. QED  BY <1>1, <2>1, FS_Subset
<1>4. R \subseteq A /\ IsFiniteSet(passing) /\ IsFiniteSet(judged)
  <2>1. R \subseteq A  BY DEF Quality!Recent
  <2>2. A \subseteq Samples  BY <1>1 DEF Audits, Quality!Audited
  <2>3. passing \in SUBSET Samples /\ judged \in SUBSET Samples  BY <2>1, <2>2
  <2>. HIDE DEF passing, judged
  <2>. QED  BY <2>1, <2>3, FS_Subset, QualityAssumption
<1>5. \A s \in R : Quality!LastAudit(s) \in W /\ audits[Quality!LastAudit(s)].sample = s
  BY <1>4, WindowIsRecent, LastIsLatest
<1>6. ASSUME NEW n \in W PROVE audits[n].sample \in R /\ Quality!LastAudit(audits[n].sample) = n
  <2>1. n \in DOMAIN audits /\ audits[n].sample \in A  BY <1>1 DEF Quality!Audited
  <2>2. Quality!LastAudit(audits[n].sample) \in Quality!LatestOfSample
        /\ audits[Quality!LastAudit(audits[n].sample)].sample = audits[n].sample
    BY <2>1, LastIsLatest
  <2>3. Quality!LastAudit(audits[n].sample) = n  BY <1>1, <2>2, WindowOfSamples
  <2>. QED  BY <2>1, <2>3, WindowIsRecent
<1>7. \A s \in R : Quality!LastVerdict(s) = audits[Quality!LastAudit(s)].verdict  BY DEF Quality!LastVerdict
<1>8. Quality!Cardinality(P) <= Quality!Cardinality(passing)
  <2>. DEFINE f == [n \in P |-> audits[n].sample]
  <2>1. \A n \in P : n \in W /\ audits[n].verdict = "pass"  BY <1>2
  <2>2. f \in [P -> passing] /\ \A m, n \in P : f[m] = f[n] => m = n  BY <1>1, <1>6, <1>7, <2>1
  <2>. HIDE DEF f, P, passing
  <2>. QED  BY <1>3, <1>4, <2>2, NoMore
<1>9. Quality!Cardinality(judged) <= Quality!Cardinality(C)
  <2>. DEFINE f == [s \in judged |-> Quality!LastAudit(s)]
  <2>1. f \in [judged -> C] /\ \A s, t \in judged : f[s] = f[t] => s = t  BY <1>2, <1>5, <1>7
  <2>. HIDE DEF f, C, judged
  <2>. QED  BY <1>3, <1>4, <2>1, NoMore
<1>10. judged # {}
  <2>1. PICK n \in C : TRUE  BY DEF Quality!Resumable
  <2>2. n \in W /\ audits[n].verdict # "no_criteria"  BY <1>2
  <2>. QED  BY <1>6, <1>7, <2>2
<1>11. /\ Quality!Cardinality(P) \in Nat /\ Quality!Cardinality(C) \in Nat
       /\ Quality!Cardinality(passing) \in Nat /\ Quality!Cardinality(judged) \in Nat
       /\ FloorWhole \in Nat /\ FloorPart \in Nat
  BY <1>3, <1>4, Counts, QualityAssumption
<1>12. ~(Quality!Cardinality(P) * FloorWhole < FloorPart * Quality!Cardinality(C))
  BY DEF Quality!Resumable, Quality!BelowFloor
<1>. HIDE DEF P, C, passing, judged
<1>13. Quality!Cardinality(passing) * FloorWhole >= FloorPart * Quality!Cardinality(judged)
  BY <1>8, <1>9, <1>11, <1>12, SharesGrow
<1>. QED  BY <1>10, <1>13 DEF passing, judged

(* Only a breach suspends and only a good enough rate resumes.             *)
SuspensionStep ==
  (intake.status = "accepting" /\ intake'.status = "suspended") =>
    (FloorWhole - FloorPart) * MinCount < FloorWhole * Quality!Cardinality(Quality!DistinctFailures)
ResumeStep ==
  (intake.status = "suspended" /\ intake'.status = "accepting") =>
    LET passing == {s \in Quality!Recent : Quality!LastVerdict(s) = "pass"}
        judged == {s \in Quality!Recent : Quality!LastVerdict(s) # "no_criteria"} IN
    judged # {} /\ Quality!Cardinality(passing) * FloorWhole >= FloorPart * Quality!Cardinality(judged)

LEMMA StatusSteps == QualityIInv /\ [Quality!Next]_quality => SuspensionStep /\ ResumeStep
<1>. SUFFICES ASSUME QualityIInv, [Quality!Next]_quality, intake'.status # intake.status
              PROVE  SuspensionStep /\ ResumeStep
  BY DEF SuspensionStep, ResumeStep
<1>1. CASE Quality!Evaluate
  <2>1. Quality!Breached /\ intake'.status = "suspended"
    BY <1>1 DEF Quality!Evaluate, Quality!Suspended
  <2>2. SuspensionStep  BY <2>1, BreachIsEarned DEF SuspensionStep
  <2>3. ResumeStep  BY <2>1 DEF ResumeStep
  <2>. QED  BY <2>2, <2>3
<1>2. CASE Quality!Resume
  <2>1. Quality!Resumable /\ intake'.status = "accepting"
    BY <1>2 DEF Quality!Resume, Quality!Accepting
  <2>2. SuspensionStep  BY <2>1 DEF SuspensionStep
  <2>3. ResumeStep  BY <2>1, ResumptionIsEarned DEF ResumeStep
  <2>. QED  BY <2>2, <2>3
<1>3. CASE intake' = intake  BY <1>3
<1>4. Quality!Evaluate \/ Quality!Resume \/ intake' = intake
  BY DEF Quality!Next, Quality!Read, Quality!Store, Quality!GiveUp, Quality!OtherCell, Quality!NextDay,
         Quality!EditCriteria, Quality!EditBudget, quality
<1>. QED  BY <1>1, <1>2, <1>3, <1>4

-----------------------------------------------------------------------------
(* The rosters and the quality floor by themselves.                        *)

(* Whatever order the requests of the process change rosters in, nobody is *)
(* below itself, no chain is longer than the limit and a digest counts     *)
(* everybody below its orchestrator (validate_roster(),                    *)
(* _rollup_task_counts()).  A request holds the connection of the process  *)
(* from the check to the write; a second process, which the deployment     *)
(* does not have, could change a roster between the two.                   *)
THEOREM RostersHold == Roster!Spec => []Roster!RosterInv
<1>1. RosterIInv /\ [Roster!Next]_(Roster!vars) => RosterIInv'  BY RosterNext DEF Roster!vars, rosters
<1>. QED  BY RosterInit, <1>1, RosterPromises, PTL DEF Roster!Spec

(* The audits of a Cell keep to its own budget whatever other Cells spend  *)
(* of the count they share; an intake points at an escalation that exists, *)
(* also when a process dies between the transactions of                    *)
(* evaluate_quality_floor(); an intake is suspended, and resumed, by the   *)
(* verdicts of different samples.                                          *)
THEOREM FloorHolds ==
  Quality!Spec => /\ [](Quality!TypeOK /\ Quality!BudgetHolds)
                  /\ Quality!SuspensionIsEarned /\ Quality!ResumeIsEarned
<1>1. QualityIInv /\ [Quality!Next]_(Quality!vars) =>
        QualityIInv' /\ [SuspensionStep]_(Quality!vars) /\ [ResumeStep]_(Quality!vars)
  BY QualityNext, StatusSteps DEF Quality!vars, quality
<1>2. QualityIInv => Quality!TypeOK /\ Quality!BudgetHolds  BY DEF QualityIInv
<1>. QED
  BY QualityInit, <1>1, <1>2, PTL
  DEF Quality!Spec, Quality!SuspensionIsEarned, Quality!ResumeIsEarned, SuspensionStep, ResumeStep

-----------------------------------------------------------------------------
(* The three parts together.                                               *)

all == <<part, vars, rosters, quality>>
CellsIInv == RosterIInv /\ QualityIInv /\ (part = "one" => OneInv)

(* A step of a part leaves the others alone.                               *)
LEMMA PartSteps ==
  ASSUME [MCNext]_all
  PROVE  /\ [Roster!Next]_rosters /\ [Quality!Next]_quality
         /\ part' = part
         /\ part = "one" => [Next]_vars
BY DEF all, MCNext, Ledger, Rosters, Qualities

LEMMA CellsInit == MCInit => CellsIInv
<1>. SUFFICES ASSUME MCInit PROVE CellsIInv  OBVIOUS
<1>1. Roster!Init /\ Quality!Init /\ (part = "one" => Init)  BY DEF MCInit
<1>. QED  BY <1>1, RosterInit, QualityInit, OneInitially DEF CellsIInv

LEMMA CellsNext == OneProcess /\ CellsIInv /\ [MCNext]_all => CellsIInv'
BY PartSteps, RosterNext, QualityNext, OneInductive DEF CellsIInv

(* Rosters never have a circle or a chain that is longer than the limit,   *)
(* and a digest counts everybody below its orchestrator; the audits of a   *)
(* Cell keep to its own budget, and an intake points at an escalation that *)
(* exists; in one process retries are bounded and the event of a return    *)
(* names the status the task had: for any Cells, samples and limits.       *)
THEOREM CellsHold == OneProcess => (MCSpec => []CellsInv)
<1>. SUFFICES ASSUME OneProcess PROVE MCSpec => []CellsInv  OBVIOUS
<1>1. CellsIInv /\ [MCNext]_all => CellsIInv'  BY CellsNext
<1>2. CellsIInv => CellsInv  BY RosterPromises DEF CellsIInv, CellsInv, QualityIInv, OneInv
<1>. QED  BY CellsInit, <1>1, <1>2, PTL DEF MCSpec, all

(* No escalation goes back in one process; an intake is suspended only     *)
(* when enough different samples failed, and is opened again only when the *)
(* last verdicts are good enough of the samples that were audited last, as *)
(* many as the window holds.                                               *)
THEOREM StatusEarned == OneProcess => (MCSpec => StatusIsEarned)
<1>. SUFFICES ASSUME OneProcess PROVE MCSpec => StatusIsEarned  OBVIOUS
<1>1. CellsIInv /\ [MCNext]_all => CellsIInv'  BY CellsNext
<1>2. CellsIInv /\ [MCNext]_all => [part = "one" => Advance]_vars
  BY PartSteps, StepAdvances DEF CellsIInv
<1>3. CellsIInv /\ [MCNext]_all => [SuspensionStep]_(Quality!vars) /\ [ResumeStep]_(Quality!vars)
  BY PartSteps, StatusSteps DEF CellsIInv
<1>. QED
  BY CellsInit, <1>1, <1>2, <1>3, PTL
  DEF MCSpec, all, StatusIsEarned, EscalationsAdvance, Quality!SuspensionIsEarned, Quality!ResumeIsEarned,
      SuspensionStep, ResumeStep
=============================================================================

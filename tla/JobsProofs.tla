----------------------------- MODULE JobsProofs -----------------------------
(***************************************************************************)
(* Proofs about the background jobs of a project: the extractions and the  *)
(* outbox of a discussion, and the resyncs of its repository.              *)
(*                                                                         *)
(* Discussions.  A worker that calls the model knows the attempt it made.  *)
(* Attempts only grow, two workers never hold the same one, and the one    *)
(* that equals the row's belongs to a running job: so at most one worker   *)
(* may end it, and none may end it twice.  Every interval begins at the    *)
(* latest right behind the cursor, which never moves back, so that a job   *)
(* that moves the cursor covers everything it skips.                       *)
(*                                                                         *)
(* Resyncs.  A thread knows the status of its job and the snapshot it has  *)
(* made, which no other thread writes; so a late thread finds its job      *)
(* still active, and a job completes with a snapshot of its own.           *)
(***************************************************************************)
EXTENDS MCJobs, SequenceTheorems, WellFoundedInduction, TLAPS

(* Discussions: what a worker knows of its job, and the cursor.            *)
States == {"queued", "running", "succeeded", "failed"}
Leases == {"none", "held", "lapsed"}
Intervals == [from : Nat, to : Nat, through : Nat, targets : Nat]
ExtractionRows == [input : Intervals, state : States, attempt : Nat, lease : Leases, stored : Nat]
OutboxRows == [state : {"none", "queued", "done"}, lease : Leases, requests : Nat]
Labels == {"idle", "claim", "think", "fail", "outbox", "deliver", "mark", "defer"}
WorkerRows == [pc : Labels, job : Nat, attempt : Nat, event : SUBSET Events]
OnAttempt == {"think", "fail"}

DiscussionTyped ==
  /\ turns \in 0..MaxTurns /\ targets \in 0..MaxChanges
  /\ jobs \in Seq(ExtractionRows) /\ outbox \in [Events -> OutboxRows] /\ worker \in [Workers -> WorkerRows]

RowOK(j) ==
  /\ jobs[j].stored = IF jobs[j].state = "succeeded" THEN 1 ELSE 0
  /\ jobs[j].lease # "none" <=> jobs[j].state = "running"
  /\ jobs[j].input.from <= jobs[j].input.to /\ jobs[j].input.to <= turns
  /\ jobs[j].input.from <= Cursor + 1

Working(w) ==
  /\ worker[w].pc \in {"claim"} \cup OnAttempt => worker[w].job \in 1..Len(jobs)
  /\ worker[w].pc \in OnAttempt =>
       /\ worker[w].attempt <= jobs[worker[w].job].attempt
       /\ worker[w].attempt = jobs[worker[w].job].attempt => jobs[worker[w].job].state = "running"
  /\ \A d, e \in worker[w].event : d = e
  /\ worker[w].pc = "mark" => \A e \in worker[w].event : outbox[e].requests > 0

Rivals(v, w) ==
  worker[v].pc \in OnAttempt /\ worker[w].pc \in OnAttempt /\ worker[v].job = worker[w].job
    => worker[v].attempt # worker[w].attempt

DiscussionIInv ==
  /\ DiscussionTyped
  /\ \A j \in 1..Len(jobs) : RowOK(j)
  /\ CursorIsProcessed
  /\ DoneIsRequested
  /\ \A w \in Workers : Working(w)
  /\ \A v, w \in Workers : v # w => Rivals(v, w)
-----------------------------------------------------------------------------
(* The least and the greatest of a set of numbers.                         *)
LEMMA LeastOf ==
  ASSUME NEW S \in SUBSET Nat, S # {}
  PROVE  Min(S) \in S /\ \A x \in S : Min(S) <= x
<1>1. \E m \in S : \A x \in S : ~(<<x, m>> \in OpToRel(<, Nat))
  BY NatLessThanWellFounded, WFMin
<1>2. PICK m \in S : \A x \in S : ~(<<x, m>> \in OpToRel(<, Nat))  BY <1>1
<1>3. ASSUME NEW x \in S PROVE m <= x
  <2>1. x < m => <<x, m>> \in {ss \in Nat \X Nat : ss[1] < ss[2]}
    <3>1. <<x, m>> \in Nat \X Nat /\ <<x, m>>[1] = x /\ <<x, m>>[2] = m  OBVIOUS
    <3>2. QED  BY <3>1
  <2>2. ~(x < m)  BY <1>2, <2>1 DEF OpToRel
  <2>3. QED  BY <2>2
<1>4. QED  BY <1>3 DEF Min

LEMMA GreatestOf ==
  ASSUME NEW n \in Nat, NEW S \in SUBSET (0..n), S # {}
  PROVE  Max(S) \in S /\ \A x \in S : x <= Max(S)
<1>. DEFINE T == {n - x : x \in S}
<1>1. T \in SUBSET Nat /\ T # {}
  <2>1. \A x \in S : n - x \in Nat  OBVIOUS
  <2>2. QED  BY <2>1, Zenon
<1>2. Min(T) \in T /\ \A y \in T : Min(T) <= y  BY <1>1, LeastOf
<1>3. PICK m \in S : Min(T) = n - m  BY <1>2, Zenon
<1>4. \A x \in S : n - x \in T  OBVIOUS
<1>. HIDE DEF T
<1>5. \A x \in S : m >= x  BY <1>2, <1>3, <1>4
<1>6. QED  BY <1>5 DEF Max

LEMMA DiscussionLens ==
  ASSUME DiscussionTyped
  PROVE  /\ Len(jobs) \in Nat /\ DOMAIN jobs = 1..Len(jobs) /\ jobs \in [1..Len(jobs) -> ExtractionRows]
         /\ turns \in Nat /\ targets \in Nat /\ worker \in [Workers -> WorkerRows]
BY LenProperties, BoundsAssumption DEF DiscussionTyped

(* The cursor is the end of a job that succeeded, and no such job ends     *)
(* behind it.                                                              *)
LEMMA CursorOf ==
  ASSUME NEW rows \in Seq(ExtractionRows), NEW n \in Nat, \A j \in 1..Len(rows) : rows[j].input.to <= n,
         NEW c, c = Max({rows[j].input.to : j \in {j \in DOMAIN rows : rows[j].state = "succeeded"}} \cup {0})
  PROVE  /\ c \in Nat
         /\ \A j \in 1..Len(rows) : rows[j].state = "succeeded" => rows[j].input.to <= c
         /\ c # 0 => \E j \in 1..Len(rows) : rows[j].state = "succeeded" /\ rows[j].input.to = c
<1>. DEFINE S == {rows[j].input.to : j \in {j \in DOMAIN rows : rows[j].state = "succeeded"}} \cup {0}
<1>1. DOMAIN rows = 1..Len(rows) /\ \A j \in 1..Len(rows) : rows[j] \in ExtractionRows
  BY LenProperties
<1>2. \A x \in S : x = 0 \/ \E j \in DOMAIN rows : rows[j].state = "succeeded" /\ x = rows[j].input.to
  OBVIOUS
<1>3. 0 \in S /\ \A j \in DOMAIN rows : rows[j].state = "succeeded" => rows[j].input.to \in S
  OBVIOUS
<1>4. c = Max(S)  OBVIOUS
<1>. HIDE DEF S
<1>5. \A j \in 1..Len(rows) : rows[j].input.to \in 0..n  BY <1>1 DEF ExtractionRows, Intervals
<1>6. S \in SUBSET (0..n) /\ S # {}  BY <1>1, <1>2, <1>3, <1>5
<1>7. c \in S /\ \A x \in S : x <= c  BY <1>4, <1>6, GreatestOf
<1>8. c # 0 => \E j \in 1..Len(rows) : rows[j].state = "succeeded" /\ rows[j].input.to = c
  BY <1>1, <1>2, <1>7, Zenon
<1>9. \A j \in 1..Len(rows) : rows[j].state = "succeeded" => rows[j].input.to <= c
  BY <1>1, <1>3, <1>7, Zenon
<1>10. c \in Nat  BY <1>6, <1>7
<1>11. QED  BY <1>8, <1>9, <1>10, Zenon

LEMMA CursorIs ==
  ASSUME DiscussionTyped, \A j \in 1..Len(jobs) : jobs[j].input.to <= turns
  PROVE  /\ Cursor \in Nat
         /\ \A j \in 1..Len(jobs) : jobs[j].state = "succeeded" => jobs[j].input.to <= Cursor
         /\ Cursor # 0 => \E j \in 1..Len(jobs) : jobs[j].state = "succeeded" /\ jobs[j].input.to = Cursor
<1>1. jobs \in Seq(ExtractionRows) /\ turns \in Nat  BY DiscussionLens DEF DiscussionTyped
<1>2. Cursor = Max({jobs[j].input.to : j \in {j \in DOMAIN jobs : jobs[j].state = "succeeded"}} \cup {0})
  BY DEF Cursor, Counted
<1>3. QED  BY <1>1, <1>2, CursorOf

LEMMA CursorIsNext ==
  ASSUME DiscussionTyped', \A j \in 1..Len(jobs') : jobs'[j].input.to <= turns'
  PROVE  /\ Cursor' \in Nat
         /\ \A j \in 1..Len(jobs') : jobs'[j].state = "succeeded" => jobs'[j].input.to <= Cursor'
         /\ Cursor' # 0 => \E j \in 1..Len(jobs') : jobs'[j].state = "succeeded" /\ jobs'[j].input.to = Cursor'
<1>1. jobs' \in Seq(ExtractionRows) /\ turns' \in Nat  BY BoundsAssumption DEF DiscussionTyped
<1>2. Cursor' = Max({jobs'[j].input.to : j \in {j \in DOMAIN jobs' : jobs'[j].state = "succeeded"}} \cup {0})
  BY DEF Cursor, Counted
<1>3. QED  BY <1>1, <1>2, CursorOf

-----------------------------------------------------------------------------
(* What every step does to the rows: intervals stay, a job that succeeded  *)
(* stays, and a new one begins at the cursor at the latest.                *)
Extends ==
  /\ turns' >= turns /\ Len(jobs') >= Len(jobs)
  /\ \A j \in 1..Len(jobs) :
       jobs'[j].input = jobs[j].input /\ (jobs[j].state = "succeeded" => jobs'[j] = jobs[j])
  /\ \A j \in 1..Len(jobs') : j > Len(jobs) =>
       /\ jobs'[j].state = "queued" /\ jobs'[j].input.from <= jobs'[j].input.to
       /\ jobs'[j].input.to <= turns' /\ jobs'[j].input.from <= Cursor + 1
  /\ \A j \in 1..Len(jobs') :
       /\ jobs'[j].stored = IF jobs'[j].state = "succeeded" THEN 1 ELSE 0
       /\ jobs'[j].lease # "none" <=> jobs'[j].state = "running"

Final == \A j \in DOMAIN jobs : jobs[j].state = "succeeded" => jobs'[j].state = "succeeded"

LEMMA RowsFollow ==
  ASSUME DiscussionIInv, DiscussionTyped', Extends
  PROVE  (\A j \in 1..Len(jobs') : RowOK(j)') /\ CursorIsProcessed' /\ Final
<1>1. /\ DiscussionTyped /\ Len(jobs) \in Nat /\ DOMAIN jobs = 1..Len(jobs) /\ turns \in Nat
      /\ Len(jobs') \in Nat /\ DOMAIN jobs' = 1..Len(jobs') /\ turns' \in Nat
      /\ \A j \in 1..Len(jobs) : RowOK(j) /\ jobs[j] \in ExtractionRows
      /\ \A j \in 1..Len(jobs') : jobs'[j] \in ExtractionRows
  BY DiscussionLens, LenProperties, BoundsAssumption DEF DiscussionIInv, DiscussionTyped
<1>2. /\ Cursor \in Nat
      /\ \A j \in 1..Len(jobs) : jobs[j].state = "succeeded" => jobs[j].input.to <= Cursor
      /\ Cursor # 0 => \E j \in 1..Len(jobs) : jobs[j].state = "succeeded" /\ jobs[j].input.to = Cursor
  <2>1. \A j \in 1..Len(jobs) : jobs[j].input.to <= turns  BY <1>1 DEF RowOK
  <2>2. QED  BY <1>1, <2>1, CursorIs
<1>3. ASSUME NEW j \in 1..Len(jobs')
      PROVE  /\ jobs'[j].input.from <= jobs'[j].input.to /\ jobs'[j].input.to <= turns'
             /\ jobs'[j].input.from <= Cursor + 1
             /\ jobs'[j].input.from \in Nat /\ jobs'[j].input.to \in Nat
  <2>1. CASE j \in 1..Len(jobs)
    <3>1. RowOK(j) /\ jobs'[j].input = jobs[j].input  BY <1>1, <2>1 DEF Extends
    <3>2. jobs[j].input.to \in Nat /\ jobs[j].input.from \in Nat
      BY <1>1, <2>1 DEF ExtractionRows, Intervals
    <3>3. QED  BY <1>1, <3>1, <3>2 DEF RowOK, Extends
  <2>2. CASE j > Len(jobs)
    <3>1. jobs'[j].input.to \in Nat /\ jobs'[j].input.from \in Nat
      BY <1>1 DEF ExtractionRows, Intervals
    <3>2. QED  BY <2>2, <3>1 DEF Extends
  <2>3. QED  BY <1>1, <2>1, <2>2
<1>4. /\ Cursor' \in Nat
      /\ \A j \in 1..Len(jobs') : jobs'[j].state = "succeeded" => jobs'[j].input.to <= Cursor'
      /\ Cursor' # 0 => \E j \in 1..Len(jobs') : jobs'[j].state = "succeeded" /\ jobs'[j].input.to = Cursor'
  BY <1>3, CursorIsNext
<1>5. Cursor <= Cursor'
  <2>1. CASE Cursor = 0  BY <1>4, <2>1
  <2>2. CASE Cursor # 0
    <3>1. PICK j \in 1..Len(jobs) : jobs[j].state = "succeeded" /\ jobs[j].input.to = Cursor  BY <1>2, <2>2
    <3>2. j \in 1..Len(jobs') /\ jobs'[j] = jobs[j]  BY <1>1, <3>1 DEF Extends
    <3>3. QED  BY <1>4, <3>1, <3>2
  <2>3. QED  BY <2>1, <2>2
<1>6. ASSUME NEW j \in 1..Len(jobs') PROVE RowOK(j)'
  <2>1. jobs'[j].input.from <= Cursor' + 1  BY <1>2, <1>3, <1>4, <1>5
  <2>2. QED  BY <1>3, <2>1 DEF RowOK, Extends
<1>7. CursorIsProcessed'
  <2>1. SUFFICES ASSUME NEW t \in 1..Cursor'
                 PROVE \E j \in DOMAIN jobs' : jobs'[j].stored > 0 /\ t \in jobs'[j].input.from..jobs'[j].input.to
    BY DEF CursorIsProcessed
  <2>2. CASE t <= Cursor
    <3>1. PICK j \in DOMAIN jobs : jobs[j].stored > 0 /\ t \in jobs[j].input.from..jobs[j].input.to
      BY <1>2, <1>4, <2>2 DEF DiscussionIInv, CursorIsProcessed
    <3>2. jobs[j].state = "succeeded"  BY <1>1, <3>1 DEF RowOK
    <3>3. j \in DOMAIN jobs' /\ jobs'[j] = jobs[j]  BY <1>1, <3>1, <3>2 DEF Extends
    <3>4. QED  BY <3>1, <3>3
  <2>3. CASE t > Cursor
    <3>1. PICK j \in 1..Len(jobs') : jobs'[j].state = "succeeded" /\ jobs'[j].input.to = Cursor'  BY <1>4
    <3>2. jobs'[j].stored = 1  BY <3>1 DEF Extends
    <3>3. t \in jobs'[j].input.from..jobs'[j].input.to  BY <1>2, <1>3, <1>4, <2>3, <3>1
    <3>4. QED  BY <1>1, <3>2, <3>3
  <2>4. QED  BY <1>2, <1>4, <2>2, <2>3
<1>8. Final  BY <1>1 DEF Extends, Final
<1>9. QED  BY <1>6, <1>7, <1>8

(* What a step leaves to a worker that does not take it: its job goes on   *)
(* only to a later attempt.                                                *)
LeavesTo(v) ==
  /\ worker'[v] = worker[v]
  /\ worker[v].pc \in OnAttempt =>
       /\ jobs'[worker[v].job].attempt >= jobs[worker[v].job].attempt
       /\ worker[v].attempt = jobs'[worker[v].job].attempt => jobs'[worker[v].job].state = "running"

OutboxGrows ==
  \A e \in Events :
    outbox'[e].requests >= outbox[e].requests /\ (outbox'[e].state = "done" => outbox'[e].requests > 0)

(* A step of the workers in a set of at most one.                          *)
LEMMA DiscussionFollows ==
  ASSUME DiscussionIInv, DiscussionTyped', Extends, OutboxGrows,
         NEW A \in SUBSET Workers, \A v \in Workers \ A : LeavesTo(v), \A w \in A : Working(w)',
         \A w \in A, v \in Workers : v # w => Rivals(w, v)' /\ Rivals(v, w)'
  PROVE  DiscussionIInv' /\ Final
<1>1. (\A j \in 1..Len(jobs') : RowOK(j)') /\ CursorIsProcessed' /\ Final
  BY RowsFollow
<1>2. /\ Len(jobs) \in Nat /\ Len(jobs') \in Nat /\ jobs \in [1..Len(jobs) -> ExtractionRows]
      /\ jobs' \in [1..Len(jobs') -> ExtractionRows] /\ worker \in [Workers -> WorkerRows] /\ Len(jobs') >= Len(jobs)
      /\ outbox \in [Events -> OutboxRows] /\ outbox' \in [Events -> OutboxRows]
  BY DiscussionLens, LenProperties DEF DiscussionIInv, DiscussionTyped, Extends
<1>3. DoneIsRequested'
  BY DEF OutboxGrows, DoneIsRequested
<1>4. ASSUME NEW v \in Workers PROVE Working(v)'
  <2>1. CASE v \in A  BY <2>1
  <2>2. CASE v \notin A
    <3>1. Working(v) /\ LeavesTo(v) /\ worker[v] \in WorkerRows /\ worker'[v] = worker[v]
      BY <1>2, <2>2 DEF DiscussionIInv, LeavesTo
    <3>2. worker[v].pc \in {"claim"} \cup OnAttempt => worker[v].job \in 1..Len(jobs) /\ worker[v].job \in 1..Len(jobs')
      BY <1>2, <3>1 DEF Working
    <3>3. worker[v].pc \in OnAttempt =>
            jobs[worker[v].job].attempt \in Nat /\ jobs'[worker[v].job].attempt \in Nat
      BY <1>2, <3>2 DEF ExtractionRows
    <3>4. \A e \in worker[v].event : e \in Events  BY <3>1 DEF WorkerRows
    <3>5. \A e \in Events : outbox[e].requests \in Nat /\ outbox'[e].requests \in Nat  BY <1>2 DEF OutboxRows
    <3>6. worker[v].pc = "mark" => \A e \in worker[v].event : outbox'[e].requests > 0
      BY <3>1, <3>4, <3>5 DEF Working, OutboxGrows
    <3>7. worker[v].attempt \in Nat  BY <3>1 DEF WorkerRows
    <3>8. QED  BY <3>1, <3>2, <3>3, <3>6, <3>7 DEF Working, LeavesTo
  <2>3. QED  BY <2>1, <2>2
<1>5. ASSUME NEW u \in Workers, NEW v \in Workers, u # v PROVE Rivals(u, v)'
  <2>1. CASE u \in A \/ v \in A  BY <1>5, <2>1
  <2>2. CASE u \notin A /\ v \notin A
    <3>1. Rivals(u, v) /\ worker'[u] = worker[u] /\ worker'[v] = worker[v]
      BY <1>5, <2>2 DEF DiscussionIInv, LeavesTo
    <3>2. QED  BY <3>1 DEF Rivals
  <2>3. QED  BY <2>1, <2>2
<1>6. QED  BY <1>1, <1>3, <1>4, <1>5 DEF DiscussionIInv

-----------------------------------------------------------------------------
(* The steps.                                                              *)

LEMMA DiscussionFacts ==
  ASSUME DiscussionIInv
  PROVE  /\ DiscussionTyped /\ Len(jobs) \in Nat /\ DOMAIN jobs = 1..Len(jobs) /\ turns \in Nat /\ targets \in Nat
         /\ \A j \in 1..Len(jobs) : RowOK(j) /\ jobs[j] \in ExtractionRows
         /\ \A w \in Workers : Working(w) /\ worker[w] \in WorkerRows
         /\ \A e \in Events :
              outbox[e] \in OutboxRows /\ outbox[e].requests \in Nat /\ (outbox[e].state = "done" => outbox[e].requests > 0)
         /\ Cursor \in Nat
<1>1. /\ DiscussionTyped /\ Len(jobs) \in Nat /\ DOMAIN jobs = 1..Len(jobs) /\ turns \in Nat /\ targets \in Nat
      /\ \A j \in 1..Len(jobs) : RowOK(j) /\ jobs[j] \in ExtractionRows
      /\ \A w \in Workers : Working(w) /\ worker[w] \in WorkerRows
  BY DiscussionLens DEF DiscussionIInv
<1>2. \A e \in Events :
        outbox[e] \in OutboxRows /\ outbox[e].requests \in Nat /\ (outbox[e].state = "done" => outbox[e].requests > 0)
  BY <1>1 DEF DiscussionTyped, OutboxRows, DiscussionIInv, DoneIsRequested
<1>3. Cursor \in Nat
  <2>1. \A j \in 1..Len(jobs) : jobs[j].input.to <= turns  BY <1>1 DEF RowOK
  <2>2. QED  BY <1>1, <2>1, CursorIs
<1>4. QED  BY <1>1, <1>2, <1>3

LEMMA SameJobs ==
  ASSUME DiscussionIInv, UNCHANGED jobs, turns' \in Nat, turns' >= turns
  PROVE  Extends /\ \A v \in Workers : worker'[v] = worker[v] => LeavesTo(v)
<1>1. /\ Len(jobs) \in Nat /\ \A j \in 1..Len(jobs) : RowOK(j) /\ jobs[j] \in ExtractionRows
      /\ \A w \in Workers : Working(w)
  BY DiscussionFacts
<1>2. Extends
  BY <1>1 DEF Extends, RowOK
<1>3. ASSUME NEW v \in Workers, worker'[v] = worker[v] PROVE LeavesTo(v)
  <2>1. worker[v].pc \in OnAttempt =>
          jobs[worker[v].job].attempt \in Nat
          /\ (worker[v].attempt = jobs[worker[v].job].attempt => jobs[worker[v].job].state = "running")
    BY <1>1 DEF Working, ExtractionRows
  <2>2. QED  BY <1>3, <2>1 DEF LeavesTo
<1>4. QED  BY <1>2, <1>3

LEMMA SameOutbox ==
  ASSUME DiscussionIInv, UNCHANGED outbox
  PROVE  OutboxGrows
BY DiscussionFacts DEF OutboxGrows, DiscussionIInv, DoneIsRequested

(* One row of the jobs, of one that has not succeeded.                     *)
LEMMA SetsRow ==
  ASSUME DiscussionIInv, UNCHANGED turns, NEW j \in 1..Len(jobs), NEW row \in ExtractionRows,
         jobs' = [jobs EXCEPT ![j] = row], jobs[j].state # "succeeded", row.input = jobs[j].input,
         row.stored = IF row.state = "succeeded" THEN 1 ELSE 0, row.lease # "none" <=> row.state = "running"
  PROVE  /\ jobs' \in Seq(ExtractionRows) /\ Len(jobs') = Len(jobs)
         /\ \A k \in 1..Len(jobs) : jobs'[k] = IF k = j THEN row ELSE jobs[k]
         /\ Extends
<1>1. /\ Len(jobs) \in Nat /\ jobs \in Seq(ExtractionRows) /\ turns \in Nat
      /\ \A k \in 1..Len(jobs) : RowOK(k) /\ jobs[k] \in ExtractionRows
  BY DiscussionFacts DEF DiscussionTyped
<1>2. /\ jobs' \in Seq(ExtractionRows) /\ Len(jobs') = Len(jobs)
      /\ \A k \in 1..Len(jobs) : jobs'[k] = IF k = j THEN row ELSE jobs[k]
  BY <1>1, ExceptSeq
<1>3. Extends
  BY <1>1, <1>2 DEF Extends, RowOK
<1>4. QED  BY <1>2, <1>3

(* The step of one worker.                                                 *)
LEMMA WorkerStep ==
  ASSUME DiscussionIInv, NEW w \in Workers, NEW t \in WorkerRows, worker' = [worker EXCEPT ![w] = t],
         UNCHANGED <<turns, targets>>, jobs' \in Seq(ExtractionRows), outbox' \in [Events -> OutboxRows],
         Extends, OutboxGrows, \A v \in Workers \ {w} : worker'[v] = worker[v] => LeavesTo(v),
         t.pc \in {"claim"} \cup OnAttempt => t.job \in 1..Len(jobs'),
         t.pc \in OnAttempt =>
           /\ t.attempt <= jobs'[t.job].attempt
           /\ t.attempt = jobs'[t.job].attempt => jobs'[t.job].state = "running"
           /\ \A v \in Workers \ {w} : worker[v].pc \in OnAttempt /\ worker[v].job = t.job => worker[v].attempt # t.attempt,
         \A d, e \in t.event : d = e,
         t.pc = "mark" => \A e \in t.event : outbox'[e].requests > 0
  PROVE  DiscussionIInv' /\ Final
<1>1. /\ worker' \in [Workers -> WorkerRows] /\ worker'[w] = t
      /\ \A v \in Workers \ {w} : worker'[v] = worker[v]
  BY DEF DiscussionIInv, DiscussionTyped
<1>2. DiscussionTyped'  BY <1>1 DEF DiscussionIInv, DiscussionTyped
<1>3. {w} \in SUBSET Workers /\ \A v \in Workers \ {w} : LeavesTo(v)  BY <1>1
<1>4. \A u \in {w} : Working(u)'  BY <1>1 DEF Working
<1>5. \A u \in {w}, v \in Workers : v # u => Rivals(u, v)' /\ Rivals(v, u)'
  BY <1>1 DEF Rivals
<1>6. QED  BY <1>2, <1>3, <1>4, <1>5, DiscussionFollows

(* A step that no worker takes.                                            *)
LEMMA NoWorkerStep ==
  ASSUME DiscussionIInv, UNCHANGED worker, turns' \in 0..MaxTurns, targets' \in 0..MaxChanges,
         jobs' \in Seq(ExtractionRows), outbox' \in [Events -> OutboxRows], Extends, OutboxGrows,
         \A v \in Workers : LeavesTo(v)
  PROVE  DiscussionIInv' /\ Final
<1>1. DiscussionTyped'  BY DEF DiscussionIInv, DiscussionTyped
<1>2. {} \in SUBSET Workers  OBVIOUS
<1>3. QED  BY <1>1, <1>2, DiscussionFollows

LEMMA SayStep ==
  ASSUME DiscussionIInv, Say \/ TargetChanges
  PROVE  DiscussionIInv' /\ Final
<1>1. /\ UNCHANGED <<jobs, outbox, worker>> /\ turns' \in 0..MaxTurns /\ targets' \in 0..MaxChanges
      /\ turns' \in Nat /\ turns' >= turns /\ DiscussionTyped
  BY BoundsAssumption DEF DiscussionIInv, DiscussionTyped, Say, TargetChanges
<1>2. Extends /\ OutboxGrows /\ \A v \in Workers : LeavesTo(v)
  BY <1>1, SameJobs, SameOutbox
<1>3. QED  BY <1>1, <1>2, NoWorkerStep DEF DiscussionTyped

LEMMA ScheduleStep ==
  ASSUME DiscussionIInv, Schedule
  PROVE  DiscussionIInv' /\ Final
<1>1. PICK through \in Cursor + 1..turns : Enqueue(Interval(through))  BY DEF Schedule
<1>. DEFINE input == Interval(through)
            row == [input |-> input, state |-> "queued", attempt |-> 0, lease |-> "none", stored |-> 0]
<1>2. /\ DiscussionTyped /\ Len(jobs) \in Nat /\ DOMAIN jobs = 1..Len(jobs) /\ turns \in Nat /\ targets \in Nat
      /\ jobs \in Seq(ExtractionRows) /\ Cursor \in Nat /\ through \in Nat /\ Batch \in Nat \ {0}
      /\ \A j \in 1..Len(jobs) : RowOK(j) /\ jobs[j] \in ExtractionRows
      /\ \A w \in Workers : Working(w) /\ worker[w] \in WorkerRows
      /\ UNCHANGED <<turns, targets, outbox, worker>>
  BY DiscussionFacts, BoundsAssumption DEF DiscussionTyped, Schedule
<1>3. input \in Intervals /\ input.from = Cursor + 1 /\ input.from <= input.to /\ input.to <= turns
  <2>1. {Cursor + Batch, through, turns} \in SUBSET Nat  BY <1>2
  <2>2. /\ Min({Cursor + Batch, through, turns}) \in {Cursor + Batch, through, turns}
        /\ Min({Cursor + Batch, through, turns}) <= turns
    BY <2>1, LeastOf
  <2>3. QED  BY <1>1, <1>2, <2>1, <2>2 DEF Interval, Intervals
<1>. HIDE DEF input
<1>4. CASE \E j \in DOMAIN jobs : jobs[j].input = input
  <2>. DEFINE new(j) == IF jobs[j].input = input /\ jobs[j].state = "failed"
                        THEN [jobs[j] EXCEPT !.state = "queued"] ELSE jobs[j]
  <2>1. jobs' = [j \in 1..Len(jobs) |-> new(j)]  BY <1>1, <1>2, <1>4 DEF Enqueue, input
  <2>2. \A j \in 1..Len(jobs) :
          /\ new(j) \in ExtractionRows /\ new(j).input = jobs[j].input /\ new(j).attempt = jobs[j].attempt
          /\ new(j).stored = jobs[j].stored /\ new(j).lease = jobs[j].lease
          /\ \/ new(j) = jobs[j]
             \/ jobs[j].state = "failed" /\ new(j).state = "queued"
    BY <1>2 DEF ExtractionRows, States
  <2>. HIDE DEF new
  <2>3. jobs' \in Seq(ExtractionRows)  BY <1>2, <2>1, <2>2, SeqDef
  <2>4. Len(jobs') = Len(jobs) /\ \A j \in 1..Len(jobs) : jobs'[j] = new(j)
    BY <1>2, <2>1, <2>3, LenProperties
  <2>5. Extends
    <3>1. \A j \in 1..Len(jobs) :
            /\ jobs'[j].input = jobs[j].input
            /\ jobs[j].state = "succeeded" => jobs'[j] = jobs[j]
            /\ jobs'[j].stored = IF jobs'[j].state = "succeeded" THEN 1 ELSE 0
            /\ jobs'[j].lease # "none" <=> jobs'[j].state = "running"
      BY <1>2, <2>2, <2>4 DEF RowOK
    <3>2. QED  BY <1>2, <2>4, <3>1 DEF Extends
  <2>6. \A v \in Workers : LeavesTo(v)
    <3>1. ASSUME NEW v \in Workers, worker[v].pc \in OnAttempt
          PROVE  /\ jobs'[worker[v].job].attempt >= jobs[worker[v].job].attempt
                 /\ worker[v].attempt = jobs'[worker[v].job].attempt => jobs'[worker[v].job].state = "running"
      <4>1. worker[v].job \in 1..Len(jobs)  BY <1>2, <3>1 DEF Working
      <4>2. jobs[worker[v].job].attempt \in Nat  BY <1>2, <4>1 DEF ExtractionRows
      <4>3. QED  BY <1>2, <2>2, <2>4, <3>1, <4>1, <4>2 DEF Working
    <3>2. QED  BY <1>2, <3>1 DEF LeavesTo
  <2>7. QED  BY <1>2, <2>3, <2>5, <2>6, SameOutbox, NoWorkerStep DEF DiscussionTyped
<1>5. CASE ~\E j \in DOMAIN jobs : jobs[j].input = input
  <2>1. jobs' = Append(jobs, row)  BY <1>1, <1>5 DEF Enqueue, input
  <2>2. row \in ExtractionRows  BY <1>3 DEF ExtractionRows, States, Leases
  <2>3. row.input = input /\ row.state = "queued" /\ row.lease = "none" /\ row.stored = 0  OBVIOUS
  <2>. HIDE DEF row
  <2>4. /\ jobs' \in Seq(ExtractionRows) /\ Len(jobs') = Len(jobs) + 1 /\ jobs'[Len(jobs) + 1] = row
        /\ \A j \in 1..Len(jobs) : jobs'[j] = jobs[j]
    BY <1>2, <2>1, <2>2, AppendProperties
  <2>5. Extends
    <3>1. \A j \in 1..Len(jobs) :
            /\ jobs'[j].stored = IF jobs'[j].state = "succeeded" THEN 1 ELSE 0
            /\ jobs'[j].lease # "none" <=> jobs'[j].state = "running"
      BY <1>2, <2>4 DEF RowOK
    <3>2. \A j \in 1..Len(jobs') : j \in 1..Len(jobs) \/ j = Len(jobs) + 1  BY <1>2, <2>4
    <3>3. QED  BY <1>2, <1>3, <2>3, <2>4, <3>1, <3>2 DEF Extends
  <2>6. \A v \in Workers : LeavesTo(v)
    <3>1. ASSUME NEW v \in Workers, worker[v].pc \in OnAttempt
          PROVE  /\ jobs'[worker[v].job].attempt >= jobs[worker[v].job].attempt
                 /\ worker[v].attempt = jobs'[worker[v].job].attempt => jobs'[worker[v].job].state = "running"
      <4>1. worker[v].job \in 1..Len(jobs)  BY <1>2, <3>1 DEF Working
      <4>2. jobs[worker[v].job].attempt \in Nat  BY <1>2, <4>1 DEF ExtractionRows
      <4>3. QED  BY <1>2, <2>4, <3>1, <4>1, <4>2 DEF Working
    <3>2. QED  BY <1>2, <3>1 DEF LeavesTo
  <2>7. QED  BY <1>2, <2>4, <2>5, <2>6, SameOutbox, NoWorkerStep DEF DiscussionTyped
<1>6. QED  BY <1>4, <1>5

LEMMA PickStep ==
  ASSUME DiscussionIInv, NEW w \in Workers, Pick(w)
  PROVE  DiscussionIInv' /\ Final
<1>. DEFINE found == {j \in DOMAIN jobs : Runnable(j)}
            t == IF found = {} THEN [Idle EXCEPT !.pc = "outbox"]
                 ELSE [Idle EXCEPT !.pc = "claim", !.job = Min(found)]
<1>1. /\ DiscussionTyped /\ Len(jobs) \in Nat /\ DOMAIN jobs = 1..Len(jobs) /\ turns \in Nat
      /\ UNCHANGED <<turns, targets, jobs, outbox>> /\ worker' = [worker EXCEPT ![w] = t]
  BY DiscussionFacts DEF Pick
<1>2. found # {} => Min(found) \in 1..Len(jobs)
  <2>1. found \in SUBSET Nat  BY <1>1
  <2>2. QED  BY <1>1, <2>1, LeastOf
<1>. HIDE DEF found
<1>3. t \in WorkerRows /\ t.pc \in {"outbox", "claim"} /\ (t.pc = "claim" => t.job \in 1..Len(jobs))
      /\ t.event = {}
  <2>1. CASE found = {}  BY <2>1 DEF WorkerRows, Labels, Idle
  <2>2. CASE found # {}
    <3>1. Min(found) \in Nat /\ t = [Idle EXCEPT !.pc = "claim", !.job = Min(found)]  BY <1>1, <1>2, <2>2
    <3>2. PICK n \in Nat : n = Min(found)  BY <3>1
    <3>3. t = [Idle EXCEPT !.pc = "claim", !.job = n]  BY <3>1, <3>2
    <3>. HIDE DEF t
    <3>4. t \in WorkerRows /\ t.pc = "claim" /\ t.job = n /\ t.event = {}  BY <3>3 DEF Idle, WorkerRows, Labels
    <3>5. QED  BY <1>2, <2>2, <3>2, <3>4
  <2>3. QED  BY <2>1, <2>2
<1>. HIDE DEF t
<1>4. Extends /\ OutboxGrows /\ \A v \in Workers : worker'[v] = worker[v] => LeavesTo(v)
  BY <1>1, SameJobs, SameOutbox
<1>5. jobs' \in Seq(ExtractionRows) /\ outbox' \in [Events -> OutboxRows]  BY <1>1 DEF DiscussionTyped
<1>6. QED  BY <1>1, <1>3, <1>4, <1>5, WorkerStep DEF OnAttempt

(* Another label, the jobs as they are.                                    *)
LEMMA GoStep ==
  ASSUME DiscussionIInv, NEW w \in Workers, NEW label \in Labels \ {"claim", "think"}, Go(w, label),
         UNCHANGED <<turns, targets, jobs>>, outbox' \in [Events -> OutboxRows], OutboxGrows,
         label = "fail" => worker[w].pc = "think",
         label = "mark" => \A e \in worker[w].event : outbox'[e].requests > 0
  PROVE  DiscussionIInv' /\ Final
<1>. DEFINE t == [worker[w] EXCEPT !.pc = label]
<1>1. /\ DiscussionTyped /\ Len(jobs) \in Nat /\ turns \in Nat /\ worker[w] \in WorkerRows /\ Working(w)
      /\ worker' = [worker EXCEPT ![w] = t]
  BY DiscussionFacts DEF Go
<1>2. /\ t \in WorkerRows /\ t.pc = label /\ t.job = worker[w].job /\ t.attempt = worker[w].attempt
      /\ t.event = worker[w].event
  BY <1>1 DEF WorkerRows
<1>. HIDE DEF t
<1>3. Extends /\ \A v \in Workers : worker'[v] = worker[v] => LeavesTo(v)
  BY <1>1, SameJobs
<1>4. jobs' \in Seq(ExtractionRows)  BY <1>1 DEF DiscussionTyped
<1>5. label = "fail" => \A v \in Workers \ {w} :
        worker[v].pc \in OnAttempt /\ worker[v].job = t.job => worker[v].attempt # t.attempt
  BY <1>2 DEF DiscussionIInv, Rivals, OnAttempt
<1>6. t.pc \in {"claim"} \cup OnAttempt =>
        /\ t.pc = "fail" /\ t.job \in 1..Len(jobs') /\ t.attempt <= jobs'[t.job].attempt
        /\ t.attempt = jobs'[t.job].attempt => jobs'[t.job].state = "running"
  BY <1>1, <1>2 DEF OnAttempt, Working
<1>7. (\A d, e \in t.event : d = e) /\ (t.pc = "mark" => \A e \in t.event : outbox'[e].requests > 0)
  BY <1>1, <1>2 DEF Working
<1>8. UNCHANGED <<turns, targets>>  OBVIOUS
<1>9. QED  BY <1>1, <1>2, <1>3, <1>4, <1>5, <1>6, <1>7, <1>8, WorkerStep DEF OnAttempt

LEMMA ClaimStep ==
  ASSUME DiscussionIInv, NEW w \in Workers, Claim(w)
  PROVE  DiscussionIInv' /\ Final
<1>. DEFINE j == worker[w].job
<1>1. /\ DiscussionTyped /\ Len(jobs) \in Nat /\ DOMAIN jobs = 1..Len(jobs) /\ worker[w] \in WorkerRows
      /\ j \in 1..Len(jobs) /\ RowOK(j) /\ Working(w) /\ jobs[j] \in ExtractionRows /\ UNCHANGED <<turns, targets, outbox>>
  BY DiscussionFacts DEF Claim, Working
<1>2. OutboxGrows /\ outbox' \in [Events -> OutboxRows]  BY <1>1, SameOutbox DEF DiscussionTyped
<1>3. CASE Claimable(j)
  <2>. DEFINE row == [jobs[j] EXCEPT !.state = "running", !.lease = "held", !.attempt = @ + 1]
              t == [worker[w] EXCEPT !.pc = "think", !.attempt = jobs[j].attempt + 1]
  <2>1. jobs' = [jobs EXCEPT ![j] = row] /\ worker' = [worker EXCEPT ![w] = t]
    BY <1>1, <1>3 DEF Claim
  <2>2. jobs[j].state \in {"queued", "running"}  BY <1>3 DEF Claimable, Runnable
  <2>3. /\ row \in ExtractionRows /\ row.input = jobs[j].input /\ row.state = "running" /\ row.lease = "held"
        /\ row.stored = 0 /\ row.attempt = jobs[j].attempt + 1
    <3>1. jobs[j].stored = 0 /\ jobs[j].attempt + 1 \in Nat  BY <1>1, <2>2 DEF RowOK, ExtractionRows
    <3>2. QED  BY <1>1, <3>1 DEF ExtractionRows, States, Leases
  <2>4. /\ t \in WorkerRows /\ t.pc = "think" /\ t.job = j /\ t.attempt = jobs[j].attempt + 1
        /\ \A d, e \in t.event : d = e
    <3>1. jobs[j].attempt + 1 \in Nat  BY <1>1 DEF ExtractionRows
    <3>2. PICK n \in Nat : n = jobs[j].attempt + 1  BY <3>1
    <3>3. t = [worker[w] EXCEPT !.pc = "think", !.attempt = n]  BY <3>2
    <3>. HIDE DEF t
    <3>4. t \in WorkerRows /\ t.pc = "think" /\ t.job = worker[w].job /\ t.attempt = n /\ t.event = worker[w].event
      <4>1. PICK r \in WorkerRows : r = worker[w]  BY <1>1
      <4>2. t = [r EXCEPT !.pc = "think", !.attempt = n]  BY <3>3, <4>1
      <4>3. t \in WorkerRows /\ t.pc = "think" /\ t.job = r.job /\ t.attempt = n /\ t.event = r.event
        BY <4>2 DEF WorkerRows, Labels
      <4>4. QED  BY <4>1, <4>3
    <3>5. QED  BY <1>1, <3>2, <3>4 DEF Working
  <2>. HIDE DEF row, t
  <2>5. /\ jobs' \in Seq(ExtractionRows) /\ Len(jobs') = Len(jobs) /\ Extends
        /\ \A k \in 1..Len(jobs) : jobs'[k] = IF k = j THEN row ELSE jobs[k]
    BY <1>1, <2>1, <2>2, <2>3, SetsRow
  <2>6. ASSUME NEW v \in Workers \ {w}, worker[v].pc \in OnAttempt
        PROVE  /\ worker[v].job = j => worker[v].attempt # t.attempt
               /\ jobs'[worker[v].job].attempt >= jobs[worker[v].job].attempt
               /\ worker[v].attempt = jobs'[worker[v].job].attempt => jobs'[worker[v].job].state = "running"
    <3>1. worker[v].job \in 1..Len(jobs) /\ Working(v) /\ worker[v].attempt \in Nat
          /\ jobs[worker[v].job].attempt \in Nat /\ jobs[j].attempt \in Nat
      BY <1>1, <2>6, DiscussionFacts DEF Working, WorkerRows, ExtractionRows
    <3>2. QED  BY <2>3, <2>4, <2>5, <2>6, <3>1 DEF Working
  <2>7. \A v \in Workers \ {w} : worker'[v] = worker[v] => LeavesTo(v)  BY <2>6 DEF LeavesTo
  <2>8. jobs'[t.job].state = "running" /\ jobs'[t.job].attempt = t.attempt /\ t.attempt \in Nat
    BY <1>1, <2>3, <2>4, <2>5 DEF ExtractionRows
  <2>9. /\ t.job \in 1..Len(jobs') /\ t.attempt <= jobs'[t.job].attempt
        /\ \A v \in Workers \ {w} : worker[v].pc \in OnAttempt /\ worker[v].job = t.job => worker[v].attempt # t.attempt
    BY <1>1, <2>4, <2>5, <2>6, <2>8
  <2>10. t.pc # "mark" /\ jobs' \in Seq(ExtractionRows) /\ Extends /\ UNCHANGED <<turns, targets>>
    BY <1>1, <2>4, <2>5
  <2>11. QED  BY <1>2, <2>1, <2>4, <2>7, <2>8, <2>9, <2>10, WorkerStep
<1>4. CASE ~Claimable(j)
  <2>1. Go(w, "outbox") /\ UNCHANGED jobs  BY <1>4 DEF Claim
  <2>2. QED  BY <1>1, <1>2, <2>1, GoStep DEF Labels
<1>5. QED  BY <1>3, <1>4

(* The attempt of a worker that is still the current one ends the job.     *)
LEMMA EndsAttempt ==
  ASSUME DiscussionIInv, NEW w \in Workers, worker[w].pc \in OnAttempt, Go(w, "outbox"),
         UNCHANGED <<turns, targets, outbox>>, jobs[worker[w].job].attempt = worker[w].attempt,
         NEW row, jobs' = [jobs EXCEPT ![worker[w].job] = row],
         \/ row = [jobs[worker[w].job] EXCEPT !.state = "succeeded", !.lease = "none", !.stored = @ + 1]
         \/ row = [jobs[worker[w].job] EXCEPT !.state = "failed", !.lease = "none"]
  PROVE  DiscussionIInv' /\ Final
<1>. DEFINE j == worker[w].job
            t == [worker[w] EXCEPT !.pc = "outbox"]
<1>1. /\ DiscussionTyped /\ Len(jobs) \in Nat /\ worker[w] \in WorkerRows /\ Working(w)
      /\ j \in 1..Len(jobs) /\ RowOK(j) /\ jobs[j] \in ExtractionRows /\ jobs[j].state = "running"
  BY DiscussionFacts DEF Working
<1>2. /\ row \in ExtractionRows /\ row.input = jobs[j].input /\ row.attempt = jobs[j].attempt
      /\ row.state \in {"succeeded", "failed"} /\ row.lease = "none"
      /\ row.stored = IF row.state = "succeeded" THEN 1 ELSE 0
  <2>1. jobs[j].stored = 0  BY <1>1 DEF RowOK
  <2>2. CASE row = [jobs[j] EXCEPT !.state = "succeeded", !.lease = "none", !.stored = @ + 1]
    <3>1. row = [jobs[j] EXCEPT !.state = "succeeded", !.lease = "none", !.stored = 1]  BY <2>1, <2>2
    <3>2. PICK r \in ExtractionRows : r = jobs[j]  BY <1>1
    <3>3. row = [r EXCEPT !.state = "succeeded", !.lease = "none", !.stored = 1]  BY <3>1, <3>2
    <3>4. /\ row \in ExtractionRows /\ row.input = r.input /\ row.attempt = r.attempt
          /\ row.state = "succeeded" /\ row.lease = "none" /\ row.stored = 1
      BY ONLY <3>3, r \in ExtractionRows DEF ExtractionRows, States, Leases
    <3>5. QED  BY <3>2, <3>4
  <2>3. CASE row = [jobs[j] EXCEPT !.state = "failed", !.lease = "none"]
    BY <1>1, <2>1, <2>3 DEF ExtractionRows, States, Leases
  <2>4. QED  BY <2>2, <2>3
<1>3. worker' = [worker EXCEPT ![w] = t] /\ t \in WorkerRows /\ t.pc = "outbox"
      /\ \A d, e \in t.event : d = e
  BY <1>1 DEF WorkerRows, Labels, Go, Working
<1>. HIDE DEF t
<1>4. /\ jobs' \in Seq(ExtractionRows) /\ Len(jobs') = Len(jobs) /\ Extends
      /\ \A k \in 1..Len(jobs) : jobs'[k] = IF k = j THEN row ELSE jobs[k]
  BY <1>1, <1>2, SetsRow
<1>5. ASSUME NEW v \in Workers \ {w}, worker'[v] = worker[v] PROVE LeavesTo(v)
  <2>1. worker[v].pc \in OnAttempt =>
          /\ worker[v].job \in 1..Len(jobs) /\ Working(v) /\ jobs[worker[v].job].attempt \in Nat
          /\ worker[v].job = j => worker[v].attempt # jobs[j].attempt
    BY DiscussionFacts DEF Working, ExtractionRows, DiscussionIInv, Rivals
  <2>2. worker[v].pc \in OnAttempt =>
          /\ jobs'[worker[v].job].attempt = jobs[worker[v].job].attempt
          /\ worker[v].job # j => jobs'[worker[v].job] = jobs[worker[v].job]
    BY <1>2, <1>4, <2>1
  <2>3. QED  BY <1>5, <2>1, <2>2 DEF LeavesTo, Working
<1>6. OutboxGrows /\ outbox' \in [Events -> OutboxRows]  BY <1>1, SameOutbox DEF DiscussionTyped
<1>7. QED  BY <1>3, <1>4, <1>5, <1>6, WorkerStep DEF OnAttempt

LEMMA StoreStep ==
  ASSUME DiscussionIInv, NEW w \in Workers, Store(w)
  PROVE  DiscussionIInv' /\ Final
<1>1. UNCHANGED <<turns, targets, outbox>> /\ worker[w].pc \in OnAttempt /\ worker[w].pc = "think"
  BY DEF Store, OnAttempt
<1>2. OutboxGrows /\ outbox' \in [Events -> OutboxRows]
  BY <1>1, SameOutbox DEF DiscussionIInv, DiscussionTyped
<1>3. CASE Go(w, "outbox") /\ UNCHANGED jobs  BY <1>1, <1>2, <1>3, GoStep DEF Labels
<1>4. CASE Go(w, "fail") /\ UNCHANGED jobs  BY <1>1, <1>2, <1>4, GoStep DEF Labels
<1>5. CASE /\ Current(w) /\ Go(w, "outbox")
           /\ jobs' = [jobs EXCEPT ![worker[w].job].state = "succeeded", ![worker[w].job].lease = "none",
                                   ![worker[w].job].stored = @ + 1]
  <2>. DEFINE row == [jobs[worker[w].job] EXCEPT !.state = "succeeded", !.lease = "none", !.stored = @ + 1]
  <2>1. worker[w].job \in DOMAIN jobs  BY <1>1, DiscussionFacts DEF Working
  <2>2. jobs' = [jobs EXCEPT ![worker[w].job] = row]  BY <1>5, <2>1
  <2>3. QED  BY <1>1, <1>5, <2>2, EndsAttempt DEF Current
<1>6. QED  BY <1>3, <1>4, <1>5 DEF Store

LEMMA FailStep ==
  ASSUME DiscussionIInv, NEW w \in Workers, Fail(w)
  PROVE  DiscussionIInv' /\ Final
<1>1. UNCHANGED <<turns, targets, outbox>> /\ worker[w].pc \in OnAttempt /\ Go(w, "outbox")
  BY DEF Fail, OnAttempt
<1>2. CASE MayFail(w)
  <2>. DEFINE row == [jobs[worker[w].job] EXCEPT !.state = "failed", !.lease = "none"]
  <2>1. jobs' = [jobs EXCEPT ![worker[w].job] = row]
    <3>1. worker[w].job \in DOMAIN jobs  BY <1>1, DiscussionFacts DEF Working
    <3>2. QED  BY <1>2, <3>1 DEF Fail
  <2>2. QED  BY <1>1, <1>2, <2>1, EndsAttempt DEF MayFail
<1>3. CASE ~MayFail(w)
  <2>1. UNCHANGED jobs  BY <1>3 DEF Fail
  <2>2. OutboxGrows /\ outbox' \in [Events -> OutboxRows]
    BY <1>1, SameOutbox DEF DiscussionIInv, DiscussionTyped
  <2>3. QED  BY <1>1, <2>1, <2>2, GoStep DEF Labels
<1>4. QED  BY <1>2, <1>3

(* One row of the outbox.                                                  *)
LEMMA SetsEvent ==
  ASSUME DiscussionIInv, NEW e \in Events, NEW row \in OutboxRows, outbox' = [outbox EXCEPT ![e] = row],
         row.requests >= outbox[e].requests, row.state = "done" => row.requests > 0
  PROVE  outbox' \in [Events -> OutboxRows] /\ OutboxGrows /\ outbox'[e] = row
<1>1. outbox \in [Events -> OutboxRows] /\ \A x \in Events : outbox[x].requests \in Nat
  BY DiscussionFacts DEF DiscussionTyped
<1>2. outbox' \in [Events -> OutboxRows] /\ \A x \in Events : outbox'[x] = IF x = e THEN row ELSE outbox[x]
  BY <1>1
<1>3. OutboxGrows  BY <1>1, <1>2 DEF OutboxGrows, DiscussionIInv, DoneIsRequested
<1>4. QED  BY <1>2, <1>3

(* A worker is done with what it had.                                      *)
LEMMA ToIdle ==
  ASSUME DiscussionIInv, NEW w \in Workers, worker' = [worker EXCEPT ![w] = Idle],
         UNCHANGED <<turns, targets, jobs>>, outbox' \in [Events -> OutboxRows], OutboxGrows
  PROVE  DiscussionIInv' /\ Final
<1>. DEFINE t == Idle
<1>1. t \in WorkerRows /\ t.pc = "idle" /\ t.event = {}  BY DEF Idle, WorkerRows, Labels
<1>2. worker' = [worker EXCEPT ![w] = t]  OBVIOUS
<1>. HIDE DEF t
<1>3. DiscussionTyped /\ turns \in Nat  BY DiscussionFacts
<1>4. Extends /\ \A v \in Workers : worker'[v] = worker[v] => LeavesTo(v)  BY <1>3, SameJobs
<1>5. jobs' \in Seq(ExtractionRows)  BY <1>3 DEF DiscussionTyped
<1>6. QED  BY <1>1, <1>2, <1>4, <1>5, WorkerStep DEF OnAttempt

LEMMA OutboxStep ==
  ASSUME DiscussionIInv, NEW w \in Workers, LeaseEvent(w) \/ Deliver(w) \/ MarkEvent(w) \/ Crash(w)
  PROVE  DiscussionIInv' /\ Final
<1>1. /\ DiscussionTyped /\ turns \in Nat /\ worker[w] \in WorkerRows /\ Working(w)
      /\ \A e \in Events :
           outbox[e] \in OutboxRows /\ outbox[e].requests \in Nat /\ (outbox[e].state = "done" => outbox[e].requests > 0)
      /\ outbox \in [Events -> OutboxRows] /\ UNCHANGED <<turns, targets, jobs>>
  BY DiscussionFacts DEF DiscussionTyped, LeaseEvent, Deliver, MarkEvent, Crash
<1>2. UNCHANGED outbox => OutboxGrows /\ outbox' \in [Events -> OutboxRows]
  BY <1>1, SameOutbox
<1>3. CASE LeaseEvent(w)
  <2>1. CASE worker' = [worker EXCEPT ![w] = Idle] /\ UNCHANGED outbox
    BY <1>1, <1>2, <2>1, ToIdle
  <2>2. CASE \E e \in Events :
               /\ outbox' = [outbox EXCEPT ![e].lease = "held"]
               /\ worker' = [worker EXCEPT ![w].pc = "deliver", ![w].event = {e}]
    <3>1. PICK e \in Events :
            /\ outbox' = [outbox EXCEPT ![e].lease = "held"]
            /\ worker' = [worker EXCEPT ![w].pc = "deliver", ![w].event = {e}]
      BY <2>2
    <3>. DEFINE row == [outbox[e] EXCEPT !.lease = "held"]
                t == [worker[w] EXCEPT !.pc = "deliver", !.event = {e}]
    <3>2. outbox' = [outbox EXCEPT ![e] = row] /\ worker' = [worker EXCEPT ![w] = t]
      BY <1>1, <3>1 DEF DiscussionTyped
    <3>3. /\ row \in OutboxRows /\ row.requests = outbox[e].requests /\ row.state = outbox[e].state
          /\ t \in WorkerRows /\ t.pc = "deliver" /\ t.event = {e}
      BY <1>1 DEF OutboxRows, Leases, WorkerRows, Labels
    <3>. HIDE DEF row, t
    <3>4. outbox' \in [Events -> OutboxRows] /\ OutboxGrows
      <4>1. row.requests >= outbox[e].requests /\ (row.state = "done" => row.requests > 0)  BY <1>1, <3>3
      <4>2. QED  BY <3>2, <3>3, <4>1, SetsEvent
    <3>5. Extends /\ \A v \in Workers : worker'[v] = worker[v] => LeavesTo(v)  BY <1>1, SameJobs
    <3>6. jobs' \in Seq(ExtractionRows)  BY <1>1 DEF DiscussionTyped
    <3>7. QED  BY <1>1, <3>2, <3>3, <3>4, <3>5, <3>6, WorkerStep DEF OnAttempt
  <2>3. QED  BY <1>3, <2>1, <2>2 DEF LeaseEvent
<1>4. CASE Deliver(w)
  <2>1. PICK e \in worker[w].event :
          \/ outbox' = [outbox EXCEPT ![e].requests = IF @ = 0 THEN 1 ELSE @] /\ Go(w, "mark")
          \/ Go(w, "defer") /\ UNCHANGED outbox
    BY <1>4 DEF Deliver
  <2>2. CASE Go(w, "defer") /\ UNCHANGED outbox  BY <1>1, <1>2, <2>2, GoStep DEF Labels
  <2>3. CASE outbox' = [outbox EXCEPT ![e].requests = IF @ = 0 THEN 1 ELSE @] /\ Go(w, "mark")
    <3>. DEFINE row == [outbox[e] EXCEPT !.requests = IF @ = 0 THEN 1 ELSE @]
    <3>1. e \in Events /\ outbox' = [outbox EXCEPT ![e] = row]
      BY <1>1, <2>3 DEF WorkerRows
    <3>2. row \in OutboxRows /\ row.requests >= outbox[e].requests /\ row.requests > 0
      BY <1>1, <3>1 DEF OutboxRows
    <3>. HIDE DEF row
    <3>3. outbox' \in [Events -> OutboxRows] /\ OutboxGrows /\ outbox'[e] = row
      BY <3>1, <3>2, SetsEvent
    <3>4. \A x \in worker[w].event : outbox'[x].requests > 0
      BY <1>1, <2>1, <3>2, <3>3 DEF Working
    <3>5. QED  BY <1>1, <2>3, <3>2, <3>3, <3>4, GoStep DEF Labels
  <2>4. QED  BY <2>1, <2>2, <2>3
<1>5. CASE MarkEvent(w)
  <2>1. PICK e \in worker[w].event :
          outbox' = [outbox EXCEPT ![e] = IF worker[w].pc = "mark"
                                          THEN [@ EXCEPT !.state = "done", !.lease = "none"] ELSE Deferred(@)]
    BY <1>5 DEF MarkEvent
  <2>. DEFINE row == IF worker[w].pc = "mark" THEN [outbox[e] EXCEPT !.state = "done", !.lease = "none"]
                     ELSE Deferred(outbox[e])
  <2>2. e \in Events /\ outbox' = [outbox EXCEPT ![e] = row]  BY <1>1, <2>1 DEF WorkerRows
  <2>3. /\ row \in OutboxRows /\ row.requests = outbox[e].requests
        /\ worker[w].pc # "mark" => row.state = outbox[e].state
    BY <1>1, <2>2 DEF OutboxRows, Leases, Deferred
  <2>4. row.state = "done" => row.requests > 0
    BY <1>1, <2>1, <2>2, <2>3 DEF Working
  <2>. HIDE DEF row
  <2>5. outbox' \in [Events -> OutboxRows] /\ OutboxGrows
    <3>1. row.requests >= outbox[e].requests  BY <1>1, <2>2, <2>3
    <3>2. QED  BY <2>2, <2>3, <2>4, <3>1, SetsEvent
  <2>6. QED  BY <1>1, <1>5, <2>5, ToIdle DEF MarkEvent
<1>6. CASE Crash(w)
  BY <1>1, <1>2, <1>6, ToIdle DEF Crash
<1>7. QED  BY <1>3, <1>4, <1>5, <1>6

LEMMA LapseStep ==
  ASSUME DiscussionIInv, Lapse \/ \E e \in Events : Apply(e)
  PROVE  DiscussionIInv' /\ Final
<1>1. /\ DiscussionTyped /\ turns \in Nat /\ turns \in 0..MaxTurns /\ targets \in 0..MaxChanges
      /\ \A e \in Events :
           outbox[e] \in OutboxRows /\ outbox[e].requests \in Nat /\ (outbox[e].state = "done" => outbox[e].requests > 0)
      /\ outbox \in [Events -> OutboxRows] /\ UNCHANGED <<turns, targets, worker>>
  BY DiscussionFacts DEF DiscussionTyped, Lapse, LapseJob, LapseEvent, Apply
<1>2. CASE \E j \in DOMAIN jobs : LapseJob(j)
  <2>1. PICK j \in DOMAIN jobs : LapseJob(j)  BY <1>2
  <2>. DEFINE row == [jobs[j] EXCEPT !.lease = "lapsed"]
  <2>2. /\ j \in 1..Len(jobs) /\ RowOK(j) /\ jobs[j] \in ExtractionRows /\ jobs[j].lease = "held"
        /\ jobs[j].state = "running" /\ jobs' = [jobs EXCEPT ![j] = row] /\ UNCHANGED outbox
    BY <2>1, DiscussionFacts DEF LapseJob, RowOK
  <2>3. /\ row \in ExtractionRows /\ row.input = jobs[j].input /\ row.state = "running" /\ row.lease = "lapsed"
        /\ row.stored = 0 /\ row.attempt = jobs[j].attempt
    BY <2>2 DEF ExtractionRows, Leases, RowOK
  <2>. HIDE DEF row
  <2>4. /\ jobs' \in Seq(ExtractionRows) /\ Len(jobs') = Len(jobs) /\ Extends
        /\ \A k \in 1..Len(jobs) : jobs'[k] = IF k = j THEN row ELSE jobs[k]
    <3>1. UNCHANGED turns /\ jobs[j].state # "succeeded" /\ jobs' = [jobs EXCEPT ![j] = row]  BY <1>1, <2>2
    <3>2. /\ row.stored = IF row.state = "succeeded" THEN 1 ELSE 0
          /\ row.lease # "none" <=> row.state = "running"
      BY <2>3
    <3>3. j \in 1..Len(jobs) /\ row \in ExtractionRows /\ row.input = jobs[j].input  BY <2>2, <2>3
    <3>4. QED  BY <3>1, <3>2, <3>3, SetsRow
  <2>5. ASSUME NEW v \in Workers PROVE LeavesTo(v)
    <3>1. worker[v].pc \in OnAttempt =>
            worker[v].job \in 1..Len(jobs) /\ Working(v) /\ jobs[worker[v].job].attempt \in Nat
      BY DiscussionFacts DEF Working, ExtractionRows
    <3>2. QED  BY <1>1, <2>2, <2>3, <2>4, <3>1 DEF LeavesTo, Working
  <2>6. QED  BY <1>1, <2>2, <2>4, <2>5, SameOutbox, NoWorkerStep
<1>3. CASE \E e \in Events : LapseEvent(e) \/ Apply(e)
  <2>1. PICK e \in Events : LapseEvent(e) \/ Apply(e)  BY <1>3
  <2>2. UNCHANGED jobs  BY <2>1 DEF LapseEvent, Apply
  <2>. DEFINE row == IF LapseEvent(e) THEN [outbox[e] EXCEPT !.lease = "lapsed"]
                     ELSE [outbox[e] EXCEPT !.state = "queued"]
  <2>3. outbox' = [outbox EXCEPT ![e] = row]  BY <1>1, <2>1 DEF LapseEvent, Apply
  <2>4. row \in OutboxRows /\ row.requests = outbox[e].requests /\ row.state \in {outbox[e].state, "queued"}
    BY <1>1 DEF OutboxRows, Leases
  <2>. HIDE DEF row
  <2>5. outbox' \in [Events -> OutboxRows] /\ OutboxGrows
    <3>1. row.requests >= outbox[e].requests /\ (row.state = "done" => row.requests > 0)  BY <1>1, <2>4
    <3>2. QED  BY <2>3, <2>4, <3>1, SetsEvent
  <2>6. Extends /\ \A v \in Workers : LeavesTo(v)  BY <1>1, <2>2, SameJobs
  <2>7. QED  BY <1>1, <2>2, <2>5, <2>6, NoWorkerStep DEF DiscussionTyped
<1>4. QED  BY <1>2, <1>3 DEF Lapse

LEMMA DiscussionInit == Init => DiscussionIInv
<1> SUFFICES ASSUME Init PROVE DiscussionIInv  OBVIOUS
<1>1. /\ turns = 0 /\ targets = 0 /\ jobs = <<>> /\ outbox = [e \in Events |-> [state |-> "none", lease |-> "none", requests |-> 0]]
      /\ worker = [w \in Workers |-> Idle]
  BY DEF Init
<1>2. jobs \in Seq(ExtractionRows) /\ Len(jobs) = 0 /\ DOMAIN jobs = {}
  BY <1>1, EmptySeq
<1>3. DiscussionTyped
  BY <1>1, <1>2, BoundsAssumption DEF DiscussionTyped, OutboxRows, Leases, WorkerRows, Labels, Idle
<1>4. Cursor \in Nat /\ ~(Cursor # 0)
  BY <1>2, <1>3, CursorIs
<1>5. CursorIsProcessed  BY <1>4 DEF CursorIsProcessed
<1>6. DoneIsRequested  BY <1>1 DEF DoneIsRequested
<1>7. \A w \in Workers : worker[w].pc = "idle" /\ worker[w].event = {}  BY <1>1 DEF Idle
<1>8. QED  BY <1>2, <1>3, <1>5, <1>6, <1>7 DEF DiscussionIInv, Working, Rivals, OnAttempt

LEMMA DiscussionStep == DiscussionIInv /\ [Next]_vars => DiscussionIInv' /\ Final
<1>1. ASSUME DiscussionIInv, UNCHANGED vars PROVE DiscussionIInv' /\ Final
  <2>1. UNCHANGED <<turns, targets, jobs, outbox, worker>>  BY <1>1 DEF vars
  <2>2. DiscussionTyped /\ turns \in Nat  BY <1>1, DiscussionFacts
  <2>3. Extends /\ OutboxGrows /\ \A v \in Workers : LeavesTo(v)  BY <1>1, <2>1, <2>2, SameJobs, SameOutbox
  <2>4. QED  BY <1>1, <2>1, <2>2, <2>3, NoWorkerStep DEF DiscussionTyped
<1>2. ASSUME DiscussionIInv, NEW w \in Workers, Work(w) \/ Crash(w) PROVE DiscussionIInv' /\ Final
  BY <1>2, PickStep, ClaimStep, StoreStep, FailStep, OutboxStep DEF Work
<1>3. QED
  BY <1>1, <1>2, SayStep, ScheduleStep, LapseStep DEF Next

LEMMA DiscussionImplied == DiscussionIInv => DiscussionInv
<1> SUFFICES ASSUME DiscussionIInv PROVE DiscussionInv  OBVIOUS
<1>1. /\ DiscussionTyped /\ DOMAIN jobs = 1..Len(jobs)
      /\ \A j \in 1..Len(jobs) : RowOK(j) /\ jobs[j] \in ExtractionRows
  BY DiscussionFacts
<1>2. TypeOK  BY <1>1 DEF TypeOK, DiscussionTyped, RowOK, ExtractionRows, States, Leases, OutboxRows
<1>3. StoredOnce  BY <1>1 DEF StoredOnce, RowOK
<1>4. QED  BY <1>2, <1>3 DEF DiscussionInv, DiscussionIInv

(* For any number of turns, workers, attempts, lapses and crashes: the     *)
(* candidates of a job are stored once, every turn behind the cursor has   *)
(* been through a job that succeeded, and an event that is done has        *)
(* reached the interview refresh.                                          *)
THEOREM DiscussionsHold == Spec => []DiscussionInv
<1>1. QED  BY DiscussionInit, DiscussionStep, DiscussionImplied, PTL DEF Spec

(* A late worker neither fails nor repeats an extraction that succeeded.   *)
THEOREM ExtractionsEndOnce == Spec => SuccessIsFinal
<1>1. DiscussionIInv /\ [Next]_vars => [Final]_vars
  BY DiscussionStep
<1>2. QED  BY <1>1, DiscussionInit, DiscussionStep, PTL DEF Spec, SuccessIsFinal, Final

-----------------------------------------------------------------------------
(* What a thread of a job knows of the job and of the snapshot it made.    *)
Statuses == {"queued", "snapshotting", "indexing", "completed", "snapshot_failed", "index_failed"}
JobRows == [status : Statuses, snap : Nat]
SnapRows == [status : {"indexing", "ready", "failed"}, commit : Nat, runs : Nat, by : Nat]
Steps == {"idle", "new", "insert", "read", "store", "pin", "judge", "find", "exists", "index", "unusable", "complete"}
ThreadRows == [pc : Steps, job : Nat, snap : Nat, on : Nat, commit : Nat]
Making == {"read", "store"}
OnIndex == {"find", "exists", "index", "unusable", "complete"}

ResyncTyped ==
  /\ head \in 1..MaxCommits /\ up \in {"serving", "repairing"}
  /\ resyncs \in Seq(JobRows) /\ snaps \in Seq(SnapRows) /\ thread \in [Workers -> ThreadRows]

HasThread(j) == up = "serving" /\ Resync!Active(j) => \E w \in Workers : thread[w].job = j
JobOK(j) ==
  /\ resyncs[j].snap <= Len(snaps)
  /\ resyncs[j].snap # 0 => snaps[resyncs[j].snap].by = j
  /\ resyncs[j].status = "completed" =>
       resyncs[j].snap # 0 /\ snaps[resyncs[j].snap].status = "ready" /\ snaps[resyncs[j].snap].runs > 0
  /\ HasThread(j)

SnapOK(s) == snaps[s].commit <= head /\ snaps[s].by <= Len(resyncs)

StatusAt(pc) ==
  IF pc = "new" THEN "queued" ELSE IF pc \in OnIndex THEN "indexing" ELSE "snapshotting"

JobKnown(w) == thread[w].job # 0 =>
  /\ resyncs[thread[w].job].status = StatusAt(thread[w].pc)
  /\ thread[w].pc \in {"new", "insert"} => thread[w].snap = 0
  /\ resyncs[thread[w].job].snap =
       IF thread[w].pc \in {"new", "insert", "read", "store", "pin"} THEN 0 ELSE thread[w].snap
  /\ thread[w].pc \in {"pin", "judge"} \cup OnIndex =>
       /\ thread[w].snap # 0 /\ snaps[thread[w].snap].by = thread[w].job
       /\ snaps[thread[w].snap].status # "indexing"
  /\ thread[w].pc \in OnIndex => snaps[thread[w].snap].status = "ready"
  /\ thread[w].pc \in {"exists", "index"} => thread[w].on = thread[w].snap
  /\ thread[w].pc = "complete" => snaps[thread[w].snap].runs > 0

ThreadOK(w) ==
  /\ thread[w].job <= Len(resyncs) /\ thread[w].snap <= Len(snaps) /\ thread[w].on <= Len(snaps)
  /\ thread[w].commit <= head
  /\ thread[w].pc = "idle" => thread[w] = Resync!Idle
  /\ thread[w].pc # "idle" => up = "serving"
  /\ thread[w].pc \in {"new", "pin", "judge", "complete"} => thread[w].job # 0
  /\ thread[w].pc = "insert" => thread[w].snap = 0
  /\ thread[w].pc \in Making =>
       thread[w].snap # 0 /\ snaps[thread[w].snap].status = "indexing" /\ snaps[thread[w].snap].by = thread[w].job
  /\ thread[w].pc \in {"exists", "index"} => thread[w].on # 0
  /\ JobKnown(w)

Apart(v, w) ==
  /\ thread[v].job = thread[w].job => thread[v].job = 0
  /\ thread[v].pc \in Making /\ thread[w].pc \in Making => thread[v].snap # thread[w].snap

ResyncIInv ==
  /\ ResyncTyped
  /\ \A j \in 1..Len(resyncs) : JobOK(j)
  /\ \A s \in 1..Len(snaps) : SnapOK(s)
  /\ \A w \in Workers : ThreadOK(w)
  /\ \A v, w \in Workers : v # w => Apart(v, w)

-----------------------------------------------------------------------------
LEMMA ResyncLens ==
  ASSUME ResyncTyped
  PROVE  /\ Len(resyncs) \in Nat /\ DOMAIN resyncs = 1..Len(resyncs) /\ resyncs \in [1..Len(resyncs) -> JobRows]
         /\ Len(snaps) \in Nat /\ DOMAIN snaps = 1..Len(snaps) /\ snaps \in [1..Len(snaps) -> SnapRows]
         /\ head \in Nat /\ thread \in [Workers -> ThreadRows]
BY CommitsAssumption, LenProperties DEF ResyncTyped

LEMMA ResyncLensNext ==
  ASSUME ResyncTyped'
  PROVE  /\ Len(resyncs') \in Nat /\ DOMAIN resyncs' = 1..Len(resyncs') /\ resyncs' \in [1..Len(resyncs') -> JobRows]
         /\ Len(snaps') \in Nat /\ DOMAIN snaps' = 1..Len(snaps') /\ snaps' \in [1..Len(snaps') -> SnapRows]
BY LenProperties DEF ResyncTyped

(* What a step of one thread leaves to the others: their jobs, and the     *)
(* snapshots they have made.                                               *)
Leaves(w) ==
  /\ head' = head /\ up' = up
  /\ \A v \in Workers \ {w} : thread'[v] = thread[v]
  /\ Len(resyncs') = Len(resyncs)
  /\ \A j \in 1..Len(resyncs) : j # thread[w].job => resyncs'[j] = resyncs[j]
  /\ Len(snaps') >= Len(snaps)
  /\ \A s \in 1..Len(snaps) :
       /\ snaps'[s].by = snaps[s].by /\ snaps'[s].runs >= snaps[s].runs
       /\ \/ snaps'[s].status = snaps[s].status
          \/ snaps[s].status = "indexing" /\ thread[w].pc \in Making /\ thread[w].snap = s
  /\ thread'[w].job \in {thread[w].job, 0}
  /\ thread'[w].pc \in Making =>
       \/ thread[w].pc \in Making /\ thread'[w].snap = thread[w].snap
       \/ thread'[w].snap > Len(snaps)

Ended ==
  /\ \A j \in DOMAIN resyncs : ~Resync!Active(j) => resyncs'[j] = resyncs[j]
  /\ \A s \in DOMAIN snaps : snaps[s].status # "indexing" => snaps'[s].status = snaps[s].status

LEMMA OthersKeep ==
  ASSUME ResyncIInv, NEW w \in Workers, ResyncTyped', Leaves(w), NEW v \in Workers \ {w}
  PROVE  ThreadOK(v)'
<1>1. ResyncTyped /\ ThreadOK(v) /\ Apart(v, w) /\ thread'[v] = thread[v]
  BY DEF ResyncIInv, Leaves
<1>2. /\ Len(resyncs) \in Nat /\ Len(snaps) \in Nat /\ Len(snaps') \in Nat /\ thread[v] \in ThreadRows
      /\ head' = head /\ up' = up /\ Len(resyncs') = Len(resyncs) /\ Len(snaps') >= Len(snaps)
  BY <1>1, ResyncLens, ResyncLensNext DEF Leaves
<1>3. thread[v].job # 0 => resyncs'[thread[v].job] = resyncs[thread[v].job]
  <2>1. thread[v].job # 0 => thread[v].job \in 1..Len(resyncs) /\ thread[v].job # thread[w].job
    BY <1>1, <1>2 DEF ThreadOK, Apart, ThreadRows
  <2>2. QED  BY <2>1 DEF Leaves
<1>4. thread[v].snap # 0 =>
        LET s == thread[v].snap IN
        /\ snaps'[s].by = snaps[s].by /\ snaps'[s].runs >= snaps[s].runs
        /\ snaps[s].runs \in Nat /\ snaps'[s].runs \in Nat
        /\ \/ snaps'[s].status = snaps[s].status
           \/ snaps[s].status = "indexing" /\ thread[v].pc \notin Making
  <2>1. thread[v].snap # 0 => thread[v].snap \in 1..Len(snaps) /\ thread[v].snap \in 1..Len(snaps')
    BY <1>1, <1>2 DEF ThreadOK, ThreadRows
  <2>2. thread[v].snap # 0 => snaps[thread[v].snap] \in SnapRows /\ snaps'[thread[v].snap] \in SnapRows
    BY <1>1, <2>1, ResyncLens, ResyncLensNext
  <2>3. QED  BY <1>1, <2>1, <2>2 DEF Leaves, Apart, SnapRows
<1>5. JobKnown(v)'
  BY <1>1, <1>2, <1>3, <1>4 DEF ThreadOK, JobKnown, ThreadRows, OnIndex, Making
<1>6. thread[v].pc \in Making =>
        thread[v].snap # 0 /\ snaps'[thread[v].snap].status = "indexing" /\ snaps'[thread[v].snap].by = thread[v].job
  BY <1>1, <1>4 DEF ThreadOK
<1>7. QED
  BY <1>1, <1>2, <1>5, <1>6 DEF ThreadOK, ThreadRows

LEMMA OneThread ==
  ASSUME ResyncIInv, NEW w \in Workers, ResyncTyped', Leaves(w), ThreadOK(w)',
         \A j \in 1..Len(resyncs) : j = thread[w].job => JobOK(j)', \A s \in 1..Len(snaps') : SnapOK(s)'
  PROVE  ResyncIInv' /\ Ended
<1>1. ResyncTyped /\ ThreadOK(w) /\ thread[w] \in ThreadRows
  BY ResyncLens DEF ResyncIInv
<1>2. /\ Len(resyncs) \in Nat /\ DOMAIN resyncs = 1..Len(resyncs) /\ Len(snaps) \in Nat /\ DOMAIN snaps = 1..Len(snaps)
      /\ Len(resyncs') = Len(resyncs)
  BY <1>1, ResyncLens DEF Leaves
<1>3. ASSUME NEW j \in 1..Len(resyncs) PROVE JobOK(j)'
  <2>1. CASE j = thread[w].job  BY <2>1
  <2>2. CASE j # thread[w].job
    <3>1. resyncs'[j] = resyncs[j] /\ JobOK(j)  BY <1>2, <2>2 DEF ResyncIInv, Leaves
    <3>2. resyncs[j] \in JobRows /\ Len(snaps') >= Len(snaps) /\ Len(snaps') \in Nat
      BY <1>1, ResyncLens, ResyncLensNext DEF Leaves
    <3>3. resyncs[j].snap # 0 => resyncs[j].snap \in 1..Len(snaps) /\ resyncs[j].snap \in 1..Len(snaps')
      BY <1>2, <3>1, <3>2 DEF JobOK, JobRows
    <3>4. resyncs[j].snap # 0 =>
            /\ snaps[resyncs[j].snap] \in SnapRows /\ snaps'[resyncs[j].snap] \in SnapRows
            /\ snaps'[resyncs[j].snap].by = snaps[resyncs[j].snap].by
            /\ snaps'[resyncs[j].snap].runs >= snaps[resyncs[j].snap].runs
            /\ snaps[resyncs[j].snap].status = "ready" => snaps'[resyncs[j].snap].status = "ready"
      BY <1>1, <3>3, ResyncLens, ResyncLensNext DEF Leaves
    <3>5. HasThread(j)'
      <4>1. SUFFICES ASSUME up' = "serving", Resync!Active(j)' PROVE \E u \in Workers : thread'[u].job = j
        BY DEF HasThread
      <4>2. PICK u \in Workers : thread[u].job = j
        BY <3>1, <4>1 DEF Resync!Active, JobOK, HasThread, Leaves
      <4>3. u # w  BY <2>2, <4>2
      <4>4. QED  BY <4>2, <4>3 DEF Leaves
    <3>6. QED
      BY <3>1, <3>2, <3>4, <3>5 DEF JobOK, JobRows, SnapRows
  <2>3. QED  BY <2>1, <2>2
<1>4. \A v \in Workers : ThreadOK(v)'
  BY OthersKeep
<1>5. ASSUME NEW u \in Workers, NEW v \in Workers, u # v PROVE Apart(u, v)'
  <2>1. Apart(u, v) /\ Apart(v, u) /\ ThreadOK(u) /\ ThreadOK(v) /\ thread[u] \in ThreadRows /\ thread[v] \in ThreadRows
    BY <1>1, <1>5, ResyncLens DEF ResyncIInv
  <2>2. thread'[w] \in ThreadRows  BY DEF ResyncTyped
  <2>3. ASSUME NEW x \in Workers, x # w, Apart(w, x), ThreadOK(x), thread[x] \in ThreadRows
        PROVE  Apart(w, x)' /\ Apart(x, w)'
    <3>1. thread'[x] = thread[x]  BY <2>3 DEF Leaves
    <3>2. thread'[w].job = thread[x].job => thread[x].job = 0
      BY <2>3 DEF Leaves, Apart
    <3>3. thread'[w].pc \in Making /\ thread[x].pc \in Making => thread'[w].snap # thread[x].snap
      BY <1>2, <2>2, <2>3 DEF Leaves, Apart, ThreadOK, ThreadRows
    <3>4. QED  BY <3>1, <3>2, <3>3 DEF Apart
  <2>4. CASE u = w  BY <1>5, <2>1, <2>3, <2>4
  <2>5. CASE v = w  BY <1>5, <2>1, <2>3, <2>5
  <2>6. CASE u # w /\ v # w  BY <2>1, <2>6 DEF Leaves, Apart
  <2>7. QED  BY <2>4, <2>5, <2>6
<1>6. Ended
  <2>1. \A j \in 1..Len(resyncs) : ~Resync!Active(j) => j # thread[w].job
    BY <1>1 DEF ThreadOK, JobKnown, Resync!Active, StatusAt, ThreadRows
  <2>2. \A s \in 1..Len(snaps) : snaps[s].status # "indexing" => snaps'[s].status = snaps[s].status
    BY DEF Leaves
  <2>3. QED  BY <1>2, <2>1, <2>2 DEF Ended, Leaves
<1>7. QED  BY <1>2, <1>3, <1>4, <1>5, <1>6 DEF ResyncIInv

(* The row of the job a thread has, if it has one.                         *)
LEMMA SetsJob ==
  ASSUME ResyncIInv, NEW w \in Workers, NEW status, NEW snap \in Nat, Resync!SetJob(w, status, snap),
         thread[w].job # 0 => status \in Statuses
  PROVE  /\ resyncs' \in Seq(JobRows) /\ Len(resyncs') = Len(resyncs)
         /\ \A j \in 1..Len(resyncs) : j # thread[w].job => resyncs'[j] = resyncs[j]
         /\ thread[w].job # 0 => /\ thread[w].job \in 1..Len(resyncs)
                                 /\ resyncs'[thread[w].job].status = status
                                 /\ resyncs'[thread[w].job].snap = IF snap # 0 THEN snap ELSE resyncs[thread[w].job].snap
<1>1. /\ ResyncTyped /\ ThreadOK(w) /\ resyncs \in [1..Len(resyncs) -> JobRows] /\ Len(resyncs) \in Nat
      /\ thread[w] \in ThreadRows /\ resyncs \in Seq(JobRows)
  BY ResyncLens DEF ResyncIInv, ResyncTyped
<1>2. CASE thread[w].job = 0
  BY <1>1, <1>2 DEF Resync!SetJob
<1>3. CASE thread[w].job # 0
  <2>. DEFINE k == thread[w].job
              row == [status |-> status, snap |-> IF snap # 0 THEN snap ELSE resyncs[k].snap]
  <2>1. k \in 1..Len(resyncs)  BY <1>1, <1>3 DEF ThreadOK, ThreadRows
  <2>2. resyncs' = [resyncs EXCEPT ![k] = row]  BY <1>1, <1>3, <2>1 DEF Resync!SetJob
  <2>3. row \in JobRows  BY <1>1, <1>3, <2>1 DEF JobRows
  <2>. HIDE DEF row
  <2>4. /\ resyncs' \in Seq(JobRows) /\ Len(resyncs') = Len(resyncs)
        /\ \A j \in 1..Len(resyncs) : resyncs'[j] = IF j = k THEN row ELSE resyncs[j]
    BY <1>1, <2>1, <2>2, <2>3, ExceptSeq
  <2>5. row.status = status /\ row.snap = (IF snap # 0 THEN snap ELSE resyncs[k].snap)  BY DEF row
  <2>6. QED  BY <2>1, <2>4, <2>5
<1>4. QED  BY <1>2, <1>3

(* One row of the snapshots.                                               *)
LEMMA SetsSnap ==
  ASSUME ResyncTyped, NEW s \in 1..Len(snaps), NEW row \in SnapRows, snaps' = [snaps EXCEPT ![s] = row]
  PROVE  /\ snaps' \in Seq(SnapRows) /\ Len(snaps') = Len(snaps)
         /\ \A r \in 1..Len(snaps) : snaps'[r] = IF r = s THEN row ELSE snaps[r]
BY ExceptSeq DEF ResyncTyped

(* What is known of a thread before its step.                              *)
LEMMA ThreadFacts ==
  ASSUME ResyncIInv, NEW w \in Workers
  PROVE  /\ ResyncTyped /\ ThreadOK(w) /\ thread[w] \in ThreadRows /\ Len(resyncs) \in Nat /\ Len(snaps) \in Nat
         /\ thread[w].job # 0 =>
              /\ thread[w].job \in 1..Len(resyncs) /\ JobOK(thread[w].job) /\ resyncs[thread[w].job] \in JobRows
              /\ JobKnown(w)
         /\ thread[w].snap # 0 => thread[w].snap \in 1..Len(snaps) /\ snaps[thread[w].snap] \in SnapRows
         /\ thread[w].on # 0 => thread[w].on \in 1..Len(snaps) /\ snaps[thread[w].on] \in SnapRows
         /\ \A s \in 1..Len(snaps) : SnapOK(s) /\ snaps[s] \in SnapRows
<1>1. ResyncTyped /\ ThreadOK(w) /\ thread[w] \in ThreadRows /\ Len(resyncs) \in Nat /\ Len(snaps) \in Nat
  BY ResyncLens DEF ResyncIInv
<1>2. thread[w].job \in Nat /\ thread[w].snap \in Nat /\ thread[w].on \in Nat
  BY <1>1 DEF ThreadRows
<1>3. \A s \in 1..Len(snaps) : SnapOK(s) /\ snaps[s] \in SnapRows
  BY <1>1, ResyncLens DEF ResyncIInv
<1>4. \A j \in 1..Len(resyncs) : JobOK(j) /\ resyncs[j] \in JobRows
  BY <1>1, ResyncLens DEF ResyncIInv
<1>5. thread[w].job # 0 => thread[w].job \in 1..Len(resyncs) /\ JobKnown(w)
  BY <1>1, <1>2 DEF ThreadOK
<1>6. /\ thread[w].snap # 0 => thread[w].snap \in 1..Len(snaps)
      /\ thread[w].on # 0 => thread[w].on \in 1..Len(snaps)
  BY <1>1, <1>2 DEF ThreadOK
<1>7. QED  BY <1>1, <1>3, <1>4, <1>5, <1>6

(* A step of a thread that writes no snapshot.                             *)
LEMMA QuietThread ==
  ASSUME ResyncIInv, NEW w \in Workers, UNCHANGED <<head, snaps, up>>,
         thread' \in [Workers -> ThreadRows], \A v \in Workers \ {w} : thread'[v] = thread[v],
         thread'[w].job \in {thread[w].job, 0},
         thread'[w].pc \in Making => thread[w].pc \in Making /\ thread'[w].snap = thread[w].snap,
         resyncs' \in Seq(JobRows), Len(resyncs') = Len(resyncs),
         \A j \in 1..Len(resyncs) : j # thread[w].job => resyncs'[j] = resyncs[j],
         ThreadOK(w)', \A j \in 1..Len(resyncs) : j = thread[w].job => JobOK(j)'
  PROVE  ResyncIInv' /\ Ended
<1>1. ResyncTyped'  BY DEF ResyncIInv, ResyncTyped
<1>2. Leaves(w)
  <2>1. \A s \in 1..Len(snaps) : snaps[s].runs \in Nat  BY ThreadFacts DEF SnapRows
  <2>2. QED  BY <2>1, ResyncLens DEF Leaves, ResyncIInv
<1>3. \A s \in 1..Len(snaps') : SnapOK(s)'
  BY DEF ResyncIInv, SnapOK
<1>4. QED  BY <1>1, <1>2, <1>3, OneThread

LEMMA BeginStep ==
  ASSUME ResyncIInv, NEW w \in Workers, Resync!Begin(w)
  PROVE  ResyncIInv' /\ Ended
<1>1. /\ thread[w].pc = "new" /\ Resync!SetJob(w, "snapshotting", 0) /\ UNCHANGED <<head, snaps, up>>
      /\ thread' = [thread EXCEPT ![w] = [thread[w] EXCEPT !.pc = "insert"]]
  BY DEF Resync!Begin, Resync!Go
<1>2. /\ thread[w].job \in 1..Len(resyncs) /\ thread[w].job # 0 /\ JobKnown(w) /\ ThreadOK(w) /\ thread[w] \in ThreadRows
  BY <1>1, ThreadFacts DEF ThreadOK
<1>3. /\ resyncs' \in Seq(JobRows) /\ Len(resyncs') = Len(resyncs)
      /\ \A j \in 1..Len(resyncs) : j # thread[w].job => resyncs'[j] = resyncs[j]
      /\ resyncs'[thread[w].job].status = "snapshotting"
      /\ resyncs'[thread[w].job].snap = resyncs[thread[w].job].snap
  BY <1>1, <1>2, SetsJob DEF Statuses
<1>4. /\ thread' \in [Workers -> ThreadRows] /\ \A v \in Workers \ {w} : thread'[v] = thread[v]
      /\ thread'[w] = [thread[w] EXCEPT !.pc = "insert"]
  BY <1>1, <1>2, ThreadFacts DEF ResyncTyped, ThreadRows, Steps
<1>5. ThreadOK(w)'
  BY <1>1, <1>2, <1>3, <1>4 DEF ThreadOK, JobKnown, StatusAt, ThreadRows, Making, OnIndex
<1>6. \A j \in 1..Len(resyncs) : j = thread[w].job => JobOK(j)'
  BY <1>1, <1>2, <1>3, <1>4, ThreadFacts DEF JobOK, HasThread, JobKnown, ThreadRows
<1>7. QED  BY <1>1, <1>2, <1>3, <1>4, <1>5, <1>6, QuietThread DEF ThreadRows, Making

LEMMA ReadHeadStep ==
  ASSUME ResyncIInv, NEW w \in Workers, Resync!ReadHead(w)
  PROVE  ResyncIInv' /\ Ended
<1>1. /\ thread[w].pc = "read" /\ UNCHANGED <<head, resyncs, snaps, up>>
      /\ thread' = [thread EXCEPT ![w] = [thread[w] EXCEPT !.pc = "store", !.commit = head]]
  BY ThreadFacts DEF Resync!ReadHead, ResyncTyped, ThreadRows
<1>2. ThreadOK(w) /\ thread[w] \in ThreadRows /\ head \in Nat
  BY ThreadFacts, ResyncLens
<1>3. /\ thread' \in [Workers -> ThreadRows] /\ \A v \in Workers \ {w} : thread'[v] = thread[v]
      /\ thread'[w] = [thread[w] EXCEPT !.pc = "store", !.commit = head]
  BY <1>1, <1>2, ThreadFacts DEF ResyncTyped, ThreadRows, Steps
<1>4. ThreadOK(w)'
  BY <1>1, <1>2, <1>3 DEF ThreadOK, JobKnown, StatusAt, ThreadRows, Making, OnIndex
<1>5. \A j \in 1..Len(resyncs) : j = thread[w].job => JobOK(j)'
  BY <1>1, <1>2, <1>3 DEF ResyncIInv, JobOK, HasThread, ThreadRows, Resync!Active
<1>6. resyncs' \in Seq(JobRows)  BY <1>1 DEF ResyncIInv, ResyncTyped
<1>7. QED  BY <1>1, <1>2, <1>3, <1>4, <1>5, <1>6, QuietThread DEF ThreadRows, Making

LEMMA InsertSnapshotStep ==
  ASSUME ResyncIInv, NEW w \in Workers, Resync!InsertSnapshot(w)
  PROVE  ResyncIInv' /\ Ended
<1>. DEFINE row == [status |-> "indexing", commit |-> 0, runs |-> 0, by |-> thread[w].job]
<1>1. /\ thread[w].pc = "insert" /\ UNCHANGED <<head, resyncs, up>> /\ snaps' = Append(snaps, row)
      /\ thread' = [thread EXCEPT ![w] = [thread[w] EXCEPT !.pc = "read", !.snap = Len(snaps) + 1]]
  BY ThreadFacts DEF Resync!InsertSnapshot, ResyncTyped, ThreadRows
<1>2. ThreadOK(w) /\ thread[w] \in ThreadRows /\ ResyncTyped /\ row \in SnapRows /\ Len(snaps) \in Nat
  BY ThreadFacts DEF ThreadRows, SnapRows
<1>. HIDE DEF row
<1>3. /\ snaps' \in Seq(SnapRows) /\ Len(snaps') = Len(snaps) + 1 /\ snaps'[Len(snaps) + 1] = row
      /\ \A s \in 1..Len(snaps) : snaps'[s] = snaps[s]
  BY <1>1, <1>2, AppendProperties DEF ResyncTyped
<1>4. /\ thread' \in [Workers -> ThreadRows] /\ \A v \in Workers \ {w} : thread'[v] = thread[v]
      /\ thread'[w] = [thread[w] EXCEPT !.pc = "read", !.snap = Len(snaps) + 1]
  <2>. DEFINE next == [thread[w] EXCEPT !.pc = "read", !.snap = Len(snaps) + 1]
  <2>1. ASSUME NEW n \in Nat PROVE [thread[w] EXCEPT !.pc = "read", !.snap = n] \in ThreadRows
    BY <1>2 DEF ThreadRows, Steps
  <2>2. thread' = [thread EXCEPT ![w] = next] /\ next \in ThreadRows
    <3>1. Len(snaps) + 1 \in Nat  BY <1>2
    <3>2. next \in ThreadRows  BY <2>1, <3>1
    <3>3. QED  BY <1>1, <3>2
  <2>. HIDE DEF next
  <2>3. thread'[w] = next /\ thread' \in [Workers -> ThreadRows] /\ \A v \in Workers \ {w} : thread'[v] = thread[v]
    BY <1>2, <2>1, <2>2 DEF ResyncTyped
  <2>4. QED  BY <2>3 DEF next
<1>5. ResyncTyped'  BY <1>1, <1>2, <1>3, <1>4 DEF ResyncTyped
<1>6. row.status = "indexing" /\ row.by = thread[w].job /\ row.commit = 0  BY DEF row
<1>7. Leaves(w)
  <2>1. \A s \in 1..Len(snaps) : snaps[s].runs \in Nat  BY ThreadFacts DEF SnapRows
  <2>2. QED  BY <1>1, <1>2, <1>3, <1>4, <2>1 DEF Leaves, ThreadRows, Making
<1>8. ThreadOK(w)'
  BY <1>1, <1>2, <1>3, <1>4, <1>6 DEF ThreadOK, JobKnown, StatusAt, ThreadRows, Making, OnIndex
<1>9. \A s \in 1..Len(snaps') : SnapOK(s)'
  <2>1. thread[w].job <= Len(resyncs) /\ head \in Nat  BY <1>2, ResyncLens DEF ThreadOK
  <2>2. QED  BY <1>1, <1>2, <1>3, <1>6, <2>1, ThreadFacts DEF SnapOK
<1>10. \A j \in 1..Len(resyncs) : j = thread[w].job => JobOK(j)'
  <2>. SUFFICES ASSUME thread[w].job # 0 PROVE \A j \in 1..Len(resyncs) : j = thread[w].job => JobOK(j)'
    OBVIOUS
  <2>1. JobKnown(w) /\ resyncs'[thread[w].job].snap = 0 /\ resyncs'[thread[w].job].status = "snapshotting"
    BY <1>1, <1>2, ThreadFacts DEF JobKnown, StatusAt, OnIndex
  <2>2. thread'[w].job = thread[w].job  BY <1>2, <1>4 DEF ThreadRows
  <2>3. ASSUME NEW j \in 1..Len(resyncs), j = thread[w].job PROVE JobOK(j)'
    <3>1. HasThread(j)'  BY <2>2, <2>3 DEF HasThread
    <3>2. resyncs'[j].snap = 0 /\ resyncs'[j].status # "completed" /\ 0 <= Len(snaps')
      BY <1>2, <1>3, <2>1, <2>3
    <3>3. QED  BY <3>1, <3>2 DEF JobOK
  <2>4. QED  BY <2>3
<1>11. QED  BY <1>5, <1>7, <1>8, <1>9, <1>10, OneThread

LEMMA CreatedStep ==
  ASSUME ResyncIInv, NEW w \in Workers, Resync!GitFails(w) \/ Resync!StoreSnapshot(w)
  PROVE  ResyncIInv' /\ Ended
<1>. DEFINE s == thread[w].snap
            row == IF thread[w].pc = "read" THEN [snaps[s] EXCEPT !.status = "failed"]
                   ELSE [snaps[s] EXCEPT !.status = "ready", !.commit = thread[w].commit]
            next == IF thread[w].job = 0 THEN Resync!Idle ELSE [thread[w] EXCEPT !.pc = "pin"]
<1>1. /\ thread[w].pc \in Making /\ UNCHANGED <<head, resyncs, up>>
      /\ snaps' = [snaps EXCEPT ![s] = row] /\ thread' = [thread EXCEPT ![w] = next]
  <2>1. CASE Resync!GitFails(w)
    BY <2>1 DEF Resync!GitFails, Resync!After, Resync!End, Resync!Go, Making
  <2>2. CASE Resync!StoreSnapshot(w)
    BY <2>2 DEF Resync!StoreSnapshot, Resync!After, Resync!End, Resync!Go, Making
  <2>3. QED  BY <2>1, <2>2
<1>2. /\ ThreadOK(w) /\ thread[w] \in ThreadRows /\ ResyncTyped /\ Len(snaps) \in Nat /\ head \in Nat
      /\ s \in 1..Len(snaps) /\ snaps[s] \in SnapRows /\ SnapOK(s)
      /\ snaps[s].status = "indexing" /\ snaps[s].by = thread[w].job
  BY <1>1, ThreadFacts, ResyncLens DEF ThreadOK, Making
<1>3. /\ row \in SnapRows /\ row.status # "indexing" /\ row.by = snaps[s].by /\ row.runs = snaps[s].runs
      /\ row.commit <= head
  BY <1>2 DEF SnapRows, ThreadRows, ThreadOK, SnapOK
<1>4. /\ next \in ThreadRows /\ next.job = thread[w].job /\ next.snap \in {s, 0} /\ next.pc \in {"idle", "pin"}
      /\ next.job # 0 => next = [thread[w] EXCEPT !.pc = "pin"]
      /\ next.pc = "idle" => next = Resync!Idle
  BY <1>2 DEF ThreadRows, Steps, Resync!Idle
<1>. HIDE DEF row, next
<1>5. /\ snaps' \in Seq(SnapRows) /\ Len(snaps') = Len(snaps)
      /\ \A r \in 1..Len(snaps) : snaps'[r] = IF r = s THEN row ELSE snaps[r]
  BY <1>1, <1>2, <1>3, SetsSnap
<1>6. thread' \in [Workers -> ThreadRows] /\ thread'[w] = next /\ \A v \in Workers \ {w} : thread'[v] = thread[v]
  BY <1>1, <1>2, <1>4 DEF ResyncTyped
<1>7. ResyncTyped'  BY <1>1, <1>2, <1>5, <1>6 DEF ResyncTyped
<1>8. Leaves(w)
  <2>1. \A r \in 1..Len(snaps) : snaps[r].runs \in Nat  BY ThreadFacts DEF SnapRows
  <2>2. \A r \in 1..Len(snaps) :
          /\ snaps'[r].by = snaps[r].by /\ snaps'[r].runs >= snaps[r].runs
          /\ \/ snaps'[r].status = snaps[r].status
             \/ snaps[r].status = "indexing" /\ thread[w].pc \in Making /\ thread[w].snap = r
    BY <1>1, <1>2, <1>3, <1>5, <2>1
  <2>3. QED  BY <1>1, <1>2, <1>4, <1>5, <1>6, <2>2 DEF Leaves, Making
<1>9. ThreadOK(w)'
  <2>1. CASE thread[w].job = 0
    <3>1. thread'[w] = Resync!Idle  BY <1>6, <2>1 DEF next
    <3>2. QED  BY <1>2, <1>7, <3>1, ResyncLensNext
             DEF ThreadOK, JobKnown, Resync!Idle, Making, ResyncTyped
  <2>2. CASE thread[w].job # 0
    <3>1. /\ thread'[w].pc = "pin" /\ thread'[w].job = thread[w].job /\ thread'[w].snap = s
          /\ thread'[w].on = thread[w].on /\ thread'[w].commit = thread[w].commit
      BY <1>2, <1>4, <1>6, <2>2 DEF ThreadRows
    <3>2. snaps'[s].by = thread[w].job /\ snaps'[s].status # "indexing" /\ s # 0
      BY <1>2, <1>3, <1>5
    <3>3. JobKnown(w)'
      BY <1>1, <1>2, <2>2, <3>1, <3>2 DEF ThreadOK, JobKnown, StatusAt, Making, OnIndex
    <3>4. QED
      BY <1>1, <1>2, <1>5, <2>2, <3>1, <3>2, <3>3 DEF ThreadOK, Making
  <2>3. QED  BY <2>1, <2>2
<1>10. \A r \in 1..Len(snaps') : SnapOK(r)'
  <2>1. thread[w].job <= Len(resyncs)  BY <1>2 DEF ThreadOK
  <2>2. ASSUME NEW r \in 1..Len(snaps') PROVE SnapOK(r)'
    BY <1>1, <1>2, <1>3, <1>5, <2>1, ThreadFacts DEF SnapOK
  <2>3. QED  BY <2>2
<1>11. \A j \in 1..Len(resyncs) : j = thread[w].job => JobOK(j)'
  <2>1. ASSUME NEW j \in 1..Len(resyncs), j = thread[w].job PROVE JobOK(j)'
    <3>1. HasThread(j)'  BY <1>4, <1>6, <2>1 DEF HasThread
    <3>2. resyncs'[j].snap = 0 /\ resyncs'[j].status # "completed" /\ 0 <= Len(snaps')
      BY <1>1, <1>2, <1>5, <2>1 DEF ThreadOK, JobKnown, StatusAt, Making, OnIndex
    <3>3. QED  BY <3>1, <3>2 DEF JobOK
  <2>2. QED  BY <2>1
<1>12. QED  BY <1>7, <1>8, <1>9, <1>10, <1>11, OneThread

LEMMA PinStep ==
  ASSUME ResyncIInv, NEW w \in Workers, Resync!Pin(w)
  PROVE  ResyncIInv' /\ Ended
<1>1. /\ thread[w].pc = "pin" /\ Resync!SetJob(w, "snapshotting", thread[w].snap) /\ UNCHANGED <<head, snaps, up>>
      /\ thread' = [thread EXCEPT ![w] = [thread[w] EXCEPT !.pc = "judge"]]
  BY DEF Resync!Pin, Resync!Go
<1>2. /\ thread[w].job \in 1..Len(resyncs) /\ thread[w].job # 0 /\ JobKnown(w) /\ ThreadOK(w) /\ thread[w] \in ThreadRows
      /\ thread[w].snap \in 1..Len(snaps) /\ thread[w].snap \in Nat
      /\ snaps[thread[w].snap].by = thread[w].job
  BY <1>1, ThreadFacts DEF ThreadOK, JobKnown, ThreadRows
<1>3. /\ resyncs' \in Seq(JobRows) /\ Len(resyncs') = Len(resyncs)
      /\ \A j \in 1..Len(resyncs) : j # thread[w].job => resyncs'[j] = resyncs[j]
      /\ resyncs'[thread[w].job].status = "snapshotting"
      /\ resyncs'[thread[w].job].snap = thread[w].snap
  BY <1>1, <1>2, SetsJob DEF Statuses
<1>4. /\ thread' \in [Workers -> ThreadRows] /\ \A v \in Workers \ {w} : thread'[v] = thread[v]
      /\ thread'[w] = [thread[w] EXCEPT !.pc = "judge"]
  BY <1>1, <1>2, ThreadFacts DEF ResyncTyped, ThreadRows, Steps
<1>5. ThreadOK(w)'
  BY <1>1, <1>2, <1>3, <1>4 DEF ThreadOK, JobKnown, StatusAt, ThreadRows, Making, OnIndex
<1>6. \A j \in 1..Len(resyncs) : j = thread[w].job => JobOK(j)'
  <2>1. thread'[w].job = thread[w].job  BY <1>2, <1>4 DEF ThreadRows
  <2>2. ASSUME NEW j \in 1..Len(resyncs), j = thread[w].job PROVE JobOK(j)'
    <3>1. HasThread(j)'  BY <2>1, <2>2 DEF HasThread
    <3>2. /\ resyncs'[j].snap = thread[w].snap /\ resyncs'[j].status # "completed"
          /\ snaps'[thread[w].snap].by = j /\ thread[w].snap <= Len(snaps')
      BY <1>1, <1>2, <1>3, <2>2
    <3>3. QED  BY <3>1, <3>2 DEF JobOK
  <2>3. QED  BY <2>2
<1>7. QED  BY <1>1, <1>2, <1>3, <1>4, <1>5, <1>6, QuietThread DEF ThreadRows, Making

LEMMA JudgeStep ==
  ASSUME ResyncIInv, NEW w \in Workers, Resync!Judge(w)
  PROVE  ResyncIInv' /\ Ended
<1>. DEFINE made == snaps[thread[w].snap].status = "ready"
            status == IF made THEN "indexing" ELSE "snapshot_failed"
            next == IF made THEN [thread[w] EXCEPT !.pc = "find"] ELSE Resync!Idle
<1>1. /\ thread[w].pc = "judge" /\ Resync!SetJob(w, status, thread[w].snap) /\ UNCHANGED <<head, snaps, up>>
      /\ thread' = [thread EXCEPT ![w] = next]
  BY DEF Resync!Judge, Resync!Go, Resync!End
<1>2. /\ thread[w].job \in 1..Len(resyncs) /\ thread[w].job # 0 /\ JobKnown(w) /\ ThreadOK(w) /\ thread[w] \in ThreadRows
      /\ thread[w].snap \in 1..Len(snaps) /\ thread[w].snap \in Nat /\ Len(snaps) \in Nat
      /\ snaps[thread[w].snap].by = thread[w].job
  BY <1>1, ThreadFacts DEF ThreadOK, JobKnown, ThreadRows
<1>3. /\ resyncs' \in Seq(JobRows) /\ Len(resyncs') = Len(resyncs)
      /\ \A j \in 1..Len(resyncs) : j # thread[w].job => resyncs'[j] = resyncs[j]
      /\ resyncs'[thread[w].job].status = status
      /\ resyncs'[thread[w].job].snap = thread[w].snap
  BY <1>1, <1>2, SetsJob DEF Statuses
<1>4. /\ thread' \in [Workers -> ThreadRows] /\ \A v \in Workers \ {w} : thread'[v] = thread[v]
      /\ thread'[w] = next
  <2>1. next \in ThreadRows  BY <1>2 DEF ThreadRows, Steps, Resync!Idle
  <2>. HIDE DEF next
  <2>2. QED  BY <1>1, <2>1, ThreadFacts DEF ResyncTyped
<1>5. ThreadOK(w)'
  <2>1. CASE made
    <3>1. thread'[w] = [thread[w] EXCEPT !.pc = "find"] /\ resyncs'[thread[w].job].status = "indexing"
      BY <1>3, <1>4, <2>1
    <3>2. QED
      BY <1>1, <1>2, <1>3, <2>1, <3>1 DEF ThreadOK, JobKnown, StatusAt, ThreadRows, Making, OnIndex
  <2>2. CASE ~made
    <3>1. thread'[w] = Resync!Idle /\ head \in Nat  BY <1>4, <2>2, ResyncLens, ThreadFacts
    <3>2. QED  BY <1>1, <1>2, <1>3, <3>1 DEF ThreadOK, JobKnown, Resync!Idle, Making
  <2>3. QED  BY <2>1, <2>2
<1>6. \A j \in 1..Len(resyncs) : j = thread[w].job => JobOK(j)'
  <2>1. ASSUME NEW j \in 1..Len(resyncs), j = thread[w].job PROVE JobOK(j)'
    <3>1. HasThread(j)'
      <4>1. CASE made
        <5>1. thread'[w].job = j  BY <1>2, <1>4, <2>1, <4>1 DEF ThreadRows
        <5>2. QED  BY <5>1 DEF HasThread
      <4>2. CASE ~made  BY <1>3, <2>1, <4>2 DEF HasThread, Resync!Active
      <4>3. QED  BY <4>1, <4>2
    <3>2. /\ resyncs'[j].snap = thread[w].snap /\ resyncs'[j].status # "completed"
          /\ snaps'[thread[w].snap].by = j /\ thread[w].snap <= Len(snaps')
      BY <1>1, <1>2, <1>3, <2>1
    <3>3. QED  BY <3>1, <3>2 DEF JobOK
  <2>2. QED  BY <2>1
<1>7. thread'[w].job \in {thread[w].job, 0} /\ thread'[w].pc \notin Making
  BY <1>2, <1>4 DEF ThreadRows, Resync!Idle, Making
<1>8. QED  BY <1>1, <1>2, <1>3, <1>4, <1>5, <1>6, <1>7, QuietThread

LEMMA FindStep ==
  ASSUME ResyncIInv, NEW w \in Workers, Resync!Find(w)
  PROVE  ResyncIInv' /\ Ended
<1>. DEFINE t == Resync!Target(w)
            next == IF Resync!Usable(t) THEN [thread[w] EXCEPT !.pc = "exists", !.on = t]
                    ELSE [thread[w] EXCEPT !.pc = "unusable"]
<1>1. /\ thread[w].pc = "find" /\ UNCHANGED <<head, resyncs, snaps, up>>
      /\ thread' = [thread EXCEPT ![w] = next]
  BY ThreadFacts DEF Resync!Find, Resync!Go, ResyncTyped, ThreadRows
<1>2. /\ ThreadOK(w) /\ thread[w] \in ThreadRows /\ ResyncTyped /\ Len(snaps) \in Nat
      /\ thread[w].job # 0 => JobKnown(w) /\ thread[w].snap # 0
  BY <1>1, ThreadFacts DEF JobKnown, OnIndex
<1>3. t \in Nat /\ t <= Len(snaps) /\ (thread[w].job # 0 => t = thread[w].snap)
  BY <1>2 DEF Resync!Target, ThreadRows, ThreadOK
<1>4. /\ next \in ThreadRows /\ next.job = thread[w].job /\ next.snap = thread[w].snap /\ next.commit = thread[w].commit
      /\ next.on \in {thread[w].on, t} /\ next.pc \in {"exists", "unusable"}
      /\ next.pc = "exists" => next.on = t /\ t # 0
  <2>. HIDE DEF t
  <2>1. CASE Resync!Usable(t)  BY <1>2, <1>3, <2>1 DEF ThreadRows, Steps, Resync!Usable
  <2>2. CASE ~Resync!Usable(t)  BY <1>2, <1>3, <2>2 DEF ThreadRows, Steps
  <2>3. QED  BY <2>1, <2>2
<1>. HIDE DEF t, next
<1>5. thread' \in [Workers -> ThreadRows] /\ thread'[w] = next /\ \A v \in Workers \ {w} : thread'[v] = thread[v]
  BY <1>1, <1>2, <1>4 DEF ResyncTyped
<1>6. ThreadOK(w)'
  <2>1. JobKnown(w)'
    BY <1>1, <1>2, <1>3, <1>4, <1>5 DEF JobKnown, StatusAt, OnIndex
  <2>2. QED  BY <1>1, <1>2, <1>3, <1>4, <1>5, <2>1 DEF ThreadOK, Making
<1>7. \A j \in 1..Len(resyncs) : j = thread[w].job => JobOK(j)'
  BY <1>1, <1>4, <1>5 DEF ResyncIInv, JobOK, HasThread, Resync!Active
<1>8. QED  BY <1>1, <1>2, <1>4, <1>5, <1>6, <1>7, QuietThread DEF ResyncTyped, Making

LEMMA ExistsStep ==
  ASSUME ResyncIInv, NEW w \in Workers, Resync!Exists(w)
  PROVE  ResyncIInv' /\ Ended
<1>. DEFINE found == snaps[thread[w].on].runs > 0
            next == IF ~found THEN [thread[w] EXCEPT !.pc = "index"]
                    ELSE IF thread[w].job = 0 THEN Resync!Idle ELSE [thread[w] EXCEPT !.pc = "complete"]
<1>1. /\ thread[w].pc = "exists" /\ UNCHANGED <<head, resyncs, snaps, up>>
      /\ thread' = [thread EXCEPT ![w] = next]
  BY DEF Resync!Exists, Resync!Go, Resync!Finished, Resync!End
<1>2. /\ ThreadOK(w) /\ thread[w] \in ThreadRows /\ ResyncTyped /\ head \in Nat
      /\ Len(snaps) \in Nat /\ Len(resyncs) \in Nat
      /\ thread[w].job # 0 => JobKnown(w)
  BY <1>1, ThreadFacts, ResyncLens
<1>3. /\ next \in ThreadRows /\ next.pc \in {"index", "idle", "complete"}
      /\ next.pc = "idle" => next = Resync!Idle
      /\ next.pc # "idle" => next = [thread[w] EXCEPT !.pc = next.pc]
      /\ next.pc = "idle" => thread[w].job = 0
      /\ next.pc = "complete" => thread[w].job # 0 /\ found
  BY <1>2 DEF ThreadRows, Steps, Resync!Idle
<1>. HIDE DEF next
<1>4. thread' \in [Workers -> ThreadRows] /\ thread'[w] = next /\ \A v \in Workers \ {w} : thread'[v] = thread[v]
  BY <1>1, <1>2, <1>3 DEF ResyncTyped
<1>5. ThreadOK(w)'
  <2>1. CASE next.pc = "idle"
    BY <1>1, <1>2, <1>3, <1>4, <2>1 DEF ThreadOK, JobKnown, Resync!Idle, Making
  <2>2. CASE next.pc # "idle"
    <3>1. /\ next.job = thread[w].job /\ next.snap = thread[w].snap /\ next.on = thread[w].on
          /\ next.commit = thread[w].commit
      BY <1>2, <1>3, <2>2 DEF ThreadRows
    <3>2. JobKnown(w)'
      BY <1>1, <1>2, <1>3, <1>4, <2>2, <3>1 DEF JobKnown, StatusAt, OnIndex
    <3>3. QED  BY <1>1, <1>2, <1>3, <1>4, <2>2, <3>1, <3>2 DEF ThreadOK, Making
  <2>3. QED  BY <2>1, <2>2
<1>6. thread'[w].job = thread[w].job
  BY <1>2, <1>3, <1>4 DEF ThreadRows, Resync!Idle
<1>7. \A j \in 1..Len(resyncs) : j = thread[w].job => JobOK(j)'
  BY <1>1, <1>4, <1>6 DEF ResyncIInv, JobOK, HasThread, Resync!Active
<1>8. QED  BY <1>1, <1>2, <1>3, <1>4, <1>5, <1>6, <1>7, QuietThread DEF ResyncTyped, Making

LEMMA StoreIndexStep ==
  ASSUME ResyncIInv, NEW w \in Workers, Resync!StoreIndex(w)
  PROVE  ResyncIInv' /\ Ended
<1>. DEFINE s == thread[w].on
            row == [snaps[s] EXCEPT !.runs = @ + 1]
            next == IF thread[w].job = 0 THEN Resync!Idle ELSE [thread[w] EXCEPT !.pc = "complete"]
<1>1. /\ thread[w].pc = "index" /\ UNCHANGED <<head, resyncs, up>>
      /\ snaps' = [snaps EXCEPT ![s] = row] /\ thread' = [thread EXCEPT ![w] = next]
  BY DEF Resync!StoreIndex, Resync!Go, Resync!Finished, Resync!End
<1>2. /\ ThreadOK(w) /\ thread[w] \in ThreadRows /\ ResyncTyped /\ Len(snaps) \in Nat /\ Len(resyncs) \in Nat
      /\ head \in Nat /\ s \in 1..Len(snaps) /\ snaps[s] \in SnapRows /\ SnapOK(s)
      /\ thread[w].job # 0 => JobKnown(w) /\ JobOK(thread[w].job) /\ thread[w].job \in 1..Len(resyncs)
  BY <1>1, ThreadFacts, ResyncLens DEF ThreadOK
<1>3. /\ row \in SnapRows /\ row.status = snaps[s].status /\ row.by = snaps[s].by /\ row.runs = snaps[s].runs + 1
      /\ row.commit = snaps[s].commit /\ row.runs > 0 /\ row.runs >= snaps[s].runs
  BY <1>2 DEF SnapRows
<1>4. /\ next \in ThreadRows /\ next.job = thread[w].job /\ next.pc \in {"idle", "complete"}
      /\ thread[w].job = 0 => next = Resync!Idle
      /\ thread[w].job # 0 => next = [thread[w] EXCEPT !.pc = "complete"]
  BY <1>2 DEF ThreadRows, Steps, Resync!Idle
<1>. HIDE DEF row, next
<1>5. /\ snaps' \in Seq(SnapRows) /\ Len(snaps') = Len(snaps)
      /\ \A r \in 1..Len(snaps) : snaps'[r] = IF r = s THEN row ELSE snaps[r]
  BY <1>1, <1>2, <1>3, SetsSnap
<1>6. thread' \in [Workers -> ThreadRows] /\ thread'[w] = next /\ \A v \in Workers \ {w} : thread'[v] = thread[v]
  BY <1>1, <1>2, <1>4 DEF ResyncTyped
<1>7. ResyncTyped'  BY <1>1, <1>2, <1>5, <1>6 DEF ResyncTyped
<1>8. \A r \in 1..Len(snaps) :
        /\ snaps'[r].by = snaps[r].by /\ snaps'[r].runs >= snaps[r].runs
        /\ snaps'[r].status = snaps[r].status /\ snaps'[r].commit = snaps[r].commit
  <2>1. \A r \in 1..Len(snaps) : snaps[r].runs \in Nat  BY ThreadFacts DEF SnapRows
  <2>2. QED  BY <1>3, <1>5, <2>1
<1>9. Leaves(w)
  BY <1>1, <1>2, <1>4, <1>5, <1>6, <1>8 DEF Leaves, Making
<1>10. ThreadOK(w)'
  <2>1. CASE thread[w].job = 0
    BY <1>1, <1>2, <1>4, <1>5, <1>6, <2>1 DEF ThreadOK, JobKnown, Resync!Idle, Making
  <2>2. CASE thread[w].job # 0
    <3>1. /\ thread'[w].pc = "complete" /\ thread'[w].job = thread[w].job /\ thread'[w].snap = thread[w].snap
          /\ thread'[w].on = thread[w].on /\ thread'[w].commit = thread[w].commit
      BY <1>2, <1>4, <1>6, <2>2 DEF ThreadRows
    <3>2. /\ s = thread[w].snap /\ snaps[s].by = thread[w].job /\ snaps[s].status = "ready"
      BY <1>1, <1>2, <2>2 DEF JobKnown, OnIndex
    <3>3. snaps'[s].by = thread[w].job /\ snaps'[s].status = "ready" /\ snaps'[s].runs > 0
      BY <1>2, <1>3, <1>5, <3>2
    <3>4. JobKnown(w)'
      BY <1>1, <1>2, <2>2, <3>1, <3>2, <3>3 DEF JobKnown, StatusAt, OnIndex
    <3>5. QED  BY <1>1, <1>2, <1>5, <2>2, <3>1, <3>4 DEF ThreadOK, Making
  <2>3. QED  BY <2>1, <2>2
<1>11. \A r \in 1..Len(snaps') : SnapOK(r)'
  BY <1>1, <1>5, <1>8 DEF ResyncIInv, SnapOK
<1>12. \A j \in 1..Len(resyncs) : j = thread[w].job => JobOK(j)'
  <2>1. ASSUME NEW j \in 1..Len(resyncs), j = thread[w].job PROVE JobOK(j)'
    <3>1. HasThread(j)'  BY <1>4, <1>6, <2>1 DEF HasThread
    <3>2. j # 0  OBVIOUS
    <3>3. /\ resyncs'[j] = resyncs[j] /\ resyncs[j].snap = thread[w].snap /\ resyncs[j].status = "indexing"
          /\ snaps[thread[w].snap].by = j /\ thread[w].snap = s
      BY <1>1, <1>2, <2>1, <3>2 DEF JobKnown, OnIndex, StatusAt
    <3>4. QED  BY <1>2, <1>5, <1>8, <3>1, <3>3 DEF JobOK
  <2>2. QED  BY <2>1
<1>13. QED  BY <1>7, <1>9, <1>10, <1>11, <1>12, OneThread

(* A thread that ends has ended its job.                                   *)
LEMMA EndsJob ==
  ASSUME ResyncIInv, NEW w \in Workers, NEW status, NEW snap \in Nat, UNCHANGED <<head, snaps, up>>,
         Resync!SetJob(w, status, snap), Resync!End(w),
         thread[w].job # 0 => /\ status \in {"completed", "snapshot_failed", "index_failed"}
                              /\ snap \in {0, resyncs[thread[w].job].snap}
                              /\ status = "completed" => thread[w].pc = "complete"
  PROVE  ResyncIInv' /\ Ended
<1>1. /\ ThreadOK(w) /\ thread[w] \in ThreadRows /\ ResyncTyped /\ head \in Nat
      /\ Len(snaps) \in Nat /\ Len(resyncs) \in Nat
      /\ thread[w].job # 0 => JobKnown(w) /\ JobOK(thread[w].job) /\ thread[w].job \in 1..Len(resyncs)
  BY ThreadFacts, ResyncLens
<1>2. /\ resyncs' \in Seq(JobRows) /\ Len(resyncs') = Len(resyncs)
      /\ \A j \in 1..Len(resyncs) : j # thread[w].job => resyncs'[j] = resyncs[j]
      /\ thread[w].job # 0 => /\ resyncs'[thread[w].job].status = status
                              /\ resyncs'[thread[w].job].snap = resyncs[thread[w].job].snap
  <2>1. thread[w].job # 0 => status \in Statuses  BY DEF Statuses
  <2>2. QED  BY <2>1, SetsJob
<1>3. /\ thread' \in [Workers -> ThreadRows] /\ thread'[w] = Resync!Idle
      /\ \A v \in Workers \ {w} : thread'[v] = thread[v]
  BY <1>1 DEF Resync!End, ResyncTyped, ThreadRows, Steps, Resync!Idle
<1>4. ThreadOK(w)'
  BY <1>1, <1>2, <1>3 DEF ThreadOK, JobKnown, Resync!Idle, Making
<1>5. \A j \in 1..Len(resyncs) : j = thread[w].job => JobOK(j)'
  <2>1. ASSUME NEW j \in 1..Len(resyncs), j = thread[w].job PROVE JobOK(j)'
    <3>1. j # 0  OBVIOUS
    <3>2. resyncs'[j].status = status /\ resyncs'[j].snap = resyncs[j].snap /\ JobOK(j) /\ JobKnown(w)
      BY <1>1, <1>2, <2>1, <3>1
    <3>3. HasThread(j)'  BY <2>1, <3>1, <3>2 DEF HasThread, Resync!Active
    <3>4. status = "completed" =>
            /\ resyncs[j].snap = thread[w].snap /\ thread[w].snap # 0 /\ snaps[thread[w].snap].status = "ready"
            /\ snaps[thread[w].snap].runs > 0
      BY <2>1, <3>1, <3>2 DEF JobKnown, OnIndex
    <3>5. QED  BY <3>2, <3>3, <3>4 DEF JobOK
  <2>2. QED  BY <2>1
<1>6. QED  BY <1>2, <1>3, <1>4, <1>5, QuietThread DEF Resync!Idle, Making

LEMMA EndingStep ==
  ASSUME ResyncIInv, NEW w \in Workers, Resync!Complete(w) \/ Resync!Unusable(w) \/ Resync!Raise(w)
  PROVE  ResyncIInv' /\ Ended
<1>1. /\ ThreadOK(w) /\ thread[w] \in ThreadRows
      /\ thread[w].job # 0 => JobKnown(w) /\ resyncs[thread[w].job] \in JobRows
  BY ThreadFacts
<1>2. CASE Resync!Complete(w)
  <2>1. thread[w].job # 0 => thread[w].snap = resyncs[thread[w].job].snap
    BY <1>1, <1>2 DEF Resync!Complete, JobKnown
  <2>2. thread[w].snap \in Nat  BY <1>1 DEF ThreadRows
  <2>3. QED  BY <1>2, <2>1, <2>2, EndsJob DEF Resync!Complete
<1>3. CASE Resync!Unusable(w) \/ Resync!Raise(w)
  <2>. DEFINE status == IF thread[w].job = 0 THEN "" ELSE Resync!FailedAs(w)
              snap == IF thread[w].pc \in OnIndex \ {"complete"} THEN thread[w].snap ELSE 0
  <2>1. Resync!SetJob(w, status, snap) /\ Resync!End(w) /\ UNCHANGED <<head, snaps, up>>
    BY <1>3 DEF Resync!Unusable, Resync!Raise, Resync!Fail, Resync!Indexing, OnIndex
  <2>2. snap \in Nat /\ (thread[w].job # 0 => snap \in {0, resyncs[thread[w].job].snap})
    BY <1>1 DEF ThreadRows, JobKnown, OnIndex
  <2>3. thread[w].job # 0 => status \in {"snapshot_failed", "index_failed"}
    BY DEF Resync!FailedAs
  <2>. HIDE DEF status, snap
  <2>4. QED  BY <2>1, <2>2, <2>3, EndsJob
<1>4. QED  BY <1>2, <1>3

-----------------------------------------------------------------------------
(* The steps of no thread: commits, requests, the end of the process and   *)
(* the repair after it.                                                    *)

LEMMA CommitStep ==
  ASSUME ResyncIInv, Resync!Commit
  PROVE  ResyncIInv' /\ Ended
<1>1. head' = head + 1 /\ head < MaxCommits /\ UNCHANGED <<resyncs, snaps, thread, up>> /\ head \in Nat
  BY ResyncLens DEF Resync!Commit, ResyncIInv
<1>2. ResyncTyped'  BY <1>1, CommitsAssumption DEF ResyncIInv, ResyncTyped
<1>3. \A s \in 1..Len(snaps') : SnapOK(s)'
  BY <1>1, ResyncLens DEF ResyncIInv, SnapOK, SnapRows
<1>4. \A w \in Workers : ThreadOK(w)'
  <2>1. ASSUME NEW w \in Workers PROVE ThreadOK(w)'
    BY <1>1, ThreadFacts DEF ThreadOK, ThreadRows, JobKnown
  <2>2. QED  BY <2>1
<1>5. \A j \in 1..Len(resyncs') : JobOK(j)'
  BY <1>1 DEF ResyncIInv, JobOK, HasThread, Resync!Active
<1>6. \A v, w \in Workers : v # w => Apart(v, w)'
  BY <1>1 DEF ResyncIInv, Apart
<1>7. QED  BY <1>1, <1>2, <1>3, <1>4, <1>5, <1>6 DEF ResyncIInv, Ended

LEMMA AppendsJob ==
  ASSUME ResyncTyped, NEW row \in JobRows, resyncs' = Append(resyncs, row)
  PROVE  /\ resyncs' \in Seq(JobRows) /\ Len(resyncs') = Len(resyncs) + 1 /\ resyncs'[Len(resyncs) + 1] = row
         /\ \A j \in 1..Len(resyncs) : resyncs'[j] = resyncs[j]
<1>1. resyncs \in Seq(JobRows)  BY DEF ResyncTyped
<1>2. QED  BY <1>1, AppendProperties

(* A thread that was idle takes up a new job or a request.                 *)
LEMMA ThreadStarts ==
  ASSUME ResyncIInv, up = "serving", UNCHANGED <<head, snaps, up>>,
         NEW pc \in {"new", "insert", "find"}, NEW job \in Nat, Resync!Run(pc, job),
         \/ pc # "new" /\ job = 0 /\ UNCHANGED resyncs
         \/ /\ pc = "new" /\ job = Len(resyncs) + 1
            /\ resyncs' = Append(resyncs, [status |-> "queued", snap |-> 0])
  PROVE  ResyncIInv' /\ Ended
<1>. DEFINE row == [status |-> "queued", snap |-> 0]
            t == [Resync!Idle EXCEPT !.pc = pc, !.job = job]
<1>1. PICK w \in Workers : thread[w].pc = "idle" /\ thread' = [thread EXCEPT ![w] = t]
  BY DEF Resync!Run
<1>2. /\ ThreadOK(w) /\ thread[w] = Resync!Idle /\ ResyncTyped /\ Len(resyncs) \in Nat /\ Len(snaps) \in Nat /\ head \in Nat
      /\ DOMAIN resyncs = 1..Len(resyncs) /\ DOMAIN snaps = 1..Len(snaps)
  BY <1>1, ThreadFacts, ResyncLens DEF ThreadOK
<1>3. t \in ThreadRows /\ t.pc = pc /\ t.job = job /\ t.snap = 0 /\ t.on = 0 /\ t.commit = 0
  BY DEF ThreadRows, Steps, Resync!Idle
<1>. HIDE DEF t
<1>4. thread' \in [Workers -> ThreadRows] /\ thread'[w] = t /\ \A v \in Workers \ {w} : thread'[v] = thread[v]
  BY <1>1, <1>2, <1>3 DEF ResyncTyped
<1>5. /\ resyncs' \in Seq(JobRows) /\ Len(resyncs') >= Len(resyncs) /\ Len(resyncs') \in Nat
      /\ \A j \in 1..Len(resyncs) : resyncs'[j] = resyncs[j]
      /\ \A j \in 1..Len(resyncs') : j \notin 1..Len(resyncs) => j = job /\ resyncs'[j] = row
      /\ job <= Len(resyncs') /\ (job # 0 => resyncs'[job] = row /\ pc = "new" /\ job > Len(resyncs))
  <2>1. CASE job = 0  BY <1>2, <2>1 DEF ResyncTyped
  <2>2. CASE job # 0
    <3>1. row \in JobRows  BY DEF JobRows, Statuses
    <3>2. resyncs' = Append(resyncs, row)  BY <2>2
    <3>. HIDE DEF row
    <3>3. /\ resyncs' \in Seq(JobRows) /\ Len(resyncs') = Len(resyncs) + 1 /\ resyncs'[Len(resyncs) + 1] = row
          /\ \A j \in 1..Len(resyncs) : resyncs'[j] = resyncs[j]
      BY <1>2, <3>1, <3>2, AppendsJob
    <3>4. QED  BY <1>2, <2>2, <3>3
  <2>3. QED  BY <2>1, <2>2
<1>6. ResyncTyped'  BY <1>2, <1>4, <1>5 DEF ResyncTyped
<1>7. ASSUME NEW v \in Workers PROVE ThreadOK(v)'
  <2>1. CASE v = w
    <3>1. job # 0 => resyncs'[job].status = "queued" /\ resyncs'[job].snap = 0  BY <1>5
    <3>2. JobKnown(v)'  BY <1>3, <1>4, <1>5, <2>1, <3>1 DEF JobKnown, StatusAt, OnIndex
    <3>3. QED  BY <1>2, <1>3, <1>4, <1>5, <2>1, <3>2 DEF ThreadOK, Making
  <2>2. CASE v # w
    <3>1. ThreadOK(v) /\ thread[v] \in ThreadRows /\ thread'[v] = thread[v]
          /\ (thread[v].job # 0 => thread[v].job \in 1..Len(resyncs))
      BY <1>4, <2>2, ThreadFacts
    <3>2. thread[v].job # 0 => resyncs'[thread[v].job] = resyncs[thread[v].job]
      BY <1>5, <3>1
    <3>3. JobKnown(v)'  BY <3>1, <3>2 DEF ThreadOK, JobKnown
    <3>4. QED  BY <1>2, <1>5, <3>1, <3>3 DEF ThreadOK, ThreadRows
  <2>3. QED  BY <2>1, <2>2
<1>8. ASSUME NEW j \in 1..Len(resyncs') PROVE JobOK(j)'
  <2>1. CASE j \in 1..Len(resyncs)
    <3>1. JobOK(j) /\ resyncs'[j] = resyncs[j]  BY <1>5, <2>1 DEF ResyncIInv
    <3>2. HasThread(j)'
      <4>1. SUFFICES ASSUME Resync!Active(j)' PROVE \E u \in Workers : thread'[u].job = j  BY DEF HasThread
      <4>2. PICK u \in Workers : thread[u].job = j
        BY <3>1, <4>1 DEF JobOK, HasThread, Resync!Active
      <4>3. u # w  BY <1>2, <2>1, <4>2 DEF Resync!Idle
      <4>4. QED  BY <1>4, <4>2, <4>3
    <3>3. QED  BY <3>1, <3>2 DEF JobOK
  <2>2. CASE j \notin 1..Len(resyncs)
    <3>1. j = job /\ resyncs'[j] = row  BY <1>5, <2>2
    <3>2. HasThread(j)'  BY <1>3, <1>4, <3>1 DEF HasThread
    <3>3. QED  BY <1>2, <3>1, <3>2 DEF JobOK
  <2>3. QED  BY <2>1, <2>2
<1>9. \A s \in 1..Len(snaps') : SnapOK(s)'
  BY <1>2, <1>5, ThreadFacts DEF SnapOK, SnapRows
<1>10. ASSUME NEW u \in Workers, NEW v \in Workers, u # v PROVE Apart(u, v)'
  <2>1. Apart(u, v) /\ Apart(v, u)  BY <1>10 DEF ResyncIInv
  <2>2. \A x \in Workers : thread[x].job <= Len(resyncs) /\ thread[x].job \in Nat
    BY ThreadFacts DEF ThreadOK, ThreadRows
  <2>3. t.job # 0 => \A x \in Workers : thread[x].job # t.job
    BY <1>2, <1>3, <1>5, <2>2
  <2>4. t.pc \notin Making  BY <1>3 DEF Making
  <2>5. QED  BY <1>4, <1>10, <2>1, <2>3, <2>4 DEF Apart
<1>11. Ended  BY <1>2, <1>5 DEF Ended
<1>12. QED  BY <1>6, <1>7, <1>8, <1>9, <1>10, <1>11 DEF ResyncIInv

(* A job whose thread does not start ends at once.                         *)
LEMMA NeverStarts ==
  ASSUME ResyncIInv, UNCHANGED <<head, snaps, up, thread>>,
         resyncs' = Append(resyncs, [status |-> "snapshot_failed", snap |-> 0])
  PROVE  ResyncIInv' /\ Ended
<1>. DEFINE row == [status |-> "snapshot_failed", snap |-> 0]
<1>1. /\ ResyncTyped /\ Len(resyncs) \in Nat /\ Len(snaps) \in Nat
      /\ DOMAIN resyncs = 1..Len(resyncs) /\ DOMAIN snaps = 1..Len(snaps) /\ row \in JobRows
  BY ResyncLens DEF ResyncIInv, JobRows, Statuses
<1>2. row.status = "snapshot_failed" /\ row.snap = 0  OBVIOUS
<1>. HIDE DEF row
<1>3. /\ resyncs' \in Seq(JobRows) /\ Len(resyncs') = Len(resyncs) + 1 /\ resyncs'[Len(resyncs) + 1] = row
      /\ \A j \in 1..Len(resyncs) : resyncs'[j] = resyncs[j]
  BY <1>1, AppendsJob DEF row
<1>4. ResyncTyped'  BY <1>1, <1>3 DEF ResyncTyped
<1>5. ASSUME NEW v \in Workers PROVE ThreadOK(v)'
  <2>1. ThreadOK(v) /\ thread[v] \in ThreadRows /\ (thread[v].job # 0 => thread[v].job \in 1..Len(resyncs))
    BY ThreadFacts
  <2>2. JobKnown(v)'  BY <1>3, <2>1 DEF ThreadOK, JobKnown
  <2>3. QED  BY <1>1, <1>3, <2>1, <2>2 DEF ThreadOK, ThreadRows
<1>6. ASSUME NEW j \in 1..Len(resyncs') PROVE JobOK(j)'
  <2>1. CASE j \in 1..Len(resyncs)
    BY <1>3, <2>1 DEF ResyncIInv, JobOK, HasThread, Resync!Active
  <2>2. CASE j \notin 1..Len(resyncs)
    <3>1. resyncs'[j] = row  BY <1>1, <1>3, <2>2
    <3>2. QED  BY <1>1, <1>2, <3>1 DEF JobOK, HasThread, Resync!Active
  <2>3. QED  BY <2>1, <2>2
<1>7. \A s \in 1..Len(snaps') : SnapOK(s)'
  <2>1. \A s \in 1..Len(snaps) : SnapOK(s) /\ snaps[s].by \in Nat
    BY <1>1, ResyncLens DEF SnapRows, ResyncIInv
  <2>2. QED  BY <1>1, <1>3, <2>1 DEF SnapOK
<1>8. \A u, v \in Workers : u # v => Apart(u, v)'
  BY DEF ResyncIInv, Apart
<1>9. Ended  BY <1>1, <1>3 DEF Ended
<1>10. QED  BY <1>4, <1>5, <1>6, <1>7, <1>8, <1>9 DEF ResyncIInv

LEMMA RequestStep ==
  ASSUME ResyncIInv, Resync!Start \/ Resync!RequestStage
  PROVE  ResyncIInv' /\ Ended
<1>1. CASE Resync!Start
  <2>1. up = "serving" /\ UNCHANGED <<head, snaps, up>>  BY <1>1 DEF Resync!Start
  <2>2. CASE /\ resyncs' = Append(resyncs, [status |-> "queued", snap |-> 0])
             /\ Resync!Run("new", Len(resyncs) + 1)
    <3>1. Len(resyncs) + 1 \in Nat  BY ResyncLens DEF ResyncIInv
    <3>2. QED  BY <2>1, <2>2, <3>1, ThreadStarts
  <2>3. CASE resyncs' = Append(resyncs, [status |-> "snapshot_failed", snap |-> 0]) /\ UNCHANGED thread
    BY <2>1, <2>3, NeverStarts
  <2>4. QED  BY <1>1, <2>2, <2>3 DEF Resync!Start
<1>2. CASE Resync!RequestStage
  <2>1. PICK pc \in {"insert", "find"} : Resync!Run(pc, 0)  BY <1>2 DEF Resync!RequestStage
  <2>2. up = "serving" /\ UNCHANGED <<head, snaps, up, resyncs>>  BY <1>2 DEF Resync!RequestStage
  <2>3. QED  BY <2>1, <2>2, ThreadStarts
<1>3. QED  BY <1>1, <1>2

LEMMA CrashStep ==
  ASSUME ResyncIInv, Resync!Crash
  PROVE  ResyncIInv' /\ Ended
<1>1. up' = "repairing" /\ UNCHANGED <<head, resyncs, snaps>> /\ thread' = [w \in Workers |-> Resync!Idle]
  BY DEF Resync!Crash
<1>2. thread' \in [Workers -> ThreadRows] /\ \A w \in Workers : thread'[w] = Resync!Idle
  BY <1>1 DEF ThreadRows, Steps, Resync!Idle
<1>3. ResyncTyped'  BY <1>1, <1>2 DEF ResyncIInv, ResyncTyped
<1>4. \A w \in Workers : ThreadOK(w)'
  <2>1. head \in Nat /\ Len(resyncs) \in Nat /\ Len(snaps) \in Nat  BY ResyncLens DEF ResyncIInv
  <2>2. QED  BY <1>1, <1>2, <2>1 DEF ThreadOK, JobKnown, Resync!Idle, Making
<1>5. \A v, w \in Workers : v # w => Apart(v, w)'
  BY <1>2 DEF Apart, Resync!Idle, Making
<1>6. \A j \in 1..Len(resyncs') : JobOK(j)'
  BY <1>1 DEF ResyncIInv, JobOK, HasThread
<1>7. (\A s \in 1..Len(snaps') : SnapOK(s)') /\ Ended
  BY <1>1 DEF ResyncIInv, SnapOK, Ended
<1>8. QED  BY <1>3, <1>4, <1>5, <1>6, <1>7 DEF ResyncIInv

LEMMA RecoverStep ==
  ASSUME ResyncIInv, Resync!Recover
  PROVE  ResyncIInv' /\ Ended
<1>. DEFINE row(j) == IF Resync!Interrupted(j) THEN [resyncs[j] EXCEPT !.status = Resync!Recovered(resyncs[j])]
                      ELSE resyncs[j]
<1>1. /\ up = "repairing" /\ up' = "serving" /\ UNCHANGED <<head, snaps, thread>>
      /\ resyncs' = [j \in 1..Len(resyncs) |-> row(j)]
      /\ Len(resyncs) \in Nat /\ resyncs \in [1..Len(resyncs) -> JobRows] /\ ResyncTyped
      /\ DOMAIN resyncs = 1..Len(resyncs) /\ DOMAIN snaps = 1..Len(snaps)
  BY ResyncLens DEF Resync!Recover, ResyncIInv
<1>2. \A j \in 1..Len(resyncs) :
        /\ row(j) \in JobRows /\ row(j).snap = resyncs[j].snap
        /\ row(j).status = "completed" <=> resyncs[j].status = "completed"
        /\ row(j).status \notin {"queued", "snapshotting", "indexing"}
        /\ ~Resync!Active(j) => row(j) = resyncs[j]
  BY <1>1 DEF JobRows, Statuses, Resync!Interrupted, Resync!Active, Resync!Recovered
<1>. HIDE DEF row
<1>3. /\ resyncs' \in Seq(JobRows) /\ Len(resyncs') = Len(resyncs)
      /\ \A j \in 1..Len(resyncs) : resyncs'[j] = row(j)
  <2>1. resyncs' \in [1..Len(resyncs) -> JobRows]  BY <1>1, <1>2
  <2>2. resyncs' \in Seq(JobRows)  BY <1>1, <2>1, SeqDef
  <2>3. DOMAIN resyncs' = 1..Len(resyncs) /\ DOMAIN resyncs' = 1..Len(resyncs') /\ Len(resyncs') \in Nat
    BY <2>1, <2>2, LenProperties
  <2>4. QED  BY <1>1, <2>2, <2>3
<1>4. ResyncTyped'  BY <1>1, <1>3 DEF ResyncTyped
<1>5. ASSUME NEW w \in Workers PROVE thread[w] = Resync!Idle /\ ThreadOK(w)'
  <2>1. thread[w] = Resync!Idle /\ ThreadOK(w)  BY <1>1 DEF ResyncIInv, ThreadOK
  <2>2. QED  BY <1>1, <1>3, <2>1 DEF ThreadOK, JobKnown, Resync!Idle
<1>6. ASSUME NEW j \in 1..Len(resyncs') PROVE JobOK(j)'
  <2>1. JobOK(j) /\ resyncs'[j] = row(j)  BY <1>3 DEF ResyncIInv
  <2>2. HasThread(j)'  BY <1>2, <1>3, <2>1 DEF HasThread, Resync!Active
  <2>3. QED  BY <1>1, <1>2, <1>3, <2>1, <2>2 DEF JobOK
<1>7. \A s \in 1..Len(snaps') : SnapOK(s)'
  BY <1>1, <1>3 DEF ResyncIInv, SnapOK
<1>8. \A v, w \in Workers : v # w => Apart(v, w)'
  BY <1>1 DEF ResyncIInv, Apart
<1>9. Ended  BY <1>1, <1>2, <1>3 DEF Ended
<1>10. QED  BY <1>4, <1>5, <1>6, <1>7, <1>8, <1>9 DEF ResyncIInv

LEMMA ResyncInit == Resync!Init => ResyncIInv
<1> SUFFICES ASSUME Resync!Init PROVE ResyncIInv  OBVIOUS
<1>1. /\ resyncs = <<>> /\ snaps = <<>> /\ head = 1 /\ up = "serving" /\ \A w \in Workers : thread[w] = Resync!Idle
      /\ thread \in [Workers -> ThreadRows]
  BY DEF Resync!Init, Resync!Idle, ThreadRows, Steps
<1>2. /\ resyncs \in Seq(JobRows) /\ snaps \in Seq(SnapRows) /\ Len(resyncs) = 0 /\ Len(snaps) = 0
  BY <1>1, EmptySeq
<1>3. ResyncTyped  BY <1>1, <1>2, CommitsAssumption DEF ResyncTyped
<1>4. \A w \in Workers : ThreadOK(w)
  BY <1>1, <1>2 DEF ThreadOK, JobKnown, Resync!Idle, Making
<1>5. QED  BY <1>1, <1>2, <1>3, <1>4 DEF ResyncIInv, Apart, Resync!Idle, Making

LEMMA ResyncStep == ResyncIInv /\ [Resync!Next]_(Resync!vars) => ResyncIInv' /\ Ended
<1>1. ASSUME ResyncIInv, UNCHANGED Resync!vars PROVE ResyncIInv' /\ Ended
  <2>1. UNCHANGED <<head, resyncs, snaps, thread, up>>  BY <1>1 DEF Resync!vars
  <2>2. ResyncTyped'  BY <1>1, <2>1 DEF ResyncIInv, ResyncTyped
  <2>3. \A w \in Workers : ThreadOK(w)'  BY <1>1, <2>1 DEF ResyncIInv, ThreadOK, JobKnown
  <2>4. \A j \in 1..Len(resyncs') : JobOK(j)'  BY <1>1, <2>1 DEF ResyncIInv, JobOK, HasThread, Resync!Active
  <2>5. \A s \in 1..Len(snaps') : SnapOK(s)'  BY <1>1, <2>1 DEF ResyncIInv, SnapOK
  <2>6. \A v, w \in Workers : v # w => Apart(v, w)'  BY <1>1, <2>1 DEF ResyncIInv, Apart
  <2>7. QED  BY <2>1, <2>2, <2>3, <2>4, <2>5, <2>6 DEF ResyncIInv, Ended
<1>2. ASSUME ResyncIInv, NEW w \in Workers, Resync!Work(w) PROVE ResyncIInv' /\ Ended
  BY <1>2, BeginStep, InsertSnapshotStep, ReadHeadStep, CreatedStep, PinStep, JudgeStep, FindStep, ExistsStep,
    StoreIndexStep, EndingStep
  DEF Resync!Work
<1>3. QED
  BY <1>1, <1>2, CommitStep, RequestStep, CrashStep, RecoverStep DEF Resync!Next

LEMMA ResyncImplied == ResyncIInv => ResyncInv
<1> SUFFICES ASSUME ResyncIInv PROVE ResyncInv  OBVIOUS
<1>1. /\ Len(resyncs) \in Nat /\ DOMAIN resyncs = 1..Len(resyncs) /\ Len(snaps) \in Nat /\ DOMAIN snaps = 1..Len(snaps)
      /\ \A j \in 1..Len(resyncs) : JobOK(j) /\ resyncs[j] \in JobRows
      /\ \A s \in 1..Len(snaps) : SnapOK(s) /\ snaps[s] \in SnapRows
      /\ head \in Nat
  BY ResyncLens DEF ResyncIInv
<1>2. Resync!TypeOK
  <2>1. \A j \in DOMAIN resyncs :
          /\ resyncs[j].status \in {"queued", "snapshotting", "indexing", "completed", "snapshot_failed", "index_failed"}
          /\ resyncs[j].snap \in 0..Len(snaps)
    BY <1>1 DEF JobOK, JobRows, Statuses
  <2>2. \A s \in DOMAIN snaps :
          snaps[s] \in [status : {"indexing", "ready", "failed"}, commit : 0..head, runs : Nat, by : 0..Len(resyncs)]
    BY <1>1 DEF SnapOK, SnapRows
  <2>3. QED  BY <2>1, <2>2 DEF Resync!TypeOK, ResyncIInv, ResyncTyped
<1>3. Resync!CompletedIsIndexed
  <2>1. SUFFICES ASSUME NEW j \in DOMAIN resyncs, resyncs[j].status = "completed"
                 PROVE  /\ resyncs[j].snap # 0 /\ snaps[resyncs[j].snap].status = "ready" /\ snaps[resyncs[j].snap].runs > 0
                        /\ \A k \in DOMAIN resyncs : resyncs[k].snap = resyncs[j].snap => k = j
    BY DEF Resync!CompletedIsIndexed
  <2>2. JobOK(j) /\ \A k \in DOMAIN resyncs : JobOK(k)  BY <1>1
  <2>3. QED  BY <2>1, <2>2 DEF JobOK
<1>4. Resync!ActiveHasThread
  BY <1>1 DEF Resync!ActiveHasThread, JobOK, HasThread
<1>5. QED  BY <1>2, <1>3, <1>4 DEF ResyncInv, Resync!ResyncInv

(* For any number of jobs, requests, commits, failures and restarts: a     *)
(* completed resync is pinned to a ready snapshot of its own with symbols, *)
(* and an active one has its thread.                                       *)
THEOREM ResyncsHold == Resync!Spec => []ResyncInv
<1>1. QED  BY ResyncInit, ResyncStep, ResyncImplied, PTL DEF Resync!Spec

(* No late thread changes a resync or a snapshot that has ended.           *)
THEOREM ResyncsEndOnce == Resync!Spec => Resync!EndedStays
<1>1. ResyncIInv /\ [Resync!Next]_(Resync!vars) => [Ended]_(Resync!vars)
  BY ResyncStep
<1>2. QED
  BY <1>1, ResyncInit, ResyncStep, PTL DEF Resync!Spec, Resync!EndedStays, Ended

-----------------------------------------------------------------------------
(* The two together, as they are model-checked.                            *)
LEMMA PartsRun == MCSpec => Spec /\ Resync!Spec
<1>1. MCInit => Init /\ Resync!Init  BY DEF MCInit
<1>2. [Discusses \/ ResyncsOrRests \/ Executes]_all => [Next]_vars /\ [Resync!Next]_(Resync!vars)
  BY DEF Discusses, ResyncsOrRests, Executes, all, vars, resyncing, Resync!vars
<1>3. QED  BY <1>1, <1>2, PTL DEF MCSpec, Spec, Resync!Spec

(* What has ended stays as it is, whoever comes late: extractions that     *)
(* succeeded, resyncs and snapshots.                                       *)
THEOREM WhatEndsStays == MCSpec => EndedStays
<1>1. QED  BY PartsRun, ExtractionsEndOnce, ResyncsEndOnce, PTL DEF EndedStays
=============================================================================

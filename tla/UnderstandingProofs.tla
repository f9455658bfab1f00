-------------------------- MODULE UnderstandingProofs --------------------------
(***************************************************************************)
(* Proofs about the refresh of an interview session and about the build    *)
(* jobs, for every number of answers, threads, confirmations, builds,      *)
(* retries, cancellations, failures and crashes, and any pipeline.         *)
(*                                                                         *)
(* Refresh: the invariant says who may be where.  A thread at work holds   *)
(* the lock and its job is the one that is updating; the pending job is    *)
(* the newest.  What it says of an answer follows the job its request      *)
(* named, through merges, the read and the end of the job.  What a rebuild *)
(* has read is all that was saved when it began, so the time it will be    *)
(* said to have happened at never promises an answer that it does not      *)
(* hold.                                                                   *)
(*                                                                         *)
(* Builds: the invariant is built in four layers, each resting on those    *)
(* before it.  Threads: a job has one thread at a time.  Steps: a thread   *)
(* at a step found it open and what it needs completed, and no other       *)
(* thread marks it.  The scan: each chunk is scanned, failed, at hand or   *)
(* still to come.  The graph: a build that stores it made the scan itself  *)
(* or found both fresh.                                                    *)
(***************************************************************************)
EXTENDS MCUnderstanding, SequenceTheorems, FiniteSetTheorems, TLAPS

(* The refresh: a thread at work holds the lock and its job is the one     *)
(* that is updating; what a rebuild has read is all that was saved when it *)
(* began.                                                                  *)
Working == {"begin", "read", "think", "fail", "align", "finish"}
Triggers == {"intent_update", "qa_answer", "alignment_answer"}
AnswerRows ==
  [pc : {"none", "request", "requested", "forgotten"}, kind : Triggers, at : Nat, job : Nat]
JobRows ==
  [kind : Kinds, status : {"pending", "updating", "updated", "failed", "stale"},
   note : {"", "premise", "no_new_answers", "error", "alignment"}, seen : SUBSET Answers]
RunRows ==
  [pc : {"idle", "lock", "start", "drain"} \cup Working, job : Nat, began : Nat, read : SUBSET Answers,
   stage : {"purpose", "proposal"}]
SessionRows ==
  [built : SUBSET Answers, revision : Nat, stage : {"purpose", "proposal"}, confirmedAt : Nat,
   confirmedRevision : Nat, rebuiltAt : Nat, revised : BOOLEAN]

RefreshTyped ==
  /\ answer \in [Answers -> AnswerRows] /\ jobs \in Seq(JobRows)
  /\ doing \in [Refresh!Runners -> RunRows] /\ lock \in Threads \cup {None}
  /\ session \in SessionRows /\ clock \in Nat
  /\ happened \in [manual : Nat, confirms : Nat, retries : Nat, crashes : Nat]

Later(k) == IF Refresh!Rebuilds(k) THEN {"begin", "read"} ELSE {"begin", "read", "think", "align"}

AnswerOK(a) ==
  /\ answer[a].pc # "none" => answer[a].kind \in Kinds /\ answer[a].at < clock /\ answer[a].at # session.confirmedAt
  /\ answer[a].at >= 2 \/ answer[a].pc = "none"
  /\ answer[a].pc = "none" => answer[a].kind = "qa_answer"
  /\ answer[a].job <= Len(jobs)
  /\ answer[a].pc = "requested" => answer[a].job >= 1

AnswerKept(a) ==
  answer[a].pc = "requested" =>
    LET k == answer[a].kind  row == jobs[answer[a].job] IN
    /\ row.status = "pending" => Refresh!Priority(row.kind) >= Refresh!Priority(k)
    /\ row.status = "updating" =>
         doing[lock].pc \in Later(k) \cup {"fail"} \/ a \in doing[lock].read
    /\ row.status = "updated" /\ row.note \in {"", "alignment"} => a \in row.seen

JobOK(j) ==
  /\ jobs[j].seen \subseteq Refresh!Saved
  /\ jobs[j].status = "pending" => j = Len(jobs)
  /\ jobs[j].status = "updating" => lock \in Threads /\ doing[lock].job = j /\ doing[lock].pc \in Working
  /\ jobs[j].status = "failed" => jobs[j].note # ""

RunnerOK(p) ==
  /\ doing[p].began < clock /\ doing[p].read \subseteq Refresh!Saved
  /\ doing[p].pc = "think" =>
       /\ doing[p].read \subseteq Refresh!Evidence
       /\ \A a \in Refresh!Evidence : answer[a].at <= doing[p].began => a \in doing[p].read

ThreadOK(t) ==
  /\ doing[t].pc \notin {"idle", "lock"} => lock = t
  /\ doing[t].pc # "idle" => doing[t].job \in 1..Len(jobs)
  /\ doing[t].pc \in {"idle", "lock", "start"} => doing[t].read = {}
  /\ doing[t].pc \in Working => jobs[doing[t].job].status = "updating"

SessionOK ==
  /\ session.built \subseteq Refresh!Evidence /\ session.rebuiltAt < clock /\ session.confirmedAt < clock /\ clock >= 2
  /\ \A a \in Refresh!Evidence : answer[a].at <= session.rebuiltAt => a \in session.built

AloneOK ==
  /\ doing[Manual].pc \in {"idle", "begin", "read", "think", "fail"}
  /\ happened.manual = 0 =>
       /\ doing[Manual].pc = "idle"
       /\ \A t \in Threads : doing[t].pc = "think" => session.built \subseteq doing[t].read

RefreshIInv ==
  /\ RefreshTyped /\ SessionOK /\ AloneOK
  /\ \A a \in Answers : AnswerOK(a) /\ AnswerKept(a)
  /\ \A j \in DOMAIN jobs : JobOK(j)
  /\ \A p \in Refresh!Runners : RunnerOK(p)
  /\ \A t \in Threads : ThreadOK(t)
-----------------------------------------------------------------------------
(* What the invariant says, part by part.                                  *)

LEMMA RefreshFacts ==
  ASSUME RefreshIInv
  PROVE  /\ RefreshTyped /\ SessionOK /\ AloneOK
         /\ answer \in [Answers -> AnswerRows] /\ jobs \in Seq(JobRows) /\ doing \in [Refresh!Runners -> RunRows]
         /\ Len(jobs) \in Nat /\ DOMAIN jobs = 1..Len(jobs) /\ lock \in Threads \cup {None}
         /\ session \in SessionRows /\ clock \in Nat
         /\ happened \in [manual : Nat, confirms : Nat, retries : Nat, crashes : Nat]
         /\ \A a \in Answers : AnswerOK(a) /\ AnswerKept(a) /\ answer[a] \in AnswerRows
         /\ \A a \in Answers : answer[a].pc = "requested" => answer[a].job \in DOMAIN jobs
         /\ \A j \in DOMAIN jobs : JobOK(j) /\ jobs[j] \in JobRows
         /\ \A p \in Refresh!Runners : RunnerOK(p) /\ doing[p] \in RunRows
         /\ \A t \in Threads : ThreadOK(t) /\ t \in Refresh!Runners /\ t # Manual
         /\ Manual \in Refresh!Runners /\ Manual \notin Threads /\ None \notin Threads
<1>1. /\ RefreshTyped /\ SessionOK /\ AloneOK
      /\ \A a \in Answers : AnswerOK(a) /\ AnswerKept(a)
      /\ \A j \in DOMAIN jobs : JobOK(j)
      /\ \A p \in Refresh!Runners : RunnerOK(p)
      /\ \A t \in Threads : ThreadOK(t)
  BY DEF RefreshIInv
<1>2. /\ answer \in [Answers -> AnswerRows] /\ jobs \in Seq(JobRows) /\ doing \in [Refresh!Runners -> RunRows]
      /\ lock \in Threads \cup {None} /\ session \in SessionRows /\ clock \in Nat
      /\ happened \in [manual : Nat, confirms : Nat, retries : Nat, crashes : Nat]
  BY <1>1 DEF RefreshTyped
<1>3. Len(jobs) \in Nat /\ DOMAIN jobs = 1..Len(jobs) /\ \A j \in DOMAIN jobs : jobs[j] \in JobRows
  BY <1>2, ElementOfSeq, LenProperties
<1>4. \A t \in Threads : t \in Refresh!Runners /\ t # Manual  BY NobodyAssumption DEF Refresh!Runners
<1>5. Manual \in Refresh!Runners /\ Manual \notin Threads /\ None \notin Threads
  BY NobodyAssumption DEF Refresh!Runners
<1>6. \A a \in Answers : answer[a] \in AnswerRows  BY <1>2
<1>7. \A a \in Answers : answer[a].pc = "requested" => answer[a].job \in DOMAIN jobs
  <2>1. ASSUME NEW a \in Answers, answer[a].pc = "requested"  PROVE answer[a].job \in DOMAIN jobs
    <3>1. answer[a].job \in Nat  BY <1>6 DEF AnswerRows
    <3>2. answer[a].job <= Len(jobs) /\ answer[a].job >= 1  BY <1>1, <2>1 DEF AnswerOK
    <3>3. QED  BY <1>3, <3>1, <3>2
  <2>2. QED  BY <2>1
<1>8. QED  BY <1>1, <1>2, <1>3, <1>4, <1>5, <1>6, <1>7

(* The one that works on a job holds the lock.                             *)
LEMMA OneWorks ==
  ASSUME RefreshIInv, NEW t \in Threads, lock = t
  PROVE  /\ \A j \in DOMAIN jobs : jobs[j].status = "updating" => j = doing[t].job /\ doing[t].pc \in Working
         /\ \A u \in Threads : u # t => doing[u].pc \in {"idle", "lock"} /\ doing[u].read = {}
BY RefreshFacts DEF JobOK, ThreadOK

(* A step that leaves answers, jobs and the lock alone: one runner moves.  *)
LEMMA RunnerMoves ==
  ASSUME RefreshIInv, NEW p \in Refresh!Runners, NEW r \in RunRows, doing' = [doing EXCEPT ![p] = r],
         UNCHANGED <<answer, jobs, lock>>, clock' \in Nat, clock' >= clock,
         session' \in SessionRows, session'.confirmedAt = session.confirmedAt, SessionOK', AloneOK',
         happened' \in [manual : Nat, confirms : Nat, retries : Nat, crashes : Nat],
         r.began < clock', r.read \subseteq Refresh!Saved,
         r.pc = "think" => /\ r.read \subseteq Refresh!Evidence
                           /\ \A a \in Refresh!Evidence : answer[a].at <= r.began => a \in r.read,
         p \in Threads =>
           /\ doing[p].pc \in Working /\ r.pc \in Working /\ r.job = doing[p].job
           /\ \A a \in Answers : 
                answer[a].pc = "requested" /\ (doing[p].pc \in Later(answer[a].kind) \cup {"fail"} \/ a \in doing[p].read)
                => (r.pc \in Later(answer[a].kind) \cup {"fail"} \/ a \in r.read)
  PROVE  RefreshIInv'
<1>1. /\ doing' \in [Refresh!Runners -> RunRows] /\ doing'[p] = r
      /\ \A q \in Refresh!Runners : q # p => doing'[q] = doing[q]
  BY RefreshFacts
<1>2. RefreshTyped'  BY <1>1, RefreshFacts DEF RefreshTyped, Refresh!Runners
<1>3. \A a \in Answers : AnswerOK(a)'  BY RefreshFacts DEF AnswerOK, AnswerRows
<1>4. ASSUME NEW t \in Threads, lock = t
      PROVE  /\ doing'[t].job = doing[t].job /\ (doing[t].pc \in Working => doing'[t].pc \in Working)
             /\ t # p => doing'[t] = doing[t]
             /\ t = p => doing'[t] = r
  BY <1>1, <1>4, RefreshFacts
<1>5. \A a \in Answers : AnswerKept(a)'
  <2>1. ASSUME NEW a \in Answers, answer[a].pc = "requested"  PROVE AnswerKept(a)'
    <3>1. answer[a].job \in DOMAIN jobs /\ AnswerKept(a)  BY <2>1, RefreshFacts
    <3>2. jobs[answer[a].job].status = "updating" => lock \in Threads  BY <3>1, RefreshFacts DEF JobOK
    <3>3. jobs[answer[a].job].status = "updating" => doing'[lock].pc \in Later(answer[a].kind) \cup {"fail"} \/ a \in doing'[lock].read
      BY <1>4, <2>1, <3>1, <3>2 DEF AnswerKept
    <3>4. QED  BY <2>1, <3>1, <3>3 DEF AnswerKept, Later
  <2>2. QED  BY <2>1 DEF AnswerKept
<1>6. \A j \in DOMAIN jobs' : JobOK(j)'
  BY <1>4, RefreshFacts DEF JobOK, Refresh!Saved
<1>7. \A q \in Refresh!Runners : RunnerOK(q)'
  <2>1. ASSUME NEW q \in Refresh!Runners, q # p  PROVE RunnerOK(q)'
    <3>1. RunnerOK(q) /\ doing'[q] = doing[q] /\ doing[q].began \in Nat /\ clock \in Nat
      BY <1>1, <2>1, RefreshFacts DEF RunRows
    <3>2. QED  BY <3>1 DEF RunnerOK, Refresh!Saved, Refresh!Evidence
  <2>2. RunnerOK(p)'  BY <1>1 DEF RunnerOK, Refresh!Saved, Refresh!Evidence
  <2>3. QED  BY <2>1, <2>2
<1>8. \A t \in Threads : ThreadOK(t)'
  <2>1. ASSUME NEW t \in Threads, t # p  PROVE ThreadOK(t)'
    BY <1>1, <2>1, RefreshFacts DEF ThreadOK, Working
  <2>2. ASSUME p \in Threads  PROVE ThreadOK(p)'
    BY <1>1, <2>2, RefreshFacts DEF ThreadOK, Working
  <2>3. QED  BY <2>1, <2>2
<1>9. QED  BY <1>2, <1>3, <1>5, <1>6, <1>7, <1>8, RefreshFacts DEF RefreshIInv, Refresh!Runners

(* The thread that holds the lock changes the row of its job.              *)
LEMMA JobMoves ==
  ASSUME RefreshIInv, NEW t \in Threads, lock = t, doing[t].job \in DOMAIN jobs,
         NEW row \in JobRows, jobs' = [jobs EXCEPT ![doing[t].job] = row],
         NEW r \in RunRows, doing' = [doing EXCEPT ![t] = r], r.job = doing[t].job, r.began = doing[t].began,
         r.pc \in Working \cup {"drain"}, r.pc # "think", r.read \subseteq Refresh!Saved,
         row.status = "updating" <=> r.pc \in Working,
         row.status # "pending", row.seen \subseteq Refresh!Saved, row.status = "failed" => row.note # "",
         \A a \in Answers : answer[a].pc = "requested" /\ answer[a].job = doing[t].job =>
           /\ row.status = "updating" => r.pc \in Later(answer[a].kind) \cup {"fail"} \/ a \in r.read
           /\ row.status = "updated" /\ row.note \in {"", "alignment"} => a \in row.seen,
         UNCHANGED <<answer, lock, session, clock, happened>>
  PROVE  RefreshIInv'
<1>0. PICK job \in DOMAIN jobs : job = doing[t].job /\ jobs' = [jobs EXCEPT ![job] = row]  OBVIOUS
<1>1. /\ doing' \in [Refresh!Runners -> RunRows] /\ doing'[t] = r
      /\ \A q \in Refresh!Runners : q # t => doing'[q] = doing[q]
  BY RefreshFacts
<1>2. /\ jobs' \in Seq(JobRows) /\ Len(jobs') = Len(jobs) /\ DOMAIN jobs' = DOMAIN jobs /\ jobs'[job] = row
      /\ \A j \in DOMAIN jobs : j # job => jobs'[j] = jobs[j]
  <2>1. jobs \in Seq(JobRows) /\ DOMAIN jobs = 1..Len(jobs)  BY RefreshFacts
  <2>2. job \in 1..Len(jobs)  BY <2>1
  <2>3. /\ [jobs EXCEPT ![job] = row] \in Seq(JobRows) /\ Len([jobs EXCEPT ![job] = row]) = Len(jobs)
        /\ \A j \in 1..Len(jobs) : [jobs EXCEPT ![job] = row][j] = IF j = job THEN row ELSE jobs[j]
    BY <2>1, <2>2, ExceptSeq
  <2>4. /\ jobs' \in Seq(JobRows) /\ Len(jobs') = Len(jobs)
        /\ \A j \in 1..Len(jobs) : jobs'[j] = IF j = job THEN row ELSE jobs[j]
    BY <1>0, <2>3
  <2>5. DOMAIN jobs' = DOMAIN jobs  BY <2>1, <2>4, LenProperties
  <2>6. jobs'[job] = row /\ \A j \in DOMAIN jobs : j # job => jobs'[j] = jobs[j]  BY <2>1, <2>2, <2>4
  <2>7. QED  BY <2>4, <2>5, <2>6
<1>3. RefreshTyped'  BY <1>1, <1>2, RefreshFacts DEF RefreshTyped, Refresh!Runners
<1>4. SessionOK'  BY RefreshFacts DEF SessionOK, Refresh!Evidence, Refresh!Saved
<1>5. AloneOK'  BY <1>1, RefreshFacts DEF AloneOK, Working
<1>6. \A a \in Answers : AnswerOK(a)'  BY <1>2, RefreshFacts DEF AnswerOK
<1>7. \A j \in DOMAIN jobs : j # job => jobs[j].status # "updating"  BY <1>0, OneWorks
<1>8. \A a \in Answers : AnswerKept(a)'
  <2>1. ASSUME NEW a \in Answers, answer[a].pc = "requested"  PROVE AnswerKept(a)'
    <3>1. answer[a].job \in DOMAIN jobs /\ AnswerKept(a)  BY <2>1, RefreshFacts
    <3>2. CASE answer[a].job # job
      <4>1. jobs'[answer[a].job] = jobs[answer[a].job] /\ jobs[answer[a].job].status # "updating"
        BY <1>2, <1>7, <3>1, <3>2
      <4>2. QED  BY <2>1, <3>1, <4>1 DEF AnswerKept
    <3>3. CASE answer[a].job = job
      <4>1. jobs'[answer[a].job] = row /\ doing'[lock'] = r  BY <1>1, <1>2, <3>3
      <4>2. QED  BY <1>0, <2>1, <3>3, <4>1 DEF AnswerKept, Later
    <3>4. QED  BY <3>2, <3>3
  <2>2. QED  BY <2>1 DEF AnswerKept
<1>9. \A j \in DOMAIN jobs' : JobOK(j)'
  <2>1. ASSUME NEW j \in DOMAIN jobs, j # job  PROVE JobOK(j)'
    BY <1>2, <1>7, <2>1, RefreshFacts DEF JobOK, Refresh!Saved
  <2>2. JobOK(job)'  BY <1>0, <1>1, <1>2 DEF JobOK, Refresh!Saved
  <2>3. QED  BY <1>2, <2>1, <2>2
<1>10. \A q \in Refresh!Runners : RunnerOK(q)'
  <2>1. ASSUME NEW q \in Refresh!Runners, q # t  PROVE RunnerOK(q)'
    BY <1>1, <2>1, RefreshFacts DEF RunnerOK, Refresh!Saved, Refresh!Evidence
  <2>2. RunnerOK(t)'
    <3>1. r.began < clock  BY RefreshFacts DEF RunnerOK
    <3>2. QED  BY <1>1, <3>1 DEF RunnerOK, Refresh!Saved, Refresh!Evidence
  <2>3. QED  BY <2>1, <2>2
<1>11. \A u \in Threads : ThreadOK(u)'
  <2>1. ASSUME NEW u \in Threads, u # t  PROVE ThreadOK(u)'
    <3>1. ThreadOK(u) /\ doing'[u] = doing[u] /\ doing[u].pc \in {"idle", "lock"} /\ doing[u].read = {}
      BY <1>1, <2>1, OneWorks, RefreshFacts
    <3>2. QED  BY <1>2, <3>1 DEF ThreadOK, Working
  <2>2. ThreadOK(t)'  BY <1>0, <1>1, <1>2, RefreshFacts DEF ThreadOK, Working
  <2>3. QED  BY <2>1, <2>2
<1>12. QED  BY <1>3, <1>4, <1>5, <1>6, <1>8, <1>9, <1>10, <1>11 DEF RefreshIInv, Refresh!Runners

-----------------------------------------------------------------------------
(* The rebuild, by a thread or by hand.                                    *)

LEMMA SessionStays ==
  ASSUME RefreshIInv, UNCHANGED <<answer, session>>, clock' \in Nat, clock' >= clock
  PROVE  SessionOK' /\ session' \in SessionRows /\ session'.confirmedAt = session.confirmedAt
<1>1. /\ SessionOK /\ session \in SessionRows /\ clock \in Nat /\ session.rebuiltAt \in Nat /\ session.confirmedAt \in Nat
  BY RefreshFacts DEF SessionRows
<1>2. QED  BY <1>1 DEF SessionOK, Refresh!Evidence, Refresh!Saved

LEMMA BeginsRebuild ==
  ASSUME RefreshIInv, NEW p \in Refresh!Runners, Refresh!Begin(p)
  PROVE  RefreshIInv'
<1>1. PICK old \in RunRows : old = doing[p]  BY RefreshFacts
<1>2. /\ old.pc = "begin" /\ doing' = [doing EXCEPT ![p].pc = "read", ![p].began = clock] /\ clock' = clock + 1
      /\ UNCHANGED <<answer, jobs, lock, session, happened>>
  BY <1>1 DEF Refresh!Begin
<1>3. clock \in Nat /\ clock' \in Nat /\ clock' >= clock /\ doing \in [Refresh!Runners -> RunRows]
      /\ RunnerOK(p) /\ (p \in Threads => ThreadOK(p))
  BY <1>2, RefreshFacts
<1>. DEFINE r == [old EXCEPT !.pc = "read", !.began = clock]
<1>4. r \in RunRows /\ r.pc = "read" /\ r.began = clock /\ r.read = old.read /\ r.job = old.job
  BY <1>3 DEF RunRows, Working
<1>5. doing' = [doing EXCEPT ![p] = r]  BY <1>1, <1>2, <1>3
<1>. HIDE DEF r
<1>6. r.began < clock' /\ r.read \subseteq Refresh!Saved  BY <1>1, <1>2, <1>3, <1>4 DEF RunnerOK
<1>7. SessionOK' /\ session' \in SessionRows /\ session'.confirmedAt = session.confirmedAt
  BY <1>2, <1>3, SessionStays
<1>8. AloneOK'
  <2>1. doing'[p] = r /\ \A q \in Refresh!Runners : q # p => doing'[q] = doing[q]  BY <1>3, <1>5
  <2>2. QED  BY <1>1, <1>2, <1>4, <2>1, RefreshFacts DEF AloneOK
<1>9. ASSUME p \in Threads
      PROVE  /\ doing[p].pc \in Working /\ r.pc \in Working /\ r.job = doing[p].job
             /\ \A a \in Answers : r.pc \in Later(answer[a].kind) \cup {"fail"} \/ a \in r.read
  BY <1>1, <1>2, <1>4 DEF Working, Later
<1>10. happened' \in [manual : Nat, confirms : Nat, retries : Nat, crashes : Nat]  BY <1>2, RefreshFacts
<1>11. QED  BY <1>2, <1>3, <1>4, <1>5, <1>6, <1>7, <1>8, <1>9, <1>10, RunnerMoves

LEMMA ReadsEvidence ==
  ASSUME RefreshIInv, NEW p \in Refresh!Runners, Refresh!ReadEvidence(p)
  PROVE  RefreshIInv'
<1>1. PICK old \in RunRows : old = doing[p]  BY RefreshFacts
<1>2. /\ old.pc = "read" /\ UNCHANGED <<answer, jobs, lock, session, clock, happened>>
      /\ \/ doing' = [doing EXCEPT ![p].pc = "think", ![p].read = Refresh!Evidence]
         \/ doing' = [doing EXCEPT ![p].pc = "fail"]
  BY <1>1 DEF Refresh!ReadEvidence, Refresh!Go
<1>3. clock \in Nat /\ doing \in [Refresh!Runners -> RunRows] /\ RunnerOK(p) /\ old.began \in Nat
      /\ Refresh!Evidence \subseteq Refresh!Saved /\ Refresh!Saved \subseteq Answers
  BY <1>1, RefreshFacts DEF RunRows, Refresh!Evidence, Refresh!Saved
<1>4. SessionOK' /\ session' \in SessionRows /\ session'.confirmedAt = session.confirmedAt
  BY <1>2, <1>3, SessionStays
<1>5. happened' \in [manual : Nat, confirms : Nat, retries : Nat, crashes : Nat]  BY <1>2, RefreshFacts
<1>6. /\ UNCHANGED <<answer, jobs, lock>> /\ clock' \in Nat /\ clock' >= clock
  BY <1>2, <1>3
<1>7. CASE doing' = [doing EXCEPT ![p].pc = "think", ![p].read = Refresh!Evidence]
  <2>. DEFINE r == [old EXCEPT !.pc = "think", !.read = Refresh!Evidence]
  <2>1. r \in RunRows /\ r.pc = "think" /\ r.began = old.began /\ r.read = Refresh!Evidence /\ r.job = old.job
    <3>1. Refresh!Evidence \in SUBSET Answers  BY <1>3
    <3>2. QED  BY <3>1 DEF RunRows, Working
  <2>2. doing' = [doing EXCEPT ![p] = r]  BY <1>1, <1>3, <1>7
  <2>. HIDE DEF r
  <2>3. r.began < clock' /\ r.read \subseteq Refresh!Saved  BY <1>1, <1>2, <1>3, <2>1 DEF RunnerOK
  <2>4. AloneOK'
    <3>1. doing'[p] = r /\ \A q \in Refresh!Runners : q # p => doing'[q] = doing[q]  BY <1>3, <2>2
    <3>2. session.built \subseteq r.read  BY <2>1, RefreshFacts DEF SessionOK
    <3>3. QED  BY <1>1, <1>2, <2>1, <3>1, <3>2, RefreshFacts DEF AloneOK
  <2>5. ASSUME p \in Threads
        PROVE  /\ doing[p].pc \in Working /\ r.pc \in Working /\ r.job = doing[p].job
               /\ \A a \in Answers : answer[a].pc = "requested" => r.pc \in Later(answer[a].kind) \cup {"fail"} \/ a \in r.read
    <3>1. doing[p].pc \in Working /\ r.pc \in Working /\ r.job = doing[p].job  BY <1>1, <1>2, <2>1 DEF Working
    <3>2. \A a \in Answers : answer[a].pc = "requested" /\ Refresh!Rebuilds(answer[a].kind) => a \in Refresh!Evidence
      BY DEF Refresh!Evidence, Refresh!Saved, Refresh!Rebuilds
    <3>3. QED  BY <2>1, <3>1, <3>2 DEF Later
  <2>6. /\ r.read \subseteq Refresh!Evidence
        /\ \A a \in Refresh!Evidence : answer[a].at <= r.began => a \in r.read
    BY <2>1
  <2>7. QED  BY <1>4, <1>6, <1>5, <2>1, <2>2, <2>3, <2>4, <2>5, <2>6, RunnerMoves
<1>8. CASE doing' = [doing EXCEPT ![p].pc = "fail"]
  <2>. DEFINE r == [old EXCEPT !.pc = "fail"]
  <2>1. r \in RunRows /\ r.pc = "fail" /\ r.began = old.began /\ r.read = old.read /\ r.job = old.job
    BY DEF RunRows, Working
  <2>2. doing' = [doing EXCEPT ![p] = r]  BY <1>1, <1>3, <1>8
  <2>. HIDE DEF r
  <2>3. r.began < clock' /\ r.read \subseteq Refresh!Saved  BY <1>1, <1>2, <1>3, <2>1 DEF RunnerOK
  <2>4. AloneOK'
    <3>1. doing'[p] = r /\ \A q \in Refresh!Runners : q # p => doing'[q] = doing[q]  BY <1>3, <2>2
    <3>2. QED  BY <1>1, <1>2, <2>1, <3>1, RefreshFacts DEF AloneOK
  <2>5. ASSUME p \in Threads
        PROVE  /\ doing[p].pc \in Working /\ r.pc \in Working /\ r.job = doing[p].job
               /\ \A a \in Answers : r.pc \in Later(answer[a].kind) \cup {"fail"} \/ a \in r.read
    BY <1>1, <1>2, <2>1 DEF Working
  <2>6. QED  BY <1>4, <1>6, <1>5, <2>1, <2>2, <2>3, <2>4, <2>5, RunnerMoves
<1>9. QED  BY <1>2, <1>7, <1>8

LEMMA PersistsResult ==
  ASSUME RefreshIInv, NEW p \in Refresh!Runners, Refresh!Persist(p)
  PROVE  RefreshIInv'
<1>1. PICK old \in RunRows : old = doing[p]  BY RefreshFacts
<1>2. PICK label \in {"idle", "align", "fail"} :
        /\ old.pc = "think" /\ UNCHANGED <<answer, jobs, lock, clock, happened>>
        /\ doing' = [doing EXCEPT ![p].pc = label] /\ (p = Manual => label # "align") /\ (p # Manual => label # "idle")
        /\ \/ UNCHANGED session
           \/ session' = [session EXCEPT !.built = old.read, !.revision = @ + 1, !.stage = Refresh!AdvanceStage(old.stage),
                            !.rebuiltAt = old.began, !.revised = FALSE]
  <2>1. CASE doing' = [doing EXCEPT ![p].pc = "fail"] /\ UNCHANGED session
    BY <1>1, <2>1 DEF Refresh!Persist, Refresh!Go
  <2>2. CASE doing' = [doing EXCEPT ![p].pc = IF p = Manual THEN "idle" ELSE "align"]
             /\ session' = [session EXCEPT !.built = doing[p].read, !.revision = @ + 1,
                              !.stage = Refresh!AdvanceStage(doing[p].stage),
                              !.rebuiltAt = Refresh!RebuiltAt(p), !.revised = FALSE]
    <3>1. CASE p = Manual  BY <1>1, <2>2, <3>1 DEF Refresh!Persist, Refresh!RebuiltAt
    <3>2. CASE p # Manual  BY <1>1, <2>2, <3>2 DEF Refresh!Persist, Refresh!RebuiltAt
    <3>3. QED  BY <3>1, <3>2
  <2>3. QED  BY <2>1, <2>2 DEF Refresh!Persist, Refresh!Go
<1>3. /\ clock \in Nat /\ doing \in [Refresh!Runners -> RunRows] /\ RunnerOK(p) /\ SessionOK /\ session \in SessionRows
      /\ old.began \in Nat /\ old.read \in SUBSET Answers /\ old.stage \in {"purpose", "proposal"}
      /\ (p \in Threads => ThreadOK(p) /\ p # Manual) /\ p \in Threads \cup {Manual}
  BY <1>1, RefreshFacts DEF RunRows, Refresh!Runners
<1>4. /\ session' \in SessionRows /\ session'.confirmedAt = session.confirmedAt
      /\ \/ UNCHANGED session
         \/ session'.built = old.read /\ session'.rebuiltAt = old.began
  <2>1. CASE UNCHANGED session  BY <1>3, <2>1
  <2>2. CASE session' = [session EXCEPT !.built = old.read, !.revision = @ + 1, !.stage = Refresh!AdvanceStage(old.stage),
                           !.rebuiltAt = old.began, !.revised = FALSE]
    <3>1. Refresh!AdvanceStage(old.stage) \in {"purpose", "proposal"}  BY DEF Refresh!AdvanceStage
    <3>2. PICK stage \in {"purpose", "proposal"} : stage = Refresh!AdvanceStage(old.stage)  BY <3>1
    <3>3. PICK n \in Nat : n = session.revision + 1  BY <1>3 DEF SessionRows
    <3>4. session' = [session EXCEPT !.built = old.read, !.revision = n, !.stage = stage, !.rebuiltAt = old.began, !.revised = FALSE]
      BY <2>2, <3>2, <3>3
    <3>5. QED  BY <1>3, <3>4 DEF SessionRows
  <2>3. QED  BY <1>2, <2>1, <2>2
<1>5. SessionOK'
  <2>1. /\ old.began < clock /\ old.read \subseteq Refresh!Evidence
        /\ \A a \in Refresh!Evidence : answer[a].at <= old.began => a \in old.read
    BY <1>1, <1>2, <1>3 DEF RunnerOK
  <2>2. QED  BY <1>2, <1>3, <1>4, <2>1 DEF SessionOK, Refresh!Evidence, Refresh!Saved
<1>. DEFINE r == [old EXCEPT !.pc = label]
<1>6. r \in RunRows /\ r.pc = label /\ r.began = old.began /\ r.read = old.read /\ r.job = old.job
  BY <1>2 DEF RunRows, Working
<1>7. doing' = [doing EXCEPT ![p] = r]  BY <1>1, <1>2, <1>3
<1>. HIDE DEF r
<1>8. r.began < clock' /\ r.read \subseteq Refresh!Saved  BY <1>1, <1>2, <1>3, <1>6 DEF RunnerOK
<1>9. AloneOK'
  <2>1. doing'[p] = r /\ \A q \in Refresh!Runners : q # p => doing'[q] = doing[q]  BY <1>3, <1>7
  <2>2. doing'[Manual].pc \in {"idle", "begin", "read", "think", "fail"}
    BY <1>2, <1>6, <2>1, RefreshFacts DEF AloneOK
  <2>3. ASSUME happened'.manual = 0
        PROVE  /\ doing'[Manual].pc = "idle"
               /\ \A t \in Threads : doing'[t].pc # "think"
    <3>1. doing[Manual].pc = "idle" /\ p # Manual  BY <1>1, <1>2, <2>3, RefreshFacts DEF AloneOK
    <3>2. p \in Threads /\ lock = p  BY <1>1, <1>2, <1>3, <3>1 DEF ThreadOK
    <3>3. \A t \in Threads : t # p => doing[t].pc \in {"idle", "lock"}  BY <3>2, OneWorks
    <3>4. QED  BY <1>2, <1>6, <2>1, <3>1, <3>3, RefreshFacts
  <2>4. QED  BY <2>2, <2>3 DEF AloneOK
<1>10. ASSUME p \in Threads
       PROVE  /\ doing[p].pc \in Working /\ r.pc \in Working /\ r.job = doing[p].job
              /\ \A a \in Answers :
                   answer[a].pc = "requested" /\ (doing[p].pc \in Later(answer[a].kind) \cup {"fail"} \/ a \in doing[p].read)
                   => (r.pc \in Later(answer[a].kind) \cup {"fail"} \/ a \in r.read)
  BY <1>1, <1>2, <1>3, <1>6, <1>10 DEF Working, Later
<1>11. clock' \in Nat /\ clock' >= clock /\ r.pc # "think"
       /\ happened' \in [manual : Nat, confirms : Nat, retries : Nat, crashes : Nat]
  BY <1>2, <1>3, <1>6, RefreshFacts
<1>12. QED  BY <1>2, <1>4, <1>5, <1>6, <1>7, <1>8, <1>9, <1>10, <1>11, RunnerMoves

LEMMA ReadsIntents ==
  ASSUME RefreshIInv, NEW t \in Threads, Refresh!ReadIntents(t)
  PROVE  RefreshIInv'
<1>1. PICK old \in RunRows : old = doing[t]  BY RefreshFacts
<1>2. /\ old.pc = "align" /\ UNCHANGED <<answer, jobs, lock, session, clock, happened>>
      /\ doing' = [doing EXCEPT ![t].pc = "finish", ![t].read = old.read \cup (Refresh!Saved \ Refresh!Evidence)]
  BY <1>1 DEF Refresh!ReadIntents
<1>3. clock \in Nat /\ doing \in [Refresh!Runners -> RunRows] /\ RunnerOK(t) /\ t \in Refresh!Runners /\ old.began \in Nat
      /\ old.read \subseteq Refresh!Saved /\ Refresh!Saved \subseteq Answers
  BY <1>1, RefreshFacts DEF RunRows, Refresh!Saved, RunnerOK
<1>4. PICK read \in SUBSET Refresh!Saved : read = old.read \cup (Refresh!Saved \ Refresh!Evidence)  BY <1>3
<1>. DEFINE r == [old EXCEPT !.pc = "finish", !.read = read]
<1>5. r \in RunRows /\ r.pc = "finish" /\ r.began = old.began /\ r.read = read /\ r.job = old.job
  BY <1>3 DEF RunRows, Working
<1>6. doing' = [doing EXCEPT ![t] = r]  BY <1>1, <1>2, <1>3, <1>4
<1>. HIDE DEF r
<1>7. r.began < clock'  BY <1>1, <1>2, <1>3, <1>5 DEF RunnerOK
<1>8. SessionOK' /\ session' \in SessionRows /\ session'.confirmedAt = session.confirmedAt
  BY <1>2, <1>3, SessionStays
<1>9. AloneOK'
  <2>1. doing'[t] = r /\ \A q \in Refresh!Runners : q # t => doing'[q] = doing[q]  BY <1>3, <1>6
  <2>2. QED  BY <1>1, <1>2, <1>5, <2>1, RefreshFacts DEF AloneOK
<1>10. /\ doing[t].pc \in Working /\ r.pc \in Working /\ r.job = doing[t].job
       /\ \A a \in Answers :
            answer[a].pc = "requested" /\ (doing[t].pc \in Later(answer[a].kind) \cup {"fail"} \/ a \in doing[t].read)
            => (r.pc \in Later(answer[a].kind) \cup {"fail"} \/ a \in r.read)
  <2>1. doing[t].pc \in Working /\ r.pc \in Working /\ r.job = doing[t].job  BY <1>1, <1>2, <1>5 DEF Working
  <2>2. ASSUME NEW a \in Answers, answer[a].pc = "requested",
               doing[t].pc \in Later(answer[a].kind) \cup {"fail"} \/ a \in doing[t].read
        PROVE  a \in r.read
    <3>1. CASE a \in doing[t].read  BY <1>1, <1>4, <1>5, <3>1
    <3>2. CASE a \notin doing[t].read
      <4>1. ~Refresh!Rebuilds(answer[a].kind)  BY <1>1, <1>2, <2>2, <3>2 DEF Later
      <4>2. answer[a].kind \in Triggers  BY RefreshFacts DEF AnswerRows
      <4>3. a \in Refresh!Saved \ Refresh!Evidence
        BY <2>2, <4>1, <4>2 DEF Refresh!Saved, Refresh!Evidence, Refresh!Rebuilds, Triggers
      <4>4. QED  BY <1>4, <1>5, <4>3
    <3>3. QED  BY <3>1, <3>2
  <2>3. QED  BY <2>1, <2>2
<1>11. clock' \in Nat /\ clock' >= clock /\ r.pc # "think"
       /\ happened' \in [manual : Nat, confirms : Nat, retries : Nat, crashes : Nat]
  BY <1>2, <1>3, <1>5, RefreshFacts
<1>12. r.read \subseteq Refresh!Saved  BY <1>4, <1>5
<1>13. QED  BY <1>2, <1>3, <1>5, <1>6, <1>7, <1>8, <1>9, <1>10, <1>11, <1>12, RunnerMoves

-----------------------------------------------------------------------------
(* The job: begun, and ended one way or another.                           *)

(* Its thread turns to the next job.                                       *)
LEMMA JobEnds ==
  ASSUME RefreshIInv, NEW t \in Threads, lock = t, doing[t].job \in DOMAIN jobs,
         NEW row \in JobRows, jobs' = [jobs EXCEPT ![doing[t].job] = row],
         doing' = [doing EXCEPT ![t].pc = "drain"],
         row.status \notin {"pending", "updating"}, row.seen \subseteq Refresh!Saved,
         row.status = "failed" => row.note # "",
         \A a \in Answers : answer[a].pc = "requested" /\ answer[a].job = doing[t].job =>
           (row.status = "updated" /\ row.note \in {"", "alignment"} => a \in row.seen),
         UNCHANGED <<answer, lock, session, clock, happened>>
  PROVE  RefreshIInv'
<1>1. PICK old \in RunRows : old = doing[t]  BY RefreshFacts
<1>. DEFINE r == [old EXCEPT !.pc = "drain"]
<1>2. r \in RunRows /\ r.pc = "drain" /\ r.began = old.began /\ r.read = old.read /\ r.job = old.job
  BY DEF RunRows, Working
<1>3. doing' = [doing EXCEPT ![t] = r]  BY <1>1
<1>. HIDE DEF r
<1>4. r.read \subseteq Refresh!Saved  BY <1>1, <1>2, RefreshFacts DEF RunnerOK
<1>5. /\ r.job = doing[t].job /\ r.began = doing[t].began /\ r.pc \in Working \cup {"drain"} /\ r.pc # "think"
      /\ row.status = "updating" <=> r.pc \in Working
      /\ row.status # "pending" /\ row.status # "updating"
  BY <1>1, <1>2 DEF Working
<1>6. QED  BY <1>2, <1>3, <1>4, <1>5, JobMoves

LEMMA StartsJob ==
  ASSUME RefreshIInv, NEW t \in Threads, Refresh!StartJob(t)
  PROVE  RefreshIInv'
<1>1. PICK old \in RunRows : old = doing[t]  BY RefreshFacts
<1>2. PICK job \in DOMAIN jobs : job = old.job /\ job = doing[t].job
  BY <1>1, RefreshFacts DEF ThreadOK, Refresh!StartJob
<1>3. PICK row \in JobRows : row = jobs[job]  BY RefreshFacts
<1>4. /\ old.pc = "start" /\ lock = t /\ old.read = {} /\ row.status # "updating"
      /\ row.seen \subseteq Refresh!Saved /\ (row.status = "failed" => row.note # "")
      /\ doing \in [Refresh!Runners -> RunRows] /\ t \in Refresh!Runners /\ jobs \in Seq(JobRows)
  <2>1. old.pc = "start"  BY <1>1 DEF Refresh!StartJob
  <2>2. lock = t /\ old.read = {}  BY <1>1, <2>1, RefreshFacts DEF ThreadOK
  <2>3. row.status # "updating"  BY <1>1, <1>2, <1>3, <2>1, <2>2, OneWorks DEF Working
  <2>4. JobOK(job)  BY RefreshFacts
  <2>5. row.seen \subseteq Refresh!Saved /\ (row.status = "failed" => row.note # "")  BY <1>3, <2>4 DEF JobOK
  <2>6. QED  BY <2>1, <2>2, <2>3, <2>5, RefreshFacts
<1>5. UNCHANGED <<answer, lock, session, clock, happened>>  BY DEF Refresh!StartJob
<1>6. \A a \in Answers : answer[a].pc = "requested" /\ answer[a].job = job =>
        /\ row.status = "pending" => Refresh!Priority(row.kind) >= Refresh!Priority(answer[a].kind)
        /\ row.status = "updated" /\ row.note \in {"", "alignment"} => a \in row.seen
  BY <1>3, RefreshFacts DEF AnswerKept
<1>7. ASSUME NEW new \in JobRows, jobs' = [jobs EXCEPT ![job] = new], doing' = [doing EXCEPT ![t].pc = "drain"],
             \/ new = row /\ row.status # "pending"
             \/ new.status = "stale" /\ new.seen = row.seen
             \/ new.status = "updated" /\ new.note \notin {"", "alignment"} /\ new.seen = row.seen
      PROVE  RefreshIInv'
  <2>1. /\ new.status \notin {"pending", "updating"} /\ new.seen \subseteq Refresh!Saved
        /\ new.status = "failed" => new.note # ""
        /\ \A a \in Answers : answer[a].pc = "requested" /\ answer[a].job = doing[t].job =>
             (new.status = "updated" /\ new.note \in {"", "alignment"} => a \in new.seen)
    BY <1>2, <1>4, <1>6, <1>7
  <2>2. lock = t /\ doing[t].job \in DOMAIN jobs /\ jobs' = [jobs EXCEPT ![doing[t].job] = new]
    BY <1>2, <1>4, <1>7
  <2>3. QED  BY <1>5, <1>7, <2>1, <2>2, JobEnds
<1>8. CASE /\ row.status # "pending" \/ \E n \in Refresh!WithStatus("updated") : n > job
           /\ jobs' = IF row.status = "pending" THEN [jobs EXCEPT ![job].status = "stale"] ELSE jobs
           /\ doing' = [doing EXCEPT ![t].pc = "drain"]
  <2>1. CASE row.status # "pending"
    <3>1. jobs' = [jobs EXCEPT ![job] = row]
      <4>1. jobs' = jobs  BY <1>8, <2>1
      <4>2. jobs \in [1..Len(jobs) -> JobRows]  BY <1>4, LenProperties
      <4>3. QED  BY <1>3, <4>1, <4>2
    <3>2. QED  BY <1>7, <1>8, <2>1, <3>1
  <2>2. CASE row.status = "pending"
    <3>. DEFINE new == [row EXCEPT !.status = "stale"]
    <3>1. new \in JobRows /\ new.status = "stale" /\ new.seen = row.seen  BY DEF JobRows
    <3>2. jobs' = [jobs EXCEPT ![job] = new]  BY <1>3, <1>8, <2>2
    <3>. HIDE DEF new
    <3>3. QED  BY <1>7, <1>8, <3>1, <3>2
  <2>3. QED  BY <2>1, <2>2
<1>9. ASSUME NEW note \in {"premise", "no_new_answers"}, doing' = [doing EXCEPT ![t].pc = "drain"],
             jobs' = [jobs EXCEPT ![job].status = "updated", ![job].note = note]
      PROVE  RefreshIInv'
  <2>. DEFINE new == [row EXCEPT !.status = "updated", !.note = note]
  <2>1. new \in JobRows /\ new.status = "updated" /\ new.note = note /\ new.seen = row.seen  BY DEF JobRows
  <2>2. jobs' = [jobs EXCEPT ![job] = new]  BY <1>3, <1>4, <1>9
  <2>. HIDE DEF new
  <2>3. QED  BY <1>7, <1>9, <2>1, <2>2
<1>10. CASE /\ row.status = "pending" /\ jobs' = [jobs EXCEPT ![job].status = "updating", ![job].note = ""]
            /\ doing' = [doing EXCEPT ![t].pc = IF Refresh!Rebuilds(row.kind) THEN "begin" ELSE "align",
                                      ![t].read = {}, ![t].stage = session.stage]
  <2>. DEFINE new == [row EXCEPT !.status = "updating", !.note = ""]
  <2>1. new \in JobRows /\ new.status = "updating" /\ new.seen = row.seen  BY DEF JobRows
  <2>2. jobs' = [jobs EXCEPT ![job] = new]  BY <1>3, <1>4, <1>10
  <2>. HIDE DEF new
  <2>3. PICK label \in {"begin", "align"} :
          /\ label = IF Refresh!Rebuilds(row.kind) THEN "begin" ELSE "align"
          /\ doing' = [doing EXCEPT ![t].pc = label, ![t].read = {}, ![t].stage = session.stage]
    <3>1. CASE Refresh!Rebuilds(row.kind)  BY <1>10, <3>1
    <3>2. CASE ~Refresh!Rebuilds(row.kind)  BY <1>10, <3>2
    <3>3. QED  BY <3>1, <3>2
  <2>4. PICK stage \in {"purpose", "proposal"} : stage = session.stage  BY RefreshFacts DEF SessionRows
  <2>. DEFINE r == [old EXCEPT !.pc = label, !.read = {}, !.stage = stage]
  <2>5. r \in RunRows /\ r.pc = label /\ r.began = old.began /\ r.read = {} /\ r.job = old.job
    BY <2>3 DEF RunRows, Working
  <2>6. doing' = [doing EXCEPT ![t] = r]  BY <1>1, <1>4, <2>3, <2>4
  <2>. HIDE DEF r
  <2>7. /\ r.job = doing[t].job /\ r.began = doing[t].began /\ r.pc \in Working \cup {"drain"} /\ r.pc # "think"
        /\ new.status = "updating" <=> r.pc \in Working
        /\ new.status # "pending" /\ r.read \subseteq Refresh!Saved /\ new.seen \subseteq Refresh!Saved
        /\ new.status = "failed" => new.note # ""
    BY <1>1, <1>4, <2>1, <2>3, <2>5 DEF Working
  <2>8. \A a \in Answers : answer[a].pc = "requested" /\ answer[a].job = doing[t].job =>
          /\ new.status = "updating" => r.pc \in Later(answer[a].kind) \cup {"fail"} \/ a \in r.read
          /\ new.status = "updated" /\ new.note \in {"", "alignment"} => a \in new.seen
    <3>1. ASSUME NEW a \in Answers, answer[a].pc = "requested", answer[a].job = doing[t].job
          PROVE  r.pc \in Later(answer[a].kind)
      <4>1. CASE label = "begin"  BY <2>5, <4>1 DEF Later
      <4>2. CASE label = "align"
        <5>1. ~Refresh!Rebuilds(row.kind) /\ row.kind \in Triggers
          BY <2>3, <4>2, TriggersAssumption DEF JobRows, Triggers
        <5>2. Refresh!Priority(row.kind) = 0  BY <5>1 DEF Refresh!Priority, Refresh!Rebuilds, Triggers
        <5>3. Refresh!Priority(row.kind) >= Refresh!Priority(answer[a].kind)  BY <1>2, <1>6, <1>10, <3>1
        <5>4. answer[a].kind \in Triggers  BY RefreshFacts DEF AnswerRows
        <5>5. \A k \in Triggers : Refresh!Priority(k) \in Nat /\ (Refresh!Rebuilds(k) => Refresh!Priority(k) > 0)
          BY DEF Refresh!Priority, Refresh!Rebuilds, Triggers
        <5>6. ~Refresh!Rebuilds(answer[a].kind)  BY <5>2, <5>3, <5>4, <5>5
        <5>7. QED  BY <2>5, <4>2, <5>6 DEF Later
      <4>3. QED  BY <2>3, <4>1, <4>2
    <3>2. QED  BY <2>1, <3>1
  <2>9. lock = t /\ doing[t].job \in DOMAIN jobs /\ jobs' = [jobs EXCEPT ![doing[t].job] = new]
    BY <1>2, <1>4, <2>2
  <2>10. QED  BY <1>5, <2>1, <2>5, <2>6, <2>7, <2>8, <2>9, JobMoves
<1>11. QED
  <2>1. \/ /\ row.status # "pending" \/ \E n \in Refresh!WithStatus("updated") : n > job
           /\ jobs' = IF row.status = "pending" THEN [jobs EXCEPT ![job].status = "stale"] ELSE jobs
           /\ doing' = [doing EXCEPT ![t].pc = "drain"]
        \/ \E note \in {"premise", "no_new_answers"} :
             /\ doing' = [doing EXCEPT ![t].pc = "drain"]
             /\ jobs' = [jobs EXCEPT ![job].status = "updated", ![job].note = note]
        \/ /\ row.status = "pending" /\ jobs' = [jobs EXCEPT ![job].status = "updating", ![job].note = ""]
           /\ doing' = [doing EXCEPT ![t].pc = IF Refresh!Rebuilds(row.kind) THEN "begin" ELSE "align",
                                     ![t].read = {}, ![t].stage = session.stage]
    BY <1>2, <1>3, Zenon DEF Refresh!StartJob, Refresh!CloseJob, Refresh!Go
  <2>2. QED  BY <1>8, <1>9, <1>10, <2>1

LEMMA IdleRow ==
  /\ Refresh!Idle \in RunRows
  /\ Refresh!Idle.pc = "idle" /\ Refresh!Idle.job = 0 /\ Refresh!Idle.began = 0 /\ Refresh!Idle.read = {}
  /\ \A j \in Nat : LET r == [Refresh!Idle EXCEPT !.pc = "lock", !.job = j] IN
       r \in RunRows /\ r.pc = "lock" /\ r.job = j /\ r.began = 0 /\ r.read = {}
BY DEF RunRows, Refresh!Idle

LEMMA FailsJob ==
  ASSUME RefreshIInv, NEW p \in Refresh!Runners, Refresh!Fail(p)
  PROVE  RefreshIInv'
<1>1. PICK old \in RunRows : old = doing[p]  BY RefreshFacts
<1>2. old.pc = "fail" /\ UNCHANGED <<answer, lock, session, clock, happened>>  BY <1>1 DEF Refresh!Fail
<1>3. CASE p = Manual
  <2>1. UNCHANGED jobs /\ doing' = [doing EXCEPT ![p] = Refresh!Idle]  BY <1>3 DEF Refresh!Fail
  <2>2. PICK r \in RunRows : r = Refresh!Idle /\ r.pc = "idle" /\ r.began = 0 /\ r.read = {}
    BY IdleRow
  <2>3. doing' = [doing EXCEPT ![p] = r]  BY <2>1, <2>2
  <2>4. clock \in Nat /\ clock' \in Nat /\ clock' >= clock /\ clock >= 2
        /\ happened' \in [manual : Nat, confirms : Nat, retries : Nat, crashes : Nat]
    BY <1>2, RefreshFacts DEF SessionOK
  <2>5. SessionOK' /\ session' \in SessionRows /\ session'.confirmedAt = session.confirmedAt
    BY <1>2, <2>4, SessionStays
  <2>6. AloneOK'
    <3>1. doing'[p] = r /\ \A q \in Refresh!Runners : q # p => doing'[q] = doing[q]  BY <2>3, RefreshFacts
    <3>2. QED  BY <1>2, <1>3, <2>2, <3>1, RefreshFacts DEF AloneOK
  <2>7. r.began < clock' /\ r.read \subseteq Refresh!Saved /\ r.pc # "think" /\ p \notin Threads
        /\ UNCHANGED <<answer, jobs, lock>>
    BY <1>2, <1>3, <2>1, <2>2, <2>4, RefreshFacts
  <2>8. QED  BY <2>3, <2>4, <2>5, <2>6, <2>7, RunnerMoves
<1>4. CASE p # Manual
  <2>1. p \in Threads /\ lock = p /\ doing[p].job \in DOMAIN jobs
    BY <1>1, <1>2, <1>4, RefreshFacts DEF ThreadOK, Refresh!Runners
  <2>2. PICK job \in DOMAIN jobs : job = doing[p].job  BY <2>1
  <2>3. PICK row \in JobRows : row = jobs[job] /\ row.seen \subseteq Refresh!Saved  BY RefreshFacts DEF JobOK
  <2>4. /\ jobs' = [jobs EXCEPT ![job].status = "failed", ![job].note = "error"]
        /\ doing' = [doing EXCEPT ![p].pc = "drain"]
    BY <1>4, <2>2 DEF Refresh!Fail, Refresh!CloseJob, Refresh!Go
  <2>. DEFINE new == [row EXCEPT !.status = "failed", !.note = "error"]
  <2>5. new \in JobRows /\ new.status = "failed" /\ new.note = "error" /\ new.seen = row.seen  BY DEF JobRows
  <2>6. jobs' = [jobs EXCEPT ![job] = new]  BY <2>3, <2>4, RefreshFacts
  <2>. HIDE DEF new
  <2>7. /\ new.status \notin {"pending", "updating"} /\ new.seen \subseteq Refresh!Saved
        /\ new.status = "failed" => new.note # ""
        /\ \A a \in Answers : answer[a].pc = "requested" /\ answer[a].job = doing[p].job =>
             (new.status = "updated" /\ new.note \in {"", "alignment"} => a \in new.seen)
    BY <2>3, <2>5
  <2>8. jobs' = [jobs EXCEPT ![doing[p].job] = new]  BY <2>2, <2>6
  <2>9. QED  BY <1>2, <2>1, <2>4, <2>5, <2>7, <2>8, JobEnds
<1>5. QED  BY <1>3, <1>4

LEMMA FinishesJob ==
  ASSUME RefreshIInv, NEW t \in Threads, Refresh!Finish(t)
  PROVE  RefreshIInv'
<1>1. PICK old \in RunRows : old = doing[t]  BY RefreshFacts
<1>2. PICK note \in {"", "alignment"} :
        /\ old.pc = "finish" /\ doing' = [doing EXCEPT ![t].pc = "drain"]
        /\ jobs' = [jobs EXCEPT ![old.job].status = "updated", ![old.job].note = note, ![old.job].seen = old.read]
        /\ UNCHANGED <<answer, lock, session, clock, happened>>
  BY <1>1 DEF Refresh!Finish, Refresh!Go
<1>3. lock = t /\ doing[t].job \in DOMAIN jobs /\ jobs[doing[t].job].status = "updating"
      /\ old.read \subseteq Refresh!Saved
  BY <1>1, <1>2, RefreshFacts DEF ThreadOK, RunnerOK, Working
<1>4. PICK job \in DOMAIN jobs : job = doing[t].job  BY <1>3
<1>5. PICK row \in JobRows : row = jobs[job]  BY RefreshFacts
<1>. DEFINE new == [row EXCEPT !.status = "updated", !.note = note, !.seen = old.read]
<1>6. new \in JobRows /\ new.status = "updated" /\ new.note = note /\ new.seen = old.read
  BY DEF JobRows, RunRows
<1>7. jobs' = [jobs EXCEPT ![job] = new]
  <2>1. jobs' = [jobs EXCEPT ![job].status = "updated", ![job].note = note, ![job].seen = old.read]
    BY <1>1, <1>2, <1>4
  <2>2. QED  BY <1>5, <2>1, RefreshFacts
<1>. HIDE DEF new
<1>8. \A a \in Answers : answer[a].pc = "requested" /\ answer[a].job = doing[t].job => a \in old.read
  <2>1. ASSUME NEW a \in Answers, answer[a].pc = "requested", answer[a].job = doing[t].job
        PROVE  a \in old.read
    <3>1. AnswerKept(a)  BY RefreshFacts
    <3>2. doing[lock].pc \in Later(answer[a].kind) \cup {"fail"} \/ a \in doing[lock].read
      BY <1>3, <2>1, <3>1 DEF AnswerKept
    <3>3. QED  BY <1>1, <1>2, <1>3, <3>2 DEF Later
  <2>2. QED  BY <2>1
<1>9. /\ new.status \notin {"pending", "updating"} /\ new.seen \subseteq Refresh!Saved
      /\ new.status = "failed" => new.note # ""
      /\ \A a \in Answers : answer[a].pc = "requested" /\ answer[a].job = doing[t].job =>
           (new.status = "updated" /\ new.note \in {"", "alignment"} => a \in new.seen)
  BY <1>3, <1>6, <1>8
<1>10. jobs' = [jobs EXCEPT ![doing[t].job] = new]  BY <1>4, <1>7
<1>11. QED  BY <1>2, <1>3, <1>6, <1>9, <1>10, JobEnds

-----------------------------------------------------------------------------
(* The lock passes on while no job is running.                             *)

LEMMA LockMoves ==
  ASSUME RefreshIInv, NEW t \in Threads, \A u \in Threads : u # t => doing[u].pc \in {"idle", "lock"},
         \A j \in DOMAIN jobs : jobs[j].status # "updating",
         NEW r \in RunRows, doing' = [doing EXCEPT ![t] = r], lock' \in Threads \cup {None},
         r.pc \in {"idle", "lock", "start"}, r.pc = "start" => lock' = t,
         r.pc # "idle" => r.job \in 1..Len(jobs), r.read = {}, r.began < clock,
         UNCHANGED <<answer, jobs, session, clock, happened>>
  PROVE  RefreshIInv'
<1>1. /\ doing' \in [Refresh!Runners -> RunRows] /\ doing'[t] = r
      /\ \A q \in Refresh!Runners : q # t => doing'[q] = doing[q]
  BY RefreshFacts
<1>2. RefreshTyped'  BY <1>1, RefreshFacts DEF RefreshTyped, Refresh!Runners
<1>3. SessionOK'  BY RefreshFacts DEF SessionOK, Refresh!Evidence, Refresh!Saved
<1>4. AloneOK'  BY <1>1, RefreshFacts DEF AloneOK
<1>5. \A a \in Answers : AnswerOK(a)' /\ AnswerKept(a)'
  BY RefreshFacts DEF AnswerOK, AnswerKept
<1>6. \A j \in DOMAIN jobs' : JobOK(j)'  BY RefreshFacts DEF JobOK, Refresh!Saved
<1>7. \A q \in Refresh!Runners : RunnerOK(q)'
  BY <1>1, RefreshFacts DEF RunnerOK, Refresh!Saved, Refresh!Evidence
<1>8. \A u \in Threads : ThreadOK(u)'  BY <1>1, RefreshFacts DEF ThreadOK, Working
<1>9. QED  BY <1>2, <1>3, <1>4, <1>5, <1>6, <1>7, <1>8 DEF RefreshIInv, Refresh!Runners

LEMMA TakesLock ==
  ASSUME RefreshIInv, NEW t \in Threads, Refresh!Acquire(t)
  PROVE  RefreshIInv'
<1>1. PICK old \in RunRows : old = doing[t]  BY RefreshFacts
<1>2. /\ old.pc = "lock" /\ lock = None /\ lock' = t /\ doing' = [doing EXCEPT ![t].pc = "start"]
      /\ UNCHANGED <<answer, jobs, session, clock, happened>>
  BY <1>1 DEF Refresh!Acquire, Refresh!Lockable, Refresh!Go
<1>3. \A u \in Threads : doing[u].pc \in {"idle", "lock"}
  BY <1>2, RefreshFacts DEF ThreadOK
<1>4. \A j \in DOMAIN jobs : jobs[j].status # "updating"  BY <1>2, RefreshFacts DEF JobOK
<1>5. old.job \in 1..Len(jobs) /\ old.read = {} /\ old.began < clock
  BY <1>1, <1>2, RefreshFacts DEF ThreadOK, RunnerOK
<1>. DEFINE r == [old EXCEPT !.pc = "start"]
<1>6. r \in RunRows /\ r.pc = "start" /\ r.job = old.job /\ r.read = old.read /\ r.began = old.began
  BY DEF RunRows
<1>7. doing' = [doing EXCEPT ![t] = r]  BY <1>1, <1>2
<1>. HIDE DEF r
<1>8. QED  BY <1>2, <1>3, <1>4, <1>5, <1>6, <1>7, LockMoves

LEMMA LooksForNext ==
  ASSUME RefreshIInv, NEW t \in Threads, Refresh!Drain(t)
  PROVE  RefreshIInv'
<1>1. doing[t].pc = "drain" /\ lock' = None /\ UNCHANGED <<answer, jobs, session, clock, happened>>
  BY DEF Refresh!Drain
<1>2. lock = t  BY <1>1, RefreshFacts DEF ThreadOK
<1>3. /\ \A u \in Threads : u # t => doing[u].pc \in {"idle", "lock"}
      /\ \A j \in DOMAIN jobs : jobs[j].status # "updating"
  BY <1>1, <1>2, OneWorks DEF Working
<1>4. PICK r \in RunRows : /\ doing' = [doing EXCEPT ![t] = r] /\ r.pc \in {"idle", "lock"} /\ r.read = {} /\ r.began = 0
                           /\ r.pc # "idle" => r.job \in 1..Len(jobs)
  <2>1. CASE Refresh!NextPending = {}
    <3>1. doing' = [doing EXCEPT ![t] = Refresh!Idle]  BY <2>1 DEF Refresh!Drain
    <3>2. PICK r \in RunRows : r = Refresh!Idle /\ r.pc = "idle" /\ r.began = 0 /\ r.read = {}
      BY IdleRow
    <3>3. QED  BY <3>1, <3>2
  <2>2. CASE Refresh!NextPending # {}
    <3>1. PICK j \in Refresh!NextPending : TRUE  BY <2>2
    <3>2. \A n \in Refresh!NextPending : n = Len(jobs) /\ n \in DOMAIN jobs
      BY RefreshFacts DEF Refresh!NextPending, Refresh!WithStatus, JobOK
    <3>3. j \in Refresh!NextPending /\ \A n \in Refresh!NextPending : j <= n
      BY <3>1, <3>2, RefreshFacts
    <3>. DEFINE first == CHOOSE k \in Refresh!NextPending : \A n \in Refresh!NextPending : k <= n
    <3>4. first \in Refresh!NextPending  BY <3>3
    <3>5. doing' = [doing EXCEPT ![t] = [Refresh!Idle EXCEPT !.pc = "lock", !.job = first]]
      BY <2>2 DEF Refresh!Drain
    <3>. HIDE DEF first
    <3>6. first \in Nat /\ first \in 1..Len(jobs)  BY <3>2, <3>4, RefreshFacts
    <3>7. PICK r \in RunRows : /\ r = [Refresh!Idle EXCEPT !.pc = "lock", !.job = first]
                               /\ r.pc = "lock" /\ r.job = first /\ r.began = 0 /\ r.read = {}
      BY <3>6, IdleRow
    <3>8. doing' = [doing EXCEPT ![t] = r]  BY <3>5, <3>7
    <3>9. QED  BY <3>6, <3>7, <3>8
  <2>3. QED  BY <2>1, <2>2
<1>5. r.began < clock /\ r.pc # "start"  BY <1>4, RefreshFacts DEF SessionOK
<1>6. QED  BY <1>1, <1>3, <1>4, <1>5, LockMoves

-----------------------------------------------------------------------------
(* What the developer does, and a restart.                                 *)

LEMMA RebuildsByHand ==
  ASSUME RefreshIInv, Refresh!ManualRebuild
  PROVE  RefreshIInv'
<1>1. /\ doing[Manual].pc = "idle" /\ UNCHANGED <<answer, jobs, lock, session, clock>>
      /\ doing' = [doing EXCEPT ![Manual] = [Refresh!Idle EXCEPT !.pc = "begin", !.stage = session.stage]]
      /\ happened' = [happened EXCEPT !.manual = @ + 1]
  BY DEF Refresh!ManualRebuild
<1>2. PICK stage \in {"purpose", "proposal"} : stage = session.stage  BY RefreshFacts DEF SessionRows
<1>. DEFINE r == [Refresh!Idle EXCEPT !.pc = "begin", !.stage = stage]
<1>3. r \in RunRows /\ r.pc = "begin" /\ r.read = {} /\ r.began = 0
  BY DEF RunRows, Refresh!Idle, Working
<1>4. doing' = [doing EXCEPT ![Manual] = r]  BY <1>1, <1>2
<1>. HIDE DEF r
<1>5. happened' \in [manual : Nat, confirms : Nat, retries : Nat, crashes : Nat] /\ happened'.manual > 0
  <2>1. happened \in [manual : Nat, confirms : Nat, retries : Nat, crashes : Nat]  BY RefreshFacts
  <2>2. PICK n \in Nat : n = happened.manual + 1 /\ n > 0  BY <2>1
  <2>3. happened' = [happened EXCEPT !.manual = n]  BY <1>1, <2>2
  <2>4. QED  BY <2>1, <2>2, <2>3
<1>6. AloneOK'
  <2>1. doing'[Manual] = r /\ \A q \in Refresh!Runners : q # Manual => doing'[q] = doing[q]  BY <1>4, RefreshFacts
  <2>2. QED  BY <1>3, <1>5, <2>1 DEF AloneOK
<1>7. clock \in Nat /\ clock' \in Nat /\ clock' >= clock /\ clock >= 2  BY <1>1, RefreshFacts DEF SessionOK
<1>8. SessionOK' /\ session' \in SessionRows /\ session'.confirmedAt = session.confirmedAt
  BY <1>1, <1>7, SessionStays
<1>9. /\ UNCHANGED <<answer, jobs, lock>> /\ r.began < clock' /\ r.read \subseteq Refresh!Saved /\ r.pc # "think"
      /\ Manual \in Refresh!Runners /\ Manual \notin Threads
  BY <1>1, <1>3, <1>7, RefreshFacts
<1>10. QED  BY <1>3, <1>4, <1>5, <1>6, <1>7, <1>8, <1>9, RunnerMoves

LEMMA Confirms ==
  ASSUME RefreshIInv, Refresh!Confirm
  PROVE  RefreshIInv'
<1>1. /\ UNCHANGED <<answer, jobs, doing, lock>> /\ clock' = clock + 1 /\ happened' = [happened EXCEPT !.confirms = @ + 1]
      /\ session' = [session EXCEPT !.stage = "proposal", !.confirmedAt = clock, !.confirmedRevision = session.revision]
  BY DEF Refresh!Confirm
<1>2. /\ clock \in Nat /\ clock' \in Nat /\ clock < clock' /\ session \in SessionRows /\ SessionOK
      /\ happened \in [manual : Nat, confirms : Nat, retries : Nat, crashes : Nat]
  BY <1>1, RefreshFacts
<1>3. /\ session' \in SessionRows /\ session'.confirmedAt = clock /\ session'.built = session.built
      /\ session'.rebuiltAt = session.rebuiltAt /\ session.rebuiltAt \in Nat
  BY <1>1, <1>2 DEF SessionRows
<1>4. happened' \in [manual : Nat, confirms : Nat, retries : Nat, crashes : Nat] /\ happened'.manual = happened.manual
  <2>1. PICK n \in Nat : n = happened.confirms + 1  BY <1>2
  <2>2. happened' = [happened EXCEPT !.confirms = n]  BY <1>1, <2>1
  <2>3. QED  BY <1>2, <2>2
<1>5. RefreshTyped'  BY <1>1, <1>2, <1>3, <1>4, RefreshFacts DEF RefreshTyped, Refresh!Runners
<1>6. SessionOK'  BY <1>1, <1>2, <1>3 DEF SessionOK, Refresh!Evidence, Refresh!Saved
<1>7. AloneOK'  BY <1>1, <1>3, <1>4, RefreshFacts DEF AloneOK
<1>8. \A a \in Answers : AnswerOK(a)' /\ AnswerKept(a)'
  <2>1. ASSUME NEW a \in Answers  PROVE AnswerOK(a)'
    <3>1. AnswerOK(a) /\ answer[a].at \in Nat  BY RefreshFacts DEF AnswerRows
    <3>2. QED  BY <1>1, <1>2, <1>3, <3>1 DEF AnswerOK
  <2>2. ASSUME NEW a \in Answers  PROVE AnswerKept(a)'
    BY <1>1, RefreshFacts DEF AnswerKept, Later
  <2>3. QED  BY <2>1, <2>2
<1>9. \A j \in DOMAIN jobs' : JobOK(j)'  BY <1>1, RefreshFacts DEF JobOK, Refresh!Saved
<1>10. \A q \in Refresh!Runners : RunnerOK(q)'
  <2>1. ASSUME NEW q \in Refresh!Runners  PROVE RunnerOK(q)'
    <3>1. RunnerOK(q) /\ doing[q].began \in Nat  BY RefreshFacts DEF RunRows
    <3>2. QED  BY <1>1, <1>2, <3>1 DEF RunnerOK, Refresh!Saved, Refresh!Evidence
  <2>2. QED  BY <2>1
<1>11. \A t \in Threads : ThreadOK(t)'  BY <1>1, RefreshFacts DEF ThreadOK
<1>12. QED  BY <1>5, <1>6, <1>7, <1>8, <1>9, <1>10, <1>11 DEF RefreshIInv, Refresh!Runners

LEMMA SavesAnswer ==
  ASSUME RefreshIInv, NEW a \in Answers, Refresh!SaveAnswer(a)
  PROVE  RefreshIInv'
<1>1. PICK k \in Kinds :
        /\ answer[a].pc = "none" /\ clock' = clock + 1 /\ UNCHANGED <<jobs, doing, lock, happened>>
        /\ answer' = [answer EXCEPT ![a] = [pc |-> "request", kind |-> k, at |-> clock, job |-> 0]]
        /\ session' = [session EXCEPT !.revised = TRUE] \/ UNCHANGED session
  BY DEF Refresh!SaveAnswer
<1>2. /\ clock \in Nat /\ clock' \in Nat /\ clock < clock' /\ session \in SessionRows /\ SessionOK /\ k \in Triggers
      /\ answer \in [Answers -> AnswerRows] /\ Len(jobs) \in Nat
  BY <1>1, RefreshFacts, TriggersAssumption DEF Triggers
<1>3. /\ session' \in SessionRows /\ session'.confirmedAt = session.confirmedAt /\ session'.built = session.built
      /\ session'.rebuiltAt = session.rebuiltAt /\ session.rebuiltAt \in Nat /\ session.confirmedAt \in Nat
  BY <1>1, <1>2 DEF SessionRows
<1>. DEFINE new == [pc |-> "request", kind |-> k, at |-> clock, job |-> 0]
<1>4. new \in AnswerRows /\ new.pc = "request" /\ new.kind = k /\ new.at = clock /\ new.job = 0
  BY <1>2 DEF AnswerRows
<1>5. answer' = [answer EXCEPT ![a] = new]  BY <1>1
<1>. HIDE DEF new
<1>6. /\ answer' \in [Answers -> AnswerRows] /\ answer'[a] = new
      /\ \A b \in Answers : b # a => answer'[b] = answer[b]
  BY <1>2, <1>4, <1>5
<1>7. /\ a \notin Refresh!Saved /\ Refresh!Saved' = Refresh!Saved \cup {a}
      /\ Refresh!Evidence \subseteq Refresh!Evidence' /\ Refresh!Evidence' \subseteq Refresh!Evidence \cup {a}
      /\ a \notin Refresh!Evidence
  BY <1>1, <1>4, <1>6 DEF Refresh!Saved, Refresh!Evidence
<1>8. RefreshTyped'  BY <1>1, <1>2, <1>3, <1>6, RefreshFacts DEF RefreshTyped, Refresh!Runners
<1>9. SessionOK'  BY <1>1, <1>2, <1>3, <1>4, <1>6, <1>7 DEF SessionOK
<1>10. AloneOK'  BY <1>1, <1>3, RefreshFacts DEF AloneOK
<1>11. ASSUME NEW b \in Answers  PROVE AnswerOK(b)' /\ AnswerKept(b)'
  <2>1. CASE b = a
    <3>1. clock >= 2 /\ clock # session.confirmedAt  BY <1>2, <1>3 DEF SessionOK
    <3>2. AnswerOK(b)'  BY <1>1, <1>2, <1>3, <1>4, <1>6, <2>1, <3>1 DEF AnswerOK
    <3>3. QED  BY <1>4, <1>6, <2>1, <3>2 DEF AnswerKept
  <2>2. CASE b # a
    <3>1. AnswerOK(b) /\ AnswerKept(b) /\ answer'[b] = answer[b] /\ answer[b].at \in Nat
      BY <1>6, <2>2, RefreshFacts DEF AnswerRows
    <3>2. AnswerOK(b)'  BY <1>1, <1>2, <1>3, <3>1 DEF AnswerOK
    <3>3. QED  BY <1>1, <3>1, <3>2 DEF AnswerKept, Later
  <2>3. QED  BY <2>1, <2>2
<1>12. \A j \in DOMAIN jobs' : JobOK(j)'  BY <1>1, <1>7, RefreshFacts DEF JobOK
<1>13. ASSUME NEW q \in Refresh!Runners  PROVE RunnerOK(q)'
  <2>1. RunnerOK(q) /\ doing[q].began \in Nat /\ doing'[q] = doing[q]  BY <1>1, RefreshFacts DEF RunRows
  <2>2. ~(answer'[a].at <= doing[q].began)  BY <1>2, <1>4, <1>6, <2>1 DEF RunnerOK
  <2>3. \A b \in Refresh!Evidence : answer'[b] = answer[b]  BY <1>6, <1>7 DEF Refresh!Evidence, Refresh!Saved
  <2>4. QED  BY <1>2, <1>7, <2>1, <2>2, <2>3 DEF RunnerOK
<1>14. \A t \in Threads : ThreadOK(t)'  BY <1>1, RefreshFacts DEF ThreadOK
<1>15. QED  BY <1>8, <1>9, <1>10, <1>11, <1>12, <1>13, <1>14 DEF RefreshIInv, Refresh!Runners

LEMMA Restarts ==
  ASSUME RefreshIInv, Refresh!Restart
  PROVE  RefreshIInv'
<1>1. /\ jobs' = [j \in DOMAIN jobs |-> IF jobs[j].status \in {"pending", "updating"}
                                        THEN [jobs[j] EXCEPT !.status = "failed", !.note = "error"] ELSE jobs[j]]
      /\ answer' = [a \in Answers |-> IF answer[a].pc = "request"
                                      THEN [answer[a] EXCEPT !.pc = "forgotten"] ELSE answer[a]]
      /\ doing' = [p \in Refresh!Runners |-> Refresh!Idle] /\ lock' = None
      /\ happened' = [happened EXCEPT !.crashes = @ + 1] /\ UNCHANGED <<session, clock>>
  BY DEF Refresh!Restart, Refresh!Interrupted
<1>2. happened' \in [manual : Nat, confirms : Nat, retries : Nat, crashes : Nat] /\ happened'.manual = happened.manual
  <2>1. happened \in [manual : Nat, confirms : Nat, retries : Nat, crashes : Nat]  BY RefreshFacts
  <2>2. PICK n \in Nat : n = happened.crashes + 1  BY <2>1
  <2>3. happened' = [happened EXCEPT !.crashes = n]  BY <1>1, <2>2
  <2>4. QED  BY <2>1, <2>3
<1>3. \A j \in DOMAIN jobs :
        /\ jobs'[j] \in JobRows /\ jobs'[j].seen = jobs[j].seen
        /\ jobs'[j].status \notin {"pending", "updating"}
        /\ jobs'[j] = jobs[j] \/ (jobs'[j].status = "failed" /\ jobs'[j].note = "error")
  <2>1. ASSUME NEW j \in DOMAIN jobs
        PROVE  /\ jobs'[j] \in JobRows /\ jobs'[j].seen = jobs[j].seen
               /\ jobs'[j].status \notin {"pending", "updating"}
               /\ jobs'[j] = jobs[j] \/ (jobs'[j].status = "failed" /\ jobs'[j].note = "error")
    <3>1. PICK row \in JobRows : row = jobs[j]  BY RefreshFacts
    <3>2. jobs'[j] = IF row.status \in {"pending", "updating"}
                     THEN [row EXCEPT !.status = "failed", !.note = "error"] ELSE row
      BY <1>1, <3>1
    <3>3. QED  BY <3>1, <3>2 DEF JobRows
  <2>2. QED  BY <2>1
<1>4. jobs' \in Seq(JobRows) /\ DOMAIN jobs' = DOMAIN jobs /\ Len(jobs') = Len(jobs)
  <2>1. Len(jobs) \in Nat /\ DOMAIN jobs = 1..Len(jobs)  BY RefreshFacts
  <2>2. DOMAIN jobs' = 1..Len(jobs)  BY <1>1, <2>1
  <2>3. jobs' \in [1..Len(jobs) -> JobRows]  BY <1>1, <1>3, <2>1, <2>2
  <2>4. jobs' \in Seq(JobRows)  BY <2>1, <2>3, SeqDef
  <2>5. QED  BY <2>1, <2>2, <2>4, LenProperties
<1>5. \A a \in Answers :
        /\ answer'[a] \in AnswerRows /\ answer'[a].kind = answer[a].kind /\ answer'[a].at = answer[a].at
        /\ answer'[a].job = answer[a].job
        /\ answer'[a].pc = answer[a].pc \/ (answer[a].pc = "request" /\ answer'[a].pc = "forgotten")
  <2>1. ASSUME NEW a \in Answers
        PROVE  /\ answer'[a] \in AnswerRows /\ answer'[a].kind = answer[a].kind /\ answer'[a].at = answer[a].at
               /\ answer'[a].job = answer[a].job
               /\ answer'[a].pc = answer[a].pc \/ (answer[a].pc = "request" /\ answer'[a].pc = "forgotten")
    <3>1. PICK row \in AnswerRows : row = answer[a]  BY RefreshFacts
    <3>2. answer'[a] = IF row.pc = "request" THEN [row EXCEPT !.pc = "forgotten"] ELSE row  BY <1>1, <3>1
    <3>3. QED  BY <3>1, <3>2 DEF AnswerRows
  <2>2. QED  BY <2>1
<1>6. Refresh!Saved' = Refresh!Saved /\ Refresh!Evidence' = Refresh!Evidence
      /\ Refresh!Saved \subseteq Answers /\ Refresh!Evidence \subseteq Refresh!Saved
  <2>1. Refresh!Saved' = Refresh!Saved  BY <1>5 DEF Refresh!Saved
  <2>2. QED  BY <1>5, <2>1 DEF Refresh!Saved, Refresh!Evidence
<1>7. \A p \in Refresh!Runners : doing'[p] = Refresh!Idle  BY <1>1
<1>8. RefreshTyped'
  <2>1. answer' \in [Answers -> AnswerRows]  BY <1>1, <1>5
  <2>2. doing' \in [Refresh!Runners -> RunRows]  BY <1>1, IdleRow
  <2>3. lock' \in Threads \cup {None} /\ session' \in SessionRows /\ clock' \in Nat  BY <1>1, RefreshFacts
  <2>4. QED  BY <1>2, <1>4, <2>1, <2>2, <2>3 DEF RefreshTyped, Refresh!Runners
<1>9. SessionOK'  BY <1>1, <1>5, <1>6, RefreshFacts DEF SessionOK
<1>10. AloneOK'  BY <1>7, IdleRow, RefreshFacts DEF AloneOK
<1>11. ASSUME NEW a \in Answers  PROVE AnswerOK(a)' /\ AnswerKept(a)'
  <2>1. AnswerOK(a) /\ AnswerKept(a)  BY RefreshFacts
  <2>2. AnswerOK(a)'  BY <1>1, <1>4, <1>5, <2>1 DEF AnswerOK
  <2>3. ASSUME answer'[a].pc = "requested"  PROVE AnswerKept(a)'
    <3>1. answer[a].pc = "requested" /\ answer[a].job \in DOMAIN jobs /\ answer'[a].job = answer[a].job
      BY <1>5, <2>3, RefreshFacts
    <3>2. jobs'[answer'[a].job].status \notin {"pending", "updating"}  BY <1>3, <3>1
    <3>3. jobs'[answer'[a].job].status = "updated" => jobs'[answer'[a].job] = jobs[answer[a].job]  BY <1>3, <3>1
    <3>4. QED  BY <2>1, <3>1, <3>2, <3>3 DEF AnswerKept
  <2>4. QED  BY <2>2, <2>3 DEF AnswerKept
<1>12. \A j \in DOMAIN jobs' : JobOK(j)'  BY <1>3, <1>4, <1>6, RefreshFacts DEF JobOK
<1>13. \A q \in Refresh!Runners : RunnerOK(q)'
  <2>1. clock >= 2 /\ clock \in Nat  BY RefreshFacts DEF SessionOK
  <2>2. clock' = clock  BY <1>1
  <2>3. \A q \in Refresh!Runners : doing'[q].pc = "idle" /\ doing'[q].began = 0 /\ doing'[q].read = {}
    BY <1>7, IdleRow
  <2>4. 0 < clock'  BY <2>1, <2>2
  <2>5. QED  BY <2>3, <2>4 DEF RunnerOK
<1>14. \A t \in Threads : ThreadOK(t)'  BY <1>7, IdleRow, RefreshFacts DEF ThreadOK, Working
<1>15. QED  BY <1>8, <1>9, <1>10, <1>11, <1>12, <1>13, <1>14 DEF RefreshIInv, Refresh!Runners

-----------------------------------------------------------------------------
(* A request: merged into the pending job, or a new job and, when nothing  *)
(* runs, a thread for it.                                                  *)

LEMMA Enqueued ==
  ASSUME RefreshIInv, NEW k \in Kinds, NEW id \in 1..(Len(jobs) + 1), Refresh!Enqueue(k, id)
  PROVE  /\ jobs' \in Seq(JobRows) /\ Len(jobs') \in Nat /\ Len(jobs') >= Len(jobs) /\ DOMAIN jobs' = 1..Len(jobs')
         /\ id \in DOMAIN jobs' /\ id = Len(jobs') /\ jobs'[id].status = "pending"
         /\ Refresh!Priority(jobs'[id].kind) >= Refresh!Priority(k) /\ jobs'[id].seen \subseteq Refresh!Saved
         /\ \A j \in DOMAIN jobs' : j \in DOMAIN jobs \/ j = id
         /\ \A j \in DOMAIN jobs : j # id => jobs[j].status # "pending" /\ jobs'[j] = jobs[j]
         /\ id \in DOMAIN jobs => /\ jobs[id].status = "pending"
                                  /\ Refresh!Priority(jobs'[id].kind) >= Refresh!Priority(jobs[id].kind)
         /\ \/ UNCHANGED doing
            \/ \E t \in Threads : /\ doing[t].pc = "idle"
                                  /\ doing' = [doing EXCEPT ![t] = [Refresh!Idle EXCEPT !.pc = "lock", !.job = id]]
<1>1. jobs \in Seq(JobRows) /\ Len(jobs) \in Nat /\ DOMAIN jobs = 1..Len(jobs)
      /\ \A j \in DOMAIN jobs : JobOK(j) /\ jobs[j] \in JobRows
  BY RefreshFacts
<1>2. \A x \in Triggers : Refresh!Priority(x) \in 0..2  BY DEF Refresh!Priority, Triggers
<1>3. k \in Triggers /\ \A j \in DOMAIN jobs : jobs[j].kind \in Triggers
  BY <1>1, TriggersAssumption DEF JobRows, Triggers
<1>4. CASE Refresh!WithStatus("pending") # {}
  <2>1. PICK job \in DOMAIN jobs : /\ jobs[job].status = "pending" /\ id = job /\ UNCHANGED doing
                                   /\ jobs' = [jobs EXCEPT ![job].kind = Refresh!Merged(@, k)]
    BY <1>4 DEF Refresh!Enqueue, Refresh!WithStatus
  <2>2. job = Len(jobs) /\ jobs[job].seen \subseteq Refresh!Saved
        /\ \A j \in DOMAIN jobs : j # job => jobs[j].status # "pending"
    BY <1>1, <2>1 DEF JobOK
  <2>3. PICK row \in JobRows : row = jobs[job]  BY <1>1
  <2>4. PICK merged \in Kinds : /\ merged = Refresh!Merged(row.kind, k)
                                /\ Refresh!Priority(merged) >= Refresh!Priority(k)
                                /\ Refresh!Priority(merged) >= Refresh!Priority(row.kind)
    <3>1. row.kind \in Kinds /\ row.kind \in Triggers  BY <1>3, <2>3 DEF JobRows
    <3>2. Refresh!Priority(row.kind) \in 0..2 /\ Refresh!Priority(k) \in 0..2  BY <1>2, <1>3, <3>1
    <3>3. CASE Refresh!Priority(k) > Refresh!Priority(row.kind)
      <4>1. Refresh!Merged(row.kind, k) = k  BY <3>3 DEF Refresh!Merged
      <4>2. QED  BY <3>2, <3>3, <4>1
    <3>4. CASE ~(Refresh!Priority(k) > Refresh!Priority(row.kind))
      <4>1. Refresh!Merged(row.kind, k) = row.kind  BY <3>4 DEF Refresh!Merged
      <4>2. QED  BY <3>1, <3>2, <3>4, <4>1
    <3>5. QED  BY <3>3, <3>4
  <2>. DEFINE new == [row EXCEPT !.kind = merged]
  <2>5. new \in JobRows /\ new.status = row.status /\ new.kind = merged /\ new.seen = row.seen  BY DEF JobRows
  <2>6. jobs' = [jobs EXCEPT ![job] = new]  BY <2>1, <2>3, <2>4
  <2>. HIDE DEF new
  <2>7. /\ [jobs EXCEPT ![job] = new] \in Seq(JobRows) /\ Len([jobs EXCEPT ![job] = new]) = Len(jobs)
        /\ \A j \in 1..Len(jobs) : [jobs EXCEPT ![job] = new][j] = IF j = job THEN new ELSE jobs[j]
    BY <1>1, <2>5, ExceptSeq
  <2>8. /\ jobs' \in Seq(JobRows) /\ Len(jobs') = Len(jobs)
        /\ \A j \in 1..Len(jobs) : jobs'[j] = IF j = job THEN new ELSE jobs[j]
    BY <2>6, <2>7
  <2>9. DOMAIN jobs' = 1..Len(jobs')  BY <2>8, LenProperties
  <2>10. jobs'[id] = new /\ \A j \in DOMAIN jobs : j # id => jobs'[j] = jobs[j]  BY <1>1, <2>1, <2>8
  <2>11. /\ jobs'[id].status = "pending" /\ Refresh!Priority(jobs'[id].kind) >= Refresh!Priority(k)
         /\ jobs'[id].seen \subseteq Refresh!Saved /\ jobs[id].status = "pending"
         /\ Refresh!Priority(jobs'[id].kind) >= Refresh!Priority(jobs[id].kind)
    BY <2>1, <2>2, <2>3, <2>4, <2>5, <2>10
  <2>12. /\ Len(jobs') \in Nat /\ Len(jobs') >= Len(jobs) /\ DOMAIN jobs' = DOMAIN jobs /\ id = Len(jobs') /\ id \in DOMAIN jobs
    BY <1>1, <2>1, <2>2, <2>8, <2>9
  <2>13. QED  BY <2>1, <2>2, <2>8, <2>9, <2>10, <2>11, <2>12
<1>5. CASE Refresh!WithStatus("pending") = {}
  <2>. DEFINE new == [kind |-> k, status |-> "pending", note |-> "", seen |-> {}]
  <2>1. jobs' = Append(jobs, new) /\ id = Len(jobs) + 1
        /\ (UNCHANGED doing \/ Refresh!Spawn(id))
    BY <1>5 DEF Refresh!Enqueue
  <2>2. new \in JobRows /\ new.status = "pending" /\ new.kind = k /\ new.seen = {}  BY DEF JobRows
  <2>. HIDE DEF new
  <2>3. /\ Append(jobs, new) \in Seq(JobRows) /\ Len(Append(jobs, new)) = Len(jobs) + 1
        /\ \A j \in 1..Len(jobs) : Append(jobs, new)[j] = jobs[j]
        /\ Append(jobs, new)[Len(jobs) + 1] = new
    BY <1>1, <2>2, AppendProperties
  <2>4. /\ jobs' \in Seq(JobRows) /\ Len(jobs') = Len(jobs) + 1 /\ jobs'[id] = new
        /\ \A j \in DOMAIN jobs : jobs'[j] = jobs[j]
    BY <1>1, <2>1, <2>3
  <2>5. DOMAIN jobs' = 1..Len(jobs')  BY <2>4, LenProperties
  <2>6. \A j \in DOMAIN jobs : jobs[j].status # "pending"  BY <1>5 DEF Refresh!WithStatus
  <2>7. /\ id \notin DOMAIN jobs /\ id \in DOMAIN jobs' /\ id = Len(jobs') /\ Len(jobs') \in Nat /\ Len(jobs') >= Len(jobs)
        /\ \A j \in DOMAIN jobs' : j \in DOMAIN jobs \/ j = id
    BY <1>1, <2>1, <2>4, <2>5
  <2>8. Refresh!Priority(jobs'[id].kind) >= Refresh!Priority(k)  BY <1>2, <1>3, <2>2, <2>4
  <2>9. \/ UNCHANGED doing
        \/ \E t \in Threads : /\ doing[t].pc = "idle"
                              /\ doing' = [doing EXCEPT ![t] = [Refresh!Idle EXCEPT !.pc = "lock", !.job = id]]
    BY <2>1 DEF Refresh!Spawn
  <2>10. QED  BY <2>2, <2>4, <2>5, <2>6, <2>7, <2>8, <2>9
<1>6. QED  BY <1>4, <1>5

(* The answer that asked, if an answer did, names the job.                 *)
LEMMA RequestKeeps ==
  ASSUME RefreshIInv, NEW k \in Kinds, NEW id \in 1..(Len(jobs) + 1), Refresh!Enqueue(k, id),
         UNCHANGED <<lock, session, clock>>,
         happened' \in [manual : Nat, confirms : Nat, retries : Nat, crashes : Nat],
         happened'.manual = happened.manual,
         answer' \in [Answers -> AnswerRows],
         \A a \in Answers : \/ answer'[a] = answer[a]
                            \/ /\ answer[a].pc = "request" /\ answer'[a].pc = "requested" /\ answer'[a].job = id
                               /\ answer[a].kind = k /\ answer'[a].kind = k /\ answer'[a].at = answer[a].at
  PROVE  RefreshIInv'
<1>1. /\ jobs' \in Seq(JobRows) /\ Len(jobs') \in Nat /\ Len(jobs') >= Len(jobs) /\ DOMAIN jobs' = 1..Len(jobs')
      /\ id \in DOMAIN jobs' /\ id = Len(jobs') /\ jobs'[id].status = "pending"
      /\ Refresh!Priority(jobs'[id].kind) >= Refresh!Priority(k) /\ jobs'[id].seen \subseteq Refresh!Saved
      /\ \A j \in DOMAIN jobs' : j \in DOMAIN jobs \/ j = id
      /\ \A j \in DOMAIN jobs : j # id => jobs[j].status # "pending" /\ jobs'[j] = jobs[j]
      /\ id \in DOMAIN jobs => /\ jobs[id].status = "pending"
                               /\ Refresh!Priority(jobs'[id].kind) >= Refresh!Priority(jobs[id].kind)
      /\ \/ UNCHANGED doing
         \/ \E t \in Threads : /\ doing[t].pc = "idle"
                               /\ doing' = [doing EXCEPT ![t] = [Refresh!Idle EXCEPT !.pc = "lock", !.job = id]]
  BY Enqueued
<1>2. \/ UNCHANGED doing
      \/ \E t \in Threads : /\ doing[t].pc = "idle"
                            /\ doing' = [doing EXCEPT ![t] = [Refresh!Idle EXCEPT !.pc = "lock", !.job = id]]
  BY <1>1
<1>3. /\ Len(jobs) \in Nat /\ DOMAIN jobs = 1..Len(jobs) /\ id \in Nat /\ DOMAIN jobs \subseteq DOMAIN jobs'
      /\ \A p \in Refresh!Runners : doing[p] \in RunRows
  <2>1. Len(jobs) \in Nat /\ DOMAIN jobs = 1..Len(jobs)  BY RefreshFacts
  <2>2. QED  BY <1>1, <2>1, RefreshFacts
<1>4. /\ doing' \in [Refresh!Runners -> RunRows]
      /\ \A p \in Refresh!Runners :
           \/ doing'[p] = doing[p]
           \/ /\ p \in Threads /\ doing[p].pc = "idle" /\ doing'[p].pc = "lock" /\ doing'[p].job = id
              /\ doing'[p].began = 0 /\ doing'[p].read = {}
  <2>1. CASE UNCHANGED doing  BY <2>1, RefreshFacts
  <2>2. ASSUME NEW t \in Threads, doing[t].pc = "idle",
               doing' = [doing EXCEPT ![t] = [Refresh!Idle EXCEPT !.pc = "lock", !.job = id]]
        PROVE  <1>4
    <3>1. PICK r \in RunRows : /\ r = [Refresh!Idle EXCEPT !.pc = "lock", !.job = id]
                               /\ r.pc = "lock" /\ r.job = id /\ r.began = 0 /\ r.read = {}
      BY <1>3, IdleRow
    <3>2. doing' = [doing EXCEPT ![t] = r]  BY <2>2, <3>1
    <3>3. doing \in [Refresh!Runners -> RunRows]  BY RefreshFacts
    <3>4. doing' \in [Refresh!Runners -> RunRows]  BY <3>2, <3>3
    <3>5. \A p \in Refresh!Runners : doing'[p] = IF p = t THEN r ELSE doing[p]  BY <3>2, <3>3
    <3>6. QED  BY <2>2, <3>1, <3>4, <3>5
  <2>3. QED  BY <1>2, <2>1, <2>2
<1>5. Refresh!Saved' = Refresh!Saved /\ Refresh!Evidence' = Refresh!Evidence
      /\ \A a \in Answers : answer'[a].at = answer[a].at /\ answer'[a].kind = answer[a].kind
  <2>1. \A a \in Answers : answer'[a].at = answer[a].at /\ answer'[a].kind = answer[a].kind  OBVIOUS
  <2>2. Refresh!Saved' = Refresh!Saved  BY DEF Refresh!Saved
  <2>3. \A a \in Refresh!Saved : a \in Answers  BY DEF Refresh!Saved
  <2>4. Refresh!Evidence' = Refresh!Evidence  BY <2>1, <2>2, <2>3 DEF Refresh!Evidence
  <2>5. QED  BY <2>1, <2>2, <2>4
<1>6. RefreshTyped'  BY <1>1, <1>4, RefreshFacts DEF RefreshTyped, Refresh!Runners
<1>7. SessionOK'
  <2>1. SessionOK /\ \A a \in Refresh!Evidence : a \in Answers
    BY RefreshFacts DEF Refresh!Evidence, Refresh!Saved
  <2>2. QED  BY <1>5, <2>1 DEF SessionOK
<1>8. AloneOK'
  <2>1. AloneOK /\ doing'[Manual] = doing[Manual]
        /\ \A t \in Threads : doing'[t].pc = "think" => doing'[t] = doing[t]
    BY <1>4, RefreshFacts
  <2>2. QED  BY <2>1 DEF AloneOK
<1>9. ASSUME NEW a \in Answers  PROVE AnswerOK(a)' /\ AnswerKept(a)'
  <2>1. AnswerOK(a) /\ AnswerKept(a) /\ answer[a] \in AnswerRows /\ answer[a].job \in Nat
    BY RefreshFacts DEF AnswerRows
  <2>2. CASE answer'[a] = answer[a]
    <3>1. AnswerOK(a)'  BY <1>1, <1>3, <2>1, <2>2 DEF AnswerOK
    <3>2. ASSUME answer[a].pc = "requested"  PROVE AnswerKept(a)'
      <4>1. PICK job \in DOMAIN jobs : job = answer[a].job  BY <3>2, RefreshFacts
      <4>2. CASE job = id
        <5>1. Refresh!Priority(jobs[job].kind) >= Refresh!Priority(answer[a].kind)
          BY <1>1, <2>1, <3>2, <4>1, <4>2 DEF AnswerKept
        <5>2. Refresh!Priority(jobs'[job].kind) >= Refresh!Priority(jobs[job].kind) /\ jobs'[job].status = "pending"
          BY <1>1, <4>1, <4>2
        <5>3. \A x \in Triggers : Refresh!Priority(x) \in 0..2  BY DEF Refresh!Priority, Triggers
        <5>4. jobs[job].kind \in Triggers /\ jobs'[job].kind \in Triggers /\ answer[a].kind \in Triggers
          <6>1. jobs[job] \in JobRows /\ jobs'[job] \in JobRows  BY <1>1, <4>1, <4>2, RefreshFacts, ElementOfSeq
          <6>2. QED  BY <2>1, <6>1, TriggersAssumption DEF JobRows, AnswerRows, Triggers
        <5>5. Refresh!Priority(jobs'[job].kind) >= Refresh!Priority(answer[a].kind)  BY <5>1, <5>2, <5>3, <5>4
        <5>6. QED  BY <2>2, <4>1, <5>2, <5>5 DEF AnswerKept
      <4>3. CASE job # id
        <5>1. jobs'[job] = jobs[job]  BY <1>1, <4>1, <4>3
        <5>2. jobs[job].status = "updating" => lock \in Threads /\ doing[lock].pc \in Working
          BY <4>1, RefreshFacts DEF JobOK
        <5>3. jobs[job].status = "updating" => doing'[lock] = doing[lock]
          BY <1>4, <5>2, RefreshFacts DEF Working
        <5>4. QED  BY <2>1, <2>2, <3>2, <4>1, <5>1, <5>3 DEF AnswerKept, Later
      <4>4. QED  BY <4>2, <4>3
    <3>3. QED  BY <2>2, <3>1, <3>2 DEF AnswerKept
  <2>3. CASE answer'[a] # answer[a]
    <3>1. /\ answer[a].pc = "request" /\ answer'[a].pc = "requested" /\ answer'[a].job = id /\ answer'[a].kind = k
          /\ answer'[a].at = answer[a].at
      BY <2>3
    <3>2. AnswerOK(a)'  BY <1>1, <1>3, <2>1, <3>1 DEF AnswerOK
    <3>3. jobs'[answer'[a].job].status = "pending"
          /\ Refresh!Priority(jobs'[answer'[a].job].kind) >= Refresh!Priority(answer'[a].kind)
      BY <1>1, <3>1
    <3>4. QED  BY <3>2, <3>3 DEF AnswerKept
  <2>4. QED  BY <2>2, <2>3
<1>10. \A j \in DOMAIN jobs' : JobOK(j)'
  <2>1. JobOK(id)'  BY <1>1, <1>5 DEF JobOK
  <2>2. ASSUME NEW j \in DOMAIN jobs, j # id  PROVE JobOK(j)'
    <3>1. JobOK(j) /\ jobs'[j] = jobs[j] /\ jobs[j].status # "pending"  BY <1>1, <2>2, RefreshFacts
    <3>2. jobs[j].status = "updating" => doing'[lock] = doing[lock]
      BY <1>4, <3>1, RefreshFacts DEF JobOK, Working
    <3>3. QED  BY <1>5, <3>1, <3>2 DEF JobOK
  <2>3. QED  BY <1>1, <2>1, <2>2
<1>11. ASSUME NEW q \in Refresh!Runners  PROVE RunnerOK(q)'
  <2>1. RunnerOK(q) /\ clock >= 2 /\ clock \in Nat /\ \A a \in Refresh!Evidence : a \in Answers
    BY RefreshFacts DEF SessionOK, Refresh!Evidence, Refresh!Saved
  <2>2. CASE doing'[q] = doing[q]  BY <1>5, <2>1, <2>2 DEF RunnerOK
  <2>3. CASE doing'[q] # doing[q]
    <3>1. doing'[q].pc = "lock" /\ doing'[q].began = 0 /\ doing'[q].read = {}  BY <1>4, <2>3
    <3>2. QED  BY <2>1, <3>1 DEF RunnerOK
  <2>4. QED  BY <2>2, <2>3
<1>12. ASSUME NEW t \in Threads  PROVE ThreadOK(t)'
  <2>1. ThreadOK(t) /\ t \in Refresh!Runners  BY RefreshFacts
  <2>2. CASE doing'[t] = doing[t]
    <3>1. doing[t].pc # "idle" => doing[t].job \in DOMAIN jobs /\ doing[t].job \in DOMAIN jobs'
      BY <1>3, <2>1 DEF ThreadOK
    <3>2. doing[t].pc \in Working => jobs'[doing[t].job].status = "updating"
      BY <1>1, <2>1, <3>1 DEF ThreadOK, Working
    <3>3. QED  BY <1>1, <2>1, <2>2, <3>1, <3>2 DEF ThreadOK
  <2>3. CASE doing'[t] # doing[t]
    <3>1. doing'[t].pc = "lock" /\ doing'[t].job = id /\ doing'[t].read = {}  BY <1>4, <2>1, <2>3
    <3>2. QED  BY <1>1, <3>1 DEF ThreadOK, Working
  <2>4. QED  BY <2>2, <2>3
<1>13. QED  BY <1>6, <1>7, <1>8, <1>9, <1>10, <1>11, <1>12 DEF RefreshIInv, Refresh!Runners

LEMMA RequestsRefresh ==
  ASSUME RefreshIInv, NEW a \in Answers, Refresh!RequestRefresh(a)
  PROVE  RefreshIInv'
<1>1. PICK old \in AnswerRows : old = answer[a]  BY RefreshFacts
<1>2. PICK id \in 1..(Len(jobs) + 1) :
        /\ old.pc = "request" /\ Refresh!Enqueue(old.kind, id) /\ UNCHANGED <<lock, session, clock, happened>>
        /\ answer' = [answer EXCEPT ![a].pc = "requested", ![a].job = id]
  BY <1>1 DEF Refresh!RequestRefresh
<1>3. old.kind \in Kinds /\ answer \in [Answers -> AnswerRows] /\ id \in Nat
  BY <1>1, <1>2, RefreshFacts DEF AnswerOK
<1>. DEFINE new == [old EXCEPT !.pc = "requested", !.job = id]
<1>4. new \in AnswerRows /\ new.pc = "requested" /\ new.job = id /\ new.kind = old.kind /\ new.at = old.at
  BY <1>3 DEF AnswerRows
<1>5. answer' = [answer EXCEPT ![a] = new]  BY <1>1, <1>2, <1>3
<1>. HIDE DEF new
<1>6. answer' \in [Answers -> AnswerRows] /\ answer'[a] = new /\ \A b \in Answers : b # a => answer'[b] = answer[b]
  BY <1>3, <1>4, <1>5
<1>7. \A b \in Answers : \/ answer'[b] = answer[b]
                         \/ /\ answer[b].pc = "request" /\ answer'[b].pc = "requested" /\ answer'[b].job = id
                            /\ answer[b].kind = old.kind /\ answer'[b].kind = old.kind /\ answer'[b].at = answer[b].at
  BY <1>1, <1>2, <1>4, <1>6
<1>8. happened' \in [manual : Nat, confirms : Nat, retries : Nat, crashes : Nat] /\ happened'.manual = happened.manual
  BY <1>2, RefreshFacts
<1>9. PICK k \in Kinds : k = old.kind  BY <1>3
<1>10. QED  BY <1>2, <1>6, <1>7, <1>8, <1>9, RequestKeeps

LEMMA Retries ==
  ASSUME RefreshIInv, Refresh!Retry
  PROVE  RefreshIInv'
<1>1. PICK job \in DOMAIN jobs, id \in 1..(Len(jobs) + 1) :
        /\ Refresh!Enqueue(jobs[job].kind, id) /\ UNCHANGED <<answer, lock, session, clock>>
        /\ happened' = [happened EXCEPT !.retries = @ + 1]
  BY DEF Refresh!Retry
<1>2. PICK k \in Kinds : k = jobs[job].kind  BY RefreshFacts DEF JobRows
<1>3. happened' \in [manual : Nat, confirms : Nat, retries : Nat, crashes : Nat] /\ happened'.manual = happened.manual
  <2>1. happened \in [manual : Nat, confirms : Nat, retries : Nat, crashes : Nat]  BY RefreshFacts
  <2>2. PICK n \in Nat : n = happened.retries + 1  BY <2>1
  <2>3. happened' = [happened EXCEPT !.retries = n]  BY <1>1, <2>2
  <2>4. QED  BY <2>1, <2>3
<1>4. answer' \in [Answers -> AnswerRows] /\ \A a \in Answers : answer'[a] = answer[a]  BY <1>1, RefreshFacts
<1>5. QED  BY <1>1, <1>2, <1>3, <1>4, RequestKeeps

-----------------------------------------------------------------------------
(* Every step, and what the invariant says of the properties.              *)

LEMMA RefreshBegins == Refresh!Init => RefreshIInv
<1>1. SUFFICES ASSUME Refresh!Init  PROVE RefreshIInv  OBVIOUS
<1>2. /\ answer = [a \in Answers |-> [pc |-> "none", kind |-> "qa_answer", at |-> 0, job |-> 0]]
      /\ jobs = <<>> /\ doing = [p \in Refresh!Runners |-> Refresh!Idle] /\ lock = None /\ clock = 2
      /\ happened = [manual |-> 0, confirms |-> 0, retries |-> 0, crashes |-> 0]
  BY <1>1 DEF Refresh!Init
<1>3. PICK confirmed \in BOOLEAN :
        session = [built |-> {}, revision |-> 1, stage |-> IF confirmed THEN "proposal" ELSE "purpose",
                   confirmedAt |-> IF confirmed THEN 1 ELSE 0, confirmedRevision |-> IF confirmed THEN 1 ELSE 0,
                   rebuiltAt |-> 0, revised |-> FALSE]
  BY <1>1 DEF Refresh!Init
<1>4. session \in SessionRows /\ session.built = {} /\ session.rebuiltAt = 0 /\ session.confirmedAt \in 0..1
  <2>1. CASE confirmed  BY <1>3, <2>1 DEF SessionRows
  <2>2. CASE ~confirmed  BY <1>3, <2>2 DEF SessionRows
  <2>3. QED  BY <2>1, <2>2
<1>5. /\ answer \in [Answers -> AnswerRows]
      /\ \A a \in Answers : answer[a].pc = "none" /\ answer[a].job = 0 /\ answer[a].kind = "qa_answer"
  BY <1>2 DEF AnswerRows, Triggers
<1>6. doing \in [Refresh!Runners -> RunRows] /\ \A p \in Refresh!Runners :
        doing[p].pc = "idle" /\ doing[p].read = {} /\ doing[p].began = 0
  BY <1>2, IdleRow
<1>7. jobs \in Seq(JobRows) /\ Len(jobs) = 0 /\ DOMAIN jobs = {}
  BY <1>2, EmptySeq
<1>8. Refresh!Saved = {} /\ Refresh!Evidence = {}  BY <1>5 DEF Refresh!Saved, Refresh!Evidence
<1>9. RefreshTyped  BY <1>2, <1>4, <1>5, <1>6, <1>7 DEF RefreshTyped
<1>10. SessionOK  BY <1>2, <1>4, <1>8 DEF SessionOK
<1>11. AloneOK  BY <1>6, NobodyAssumption DEF AloneOK, Refresh!Runners
<1>12. ASSUME NEW a \in Answers  PROVE AnswerOK(a) /\ AnswerKept(a)
  <2>1. answer[a].pc = "none" /\ answer[a].kind = "qa_answer"  BY <1>5
  <2>2. answer[a].job <= Len(jobs)  BY <1>5, <1>7
  <2>3. QED  BY <2>1, <2>2 DEF AnswerOK, AnswerKept
<1>13. \A p \in Refresh!Runners : RunnerOK(p)  BY <1>2, <1>6 DEF RunnerOK
<1>14. \A t \in Threads : ThreadOK(t)  BY <1>6 DEF ThreadOK, Working, Refresh!Runners
<1>15. QED  BY <1>7, <1>9, <1>10, <1>11, <1>12, <1>13, <1>14 DEF RefreshIInv

LEMMA RefreshSteps ==
  ASSUME RefreshIInv, [Refresh!Next]_refreshing
  PROVE  RefreshIInv'
<1>1. CASE UNCHANGED refreshing
  <2>1. UNCHANGED <<answer, jobs, doing, lock, session, clock, happened>>  BY <1>1 DEF refreshing
  <2>2. /\ SessionOK' /\ AloneOK'
    BY <2>1, RefreshFacts DEF SessionOK, AloneOK, Refresh!Evidence, Refresh!Saved
  <2>3. RefreshTyped'  BY <2>1, RefreshFacts DEF RefreshTyped, Refresh!Runners
  <2>4. \A a \in Answers : AnswerOK(a)' /\ AnswerKept(a)'
    BY <2>1, RefreshFacts DEF AnswerOK, AnswerKept, Later
  <2>5. \A j \in DOMAIN jobs' : JobOK(j)'  BY <2>1, RefreshFacts DEF JobOK, Refresh!Saved
  <2>6. \A p \in Refresh!Runners : RunnerOK(p)'
    BY <2>1, RefreshFacts DEF RunnerOK, Refresh!Evidence, Refresh!Saved
  <2>7. \A t \in Threads : ThreadOK(t)'  BY <2>1, RefreshFacts DEF ThreadOK
  <2>8. QED  BY <2>2, <2>3, <2>4, <2>5, <2>6, <2>7 DEF RefreshIInv, Refresh!Runners
<1>2. ASSUME NEW a \in Answers, Refresh!SaveAnswer(a) \/ Refresh!RequestRefresh(a)  PROVE RefreshIInv'
  BY <1>2, SavesAnswer, RequestsRefresh
<1>3. ASSUME NEW p \in Refresh!Runners, Refresh!Rebuild(p)  PROVE RefreshIInv'
  BY <1>3, BeginsRebuild, ReadsEvidence, PersistsResult, FailsJob DEF Refresh!Rebuild
<1>4. ASSUME NEW t \in Threads, Refresh!ThreadStep(t)  PROVE RefreshIInv'
  <2>1. t \in Refresh!Runners  BY DEF Refresh!Runners
  <2>2. CASE Refresh!Acquire(t)  BY <2>2, TakesLock
  <2>3. CASE Refresh!StartJob(t)  BY <2>3, StartsJob
  <2>4. CASE Refresh!Rebuild(t)  BY <1>3, <2>1, <2>4
  <2>5. CASE Refresh!ReadIntents(t)  BY <2>5, ReadsIntents
  <2>6. CASE Refresh!Finish(t)  BY <2>6, FinishesJob
  <2>7. CASE Refresh!Drain(t)  BY <2>7, LooksForNext
  <2>8. QED  BY <1>4, <2>2, <2>3, <2>4, <2>5, <2>6, <2>7 DEF Refresh!ThreadStep
<1>5. CASE Refresh!ManualRebuild  BY <1>5, RebuildsByHand
<1>6. CASE Refresh!Rebuild(Manual)
  <2>1. Manual \in Refresh!Runners  BY DEF Refresh!Runners
  <2>2. QED  BY <1>3, <1>6, <2>1
<1>7. CASE Refresh!Confirm  BY <1>7, Confirms
<1>8. CASE Refresh!Retry  BY <1>8, Retries
<1>9. CASE Refresh!Restart  BY <1>9, Restarts
<1>10. QED  BY <1>1, <1>2, <1>4, <1>5, <1>6, <1>7, <1>8, <1>9 DEF Refresh!Next

LEMMA RefreshImplied == RefreshIInv => RefreshInv
<1>1. SUFFICES ASSUME RefreshIInv  PROVE Refresh!TypeOK /\ Refresh!AtMostOneOfEach /\ Refresh!NoAnswerIsLost
  BY DEF RefreshInv, Refresh!RefreshInv
<1>2. Refresh!TypeOK
  <2>1. \A a \in Answers : /\ answer[a].pc \in {"none", "request", "requested", "forgotten"}
                           /\ answer[a].job \in 0..Len(jobs)
    <3>1. ASSUME NEW a \in Answers
          PROVE answer[a].pc \in {"none", "request", "requested", "forgotten"} /\ answer[a].job \in 0..Len(jobs)
      <4>1. /\ answer[a].pc \in {"none", "request", "requested", "forgotten"} /\ answer[a].job \in Nat
            /\ Len(jobs) \in Nat /\ answer[a].job <= Len(jobs)
        BY <1>1, RefreshFacts DEF AnswerRows, AnswerOK
      <4>2. QED  BY <4>1
    <3>2. QED  BY <3>1
  <2>2. \A a \in Answers : answer[a].kind \in Kinds \cup {"qa_answer"}
    BY <1>1, RefreshFacts DEF AnswerOK
  <2>3. \A j \in DOMAIN jobs : /\ jobs[j].status \in {"pending", "updating", "updated", "failed", "stale"}
                               /\ jobs[j].kind \in Kinds /\ jobs[j].seen \subseteq Refresh!Saved
    BY <1>1, RefreshFacts DEF JobRows, JobOK
  <2>4. lock \in Threads \cup {None} /\ session.built \subseteq Refresh!Evidence /\ session.rebuiltAt < clock
    BY <1>1, RefreshFacts DEF SessionOK
  <2>5. QED  BY <2>1, <2>2, <2>3, <2>4 DEF Refresh!TypeOK
<1>3. Refresh!AtMostOneOfEach
  <2>1. \A j \in Refresh!WithStatus("pending") : j = Len(jobs)
    BY <1>1, RefreshFacts DEF JobOK, Refresh!WithStatus
  <2>2. /\ \A j \in Refresh!WithStatus("updating") : lock \in Threads /\ doing[lock].job = j
        /\ \A j \in Refresh!WithStatus("updating") : \E t \in Threads : doing[t].job = j /\ lock = t
    BY <1>1, RefreshFacts DEF JobOK, Refresh!WithStatus
  <2>3. Cardinality(Refresh!WithStatus("updating")) <= 1
    <3>1. CASE Refresh!WithStatus("updating") = {}
      BY <3>1, FS_EmptySet
    <3>2. CASE Refresh!WithStatus("updating") # {}
      <4>1. PICK job : job = doing[lock].job  OBVIOUS
      <4>2. Refresh!WithStatus("updating") = {job}  BY <2>2, <3>2, <4>1
      <4>3. Cardinality({job}) = 1  BY FS_Singleton
      <4>4. QED  BY <4>2, <4>3
    <3>3. QED  BY <3>1, <3>2
  <2>4. \A j \in Refresh!WithStatus("updating") : \E t \in Threads : doing[t].job = j /\ lock = t
    BY <2>2
  <2>5. QED  BY <2>1, <2>3, <2>4 DEF Refresh!AtMostOneOfEach, Refresh!Cardinality, Cardinality
<1>4. Refresh!NoAnswerIsLost
  <2>1. SUFFICES ASSUME NEW a \in Answers, answer[a].pc = "requested"
        PROVE  LET k == answer[a].kind  j == answer[a].job IN
                 CASE jobs[j].status = "pending" -> Refresh!Priority(jobs[j].kind) >= Refresh!Priority(k)
                   [] jobs[j].status = "updating" ->
                        Refresh!ReadsLater(j, k)
                        \/ \E t \in Threads : doing[t].job = j /\ (a \in doing[t].read \/ doing[t].pc = "fail")
                   [] jobs[j].status = "updated" /\ jobs[j].note \in {"", "alignment"} -> a \in jobs[j].seen
                   [] OTHER -> jobs[j].note # "" \/ jobs[j].status = "stale"
    BY DEF Refresh!NoAnswerIsLost
  <2>2. PICK job \in DOMAIN jobs : job = answer[a].job  BY <1>1, <2>1, RefreshFacts
  <2>3. AnswerKept(a) /\ JobOK(job) /\ jobs[job] \in JobRows  BY <1>1, RefreshFacts
  <2>4. CASE jobs[job].status = "pending"  BY <2>1, <2>2, <2>3, <2>4 DEF AnswerKept
  <2>5. CASE jobs[job].status = "updating"
    <3>1. lock \in Threads /\ doing[lock].job = job  BY <2>3, <2>5 DEF JobOK
    <3>2. doing[lock].pc \in Later(answer[a].kind) \cup {"fail"} \/ a \in doing[lock].read
      BY <2>1, <2>2, <2>3, <2>5 DEF AnswerKept
    <3>3. \/ Refresh!ReadsLater(job, answer[a].kind)
          \/ \E t \in Threads : doing[t].job = job /\ (a \in doing[t].read \/ doing[t].pc = "fail")
      <4>1. CASE doing[lock].pc \in Later(answer[a].kind)
        BY <3>1, <4>1 DEF Refresh!ReadsLater, Later
      <4>2. CASE a \in doing[lock].read \/ doing[lock].pc = "fail"  BY <3>1, <4>2
      <4>3. QED  BY <3>2, <4>1, <4>2
    <3>4. QED  BY <2>2, <2>5, <3>3
  <2>6. CASE jobs[job].status = "updated"
    <3>1. jobs[job].note \in {"", "alignment"} => a \in jobs[job].seen  BY <2>1, <2>2, <2>3, <2>6 DEF AnswerKept
    <3>2. QED  BY <2>2, <2>6, <3>1
  <2>7. CASE jobs[job].status \in {"failed", "stale"}
    <3>1. jobs[job].note # "" \/ jobs[job].status = "stale"  BY <2>3, <2>7 DEF JobOK
    <3>2. QED  BY <2>2, <2>7, <3>1
  <2>8. jobs[job].status \in {"pending", "updating", "updated", "failed", "stale"}  BY <2>3 DEF JobRows
  <2>9. QED  BY <2>4, <2>5, <2>6, <2>7, <2>8
<1>5. QED  BY <1>2, <1>3, <1>4

(* Whatever the numbers of answers, threads, confirmations, retries and    *)
(* restarts: one pending and one running job, and no answer lost           *)
(* (interview_refresh.request_refresh, run_refresh_job).                   *)
THEOREM RefreshesHold == Refresh!Spec => []RefreshInv
<1>1. RefreshIInv /\ [Refresh!Next]_refreshing => RefreshIInv'  BY RefreshSteps
<1>2. QED  BY <1>1, RefreshBegins, RefreshImplied, PTL DEF Refresh!Spec, Refresh!vars, refreshing

(* Only the start of a job finds that nothing is new, while the session is *)
(* blocked, and then it is right.                                          *)
LEMMA OnlyStartSkips ==
  ASSUME RefreshIInv, Refresh!Next, NEW j \in DOMAIN jobs, Refresh!Closes(j, "no_new_answers")
  PROVE  Refresh!Blocked
<1>1. jobs[j].status = "pending" /\ jobs'[j].status = "updated" /\ jobs'[j].note = "no_new_answers"
  BY DEF Refresh!Closes, Refresh!WithStatus
<1>2. jobs \in [1..Len(jobs) -> JobRows] /\ DOMAIN jobs = 1..Len(jobs)  BY RefreshFacts, LenProperties
<1>3. PICK row \in JobRows : row = jobs[j] /\ row.status = "pending"  BY <1>1, RefreshFacts
<1>4. jobs' # jobs  BY <1>1
<1>5. ASSUME NEW k \in Kinds, NEW id \in 1..(Len(jobs) + 1), Refresh!Enqueue(k, id)  PROVE FALSE
  <2>1. id \in DOMAIN jobs' /\ jobs'[id].status = "pending"
        /\ \A i \in DOMAIN jobs : i # id => jobs[i].status # "pending" /\ jobs'[i] = jobs[i]
    BY <1>5, Enqueued
  <2>2. QED  BY <1>1, <2>1
<1>6. ASSUME NEW a \in Answers, Refresh!SaveAnswer(a) \/ Refresh!RequestRefresh(a)  PROVE FALSE
  <2>1. CASE Refresh!SaveAnswer(a)  BY <1>4, <2>1 DEF Refresh!SaveAnswer
  <2>2. CASE Refresh!RequestRefresh(a)
    <3>1. answer[a].kind \in Kinds  BY <2>2, RefreshFacts DEF Refresh!RequestRefresh, AnswerOK
    <3>2. QED  BY <1>5, <2>2, <3>1 DEF Refresh!RequestRefresh
  <2>3. QED  BY <1>6, <2>1, <2>2
<1>7. ASSUME NEW t \in Threads, Refresh!StartJob(t)  PROVE Refresh!Blocked
  <2>1. PICK job \in DOMAIN jobs : job = doing[t].job
    BY <1>7, RefreshFacts DEF ThreadOK, Refresh!StartJob
  <2>2. \/ jobs' = IF jobs[job].status = "pending" THEN [jobs EXCEPT ![job].status = "stale"] ELSE jobs
        \/ jobs' = [jobs EXCEPT ![job].status = "updated", ![job].note = "premise"]
        \/ Refresh!Blocked
        \/ jobs' = [jobs EXCEPT ![job].status = "updating", ![job].note = ""]
    BY <1>7, <2>1 DEF Refresh!StartJob, Refresh!CloseJob
  <2>3. PICK old \in JobRows : old = jobs[job]  BY RefreshFacts
  <2>4. CASE jobs' = IF jobs[job].status = "pending" THEN [jobs EXCEPT ![job].status = "stale"] ELSE jobs
    <3>1. jobs' = [jobs EXCEPT ![job].status = "stale"]  BY <1>4, <2>4
    <3>2. QED  BY <1>1, <1>2, <3>1 DEF JobRows
  <2>5. CASE jobs' = [jobs EXCEPT ![job].status = "updated", ![job].note = "premise"]
    BY <1>1, <1>2, <2>5 DEF JobRows
  <2>6. CASE jobs' = [jobs EXCEPT ![job].status = "updating", ![job].note = ""]
    BY <1>1, <1>2, <2>6 DEF JobRows
  <2>7. QED  BY <2>2, <2>4, <2>5, <2>6
<1>8. ASSUME NEW p \in Refresh!Runners, Refresh!Rebuild(p)  PROVE FALSE
  <2>1. Refresh!Fail(p) /\ p # Manual
    BY <1>4, <1>8 DEF Refresh!Rebuild, Refresh!Begin, Refresh!ReadEvidence, Refresh!Persist, Refresh!Fail
  <2>2. jobs' = [jobs EXCEPT ![doing[p].job].status = "failed", ![doing[p].job].note = "error"]
    BY <2>1 DEF Refresh!Fail, Refresh!CloseJob
  <2>3. QED  BY <1>1, <1>2, <2>2 DEF JobRows
<1>9. ASSUME NEW t \in Threads, Refresh!Finish(t)  PROVE FALSE
  <2>1. PICK note \in {"", "alignment"} :
          jobs' = [jobs EXCEPT ![doing[t].job].status = "updated", ![doing[t].job].note = note,
                               ![doing[t].job].seen = doing[t].read]
    BY <1>9 DEF Refresh!Finish
  <2>2. PICK job : job = doing[t].job  OBVIOUS
  <2>3. jobs' = [jobs EXCEPT ![job].status = "updated", ![job].note = note, ![job].seen = doing[t].read]
    BY <2>1, <2>2
  <2>4. QED  BY <1>1, <1>2, <2>3 DEF JobRows
<1>10. ASSUME NEW t \in Threads, Refresh!ThreadStep(t)  PROVE Refresh!Blocked
  <2>1. t \in Refresh!Runners  BY DEF Refresh!Runners
  <2>2. CASE Refresh!Acquire(t) \/ Refresh!ReadIntents(t) \/ Refresh!Drain(t)
    BY <1>4, <2>2 DEF Refresh!Acquire, Refresh!ReadIntents, Refresh!Drain
  <2>3. QED  BY <1>7, <1>8, <1>9, <1>10, <2>1, <2>2 DEF Refresh!ThreadStep
<1>11. ASSUME Refresh!Retry  PROVE FALSE
  <2>1. \A i \in DOMAIN jobs : jobs[i].kind \in Kinds  BY RefreshFacts DEF JobRows
  <2>2. QED  BY <1>5, <1>11, <2>1 DEF Refresh!Retry
<1>12. ASSUME Refresh!Restart  PROVE FALSE
  <2>1. jobs'[j] = [jobs[j] EXCEPT !.status = "failed", !.note = "error"]
    BY <1>1, <1>12 DEF Refresh!Restart, Refresh!Interrupted
  <2>2. QED  BY <1>1, <1>3, <2>1 DEF JobRows
<1>13. ASSUME Refresh!ManualRebuild \/ Refresh!Confirm  PROVE FALSE
  BY <1>4, <1>13 DEF Refresh!ManualRebuild, Refresh!Confirm
<1>14. Manual \in Refresh!Runners  BY DEF Refresh!Runners
<1>15. QED  BY <1>6, <1>8, <1>10, <1>11, <1>12, <1>13, <1>14 DEF Refresh!Next

LEMMA SkipIsRight ==
  ASSUME RefreshIInv, Refresh!Blocked, NEW a \in Refresh!Saved, answer[a].kind = "qa_answer"
  PROVE  a \in session.built \/ answer[a].at < session.confirmedAt
<1>1. /\ a \in Answers /\ answer[a].pc # "none" /\ a \in Refresh!Evidence
  BY DEF Refresh!Saved, Refresh!Evidence
<1>2. /\ answer[a].at \in Nat /\ session.rebuiltAt \in Nat /\ session.confirmedAt \in Nat
      /\ answer[a].at # session.confirmedAt
      /\ answer[a].at <= session.rebuiltAt => a \in session.built
  BY <1>1, RefreshFacts DEF AnswerRows, SessionRows, AnswerOK, SessionOK
<1>3. answer[a].at <= session.rebuiltAt \/ answer[a].at <= session.confirmedAt
  BY DEF Refresh!Blocked, Refresh!Watermark
<1>4. QED  BY <1>2, <1>3

(* A thread has read all that was understood before it stores its result.  *)
LEMMA BuiltStays ==
  ASSUME RefreshIInv, Refresh!Next, happened.manual = 0
  PROVE  session.built \subseteq session'.built
<1>1. ASSUME NEW p \in Refresh!Runners, Refresh!Persist(p)  PROVE session.built \subseteq session'.built
  <2>1. doing[p].pc = "think"  BY <1>1 DEF Refresh!Persist
  <2>2. p \in Threads  BY <2>1, RefreshFacts DEF AloneOK, Refresh!Runners
  <2>3. session.built \subseteq doing[p].read  BY <2>1, <2>2, RefreshFacts DEF AloneOK
  <2>4. UNCHANGED session \/ session'.built = doing[p].read
    BY <1>1, RefreshFacts DEF Refresh!Persist, SessionRows
  <2>5. QED  BY <2>3, <2>4
<1>2. ASSUME NEW p \in Refresh!Runners, Refresh!Rebuild(p)  PROVE session.built \subseteq session'.built
  BY <1>1, <1>2 DEF Refresh!Rebuild, Refresh!Begin, Refresh!ReadEvidence, Refresh!Fail
<1>3. ASSUME NEW t \in Threads, Refresh!ThreadStep(t)  PROVE session.built \subseteq session'.built
  <2>1. t \in Refresh!Runners  BY DEF Refresh!Runners
  <2>2. QED  BY <1>2, <1>3, <2>1 DEF Refresh!ThreadStep, Refresh!Acquire, Refresh!StartJob,
                                     Refresh!ReadIntents, Refresh!Finish, Refresh!Drain
<1>4. ASSUME NEW a \in Answers, Refresh!SaveAnswer(a) \/ Refresh!RequestRefresh(a)
      PROVE  session.built \subseteq session'.built
  <2>1. UNCHANGED session \/ session' = [session EXCEPT !.revised = TRUE]
    BY <1>4 DEF Refresh!SaveAnswer, Refresh!RequestRefresh
  <2>2. QED  BY <2>1, RefreshFacts DEF SessionRows
<1>5. CASE Refresh!Confirm
  <2>1. session' = [session EXCEPT !.stage = "proposal", !.confirmedAt = clock, !.confirmedRevision = session.revision]
    BY <1>5 DEF Refresh!Confirm
  <2>2. QED  BY <2>1, RefreshFacts DEF SessionRows
<1>6. CASE Refresh!ManualRebuild \/ Refresh!Retry \/ Refresh!Restart
  BY <1>6 DEF Refresh!ManualRebuild, Refresh!Retry, Refresh!Restart
<1>7. Manual \in Refresh!Runners  BY DEF Refresh!Runners
<1>8. QED  BY <1>2, <1>3, <1>4, <1>5, <1>6, <1>7 DEF Refresh!Next

(* A job that finds nothing new is right, and without a manual rebuild no  *)
(* result overwrites a newer one (_understanding_update_blocked,           *)
(* _rebuild_understanding).                                                *)
THEOREM RefreshesKeep == Refresh!Spec => RefreshKeeps
<1>1. RefreshIInv /\ [Refresh!Next]_refreshing => RefreshIInv'  BY RefreshSteps
<1>2. RefreshIInv /\ [Refresh!Next]_refreshing =>
        [happened.manual = 0 => session.built \subseteq session'.built]_refreshing
  BY BuiltStays
<1>3. RefreshIInv /\ [Refresh!Next]_refreshing =>
        [\A j \in DOMAIN jobs : Refresh!Closes(j, "no_new_answers") =>
           \A a \in Refresh!Saved : answer[a].kind = "qa_answer" =>
             a \in session.built \/ answer[a].at < session.confirmedAt]_refreshing
  BY OnlyStartSkips, SkipIsRight
<1>4. Refresh!Spec => Refresh!NeverRegresses
  BY <1>1, <1>2, RefreshBegins, PTL DEF Refresh!Spec, Refresh!vars, refreshing, Refresh!NeverRegresses
<1>5. Refresh!Spec => Refresh!SkippedIsConfirmed
  BY <1>1, <1>3, RefreshBegins, PTL DEF Refresh!Spec, Refresh!vars, refreshing, Refresh!SkippedIsConfirmed
<1>6. QED  BY <1>4, <1>5 DEF RefreshKeeps

-----------------------------------------------------------------------------
(* Builds: where a thread may be, and the types of the rows.               *)
Stepping == {"new", "unready", "step", "check", "begin", "mark", "run", "save", "scan", "backoff", "call", "called"}
Closing == {"finalize", "write", "raised"}
AtStep == Stepping \ {"new", "unready", "step"}
Scans == {"scan", "backoff", "call", "called"}
Marks == {"cancelled", "blocked", "reused", "failed", "completed"}
TaskStates == {"none", "pending", "running", "completed", "failed", "cancelled"}
BuildRows == [status : JobStates, cancel : BOOLEAN, stale : BOOLEAN, pinned : BOOLEAN]
StepRow == [status : StepStates, cancel : BOOLEAN, reused : BOOLEAN]
StepRows == UNION {[names -> StepRow] : names \in SUBSET Steps}
MarkNames == Marks \cup {"", "part", "whole", "partial"}
ThreadRows ==
  [pc : {"idle", "gone"} \cup Stepping \cup Closing, build : Nat, at : Nat,
   mark : MarkNames, stop : BOOLEAN,
   todo : SUBSET Chunks, chunk : SUBSET Chunks, tries : Nat]

ThreadTyped(w) ==
  /\ worker[w].pc = "idle" => run[w] = "none"
  /\ worker[w].pc # "idle" => worker[w].build \in DOMAIN builds
  /\ worker[w].pc \in Stepping => worker[w].at # 0
  /\ worker[w].pc \in AtStep =>
       /\ worker[w].at \in DOMAIN StepOrder
       /\ StepOf(w) \in DOMAIN steps[worker[w].build]
  /\ worker[w].pc \in Scans => StepOf(w) = "claim_scan"
  /\ worker[w].pc = "save" => StepOf(w) # "claim_scan" /\ worker[w].mark \in {"part", "whole"}
  /\ worker[w].pc = "mark" => worker[w].mark \in Marks
  /\ worker[w].pc = "write" => worker[w].mark \in JobStates \ {"queued", "running"}

Typed ==
  /\ builds \in Seq(BuildRows) /\ steps \in Seq(StepRows) /\ tasks \in Seq([Chunks -> TaskStates])
  /\ Len(builds) <= MaxBuilds /\ Len(steps) = Len(builds) /\ Len(tasks) = Len(builds)
  /\ used.crashes = 0 => \A b \in DOMAIN builds : DOMAIN steps[b] = Steps
  /\ artifact \in [Stored -> {"none", "part", "whole"}] /\ newer \in BOOLEAN /\ ready \in BOOLEAN
  /\ worker \in [Workers -> ThreadRows] /\ run \in [Workers -> {"none"} \cup JobStates]
  /\ used \in [retries : Nat, cancels : Nat, crashes : Nat, failures : Nat, history : Nat]
  /\ \A w \in Workers : ThreadTyped(w)

(* A thread of the job w, not the request that finalises a cancelled job.  *)
OfJob(w) == Alive(w) /\ run[w] # "none"

(* A job looks lost only when no thread of it is alive; the request that   *)
(* finalises a job came after a crash and a cancellation; a job that is    *)
(* active has a thread unless the process died.                            *)
StaleIsLost == \A w \in Workers : OfJob(w) => ~builds[worker[w].build].stale
StepperIsOfJob == \A w \in Workers : worker[w].pc \in Stepping => run[w] # "none"
CancellerIsLate == \A w \in Workers : Alive(w) /\ run[w] = "none" =>
  /\ used.cancels > 0 /\ used.crashes > 0
  /\ worker[w].pc \in {"finalize", "write"}
  /\ worker[w].pc = "finalize" => worker[w].stop
  /\ worker[w].pc = "write" => worker[w].mark = "cancelled"
ActiveHasThread ==
  used.crashes = 0 => \A b \in DOMAIN builds : Active(b) => \E w \in Live(b) : run[w] # "none"
RaisedIsRare == \A w \in Workers : worker[w].pc = "raised" => used.history > 0 \/ used.crashes > 0

(* A job has one thread, and is not settled under it, but for the races    *)
(* after a retry.                                                          *)
SettledIsLate == \A w \in Workers : OfJob(w) /\ ~Active(worker[w].build) =>
  LateSettling \/ (worker[w].pc = "raised" /\ used.history > 0)
OneOfJob == \A v, w \in Workers :
  v # w /\ OfJob(w) /\ Alive(v) /\ worker[v].build = worker[w].build => LateSettling
OneStepper == \A v, w \in Workers :
  v # w /\ worker[v].pc \in Stepping /\ worker[w].pc \in Stepping /\ worker[v].build = worker[w].build => TwoThreads
RunOpen == used.crashes = 0 => \A w \in Workers :
  /\ ~Alive(w) => run[w] # "running"
  /\ OfJob(w) /\ worker[w].pc # "raised" => LateSettling \/ run[w] = "running"

ThreadInv ==
  /\ StaleIsLost /\ StepperIsOfJob /\ CancellerIsLate /\ ActiveHasThread /\ RaisedIsRare
  /\ SettledIsLate /\ OneOfJob /\ OneStepper /\ RunOpen

(* A thread that is at a step found it open, and one that runs it found    *)
(* what it depends on completed; both stay so under it.                    *)
Doing(w) ==
  \/ worker[w].pc \in AtStep \ {"mark"}
  \/ worker[w].pc = "mark" /\ worker[w].mark \in {"reused", "completed"}
StepIsOpen == ~TwoThreads => \A w \in Workers : worker[w].pc \in AtStep =>
  steps[worker[w].build][StepOf(w)].status # "completed"
StepIsMet == ~TwoThreads => \A w \in Workers : Doing(w) => Unmet(worker[w].build, StepOf(w)) = {}
ReusedIsDone == ~TwoThreads => \A b \in DOMAIN steps : \A s \in DOMAIN steps[b] :
  steps[b][s].reused => steps[b][s].status = "completed"
StepInv == StepIsOpen /\ StepIsMet /\ ReusedIsDone /\ DependenciesFirst

(* A thread that comes to the scan finds no chunk running, failed or       *)
(* cancelled; in the scan a chunk is scanned, has failed, is the one at    *)
(* hand or is still to come.                                               *)
Before(w) ==
  /\ \A i \in 1..worker[w].at - 1 : StepOrder[i] # "claim_scan"
  /\ worker[w].at \in DOMAIN StepOrder /\ StepOf(w) = "claim_scan" =>
       worker[w].pc \in {"new", "unready", "step", "check", "begin", "run"}
NothingLeft == ~LateSettling => \A w \in Workers : worker[w].pc \in Stepping /\ Before(w) =>
   \A c \in Chunks : tasks[worker[w].build][c] \in {"none", "pending", "completed"}
EveryChunk == ~LateSettling => \A w \in Workers : worker[w].pc \in Scans =>
   \A c \in Chunks : tasks[worker[w].build][c] \in {"completed", "failed"} \/ c \in worker[w].todo \/
      (worker[w].pc # "scan" /\ c \in worker[w].chunk)
MarkScanned == ~LateSettling => \A w \in Workers :
   worker[w].pc = "mark" /\ StepOf(w) = "claim_scan" /\ worker[w].mark = "completed" => Scanned(worker[w].build)
ScanInv == NothingLeft /\ EveryChunk /\ MarkScanned /\ ScanIsComplete

(* The graph, with no retry or at most two jobs: a job that reused a scan  *)
(* did so beside a graph that no scan has outdated since, so it reuses the *)
(* graph too; one that builds the graph has scanned all chunks itself.     *)
FewJobs == ~LateSettling /\ (used.retries = 0 \/ Len(builds) <= 2)
HasGraph == "understanding_graph" \in Stored
Graph == artifact["understanding_graph"]
OneActive == used.retries = 0 => \A v, w \in Workers :
  worker[v].pc \in Stepping /\ worker[w].pc \in Stepping => v = w
OneActiveB == used.retries = 0 => \A b, c \in DOMAIN builds : Active(b) /\ Active(c) => b = c
ScanDone(b) == "claim_scan" \in DOMAIN steps[b] /\ steps[b]["claim_scan"].status = "completed"
Reused(b) == ScanDone(b) /\ steps[b]["claim_scan"].reused
Reusing(w) == worker[w].pc = "mark" /\ StepOf(w) = "claim_scan" /\ worker[w].mark = "reused"
Scanning(w) == worker[w].pc \in Scans \cup {"begin", "run"} /\ StepOf(w) = "claim_scan"
GraphHasScan == HasGraph /\ ~TwoThreads /\ Graph # "none" => \E b \in DOMAIN builds : ScanDone(b)
ReusedIsFresh ==
  HasGraph /\ FewJobs /\ ((\E b \in DOMAIN builds : Reused(b)) \/ \E w \in Workers : Reusing(w)) =>
    Graph # "none" /\ ~newer /\ \A w \in Workers : ~Scanning(w)
OwnScan == HasGraph /\ FewJobs => \A w \in Workers :
   worker[w].pc \in {"begin", "run", "save"} /\ StepOf(w) = "understanding_graph" => ~Reused(worker[w].build)
SavesWhole == HasGraph /\ FewJobs => \A w \in Workers :
   worker[w].pc = "save" /\ StepOf(w) = "understanding_graph" => worker[w].mark = "whole"
GraphInv == OneActive /\ OneActiveB /\ GraphHasScan /\ ReusedIsFresh /\ OwnScan /\ SavesWhole /\ GraphIsWhole

-----------------------------------------------------------------------------
(* The steps of the pipeline are different strings.                        *)
LEMMA StepsFacts ==
  /\ StepOrder \in Seq(STRING) /\ DOMAIN StepOrder = 1..Len(StepOrder) /\ Len(StepOrder) \in Nat
  /\ \A i \in DOMAIN StepOrder : StepOrder[i] \in Steps
  /\ \A i, j \in DOMAIN StepOrder : StepOrder[i] = StepOrder[j] => i = j
<1>1. StepOrder \in Seq(STRING) /\ IsInjective(StepOrder)  BY PipelineAssumption
<1>2. \A i \in DOMAIN StepOrder : StepOrder[i] \in Steps  BY DEF Steps, Range
<1>3. \A i, j \in DOMAIN StepOrder : StepOrder[i] = StepOrder[j] => i = j  BY <1>1 DEF IsInjective
<1>4. DOMAIN StepOrder = 1..Len(StepOrder) /\ Len(StepOrder) \in Nat  BY <1>1, LenProperties
<1>. QED  BY <1>1, <1>2, <1>3, <1>4

(* What the types say of one build and of one thread.                      *)
LEMMA TypedFacts ==
  ASSUME Typed
  PROVE  /\ Len(builds) \in Nat /\ DOMAIN builds = 1..Len(builds)
         /\ DOMAIN steps = DOMAIN builds /\ DOMAIN tasks = DOMAIN builds
         /\ \A b \in DOMAIN builds :
              /\ builds[b] \in BuildRows /\ steps[b] \in StepRows /\ DOMAIN steps[b] \subseteq Steps
              /\ \A s \in DOMAIN steps[b] : steps[b][s] \in StepRow
              /\ tasks[b] \in [Chunks -> TaskStates]
         /\ \A w \in Workers :
              /\ worker[w] \in ThreadRows /\ run[w] \in {"none"} \cup JobStates /\ ThreadTyped(w)
              /\ worker[w].pc # "idle" => worker[w].build \in DOMAIN builds
<1>1. /\ builds \in Seq(BuildRows) /\ steps \in Seq(StepRows) /\ tasks \in Seq([Chunks -> TaskStates])
      /\ Len(steps) = Len(builds) /\ Len(tasks) = Len(builds)
  BY DEF Typed
<1>2. Len(builds) \in Nat /\ DOMAIN builds = 1..Len(builds)  BY <1>1, LenProperties
<1>3. DOMAIN steps = 1..Len(builds) /\ DOMAIN tasks = 1..Len(builds)
  <2>1. DOMAIN steps = 1..Len(steps) /\ DOMAIN tasks = 1..Len(tasks)  BY <1>1, LenProperties
  <2>. QED  BY <1>1, <2>1
<1>4. ASSUME NEW b \in DOMAIN builds
      PROVE /\ builds[b] \in BuildRows /\ steps[b] \in StepRows /\ DOMAIN steps[b] \subseteq Steps
            /\ \A s \in DOMAIN steps[b] : steps[b][s] \in StepRow
            /\ tasks[b] \in [Chunks -> TaskStates]
  <2>1. builds[b] \in BuildRows  BY <1>1, <1>2, ElementOfSeq
  <2>2. steps[b] \in StepRows  BY <1>1, <1>2, ElementOfSeq
  <2>3. tasks[b] \in [Chunks -> TaskStates]  BY <1>1, <1>2, ElementOfSeq
  <2>4. PICK names \in SUBSET Steps : steps[b] \in [names -> StepRow]  BY <2>2 DEF StepRows
  <2>. QED  BY <2>1, <2>2, <2>3, <2>4
<1>5. \A w \in Workers :
              /\ worker[w] \in ThreadRows /\ run[w] \in {"none"} \cup JobStates /\ ThreadTyped(w)
              /\ worker[w].pc # "idle" => worker[w].build \in DOMAIN builds
  BY DEF Typed, ThreadTyped
<1>. QED  BY <1>2, <1>3, <1>4, <1>5

(* A row of a sequence changes.                                            *)
LEMMA RowSet ==
  ASSUME NEW S, NEW list \in Seq(S), NEW b \in DOMAIN list, NEW e \in S
  PROVE  /\ [list EXCEPT ![b] = e] \in Seq(S) /\ Len([list EXCEPT ![b] = e]) = Len(list)
         /\ DOMAIN [list EXCEPT ![b] = e] = DOMAIN list
         /\ [list EXCEPT ![b] = e][b] = e
         /\ \A c \in DOMAIN list : c # b => [list EXCEPT ![b] = e][c] = list[c]
<1>1. b \in 1..Len(list)  BY LenProperties
<1>2. [list EXCEPT ![b] = e] \in Seq(S) /\ Len([list EXCEPT ![b] = e]) = Len(list)  BY <1>1, ExceptSeq
<1>. QED  BY <1>2

(* A thread moves to a row r, and list of tables keep their places.        *)
LEMMA Moves ==
  ASSUME Typed, NEW w \in Workers, NEW r \in ThreadRows,
         worker[w].pc # "idle", r.pc # "idle", r.build = worker[w].build,
         worker' = [worker EXCEPT ![w] = r],
         builds' \in Seq(BuildRows), Len(builds') = Len(builds),
         steps' \in Seq(StepRows), Len(steps') = Len(steps),
         \A b \in DOMAIN builds : DOMAIN steps'[b] = DOMAIN steps[b],
         tasks' \in Seq([Chunks -> TaskStates]), Len(tasks') = Len(tasks),
         artifact' \in [Stored -> {"none", "part", "whole"}], newer' \in BOOLEAN, ready' = ready,
         run' \in [Workers -> {"none"} \cup JobStates], \A v \in Workers : run[v] = "none" => run'[v] = "none",
         used' \in [retries : Nat, cancels : Nat, crashes : Nat, failures : Nat, history : Nat],
         used'.crashes = used.crashes,
         r.pc \in Stepping => r.at # 0,
         r.pc \in AtStep => r.at \in DOMAIN StepOrder /\ StepOrder[r.at] \in DOMAIN steps[r.build],
         r.pc \in Scans => StepOrder[r.at] = "claim_scan",
         r.pc = "save" => StepOrder[r.at] # "claim_scan" /\ r.mark \in {"part", "whole"},
         r.pc = "mark" => r.mark \in Marks,
         r.pc = "write" => r.mark \in JobStates \ {"queued", "running"}
  PROVE  Typed'
<1>1. /\ worker' \in [Workers -> ThreadRows] /\ worker'[w] = r
      /\ \A v \in Workers : v # w => worker'[v] = worker[v]
  BY DEF Typed
<1>2. DOMAIN builds' = DOMAIN builds /\ DOMAIN steps' = DOMAIN builds
  <2>1. DOMAIN builds' = 1..Len(builds') /\ DOMAIN steps' = 1..Len(steps')  BY LenProperties
  <2>. QED  BY <2>1, TypedFacts DEF Typed
<1>3. ThreadTyped(w)'
  <2>1. r.build \in DOMAIN builds  BY TypedFacts
  <2>. QED  BY <1>1, <1>2, <2>1 DEF ThreadTyped, StepOf
<1>4. ASSUME NEW v \in Workers, v # w  PROVE ThreadTyped(v)'
  <2>1. ThreadTyped(v) /\ worker'[v] = worker[v] /\ (worker[v].pc # "idle" => worker[v].build \in DOMAIN builds)
    BY <1>1, <1>4, TypedFacts
  <2>2. worker[v].pc \in AtStep => worker[v].pc # "idle"  BY DEF AtStep, Stepping
  <2>. QED  BY <1>2, <2>1, <2>2 DEF ThreadTyped, StepOf
<1>5. used'.crashes = 0 => \A b \in DOMAIN builds' : DOMAIN steps'[b] = Steps  BY <1>2 DEF Typed
<1>. QED  BY <1>1, <1>3, <1>4, <1>5 DEF Typed

(* A step that moves one thread and leaves every row alone.                *)
LEMMA QuietMoves ==
  ASSUME Typed, NEW w \in Workers, NEW r \in ThreadRows,
         worker[w].pc # "idle", r.pc # "idle", r.build = worker[w].build,
         worker' = [worker EXCEPT ![w] = r], UNCHANGED rows,
         used' = used \/ Count("failures"),
         r.pc \in Stepping => r.at # 0,
         r.pc \in AtStep => r.at \in DOMAIN StepOrder /\ StepOrder[r.at] \in DOMAIN steps[r.build],
         r.pc \in Scans => StepOrder[r.at] = "claim_scan",
         r.pc = "save" => StepOrder[r.at] # "claim_scan" /\ r.mark \in {"part", "whole"},
         r.pc = "mark" => r.mark \in Marks,
         r.pc = "write" => r.mark \in JobStates \ {"queued", "running"}
  PROVE  Typed'
<1>1. UNCHANGED <<builds, steps, tasks, artifact, newer, ready, run>>  BY DEF rows, results
<1>2. /\ used' \in [retries : Nat, cancels : Nat, crashes : Nat, failures : Nat, history : Nat]
      /\ used'.crashes = used.crashes
  BY DEF Typed, Count
<1>3. /\ builds' \in Seq(BuildRows) /\ Len(builds') = Len(builds) /\ steps' \in Seq(StepRows) /\ Len(steps') = Len(steps)
      /\ tasks' \in Seq([Chunks -> TaskStates]) /\ Len(tasks') = Len(tasks)
      /\ artifact' \in [Stored -> {"none", "part", "whole"}] /\ newer' \in BOOLEAN /\ ready' = ready
      /\ run' \in [Workers -> {"none"} \cup JobStates] /\ \A v \in Workers : run[v] = "none" => run'[v] = "none"
      /\ \A b \in DOMAIN builds : DOMAIN steps'[b] = DOMAIN steps[b]
  BY <1>1 DEF Typed
<1>. QED  BY <1>2, <1>3, Moves

-----------------------------------------------------------------------------
(* The row that a thread moves to.                                         *)

PCs == {"idle", "gone"} \cup Stepping \cup Closing

(* The row of a thread that goes on to a label.                            *)
LEMMA GoRow ==
  ASSUME Typed, NEW w \in Workers, NEW label \in PCs, Go(w, label)
  PROVE  \E r \in ThreadRows :
           /\ worker' = [worker EXCEPT ![w] = r] /\ worker'[w] = r
           /\ r.pc = label /\ r.build = worker[w].build /\ r.at = worker[w].at /\ r.mark = worker[w].mark
           /\ r.stop = worker[w].stop /\ r.todo = worker[w].todo /\ r.chunk = worker[w].chunk
<1>1. PICK old \in ThreadRows : old = worker[w]  BY TypedFacts
<1>. DEFINE r == [old EXCEPT !.pc = label]
<1>2. r \in ThreadRows  BY DEF ThreadRows, PCs
<1>3. worker' = [worker EXCEPT ![w] = r]  BY <1>1 DEF Go
<1>4. worker'[w] = r  BY <1>3 DEF Typed
<1>. QED  BY <1>1, <1>2, <1>3, <1>4 DEF ThreadRows

(* What is marked, or written as the status of a job, is a mark.           *)
LEMMA MarksAreNames ==
  Marks \subseteq MarkNames /\ {"part", "whole", "partial"} \subseteq MarkNames /\ Idle.mark \in MarkNames
  /\ JobStates \ {"queued", "running"} \subseteq MarkNames
<1>1. /\ Marks \subseteq MarkNames /\ {"part", "whole", "partial"} \subseteq MarkNames /\ "" \in MarkNames
  BY Zenon DEF MarkNames
<1>2. Idle.mark = ""  BY Zenon DEF Idle
<1>3. JobStates \ {"queued", "running"} \subseteq Marks \cup {"partial"}  BY DEF JobStates, Marks
<1>4. Idle.mark \in MarkNames  BY Zenon, <1>1, <1>2
<1>. QED  BY <1>1, <1>3, <1>4

(* The row of a thread that is to mark its step.                           *)
LEMMA MarkRow ==
  ASSUME Typed, NEW w \in Workers, NEW how \in Marks, Mark(w, how)
  PROVE  \E r \in ThreadRows :
           /\ worker' = [worker EXCEPT ![w] = r] /\ worker'[w] = r
           /\ r.pc = "mark" /\ r.build = worker[w].build /\ r.at = worker[w].at /\ r.mark = how
           /\ r.stop = worker[w].stop
<1>1. PICK old \in ThreadRows : old = worker[w]  BY TypedFacts
<1>. DEFINE r == [old EXCEPT !.pc = "mark", !.mark = how]
<1>2. r \in ThreadRows  BY MarksAreNames DEF ThreadRows, Stepping
<1>3. worker' = [worker EXCEPT ![w] = r]  BY <1>1 DEF Mark
<1>4. worker'[w] = r  BY <1>3 DEF Typed
<1>. QED  BY <1>1, <1>2, <1>3, <1>4 DEF ThreadRows

(* The row of a thread that goes on to the next step.                      *)
LEMMA OnwardRow ==
  ASSUME Typed, NEW w \in Workers, Onward(w)
  PROVE  \E r \in ThreadRows :
           /\ worker' = [worker EXCEPT ![w] = r] /\ worker'[w] = r
           /\ r.pc = "step" /\ r.build = worker[w].build /\ r.at = worker[w].at + 1 /\ r.stop = worker[w].stop
<1>1. PICK old \in ThreadRows : old = worker[w]  BY TypedFacts
<1>. DEFINE r == [old EXCEPT !.at = @ + 1, !.pc = "step"]
<1>2. r \in ThreadRows
  <2>1. old.at \in Nat /\ old.at + 1 \in Nat  BY DEF ThreadRows
  <2>. QED  BY <2>1 DEF ThreadRows, Stepping
<1>3. worker' = [worker EXCEPT ![w] = r]  BY <1>1 DEF Onward
<1>4. worker'[w] = r  BY <1>3 DEF Typed
<1>. QED  BY <1>1, <1>2, <1>3, <1>4 DEF ThreadRows

(* The places of a thread are apart.                                       *)
LEMMA LabelFacts ==
  /\ Stepping \subseteq PCs /\ Closing \subseteq PCs /\ "gone" \in PCs /\ AtStep \subseteq Stepping /\ Scans \subseteq AtStep
  /\ "idle" \notin Stepping \cup Closing /\ "gone" \notin Stepping \cup Closing /\ Stepping \cap Closing = {}
  /\ \A p \in AtStep : p \notin {"new", "unready", "step", "idle", "gone"} /\ p \notin Closing
BY DEF PCs, Stepping, Closing, AtStep, Scans

-----------------------------------------------------------------------------
(* Types: the steps of a thread that write no table.                       *)

(* The steps of a thread that write no row.                                *)
LEMMA QuietTyped ==
  ASSUME Typed, NEW w \in Workers,
         LookEnd(w) \/ Look(w) \/ Unconfigured(w) \/ Check(w) \/ Compute(w) \/ Cancelled(w) \/ NextChunk(w)
           \/ Again(w) \/ ScanEnds(w)
  PROVE  Typed'
<1>1. PICK old \in ThreadRows : old = worker[w]  BY TypedFacts
<1>2. ThreadTyped(w) /\ (old.pc # "idle" => old.build \in DOMAIN builds) /\ old.at \in Nat
  BY <1>1, TypedFacts DEF ThreadRows
<1>3. CASE LookEnd(w)
  <2>. DEFINE halt == old.at <= Len(StepOrder)  r == [old EXCEPT !.pc = "finalize", !.stop = halt]
  <2>0. halt \in BOOLEAN  OBVIOUS
  <2>1. r \in ThreadRows
    <3>. HIDE DEF halt
    <3>. QED  BY <2>0 DEF ThreadRows, Closing
  <2>2. worker' = [worker EXCEPT ![w] = r] /\ UNCHANGED <<rows, used>> /\ old.pc = "step"  BY <1>1, <1>3 DEF LookEnd
  <2>3. r.pc = "finalize" /\ r.build = old.build  BY <2>1 DEF ThreadRows
  <2>4. r.pc \notin Stepping \cup AtStep \cup Scans  BY <2>3 DEF Stepping, AtStep, Scans
  <2>. HIDE DEF r
  <2>. QED  BY <1>1, <2>1, <2>2, <2>3, <2>4, QuietMoves
<1>4. CASE Look(w)
  <2>1. old.pc = "step" /\ old.at <= Len(StepOrder) /\ UNCHANGED <<rows, used>> /\ old.at # 0
    BY <1>1, <1>2, <1>4 DEF Look, ThreadTyped, Stepping
  <2>2. old.at \in DOMAIN StepOrder  BY <1>2, <2>1, StepsFacts
  <2>3. CASE Missing(w)
    <3>1. Go(w, "raised")  BY <1>4, <2>3 DEF Look
    <3>2. PICK r \in ThreadRows : worker' = [worker EXCEPT ![w] = r] /\ r.pc = "raised" /\ r.build = worker[w].build
      BY <3>1, GoRow, LabelFacts DEF Closing
    <3>3. r.pc \notin Stepping \cup AtStep \cup Scans  BY <3>2 DEF Stepping, AtStep, Scans
    <3>. QED  BY <1>1, <2>1, <3>2, <3>3, QuietMoves
  <2>4. CASE ~Missing(w)
    <3>1. StepOrder[old.at] \in DOMAIN steps[old.build]  BY <1>1, <2>4 DEF Missing, StepOf
    <3>2. Onward(w) \/ Mark(w, "cancelled") \/ Mark(w, "blocked") \/ Go(w, "check")  BY <1>4, <2>4 DEF Look
    <3>3. CASE Onward(w)
      <4>1. PICK r \in ThreadRows : worker' = [worker EXCEPT ![w] = r] /\ r.pc = "step"
                                    /\ r.build = worker[w].build /\ r.at = old.at + 1
        BY <1>1, <3>3, OnwardRow
      <4>2. r.at # 0 /\ r.pc \notin AtStep \cup Scans  BY <1>2, <4>1 DEF AtStep, Scans
      <4>. QED  BY <1>1, <2>1, <4>1, <4>2, QuietMoves
    <3>4. CASE Mark(w, "cancelled") \/ Mark(w, "blocked")
      <4>1. PICK r \in ThreadRows : worker' = [worker EXCEPT ![w] = r] /\ r.pc = "mark"
                                    /\ r.build = worker[w].build /\ r.at = old.at /\ r.mark \in Marks
        BY <1>1, <3>4, MarkRow DEF Marks
      <4>. QED  BY <1>1, <2>1, <2>2, <3>1, <4>1, QuietMoves DEF Scans
    <3>5. CASE Go(w, "check")
      <4>1. PICK r \in ThreadRows : worker' = [worker EXCEPT ![w] = r] /\ r.pc = "check"
                                    /\ r.build = worker[w].build /\ r.at = old.at
        BY <1>1, <3>5, GoRow, LabelFacts DEF Stepping
      <4>. QED  BY <1>1, <2>1, <2>2, <3>1, <4>1, QuietMoves DEF Scans
    <3>. QED  BY <3>2, <3>3, <3>4, <3>5
  <2>. QED  BY <2>3, <2>4
(* The thread stays at its step.                                           *)
<1>5. ASSUME old.pc \in AtStep
      PROVE  old.at # 0 /\ old.at \in DOMAIN StepOrder /\ StepOrder[old.at] \in DOMAIN steps[old.build] /\ old.pc # "idle"
  <2>1. old.pc \in Stepping /\ old.pc # "idle"  BY <1>5, LabelFacts
  <2>. QED  BY <1>1, <1>2, <1>5, <2>1 DEF ThreadTyped, StepOf
<1>6. ASSUME old.pc \in AtStep, UNCHANGED rows, used' = used \/ Count("failures"),
             NEW r \in ThreadRows, worker' = [worker EXCEPT ![w] = r],
             r.build = old.build, r.at = old.at, r.pc \in AtStep,
             r.pc \in Scans => StepOrder[r.at] = "claim_scan",
             r.pc = "save" => StepOrder[r.at] # "claim_scan" /\ r.mark \in {"part", "whole"},
             r.pc = "mark" => r.mark \in Marks
      PROVE  Typed'
  <2>1. r.pc \notin {"write", "idle"}  BY <1>6, LabelFacts DEF Closing
  <2>. QED  BY <1>1, <1>5, <1>6, <2>1, QuietMoves
<1>7. CASE Unconfigured(w) \/ Check(w)
  <2>1. old.pc = "check" /\ UNCHANGED rows /\ (used' = used \/ Count("failures"))
    BY <1>1, <1>7 DEF Unconfigured, Check
  <2>2. Mark(w, "blocked") \/ Mark(w, "reused") \/ Go(w, "begin")  BY <1>7 DEF Unconfigured, Check
  <2>3. PICK r \in ThreadRows : worker' = [worker EXCEPT ![w] = r] /\ r.build = old.build /\ r.at = old.at
                                /\ ((r.pc = "mark" /\ r.mark \in Marks) \/ r.pc = "begin")
    BY <1>1, <2>2, MarkRow, GoRow, LabelFacts DEF Marks, Stepping
  <2>4. old.pc \in AtStep /\ r.pc \in AtStep /\ r.pc \notin Scans /\ r.pc # "save"
    BY <2>1, <2>3 DEF AtStep, Stepping, Scans
  <2>. QED  BY <1>6, <2>1, <2>3, <2>4
<1>8. CASE Compute(w)
  <2>. DEFINE m == IF StepOf(w) = "understanding_graph" /\ ~Scanned(worker[w].build) THEN "part" ELSE "whole"
              r == [old EXCEPT !.pc = "save", !.mark = m]
  <2>1. m \in {"part", "whole"}  OBVIOUS
  <2>2. worker' = [worker EXCEPT ![w] = r] /\ UNCHANGED <<rows, used>> /\ old.pc = "run" /\ StepOrder[old.at] # "claim_scan"
    BY <1>1, <1>8 DEF Compute, StepOf
  <2>. HIDE DEF m
  <2>3. r \in ThreadRows /\ r.pc = "save" /\ r.build = old.build /\ r.at = old.at /\ r.mark = m
    BY <2>1, MarksAreNames DEF ThreadRows, Stepping
  <2>. HIDE DEF r
  <2>4. old.pc \in AtStep /\ r.pc \in AtStep /\ r.pc \notin Scans  BY <2>2, <2>3 DEF AtStep, Stepping, Scans
  <2>. QED  BY <1>6, <2>1, <2>2, <2>3, <2>4
<1>9. CASE Cancelled(w)
  <2>. DEFINE r == [old EXCEPT !.pc = "mark", !.mark = "cancelled", !.stop = builds[old.build].cancel,
                              !.todo = {}, !.chunk = {}, !.tries = 0]
  <2>1. worker' = [worker EXCEPT ![w] = r] /\ UNCHANGED <<rows, used>> /\ old.pc \in {"backoff", "scan"}
    BY <1>1, <1>9 DEF Cancelled
  <2>2. builds[old.build].cancel \in BOOLEAN  BY <1>2, <2>1, TypedFacts DEF BuildRows
  <2>3. r \in ThreadRows /\ r.pc = "mark" /\ r.build = old.build /\ r.at = old.at /\ r.mark = "cancelled"
    BY <2>2, MarksAreNames DEF ThreadRows, Stepping, Marks
  <2>. HIDE DEF r
  <2>4. old.pc \in AtStep /\ r.pc \in AtStep /\ r.pc \notin Scans  BY <2>1, <2>3 DEF AtStep, Stepping, Scans
  <2>. QED  BY <1>6, <2>1, <2>3, <2>4 DEF Marks
<1>10. CASE NextChunk(w)
  <2>1. PICK c \in old.todo : worker' = [worker EXCEPT ![w].pc = "call", ![w].chunk = {c}, ![w].tries = 0,
                                                       ![w].todo = @ \ {c}]
    BY <1>1, <1>10 DEF NextChunk
  <2>. DEFINE r == [old EXCEPT !.pc = "call", !.chunk = {c}, !.tries = 0, !.todo = @ \ {c}]
  <2>2. worker' = [worker EXCEPT ![w] = r] /\ UNCHANGED <<rows, used>> /\ old.pc = "scan"
    BY <1>1, <1>10, <2>1 DEF NextChunk
  <2>3. r \in ThreadRows /\ r.pc = "call" /\ r.build = old.build /\ r.at = old.at
    BY DEF ThreadRows, Stepping
  <2>. HIDE DEF r
  <2>4. old.pc \in AtStep /\ r.pc \in AtStep /\ old.pc \in Scans  BY <2>2, <2>3 DEF AtStep, Stepping, Scans
  <2>5. StepOrder[old.at] = "claim_scan"  BY <1>1, <1>2, <2>4 DEF ThreadTyped, StepOf
  <2>. QED  BY <1>6, <2>2, <2>3, <2>4, <2>5
<1>11. CASE Again(w)
  <2>1. PICK r \in ThreadRows : worker' = [worker EXCEPT ![w] = r] /\ r.build = old.build /\ r.at = old.at /\ r.pc = "call"
    BY <1>1, <1>11, GoRow, LabelFacts DEF Stepping, Again
  <2>2. old.pc = "backoff" /\ UNCHANGED <<rows, used>>  BY <1>1, <1>11 DEF Again
  <2>4. old.pc \in AtStep /\ r.pc \in AtStep /\ old.pc \in Scans  BY <2>1, <2>2 DEF AtStep, Stepping, Scans
  <2>5. StepOrder[old.at] = "claim_scan"  BY <1>1, <1>2, <2>4 DEF ThreadTyped, StepOf
  <2>. QED  BY <1>6, <2>1, <2>2, <2>4, <2>5
<1>12. CASE ScanEnds(w)
  <2>. DEFINE m == ScanResult(worker[w].build)
              r == [old EXCEPT !.pc = "mark", !.mark = m, !.chunk = {}, !.tries = 0]
  <2>1. m \in Marks  BY DEF ScanResult, Marks
  <2>2. worker' = [worker EXCEPT ![w] = r] /\ UNCHANGED <<rows, used>> /\ old.pc = "scan"
    BY <1>1, <1>12 DEF ScanEnds
  <2>. HIDE DEF m
  <2>3. r \in ThreadRows /\ r.pc = "mark" /\ r.build = old.build /\ r.at = old.at /\ r.mark = m
    BY <2>1, MarksAreNames DEF ThreadRows, Stepping
  <2>. HIDE DEF r
  <2>4. old.pc \in AtStep /\ r.pc \in AtStep /\ r.pc \notin Scans  BY <2>2, <2>3 DEF AtStep, Stepping, Scans
  <2>. QED  BY <1>6, <2>1, <2>2, <2>3, <2>4
<1>. QED  BY <1>3, <1>4, <1>7, <1>8, <1>9, <1>10, <1>11, <1>12

-----------------------------------------------------------------------------
(* Types: the rows of a build.                                             *)

(* Settling a job writes its row only.                                     *)
LEMMA SettleRow ==
  ASSUME Typed, NEW b \in DOMAIN builds, NEW status \in JobStates, Settle(b, status)
  PROVE  /\ builds' \in Seq(BuildRows) /\ Len(builds') = Len(builds) /\ DOMAIN builds' = DOMAIN builds
         /\ builds'[b].status = status /\ ~builds'[b].stale /\ builds'[b].cancel = builds[b].cancel
         /\ \A c \in DOMAIN builds : c # b => builds'[c] = builds[c]
<1>1. PICK old \in BuildRows : old = builds[b]  BY TypedFacts
<1>. DEFINE r == [old EXCEPT !.status = status, !.stale = FALSE]
<1>2. r \in BuildRows /\ r.status = status /\ ~r.stale /\ r.cancel = old.cancel  BY DEF BuildRows
<1>3. builds' = [builds EXCEPT ![b] = r]  BY <1>1 DEF Settle
<1>. HIDE DEF r
<1>4. builds \in Seq(BuildRows)  BY DEF Typed
<1>. QED  BY <1>1, <1>2, <1>3, <1>4, RowSet

(* A heartbeat changes no status.                                          *)
LEMMA BeatRow ==
  ASSUME Typed, NEW b \in DOMAIN builds, builds' = [builds EXCEPT ![b].stale = FALSE]
  PROVE  /\ builds' \in Seq(BuildRows) /\ Len(builds') = Len(builds) /\ DOMAIN builds' = DOMAIN builds
         /\ builds'[b].status = builds[b].status /\ ~builds'[b].stale /\ builds'[b].cancel = builds[b].cancel
         /\ \A c \in DOMAIN builds : c # b => builds'[c] = builds[c]
<1>1. PICK old \in BuildRows : old = builds[b]  BY TypedFacts
<1>. DEFINE r == [old EXCEPT !.stale = FALSE]
<1>2. r \in BuildRows /\ r.status = old.status /\ ~r.stale /\ r.cancel = old.cancel  BY DEF BuildRows
<1>3. builds' = [builds EXCEPT ![b] = r]  BY <1>1
<1>. HIDE DEF r
<1>4. builds \in Seq(BuildRows)  BY DEF Typed
<1>5. /\ [builds EXCEPT ![b] = r] \in Seq(BuildRows) /\ Len([builds EXCEPT ![b] = r]) = Len(builds)
      /\ DOMAIN [builds EXCEPT ![b] = r] = DOMAIN builds /\ [builds EXCEPT ![b] = r][b] = r
      /\ \A c \in DOMAIN builds : c # b => [builds EXCEPT ![b] = r][c] = builds[c]
  BY <1>2, <1>4, RowSet
<1>. QED  BY Zenon, <1>1, <1>2, <1>3, <1>5

(* The rows of the steps of one build are replaced.                        *)
LEMMA StepsRow ==
  ASSUME Typed, NEW b \in DOMAIN builds, NEW row \in [DOMAIN steps[b] -> StepRow],
         steps' = [steps EXCEPT ![b] = row]
  PROVE  /\ steps' \in Seq(StepRows) /\ Len(steps') = Len(steps) /\ DOMAIN steps' = DOMAIN steps
         /\ steps'[b] = row
         /\ \A c \in DOMAIN steps : c # b => steps'[c] = steps[c]
         /\ \A c \in DOMAIN builds : DOMAIN steps'[c] = DOMAIN steps[c]
<1>1. DOMAIN steps = DOMAIN builds /\ DOMAIN steps[b] \in SUBSET Steps  BY TypedFacts
<1>2. row \in StepRows  BY <1>1 DEF StepRows
<1>3. steps \in Seq(StepRows)  BY DEF Typed
<1>4. /\ steps' \in Seq(StepRows) /\ Len(steps') = Len(steps) /\ DOMAIN steps' = DOMAIN steps
      /\ steps'[b] = row
      /\ \A c \in DOMAIN steps : c # b => steps'[c] = steps[c]
  BY <1>1, <1>2, <1>3, RowSet
<1>. QED  BY <1>1, <1>4

(* The chunk tasks of one build are replaced.                              *)
LEMMA TasksRow ==
  ASSUME Typed, NEW b \in DOMAIN builds, NEW row \in [Chunks -> TaskStates],
         tasks' = [tasks EXCEPT ![b] = row]
  PROVE  /\ tasks' \in Seq([Chunks -> TaskStates]) /\ Len(tasks') = Len(tasks) /\ DOMAIN tasks' = DOMAIN tasks
         /\ tasks'[b] = row
         /\ \A c \in DOMAIN tasks : c # b => tasks'[c] = tasks[c]
BY TypedFacts, RowSet DEF Typed

(* Closing the runs of a job closes the open ones of its threads.          *)
LEMMA ClosedRuns ==
  ASSUME Typed, NEW b, NEW status \in JobStates, run' = CloseRuns(b, status)
  PROVE  /\ run' \in [Workers -> {"none"} \cup JobStates]
         /\ \A v \in Workers :
              /\ run[v] = "none" <=> run'[v] = "none"
              /\ worker[v].build # b => run'[v] = run[v]
              /\ worker[v].build = b => run'[v] = IF run[v] = "running" THEN status ELSE run[v]
BY DEF Typed, CloseRuns, JobStates

(* The row of one step is replaced.                                        *)
LEMMA SetStatus ==
  ASSUME Typed, NEW b \in DOMAIN builds, NEW s \in DOMAIN steps[b], NEW row \in StepRow,
         steps' = [steps EXCEPT ![b][s] = row]
  PROVE  /\ steps' \in Seq(StepRows) /\ Len(steps') = Len(steps) /\ DOMAIN steps' = DOMAIN steps
         /\ steps'[b][s] = row /\ \A t \in DOMAIN steps[b] : t # s => steps'[b][t] = steps[b][t]
         /\ \A c \in DOMAIN steps : c # b => steps'[c] = steps[c]
         /\ \A c \in DOMAIN builds : DOMAIN steps'[c] = DOMAIN steps[c]
<1>1. steps[b] \in StepRows /\ DOMAIN steps = DOMAIN builds  BY TypedFacts
<1>2. PICK names \in SUBSET Steps : steps[b] \in [names -> StepRow]  BY <1>1 DEF StepRows
<1>. DEFINE e == [steps[b] EXCEPT ![s] = row]
<1>3. e \in [DOMAIN steps[b] -> StepRow] /\ e[s] = row /\ \A t \in DOMAIN steps[b] : t # s => e[t] = steps[b][t]
  BY <1>2
<1>4. steps' = [steps EXCEPT ![b] = e]  BY <1>1
<1>. HIDE DEF e
<1>. QED  BY <1>3, <1>4, StepsRow

(* The task of the chunk at hand is set.                                   *)
LEMMA ChunksSet ==
  ASSUME Typed, NEW w \in Workers, worker[w].build \in DOMAIN builds, NEW status \in TaskStates, SetChunk(w, status)
  PROVE  /\ tasks' \in Seq([Chunks -> TaskStates]) /\ Len(tasks') = Len(tasks) /\ DOMAIN tasks' = DOMAIN tasks
         /\ \A c \in Chunks : tasks'[worker[w].build][c] = IF c \in worker[w].chunk THEN status ELSE tasks[worker[w].build][c]
         /\ \A o \in DOMAIN tasks : o # worker[w].build => tasks'[o] = tasks[o]
<1>1. PICK b \in DOMAIN builds : b = worker[w].build  OBVIOUS
<1>. DEFINE e == [c \in Chunks |-> IF c \in worker[w].chunk THEN status ELSE tasks[b][c]]
<1>2. e \in [Chunks -> TaskStates]
  <2>1. tasks[b] \in [Chunks -> TaskStates]  BY TypedFacts
  <2>. QED  BY <2>1
<1>3. tasks' = [tasks EXCEPT ![b] = e]  BY <1>1, TypedFacts DEF SetChunk
<1>4. \A c \in Chunks : e[c] = IF c \in worker[w].chunk THEN status ELSE tasks[b][c]  OBVIOUS
<1>. HIDE DEF e
<1>. QED  BY <1>1, <1>2, <1>3, <1>4, TasksRow

-----------------------------------------------------------------------------
(* Types: the steps of a thread that write.                                *)

(* What a thread at a step of its job has.                                 *)
LEMMA AtStepFacts ==
  ASSUME Typed, NEW w \in Workers, worker[w].pc \in AtStep
  PROVE  /\ worker[w].build \in DOMAIN builds /\ worker[w].at \in DOMAIN StepOrder /\ worker[w].at # 0
         /\ StepOf(w) \in DOMAIN steps[worker[w].build] /\ StepOf(w) = StepOrder[worker[w].at] /\ StepOf(w) \in Steps
         /\ worker[w].pc \in Stepping /\ worker[w].pc \notin Closing \cup {"idle", "gone", "new", "unready", "step"}
         /\ worker[w].pc \in Scans => StepOf(w) = "claim_scan"
         /\ worker[w].pc = "save" => StepOf(w) # "claim_scan" /\ worker[w].mark \in {"part", "whole"}
         /\ worker[w].pc = "mark" => worker[w].mark \in Marks
<1>1. worker[w].pc \in Stepping /\ worker[w].pc \notin Closing \cup {"idle", "gone", "new", "unready", "step"}
  BY LabelFacts
<1>2. ThreadTyped(w)  BY TypedFacts
<1>3. worker[w].build \in DOMAIN builds /\ worker[w].at \in DOMAIN StepOrder /\ worker[w].at # 0
  BY <1>1, <1>2 DEF ThreadTyped
<1>. QED  BY <1>1, <1>2, <1>3, StepsFacts DEF ThreadTyped, StepOf

(* The first block of a thread.                                            *)
LEMMA BeginTyped ==
  ASSUME Typed, NEW w \in Workers, Begin(w)
  PROVE  /\ Typed' /\ DOMAIN builds' = DOMAIN builds
         /\ builds'[worker[w].build].status = "running" /\ ~builds'[worker[w].build].stale
         /\ \A c \in DOMAIN builds : c # worker[w].build => builds'[c] = builds[c]
<1>1. worker[w].pc = "new" /\ UNCHANGED <<steps, tasks, artifact, newer, ready, run, used>>
  BY DEF Begin, results
<1>2. worker[w].pc # "idle" /\ worker[w].build \in DOMAIN builds /\ worker[w].at # 0
  BY <1>1, TypedFacts DEF ThreadTyped, Stepping
<1>3. PICK b \in DOMAIN builds : b = worker[w].build  BY <1>2
<1>4. PICK old \in BuildRows : old = builds[b]  BY TypedFacts
<1>. DEFINE found == old.pinned \/ ready
            e == [old EXCEPT !.status = "running", !.stale = FALSE, !.pinned = found]
<1>5. found \in BOOLEAN  OBVIOUS
<1>6. builds' = [builds EXCEPT ![b] = e]  BY <1>3, <1>4 DEF Begin
<1>. HIDE DEF found
<1>7. e \in BuildRows /\ e.status = "running" /\ ~e.stale  BY <1>5 DEF BuildRows, JobStates
<1>. HIDE DEF e
<1>8. /\ builds' \in Seq(BuildRows) /\ Len(builds') = Len(builds) /\ DOMAIN builds' = DOMAIN builds
      /\ builds'[b].status = "running" /\ ~builds'[b].stale
      /\ \A c \in DOMAIN builds : c # b => builds'[c] = builds[c]
  <2>1. builds \in Seq(BuildRows)  BY DEF Typed
  <2>. QED  BY <1>6, <1>7, <2>1, RowSet
<1>9. Go(w, "step") \/ Go(w, "unready")  BY DEF Begin
<1>10. PICK r \in ThreadRows : worker' = [worker EXCEPT ![w] = r] /\ r.pc \in {"step", "unready"}
                               /\ r.build = worker[w].build /\ r.at = worker[w].at
  BY <1>9, GoRow, LabelFacts DEF Stepping
<1>11. r.pc \notin AtStep \cup Scans \cup {"save", "mark", "write", "idle"}  BY <1>10 DEF AtStep, Scans
<1>12. Typed'
  <2>1. /\ steps' \in Seq(StepRows) /\ Len(steps') = Len(steps) /\ tasks' \in Seq([Chunks -> TaskStates]) /\ Len(tasks') = Len(tasks)
        /\ artifact' \in [Stored -> {"none", "part", "whole"}] /\ newer' \in BOOLEAN /\ ready' = ready
        /\ run' \in [Workers -> {"none"} \cup JobStates] /\ \A v \in Workers : run[v] = "none" => run'[v] = "none"
        /\ used' \in [retries : Nat, cancels : Nat, crashes : Nat, failures : Nat, history : Nat]
        /\ used'.crashes = used.crashes
        /\ \A c \in DOMAIN builds : DOMAIN steps'[c] = DOMAIN steps[c]
    BY <1>1 DEF Typed
  <2>. QED  BY <1>2, <1>8, <1>10, <1>11, <2>1, Moves
<1>. QED  BY <1>3, <1>8, <1>12

(* A job without a snapshot is failed.                                     *)
LEMMA FailUnreadyTyped ==
  ASSUME Typed, NEW w \in Workers, FailUnready(w)
  PROVE  Typed'
<1>1. /\ worker[w].pc = "unready" /\ UNCHANGED <<tasks, artifact, newer, ready, used>>
      /\ Settle(worker[w].build, "failed") /\ run' = CloseRuns(worker[w].build, "failed") /\ Go(w, "gone")
  BY DEF FailUnready, results
<1>2. worker[w].pc # "idle" /\ worker[w].build \in DOMAIN builds /\ "failed" \in JobStates
  BY <1>1, TypedFacts DEF JobStates
<1>3. PICK b \in DOMAIN builds : b = worker[w].build  BY <1>2
<1>. DEFINE row == [s \in DOMAIN steps[b] |->
       IF steps[b][s].status = "pending" THEN [steps[b][s] EXCEPT !.status = "blocked"] ELSE steps[b][s]]
<1>4. steps' = [steps EXCEPT ![b] = row]  BY <1>3, TypedFacts DEF FailUnready
<1>5. row \in [DOMAIN steps[b] -> StepRow]
  <2>1. ASSUME NEW s \in DOMAIN steps[b]  PROVE [steps[b][s] EXCEPT !.status = "blocked"] \in StepRow /\ steps[b][s] \in StepRow
    <3>1. PICK x \in StepRow : x = steps[b][s]  BY <2>1, TypedFacts
    <3>2. [x EXCEPT !.status = "blocked"] \in StepRow  BY DEF StepRow, StepStates
    <3>. QED  BY <3>1, <3>2
  <2>. QED  BY <2>1
<1>. HIDE DEF row
<1>6. PICK r \in ThreadRows : worker' = [worker EXCEPT ![w] = r] /\ r.pc = "gone" /\ r.build = worker[w].build
  BY <1>1, GoRow, LabelFacts
<1>7. r.pc \notin Stepping \cup AtStep \cup Scans \cup {"save", "mark", "write", "idle"}
  BY <1>6 DEF Stepping, AtStep, Scans
<1>8. /\ builds' \in Seq(BuildRows) /\ Len(builds') = Len(builds)  BY <1>1, <1>2, SettleRow
<1>9. /\ run' \in [Workers -> {"none"} \cup JobStates] /\ \A v \in Workers : run[v] = "none" => run'[v] = "none"
  BY <1>1, <1>2, ClosedRuns
<1>10. /\ steps' \in Seq(StepRows) /\ Len(steps') = Len(steps)
       /\ \A c \in DOMAIN builds : DOMAIN steps'[c] = DOMAIN steps[c]
  BY <1>4, <1>5, StepsRow
<1>11. /\ tasks' \in Seq([Chunks -> TaskStates]) /\ Len(tasks') = Len(tasks)
       /\ artifact' \in [Stored -> {"none", "part", "whole"}] /\ newer' \in BOOLEAN /\ ready' = ready
       /\ used' \in [retries : Nat, cancels : Nat, crashes : Nat, failures : Nat, history : Nat]
       /\ used'.crashes = used.crashes
  BY <1>1 DEF Typed
<1>. QED  BY <1>2, <1>6, <1>7, <1>8, <1>9, <1>10, <1>11, Moves

(* A step is marked as running.                                            *)
LEMMA BeginStepTyped ==
  ASSUME Typed, NEW w \in Workers, BeginStep(w)
  PROVE  Typed'
<1>1. worker[w].pc = "begin" /\ UNCHANGED <<tasks, artifact, newer, ready, run, used>> /\ Go(w, "run")
  BY DEF BeginStep, results
<1>2. worker[w].pc \in AtStep  BY <1>1 DEF AtStep, Stepping
<1>3. PICK b \in DOMAIN builds : b = worker[w].build  BY <1>2, AtStepFacts
<1>4. PICK s \in DOMAIN steps[b] : s = StepOf(w)  BY <1>2, <1>3, AtStepFacts
<1>5. PICK x \in StepRow : x = steps[b][s]  BY TypedFacts
<1>. DEFINE row == [x EXCEPT !.status = "running"]
<1>6. row \in StepRow  BY DEF StepRow, StepStates
<1>7. steps' = [steps EXCEPT ![b][s] = row]  BY <1>3, <1>4, <1>5 DEF BeginStep
<1>. HIDE DEF row
<1>8. PICK r \in ThreadRows : worker' = [worker EXCEPT ![w] = r] /\ r.pc = "run" /\ r.build = worker[w].build
                              /\ r.at = worker[w].at
  BY <1>1, GoRow, LabelFacts DEF Stepping
<1>9. r.pc \notin Scans \cup {"save", "mark", "write", "idle"}  BY <1>8 DEF Scans
<1>10. builds' \in Seq(BuildRows) /\ Len(builds') = Len(builds)
  <2>1. builds' = [builds EXCEPT ![b].stale = FALSE]  BY <1>3 DEF BeginStep
  <2>. QED  BY <2>1, BeatRow
<1>11. /\ steps' \in Seq(StepRows) /\ Len(steps') = Len(steps)
       /\ \A c \in DOMAIN builds : DOMAIN steps'[c] = DOMAIN steps[c]
  BY <1>6, <1>7, SetStatus
<1>12. /\ tasks' \in Seq([Chunks -> TaskStates]) /\ Len(tasks') = Len(tasks)
       /\ artifact' \in [Stored -> {"none", "part", "whole"}] /\ newer' \in BOOLEAN /\ ready' = ready
       /\ run' \in [Workers -> {"none"} \cup JobStates] /\ \A v \in Workers : run[v] = "none" => run'[v] = "none"
       /\ used' \in [retries : Nat, cancels : Nat, crashes : Nat, failures : Nat, history : Nat]
       /\ used'.crashes = used.crashes
  BY <1>1 DEF Typed
<1>13. r.at # 0 /\ r.at \in DOMAIN StepOrder /\ StepOrder[r.at] \in DOMAIN steps[r.build] /\ worker[w].pc # "idle"
  BY <1>2, <1>8, AtStepFacts
<1>. QED  BY <1>8, <1>9, <1>10, <1>11, <1>12, <1>13, Moves

(* What marking a step writes.                                             *)
LEMMA MarkStepRow ==
  ASSUME Typed, NEW w \in Workers, MarkStep(w)
  PROVE  LET b == worker[w].build  s == StepOf(w)  how == worker[w].mark IN
         /\ worker[w].pc = "mark" /\ worker[w].pc \in AtStep /\ b \in DOMAIN builds /\ s \in DOMAIN steps[b] /\ how \in Marks
         /\ steps' \in Seq(StepRows) /\ Len(steps') = Len(steps) /\ DOMAIN steps' = DOMAIN steps
         /\ steps'[b][s].status = StatusOf(how) /\ steps'[b][s].reused = (steps[b][s].reused \/ how = "reused")
         /\ \A t \in DOMAIN steps[b] : t # s => steps'[b][t] = steps[b][t]
         /\ \A c \in DOMAIN steps : c # b => steps'[c] = steps[c]
         /\ \A c \in DOMAIN builds : DOMAIN steps'[c] = DOMAIN steps[c]
<1>1. worker[w].pc = "mark"  BY DEF MarkStep
<1>2. worker[w].pc \in AtStep  BY <1>1 DEF AtStep, Stepping
<1>3. PICK b \in DOMAIN builds : b = worker[w].build  BY <1>2, AtStepFacts
<1>4. PICK s \in DOMAIN steps[b] : s = StepOf(w)  BY <1>2, <1>3, AtStepFacts
<1>5. PICK x \in StepRow : x = steps[b][s]  BY TypedFacts
<1>6. PICK how \in Marks : how = worker[w].mark  BY <1>1, <1>2, AtStepFacts
<1>. DEFINE st == StatusOf(how)  re == x.reused \/ how = "reused"  row == [x EXCEPT !.status = st, !.reused = re]
<1>7. st \in StepStates /\ re \in BOOLEAN  BY DEF StatusOf, Marks, StepStates
<1>8. steps' = [steps EXCEPT ![b][s] = row]
  <2>1. steps' = [steps EXCEPT ![b][s].status = StatusOf(how), ![b][s].reused = @ \/ how = "reused"]
    BY <1>3, <1>4, <1>6 DEF MarkStep
  <2>2. steps[b][s] = x /\ x.reused = steps[b][s].reused  BY <1>5
  <2>. QED  BY <2>1, <2>2, TypedFacts DEF StepRow
<1>. HIDE DEF st, re
<1>9. row \in StepRow /\ row.status = st /\ row.reused = re  BY <1>7 DEF StepRow
<1>. HIDE DEF row
<1>10. /\ steps' \in Seq(StepRows) /\ Len(steps') = Len(steps) /\ DOMAIN steps' = DOMAIN steps
       /\ steps'[b][s] = row /\ \A t \in DOMAIN steps[b] : t # s => steps'[b][t] = steps[b][t]
       /\ \A c \in DOMAIN steps : c # b => steps'[c] = steps[c]
       /\ \A c \in DOMAIN builds : DOMAIN steps'[c] = DOMAIN steps[c]
  BY <1>8, <1>9, SetStatus
<1>. QED  BY <1>1, <1>2, <1>3, <1>4, <1>5, <1>6, <1>9, <1>10 DEF st, re

(* Marking a step.                                                         *)
LEMMA MarkStepTyped ==
  ASSUME Typed, NEW w \in Workers, MarkStep(w)
  PROVE  Typed'
<1>1. worker[w].pc = "mark" /\ UNCHANGED <<builds, tasks, artifact, newer, ready, run, used>>
  BY DEF MarkStep, results
<1>10. Go(w, "finalize") \/ Onward(w)  BY DEF MarkStep
<1>11. PICK r \in ThreadRows : worker' = [worker EXCEPT ![w] = r] /\ r.pc \in {"finalize", "step"} /\ r.build = worker[w].build
                               /\ (r.pc = "step" => r.at = worker[w].at + 1)
  BY <1>10, GoRow, OnwardRow, LabelFacts DEF Closing
<1>12. r.pc \notin AtStep \cup Scans \cup {"save", "mark", "write", "idle"}  BY <1>11 DEF AtStep, Scans, Stepping
<1>13. r.pc \in Stepping => r.at # 0
  <2>1. worker[w].at \in Nat  BY TypedFacts DEF ThreadRows
  <2>. QED  BY <1>11, <2>1 DEF Stepping
<1>14. /\ steps' \in Seq(StepRows) /\ Len(steps') = Len(steps)
       /\ \A c \in DOMAIN builds : DOMAIN steps'[c] = DOMAIN steps[c]
  BY MarkStepRow
<1>15. /\ builds' \in Seq(BuildRows) /\ Len(builds') = Len(builds)
       /\ tasks' \in Seq([Chunks -> TaskStates]) /\ Len(tasks') = Len(tasks)
       /\ artifact' \in [Stored -> {"none", "part", "whole"}] /\ newer' \in BOOLEAN /\ ready' = ready
       /\ run' \in [Workers -> {"none"} \cup JobStates] /\ \A v \in Workers : run[v] = "none" => run'[v] = "none"
       /\ used' \in [retries : Nat, cancels : Nat, crashes : Nat, failures : Nat, history : Nat]
       /\ used'.crashes = used.crashes
  BY <1>1 DEF Typed
<1>16. worker[w].pc # "idle"  BY <1>1
<1>. QED  BY <1>11, <1>12, <1>13, <1>14, <1>15, <1>16, Moves

(* A thread at a step stays at it; the steps' rows stay.                   *)
LEMMA StepMoves ==
  ASSUME Typed, NEW w \in Workers, worker[w].pc \in AtStep, NEW r \in ThreadRows,
         worker' = [worker EXCEPT ![w] = r], r.build = worker[w].build, r.at = worker[w].at, r.pc \in AtStep,
         builds' \in Seq(BuildRows), Len(builds') = Len(builds), steps' = steps,
         tasks' \in Seq([Chunks -> TaskStates]), Len(tasks') = Len(tasks),
         artifact' \in [Stored -> {"none", "part", "whole"}], newer' \in BOOLEAN, ready' = ready, run' = run,
         used' = used \/ Count("failures"),
         r.pc \in Scans => StepOf(w) = "claim_scan",
         r.pc = "save" => StepOf(w) # "claim_scan" /\ r.mark \in {"part", "whole"},
         r.pc = "mark" => r.mark \in Marks
  PROVE  Typed'
<1>1. /\ r.pc \notin {"idle", "write"} /\ worker[w].pc # "idle"
      /\ r.at # 0 /\ r.at \in DOMAIN StepOrder /\ StepOrder[r.at] \in DOMAIN steps[r.build] /\ StepOrder[r.at] = StepOf(w)
  BY AtStepFacts, LabelFacts DEF Closing
<1>2. /\ steps' \in Seq(StepRows) /\ Len(steps') = Len(steps) /\ \A c \in DOMAIN builds : DOMAIN steps'[c] = DOMAIN steps[c]
      /\ run' \in [Workers -> {"none"} \cup JobStates] /\ \A v \in Workers : run[v] = "none" => run'[v] = "none"
  BY DEF Typed
<1>3. /\ used' \in [retries : Nat, cancels : Nat, crashes : Nat, failures : Nat, history : Nat]
      /\ used'.crashes = used.crashes
  BY DEF Typed, Count
<1>. QED  BY <1>1, <1>2, <1>3, Moves

(* Storing the artifact of a step.                                         *)
LEMMA SaveTyped ==
  ASSUME Typed, NEW w \in Workers, Save(w)
  PROVE  Typed'
<1>1. worker[w].pc = "save" /\ UNCHANGED <<steps, tasks, ready, run, used>> /\ Mark(w, "completed")
  BY DEF Save
<1>2. worker[w].pc \in AtStep  BY <1>1 DEF AtStep, Stepping
<1>3. PICK r \in ThreadRows : worker' = [worker EXCEPT ![w] = r] /\ r.pc = "mark" /\ r.build = worker[w].build
                              /\ r.at = worker[w].at /\ r.mark = "completed"
  BY <1>1, MarkRow DEF Marks
<1>4. r.pc \in AtStep /\ r.pc \notin Scans \cup {"save"} /\ r.mark \in Marks
  BY <1>3 DEF AtStep, Stepping, Scans, Marks
<1>5. builds' \in Seq(BuildRows) /\ Len(builds') = Len(builds)
  BY <1>2, AtStepFacts, BeatRow DEF Save
<1>6. artifact' \in [Stored -> {"none", "part", "whole"}]
  <2>1. worker[w].mark \in {"part", "whole"}  BY <1>1, <1>2, AtStepFacts
  <2>. QED  BY <2>1 DEF Save, Typed
<1>7. newer' \in BOOLEAN  BY DEF Save, Typed
<1>8. tasks' \in Seq([Chunks -> TaskStates]) /\ Len(tasks') = Len(tasks)  BY <1>1 DEF Typed
<1>. QED  BY <1>1, <1>2, <1>3, <1>4, <1>5, <1>6, <1>7, <1>8, StepMoves

(* A step that fails.                                                      *)
LEMMA StepFailsTyped ==
  ASSUME Typed, NEW w \in Workers, StepFails(w)
  PROVE  Typed'
<1>1. worker[w].pc \in {"run", "save", "called"} /\ UNCHANGED <<builds, steps, tasks, newer, ready, run>> /\ Count("failures")
  BY DEF StepFails
<1>2. worker[w].pc \in AtStep  BY <1>1 DEF AtStep, Stepping
<1>3. PICK old \in ThreadRows : old = worker[w]  BY TypedFacts
<1>. DEFINE r == [old EXCEPT !.pc = "mark", !.mark = "failed", !.todo = {}, !.chunk = {}, !.tries = 0]
<1>4. worker' = [worker EXCEPT ![w] = r]  BY <1>3 DEF StepFails
<1>5. r \in ThreadRows /\ r.pc = "mark" /\ r.mark = "failed" /\ r.build = old.build /\ r.at = old.at
  <2>1. "failed" \in MarkNames  BY MarksAreNames DEF Marks
  <2>. QED  BY <2>1 DEF ThreadRows, Stepping
<1>. HIDE DEF r
<1>6. r.pc \in AtStep /\ r.pc \notin Scans \cup {"save"} /\ r.mark \in Marks
  BY <1>5 DEF AtStep, Stepping, Scans, Marks
<1>7. artifact' \in [Stored -> {"none", "part", "whole"}]
  <2>1. CASE UNCHANGED artifact  BY <2>1 DEF Typed
  <2>2. CASE CutShort(w)  BY <2>2 DEF CutShort, Cut, Typed
  <2>. QED  BY <2>1, <2>2 DEF StepFails
<1>8. /\ tasks' \in Seq([Chunks -> TaskStates]) /\ Len(tasks') = Len(tasks) /\ newer' \in BOOLEAN
      /\ builds' \in Seq(BuildRows) /\ Len(builds') = Len(builds)
  BY <1>1 DEF Typed
<1>. QED  BY <1>1, <1>2, <1>3, <1>4, <1>5, <1>6, <1>7, <1>8, StepMoves

(* What the scan plans: a chunk scanned elsewhere is complete, the others  *)
(* are to come.                                                            *)
LEMMA PlanTasks ==
  ASSUME Typed, NEW w \in Workers, Plan(w)
  PROVE  LET b == worker[w].build
             pending == {c \in Chunks : tasks[b][c] \in {"none", "pending"}}
             reusable == pending \cap Elsewhere(b) IN
         /\ worker[w].pc = "run" /\ StepOf(w) = "claim_scan" /\ worker[w].pc \in AtStep /\ b \in DOMAIN builds
         /\ tasks' \in Seq([Chunks -> TaskStates]) /\ Len(tasks') = Len(tasks) /\ DOMAIN tasks' = DOMAIN tasks
         /\ \A c \in Chunks : tasks'[b][c] = IF c \in reusable THEN "completed" ELSE IF c \in pending THEN "pending" ELSE tasks[b][c]
         /\ \A o \in DOMAIN tasks : o # b => tasks'[o] = tasks[o]
         /\ \E r \in ThreadRows : /\ worker' = [worker EXCEPT ![w] = r] /\ worker'[w] = r /\ r.pc = "scan" /\ r.build = b
                                  /\ r.at = worker[w].at /\ r.todo = pending \ reusable
<1>1. worker[w].pc = "run" /\ StepOf(w) = "claim_scan" /\ worker[w].pc \in AtStep  BY DEF Plan, AtStep, Stepping
<1>2. PICK b \in DOMAIN builds : b = worker[w].build  BY <1>1, AtStepFacts
<1>. DEFINE pending == {c \in Chunks : tasks[b][c] \in {"none", "pending"}}
            reusable == pending \cap Elsewhere(b)
            e == [c \in Chunks |-> IF c \in reusable THEN "completed" ELSE IF c \in pending THEN "pending" ELSE tasks[b][c]]
<1>3. tasks[b] \in [Chunks -> TaskStates]  BY TypedFacts
<1>4. e \in [Chunks -> TaskStates]  BY <1>3 DEF TaskStates
<1>5. tasks' = [tasks EXCEPT ![b] = e]  BY <1>2, TypedFacts DEF Plan
<1>6. PICK old \in ThreadRows : old = worker[w]  BY TypedFacts
<1>7. worker' = [worker EXCEPT ![w].pc = "scan", ![w].todo = pending \ reusable]  BY <1>2 DEF Plan
<1>8. pending \ reusable \in SUBSET Chunks  OBVIOUS
<1>9. \A c \in Chunks : e[c] = IF c \in reusable THEN "completed" ELSE IF c \in pending THEN "pending" ELSE tasks[b][c]
  OBVIOUS
<1>. HIDE DEF pending, reusable, e
<1>. DEFINE r == [old EXCEPT !.pc = "scan", !.todo = pending \ reusable]
<1>10. r \in ThreadRows /\ r.pc = "scan" /\ r.build = old.build /\ r.at = old.at /\ r.todo = pending \ reusable
  BY <1>8 DEF ThreadRows, Stepping
<1>11. worker' = [worker EXCEPT ![w] = r]  BY <1>6, <1>7
<1>. HIDE DEF r
<1>12. worker'[w] = r  BY <1>11 DEF Typed
<1>13. /\ tasks' \in Seq([Chunks -> TaskStates]) /\ Len(tasks') = Len(tasks) /\ DOMAIN tasks' = DOMAIN tasks
       /\ tasks'[b] = e /\ \A o \in DOMAIN tasks : o # b => tasks'[o] = tasks[o]
  BY <1>4, <1>5, TasksRow
<1>. QED  BY <1>1, <1>2, <1>6, <1>9, <1>10, <1>11, <1>12, <1>13 DEF pending, reusable

(* The steps of the scan that write chunk tasks.                           *)
LEMMA ScanTyped ==
  ASSUME Typed, NEW w \in Workers, Plan(w) \/ Call(w) \/ ChunkScanned(w) \/ ChunkFails(w)
  PROVE  Typed'
<1>1. /\ worker[w].pc \in {"run", "call", "called"} /\ worker[w].pc \in AtStep
      /\ UNCHANGED <<steps, artifact, ready, run>> /\ (used' = used \/ Count("failures"))
  BY DEF Plan, Call, ChunkScanned, ChunkFails, AtStep, Stepping, results
<1>2. /\ builds' \in Seq(BuildRows) /\ Len(builds') = Len(builds) /\ newer' \in BOOLEAN
      /\ artifact' \in [Stored -> {"none", "part", "whole"}]
  <2>1. artifact' \in [Stored -> {"none", "part", "whole"}]  BY <1>1 DEF Typed
  <2>2. newer' \in BOOLEAN
    <3>1. newer' = newer \/ newer' \in BOOLEAN  BY DEF Plan, Call, ChunkScanned, ChunkFails, results, Fresher
    <3>. QED  BY <3>1 DEF Typed
  <2>3. CASE Call(w)
    <3>1. builds' = [builds EXCEPT ![worker[w].build].stale = FALSE]  BY <2>3 DEF Call
    <3>. QED  BY <1>1, <2>1, <2>2, <3>1, AtStepFacts, BeatRow
  <2>4. CASE ~Call(w)
    <3>1. UNCHANGED builds  BY <2>4 DEF Plan, ChunkScanned, ChunkFails
    <3>. QED  BY <2>1, <2>2, <3>1 DEF Typed
  <2>. QED  BY <2>3, <2>4
<1>3. tasks' \in Seq([Chunks -> TaskStates]) /\ Len(tasks') = Len(tasks)
  <2>1. CASE Plan(w)  BY <2>1, PlanTasks
  <2>2. CASE ~Plan(w)
    <3>1. UNCHANGED tasks \/ SetChunk(w, "running") \/ SetChunk(w, "completed") \/ SetChunk(w, "failed")
      BY <2>2 DEF Call, ChunkScanned, ChunkFails
    <3>2. worker[w].build \in DOMAIN builds  BY <1>1, AtStepFacts
    <3>3. CASE UNCHANGED tasks  BY <3>3 DEF Typed
    <3>. QED  BY <3>1, <3>2, <3>3, ChunksSet DEF TaskStates
  <2>. QED  BY <2>1, <2>2
<1>4. \E r \in ThreadRows : worker' = [worker EXCEPT ![w] = r] /\ r.build = worker[w].build /\ r.at = worker[w].at
                            /\ r.pc \in {"scan", "called", "backoff"}
  <2>1. CASE Plan(w)  BY <2>1, PlanTasks
  <2>2. CASE Call(w)
    <3>1. PICK old \in ThreadRows : old = worker[w]  BY TypedFacts
    <3>. DEFINE r == [old EXCEPT !.pc = "called", !.tries = @ + 1]
    <3>2. worker' = [worker EXCEPT ![w] = r]  BY <2>2, <3>1 DEF Call
    <3>3. old.tries + 1 \in Nat  BY DEF ThreadRows
    <3>4. r \in ThreadRows /\ r.pc = "called" /\ r.build = old.build /\ r.at = old.at
      BY <3>3 DEF ThreadRows, Stepping
    <3>. QED  BY <3>1, <3>2, <3>4
  <2>3. CASE ChunkScanned(w) \/ ChunkFails(w)
    <3>1. Go(w, "scan") \/ Go(w, "backoff")  BY <2>3 DEF ChunkScanned, ChunkFails
    <3>. QED  BY <3>1, GoRow, LabelFacts DEF Stepping
  <2>. QED  BY <2>1, <2>2, <2>3
<1>5. PICK r \in ThreadRows : worker' = [worker EXCEPT ![w] = r] /\ r.build = worker[w].build /\ r.at = worker[w].at
                            /\ r.pc \in {"scan", "called", "backoff"}
  BY <1>4
<1>6. StepOf(w) = "claim_scan"
  <2>1. CASE Plan(w)  BY <2>1 DEF Plan
  <2>2. CASE ~Plan(w)
    <3>1. worker[w].pc \in Scans  BY <2>2 DEF Call, ChunkScanned, ChunkFails, Scans
    <3>. QED  BY <1>1, <3>1, AtStepFacts
  <2>. QED  BY <2>1, <2>2
<1>7. r.pc \in AtStep /\ r.pc \notin {"save", "mark"}  BY <1>5 DEF AtStep, Stepping
<1>8. steps' = steps /\ run' = run /\ ready' = ready  BY <1>1
<1>. QED  BY <1>1, <1>2, <1>3, <1>5, <1>6, <1>7, <1>8, StepMoves

(* What finalising a job writes: what is left is cancelled.                *)
LEMMA FinalizeRows ==
  ASSUME Typed, NEW w \in Workers, Finalize(w)
  PROVE  LET b == worker[w].build IN
         /\ worker[w].pc = "finalize" /\ b \in DOMAIN builds
         /\ steps' \in Seq(StepRows) /\ Len(steps') = Len(steps) /\ DOMAIN steps' = DOMAIN steps
         /\ \A s \in DOMAIN steps[b] : /\ steps'[b][s].reused = steps[b][s].reused
                                      /\ \/ steps'[b][s].status = steps[b][s].status
                                         \/ steps[b][s].status \in Left /\ steps'[b][s].status = "cancelled"
         /\ \A c \in DOMAIN steps : c # b => steps'[c] = steps[c]
         /\ \A c \in DOMAIN builds : DOMAIN steps'[c] = DOMAIN steps[c]
         /\ tasks' \in Seq([Chunks -> TaskStates]) /\ Len(tasks') = Len(tasks) /\ DOMAIN tasks' = DOMAIN tasks
         /\ \A c \in Chunks : tasks'[b][c] = tasks[b][c] \/ (tasks[b][c] \in Left /\ tasks'[b][c] = "cancelled")
         /\ \A o \in DOMAIN tasks : o # b => tasks'[o] = tasks[o]
         /\ worker[w].stop => worker'[w].mark = "cancelled"
         /\ \E r \in ThreadRows : /\ worker' = [worker EXCEPT ![w] = r] /\ worker'[w] = r /\ r.pc = "write" /\ r.build = b
                                  /\ r.mark \in JobStates \ {"queued", "running"}
<1>1. worker[w].pc = "finalize" /\ worker[w].build \in DOMAIN builds  BY TypedFacts DEF Finalize
<1>2. PICK b \in DOMAIN builds : b = worker[w].build  BY <1>1
<1>. DEFINE stop == worker[w].stop \/ builds[b].cancel
            m == IF stop THEN "cancelled" ELSE Outcome(steps[b])
            sr == [s \in DOMAIN steps[b] |->
               IF steps[b][s].status \in Left THEN [steps[b][s] EXCEPT !.status = "cancelled"] ELSE steps[b][s]]
            tr == [c \in Chunks |-> IF tasks[b][c] \in Left THEN "cancelled" ELSE tasks[b][c]]
<1>3. /\ IF stop THEN steps' = [steps EXCEPT ![b] = sr] /\ tasks' = [tasks EXCEPT ![b] = tr]
                 ELSE UNCHANGED <<steps, tasks>>
      /\ worker' = [worker EXCEPT ![w].pc = "write", ![w].mark = m]
  BY <1>2, TypedFacts DEF Finalize
<1>4. m \in JobStates \ {"queued", "running"}  BY DEF Outcome, JobStates
<1>5. worker[w].stop => m = "cancelled"  OBVIOUS
<1>6. /\ sr \in [DOMAIN steps[b] -> StepRow]
      /\ \A s \in DOMAIN steps[b] : /\ sr[s].reused = steps[b][s].reused
                                    /\ \/ sr[s].status = steps[b][s].status
                                       \/ steps[b][s].status \in Left /\ sr[s].status = "cancelled"
  <2>1. ASSUME NEW s \in DOMAIN steps[b]
        PROVE sr[s] \in StepRow /\ sr[s].reused = steps[b][s].reused
              /\ (sr[s].status = steps[b][s].status \/ (steps[b][s].status \in Left /\ sr[s].status = "cancelled"))
    <3>1. PICK x \in StepRow : x = steps[b][s]  BY <2>1, TypedFacts
    <3>. DEFINE y == [x EXCEPT !.status = "cancelled"]
    <3>2. y \in StepRow /\ y.reused = x.reused /\ y.status = "cancelled"  BY DEF StepRow, StepStates
    <3>3. sr[s] = IF x.status \in Left THEN y ELSE x  BY <3>1
    <3>. QED  BY <3>1, <3>2, <3>3
  <2>. QED  BY <2>1
<1>7. tr \in [Chunks -> TaskStates]
  <2>1. tasks[b] \in [Chunks -> TaskStates]  BY TypedFacts
  <2>. QED  BY <2>1 DEF TaskStates
<1>8. \A c \in Chunks : tr[c] = tasks[b][c] \/ (tasks[b][c] \in Left /\ tr[c] = "cancelled")  OBVIOUS
<1>. HIDE DEF m, sr, tr
<1>9. PICK old \in ThreadRows : old = worker[w]  BY TypedFacts
<1>. DEFINE r == [old EXCEPT !.pc = "write", !.mark = m]
<1>10. r \in ThreadRows /\ r.pc = "write" /\ r.build = old.build /\ r.mark = m
  BY <1>4, MarksAreNames DEF ThreadRows, Closing
<1>11. worker' = [worker EXCEPT ![w] = r]  BY <1>3, <1>9
<1>. HIDE DEF r
<1>12. worker'[w] = r  BY <1>11 DEF Typed
<1>13. CASE stop
  <2>1. steps' = [steps EXCEPT ![b] = sr] /\ tasks' = [tasks EXCEPT ![b] = tr]  BY <1>3, <1>13
  <2>2. /\ steps' \in Seq(StepRows) /\ Len(steps') = Len(steps) /\ DOMAIN steps' = DOMAIN steps /\ steps'[b] = sr
        /\ \A c \in DOMAIN steps : c # b => steps'[c] = steps[c]
        /\ \A c \in DOMAIN builds : DOMAIN steps'[c] = DOMAIN steps[c]
    BY <1>6, <2>1, StepsRow
  <2>3. /\ tasks' \in Seq([Chunks -> TaskStates]) /\ Len(tasks') = Len(tasks) /\ DOMAIN tasks' = DOMAIN tasks /\ tasks'[b] = tr
        /\ \A o \in DOMAIN tasks : o # b => tasks'[o] = tasks[o]
    BY <1>7, <2>1, TasksRow
  <2>. QED  BY <1>1, <1>2, <1>4, <1>5, <1>6, <1>8, <1>9, <1>10, <1>11, <1>12, <2>2, <2>3
<1>14. CASE ~stop
  <2>1. UNCHANGED <<steps, tasks>>  BY <1>3, <1>14
  <2>2. /\ steps' \in Seq(StepRows) /\ Len(steps') = Len(steps) /\ DOMAIN steps' = DOMAIN steps
        /\ tasks' \in Seq([Chunks -> TaskStates]) /\ Len(tasks') = Len(tasks) /\ DOMAIN tasks' = DOMAIN tasks
    BY <2>1 DEF Typed
  <2>. QED  BY <1>1, <1>2, <1>4, <1>5, <1>9, <1>10, <1>11, <1>12, <2>1, <2>2
<1>. QED  BY <1>13, <1>14

(* The last steps of a thread.                                             *)
LEMMA CloseTyped ==
  ASSUME Typed, NEW w \in Workers, Finalize(w) \/ Write(w) \/ Raised(w)
  PROVE  Typed'
<1>1. worker[w].pc \in {"finalize", "write", "raised"} /\ UNCHANGED <<artifact, newer, ready>>
  BY DEF Finalize, Write, Raised, results
<1>2. worker[w].pc # "idle" /\ worker[w].build \in DOMAIN builds  BY <1>1, TypedFacts
<1>3. CASE Finalize(w)
  <2>1. /\ steps' \in Seq(StepRows) /\ Len(steps') = Len(steps) /\ \A c \in DOMAIN builds : DOMAIN steps'[c] = DOMAIN steps[c]
        /\ tasks' \in Seq([Chunks -> TaskStates]) /\ Len(tasks') = Len(tasks)
    BY <1>3, FinalizeRows
  <2>2. PICK r \in ThreadRows : /\ worker' = [worker EXCEPT ![w] = r] /\ r.pc = "write" /\ r.build = worker[w].build
                                /\ r.mark \in JobStates \ {"queued", "running"}
    BY <1>3, FinalizeRows
  <2>3. r.pc \notin Stepping \cup AtStep \cup Scans \cup {"save", "mark", "idle"}  BY <2>2 DEF Stepping, AtStep, Scans
  <2>4. UNCHANGED <<builds, artifact, newer, ready, run, used>>  BY <1>1, <1>3 DEF Finalize, results
  <2>5. /\ builds' \in Seq(BuildRows) /\ Len(builds') = Len(builds)
        /\ artifact' \in [Stored -> {"none", "part", "whole"}] /\ newer' \in BOOLEAN /\ ready' = ready
        /\ run' \in [Workers -> {"none"} \cup JobStates] /\ \A v \in Workers : run[v] = "none" => run'[v] = "none"
        /\ used' \in [retries : Nat, cancels : Nat, crashes : Nat, failures : Nat, history : Nat]
        /\ used'.crashes = used.crashes
    BY <2>4 DEF Typed
  <2>. QED  BY <1>2, <2>1, <2>2, <2>3, <2>5, Moves
<1>4. CASE Write(w) \/ Raised(w)
  <2>1. PICK status \in JobStates : Settle(worker[w].build, status) /\ run' = CloseRuns(worker[w].build, status)
    <3>1. CASE Write(w)
      <4>1. worker[w].mark \in JobStates  BY <3>1, TypedFacts DEF ThreadTyped, Write
      <4>. QED  BY <3>1, <4>1 DEF Write
    <3>2. CASE Raised(w)  BY <3>2 DEF Raised, JobStates
    <3>. QED  BY <1>4, <3>1, <3>2
  <2>2. Go(w, "gone") \/ Go(w, "raised")  BY <1>4 DEF Write, Raised
  <2>3. PICK r \in ThreadRows : worker' = [worker EXCEPT ![w] = r] /\ r.pc \in {"gone", "raised"} /\ r.build = worker[w].build
    BY <2>2, GoRow, LabelFacts DEF Closing
  <2>4. r.pc \notin Stepping \cup AtStep \cup Scans \cup {"save", "mark", "idle", "write"}
    BY <2>3 DEF Stepping, AtStep, Scans
  <2>5. builds' \in Seq(BuildRows) /\ Len(builds') = Len(builds)  BY <1>2, <2>1, SettleRow
  <2>6. run' \in [Workers -> {"none"} \cup JobStates] /\ \A v \in Workers : run[v] = "none" => run'[v] = "none"
    BY <2>1, ClosedRuns
  <2>7. UNCHANGED <<steps, tasks, artifact, newer, ready>> /\ (used' = used \/ Count("history"))
    BY <1>4 DEF Write, Raised, results
  <2>8. /\ steps' \in Seq(StepRows) /\ Len(steps') = Len(steps) /\ \A c \in DOMAIN builds : DOMAIN steps'[c] = DOMAIN steps[c]
        /\ tasks' \in Seq([Chunks -> TaskStates]) /\ Len(tasks') = Len(tasks)
        /\ artifact' \in [Stored -> {"none", "part", "whole"}] /\ newer' \in BOOLEAN /\ ready' = ready
        /\ used' \in [retries : Nat, cancels : Nat, crashes : Nat, failures : Nat, history : Nat]
        /\ used'.crashes = used.crashes
    BY <2>7 DEF Typed, Count
  <2>. QED  BY <1>2, <2>3, <2>4, <2>5, <2>6, <2>8, Moves
<1>. QED  BY <1>3, <1>4

-----------------------------------------------------------------------------
(* Types: requests and the environment.                                    *)

(* A function on an initial segment is a sequence.                         *)
LEMMA FunctionIsSeq ==
  ASSUME NEW S, NEW n \in Nat, NEW f \in [1..n -> S]
  PROVE  f \in Seq(S) /\ Len(f) = n
<1>1. f \in Seq(S)  BY SeqDef
<1>2. Len(f) \in Nat /\ DOMAIN f = 1..Len(f)  BY <1>1, LenProperties
<1>3. 1..n = 1..Len(f)  BY <1>2
<1>. QED  BY <1>1, <1>2, <1>3

(* What appending to a sequence leaves where it was.                       *)
LEMMA Appended ==
  ASSUME NEW S, NEW n \in Nat, NEW f \in [1..n -> S], NEW e \in S
  PROVE  /\ Append(f, e) \in Seq(S) /\ Len(Append(f, e)) = n + 1 /\ DOMAIN Append(f, e) = 1..(n + 1)
         /\ \A i \in 1..n : Append(f, e)[i] = f[i]
         /\ Append(f, e)[n + 1] = e
<1>1. f \in Seq(S) /\ Len(f) = n  BY FunctionIsSeq
<1>2. Append(f, e) \in Seq(S) /\ Len(Append(f, e)) = n + 1  BY <1>1
<1>3. DOMAIN Append(f, e) = 1..(n + 1)  BY <1>2, LenProperties
<1>. QED  BY <1>1, <1>2, <1>3

(* The same, for a sequence that is known by its definition.               *)
LEMMA AppendedRow ==
  ASSUME NEW S, NEW n \in Nat, NEW f \in [1..n -> S], NEW e \in S, NEW g, g = Append(f, e)
  PROVE  /\ g \in Seq(S) /\ Len(g) = n + 1 /\ DOMAIN g = 1..(n + 1)
         /\ \A i \in 1..n : g[i] = f[i]
         /\ g[n + 1] = e
BY Appended

(* What a new build inserts, and what it does to the one it supersedes.    *)
LEMMA Inserted ==
  ASSUME Typed, NEW names \in SUBSET Steps, Insert(names)
  PROVE  LET n == Len(builds) + 1 IN
         /\ builds' \in Seq(BuildRows) /\ Len(builds') = n /\ DOMAIN builds' = 1..n /\ n \in DOMAIN builds'
         /\ DOMAIN builds \subseteq DOMAIN builds' /\ DOMAIN builds' = DOMAIN builds \cup {n} /\ n \notin DOMAIN builds
         /\ builds'[n] = NewBuild
         /\ \A b \in DOMAIN builds :
              /\ b \notin Newest => builds'[b] = builds[b]
              /\ b \in Newest => builds'[b].status = "failed" /\ builds'[b].stale = builds[b].stale
         /\ steps' \in Seq(StepRows) /\ Len(steps') = n /\ DOMAIN steps' = 1..n
         /\ steps'[n] = [s \in names |-> NewStep]
         /\ \A b \in DOMAIN builds :
              /\ DOMAIN steps'[b] = DOMAIN steps[b]
              /\ b \notin Newest => steps'[b] = steps[b]
              /\ \A s \in DOMAIN steps[b] :
                   /\ steps'[b][s].reused = steps[b][s].reused
                   /\ \/ steps'[b][s].status = steps[b][s].status
                      \/ steps[b][s].status = "running" /\ steps'[b][s].status = "failed"
         /\ tasks' \in Seq([Chunks -> TaskStates]) /\ Len(tasks') = n /\ DOMAIN tasks' = 1..n
         /\ tasks'[n] = [c \in Chunks |-> "none"]
         /\ \A b \in DOMAIN builds : tasks'[b] = tasks[b]
<1>. DEFINE N == Len(builds)
            bs == [b \in DOMAIN builds |-> IF b \in Newest THEN Failed(builds[b]) ELSE builds[b]]
            ss == [b \in DOMAIN steps |-> IF b \in Newest THEN Superseded(b) ELSE steps[b]]
<1>1. N \in Nat /\ DOMAIN builds = 1..N /\ DOMAIN steps = 1..N /\ DOMAIN tasks = 1..N  BY TypedFacts
<1>2. builds' = Append(bs, NewBuild) /\ steps' = Append(ss, [s \in names |-> NewStep])
      /\ tasks' = Append(tasks, [c \in Chunks |-> "none"])
  BY DEF Insert
<1>3. NewBuild \in BuildRows  BY DEF NewBuild, BuildRows, JobStates, Typed
<1>4. /\ bs \in [1..N -> BuildRows]
      /\ \A b \in 1..N : /\ b \notin Newest => bs[b] = builds[b]
                         /\ b \in Newest => bs[b].status = "failed" /\ bs[b].stale = builds[b].stale
  <2>1. ASSUME NEW b \in 1..N
        PROVE  bs[b] \in BuildRows /\ (b \notin Newest => bs[b] = builds[b])
               /\ (b \in Newest => bs[b].status = "failed" /\ bs[b].stale = builds[b].stale)
    <3>1. PICK x \in BuildRows : x = builds[b]  BY <1>1, TypedFacts
    <3>2. Failed(x) \in BuildRows /\ Failed(x).status = "failed" /\ Failed(x).stale = x.stale
      BY DEF Failed, BuildRows, JobStates
    <3>3. bs[b] = IF b \in Newest THEN Failed(x) ELSE x  BY <1>1, <3>1
    <3>. QED  BY <3>1, <3>2, <3>3
  <2>. QED  BY <1>1, <2>1
<1>5. /\ ss \in [1..N -> StepRows]
      /\ \A b \in 1..N : /\ DOMAIN ss[b] = DOMAIN steps[b]
                         /\ b \notin Newest => ss[b] = steps[b]
                         /\ \A s \in DOMAIN steps[b] :
                              /\ ss[b][s].reused = steps[b][s].reused
                              /\ \/ ss[b][s].status = steps[b][s].status
                                 \/ steps[b][s].status = "running" /\ ss[b][s].status = "failed"
  <2>1. ASSUME NEW b \in 1..N
        PROVE  ss[b] \in StepRows /\ DOMAIN ss[b] = DOMAIN steps[b] /\ (b \notin Newest => ss[b] = steps[b])
               /\ \A s \in DOMAIN steps[b] :
                              /\ ss[b][s].reused = steps[b][s].reused
                              /\ \/ ss[b][s].status = steps[b][s].status
                                 \/ steps[b][s].status = "running" /\ ss[b][s].status = "failed"
    <3>1. steps[b] \in StepRows /\ DOMAIN steps[b] \in SUBSET Steps  BY <1>1, TypedFacts
    <3>2. ASSUME NEW s \in DOMAIN steps[b]
          PROVE  /\ Superseded(b)[s] \in StepRow /\ Superseded(b)[s].reused = steps[b][s].reused
                 /\ \/ Superseded(b)[s].status = steps[b][s].status
                    \/ steps[b][s].status = "running" /\ Superseded(b)[s].status = "failed"
      <4>1. PICK x \in StepRow : x = steps[b][s]  BY <1>1, <3>2, TypedFacts
      <4>2. Failed(x) \in StepRow /\ Failed(x).status = "failed" /\ Failed(x).reused = x.reused
        BY DEF Failed, StepRow, StepStates
      <4>3. Superseded(b)[s] = IF x.status = "running" THEN Failed(x) ELSE x  BY <4>1 DEF Superseded
      <4>. QED  BY <4>1, <4>2, <4>3
    <3>3. DOMAIN Superseded(b) = DOMAIN steps[b] /\ Superseded(b) = [s \in DOMAIN steps[b] |-> Superseded(b)[s]]
      BY DEF Superseded
    <3>4. Superseded(b) \in [DOMAIN steps[b] -> StepRow]  BY <3>2, <3>3
    <3>5. Superseded(b) \in StepRows  BY <3>1, <3>4 DEF StepRows
    <3>6. ss[b] = IF b \in Newest THEN Superseded(b) ELSE steps[b]  BY <1>1
    <3>. QED  BY <3>1, <3>2, <3>3, <3>5, <3>6
  <2>. QED  BY <1>1, <2>1
<1>6. [s \in names |-> NewStep] \in StepRows
  <2>1. NewStep \in StepRow  BY DEF NewStep, StepRow, StepStates
  <2>. QED  BY <2>1 DEF StepRows
<1>7. tasks \in [1..N -> [Chunks -> TaskStates]] /\ [c \in Chunks |-> "none"] \in [Chunks -> TaskStates]
  <2>1. tasks \in [1..N -> [Chunks -> TaskStates]]
    <3>1. tasks \in Seq([Chunks -> TaskStates]) /\ Len(tasks) = N  BY DEF Typed
    <3>. QED  BY <3>1, LenProperties
  <2>. QED  BY <2>1 DEF TaskStates
<1>. HIDE DEF bs, ss, N
<1>8. /\ builds' \in Seq(BuildRows) /\ Len(builds') = N + 1 /\ DOMAIN builds' = 1..(N + 1)
      /\ \A b \in 1..N : builds'[b] = bs[b]
      /\ builds'[N + 1] = NewBuild
  BY <1>1, <1>2, <1>3, <1>4, AppendedRow
<1>9. /\ steps' \in Seq(StepRows) /\ Len(steps') = N + 1 /\ DOMAIN steps' = 1..(N + 1)
      /\ \A b \in 1..N : steps'[b] = ss[b]
      /\ steps'[N + 1] = [s \in names |-> NewStep]
  BY <1>1, <1>2, <1>5, <1>6, AppendedRow
<1>10. /\ tasks' \in Seq([Chunks -> TaskStates]) /\ Len(tasks') = N + 1 /\ DOMAIN tasks' = 1..(N + 1)
       /\ \A b \in 1..N : tasks'[b] = tasks[b]
       /\ tasks'[N + 1] = [c \in Chunks |-> "none"]
  <2>. DEFINE TS == [Chunks -> TaskStates]  none == [c \in Chunks |-> "none"]
  <2>1. tasks \in [1..N -> TS] /\ none \in TS /\ tasks' = Append(tasks, none)  BY <1>2, <1>7
  <2>. HIDE DEF TS, none
  <2>2. /\ tasks' \in Seq(TS) /\ Len(tasks') = N + 1 /\ DOMAIN tasks' = 1..(N + 1)
        /\ \A b \in 1..N : tasks'[b] = tasks[b]
        /\ tasks'[N + 1] = none
    BY <1>1, <2>1, AppendedRow
  <2>. QED  BY <2>2 DEF TS, none
<1>11. N + 1 \in 1..(N + 1) /\ 1..N \subseteq 1..(N + 1) /\ 1..(N + 1) = 1..N \cup {N + 1} /\ N + 1 \notin 1..N
  BY <1>1
<1>12. /\ DOMAIN builds \subseteq DOMAIN builds' /\ DOMAIN builds' = DOMAIN builds \cup {N + 1} /\ N + 1 \notin DOMAIN builds
       /\ N + 1 \in DOMAIN builds'
  BY <1>1, <1>8, <1>11
<1>13. \A b \in DOMAIN builds :
              /\ b \notin Newest => builds'[b] = builds[b]
              /\ b \in Newest => builds'[b].status = "failed" /\ builds'[b].stale = builds[b].stale
  BY <1>1, <1>4, <1>8
<1>14. \A b \in DOMAIN builds :
              /\ DOMAIN steps'[b] = DOMAIN steps[b]
              /\ b \notin Newest => steps'[b] = steps[b]
              /\ \A s \in DOMAIN steps[b] :
                   /\ steps'[b][s].reused = steps[b][s].reused
                   /\ \/ steps'[b][s].status = steps[b][s].status
                      \/ steps[b][s].status = "running" /\ steps'[b][s].status = "failed"
  BY <1>1, <1>5, <1>9
<1>. QED  BY <1>1, <1>8, <1>9, <1>10, <1>12, <1>13, <1>14 DEF N

(* Rows are kept or added; each thread stays, or ends, or is well typed.   *)
LEMMA Grown ==
  ASSUME Typed,
         builds' \in Seq(BuildRows), Len(builds') <= MaxBuilds,
         steps' \in Seq(StepRows), Len(steps') = Len(builds'),
         tasks' \in Seq([Chunks -> TaskStates]), Len(tasks') = Len(builds'),
         DOMAIN builds \subseteq DOMAIN builds',
         \A b \in DOMAIN builds : DOMAIN steps'[b] = DOMAIN steps[b],
         used'.crashes = 0 => \A b \in DOMAIN builds' : DOMAIN steps'[b] = Steps,
         artifact' \in [Stored -> {"none", "part", "whole"}], newer' \in BOOLEAN, ready' \in BOOLEAN,
         run' \in [Workers -> {"none"} \cup JobStates],
         used' \in [retries : Nat, cancels : Nat, crashes : Nat, failures : Nat, history : Nat],
         worker' \in [Workers -> ThreadRows],
         \A v \in Workers : \/ worker'[v] = worker[v] /\ (run[v] = "none" => run'[v] = "none")
                            \/ worker'[v].pc = "gone" /\ worker[v].pc # "idle" /\ worker'[v].build = worker[v].build
                            \/ worker'[v].pc \in {"new", "finalize"} /\ worker'[v].at \in {0, 1} /\ worker'[v].build \in DOMAIN builds'
                               /\ (worker'[v].pc = "new" => worker'[v].at = 1)
  PROVE  Typed'
<1>1. ASSUME NEW v \in Workers  PROVE ThreadTyped(v)'
  <2>1. ThreadTyped(v) /\ (worker[v].pc # "idle" => worker[v].build \in DOMAIN builds)  BY TypedFacts
  <2>2. CASE worker'[v] = worker[v] /\ (run[v] = "none" => run'[v] = "none")
    <3>1. worker[v].pc \in AtStep => worker[v].pc # "idle"  BY LabelFacts
    <3>. QED  BY <2>1, <2>2, <3>1 DEF ThreadTyped, StepOf
  <2>3. CASE worker'[v].pc = "gone" /\ worker[v].pc # "idle" /\ worker'[v].build = worker[v].build
    <3>1. worker'[v].pc \notin Stepping \cup AtStep \cup Scans  BY <2>3 DEF Stepping, AtStep, Scans
    <3>. QED  BY <2>1, <2>3, <3>1 DEF ThreadTyped
  <2>4. CASE worker'[v].pc \in {"new", "finalize"} /\ worker'[v].build \in DOMAIN builds'
             /\ (worker'[v].pc = "new" => worker'[v].at = 1)
    <3>1. worker'[v].pc \notin AtStep \cup Scans /\ (worker'[v].pc \in Stepping => worker'[v].pc = "new")
      BY <2>4 DEF Stepping, AtStep, Scans
    <3>. QED  BY <2>4, <3>1 DEF ThreadTyped
  <2>. QED  BY <2>2, <2>3, <2>4
<1>. QED  BY <1>1 DEF Typed

(* The row of a thread that has not been used.                             *)
LEMMA IdleThread ==
  /\ Idle.pc = "idle" /\ Idle.build = 0 /\ Idle.at = 0 /\ Idle.stop = FALSE
  /\ Idle.todo = {} /\ Idle.chunk = {} /\ Idle.tries = 0 /\ Idle \in ThreadRows
<1>1. PICK m \in MarkNames : m = Idle.mark  BY MarksAreNames
<1>2. Idle = [pc |-> "idle", build |-> 0, at |-> 0, mark |-> m, stop |-> FALSE, todo |-> {}, chunk |-> {}, tries |-> 0]
  <2>1. Idle.mark = ""  BY Zenon DEF Idle
  <2>. QED  BY Zenon, <1>1, <2>1 DEF Idle
<1>. QED  BY <1>2 DEF ThreadRows

(* A start gives a job an unused thread with an open run.                  *)
LEMMA SpawnRow ==
  ASSUME Typed, NEW b \in Nat, NEW closed \in [Workers -> {"none"} \cup JobStates], Spawn(b, closed)
  PROVE  \E w \in Workers :
           /\ worker[w].pc = "idle" /\ worker' \in [Workers -> ThreadRows]
           /\ worker'[w].pc = "new" /\ worker'[w].build = b /\ worker'[w].at = 1
           /\ run' \in [Workers -> {"none"} \cup JobStates] /\ run'[w] = "running"
           /\ \A v \in Workers : v # w => worker'[v] = worker[v] /\ run'[v] = closed[v]
<1>1. PICK w \in Workers : /\ worker[w].pc = "idle"
                           /\ worker' = [worker EXCEPT ![w] = [Idle EXCEPT !.pc = "new", !.build = b, !.at = 1]]
                           /\ run' = [closed EXCEPT ![w] = "running"]
  BY DEF Spawn
<1>. DEFINE r == [Idle EXCEPT !.pc = "new", !.build = b, !.at = 1]
<1>2. r \in ThreadRows /\ r.pc = "new" /\ r.build = b /\ r.at = 1
  <2>1. PICK old \in ThreadRows : old = Idle  BY IdleThread
  <2>2. [old EXCEPT !.pc = "new", !.build = b, !.at = 1] \in ThreadRows  BY DEF ThreadRows, Stepping
  <2>. QED  BY <2>1, <2>2 DEF ThreadRows
<1>. HIDE DEF r
<1>3. worker' = [worker EXCEPT ![w] = r]  BY <1>1 DEF r
<1>4. worker \in [Workers -> ThreadRows]  BY DEF Typed
<1>. QED  BY <1>1, <1>2, <1>3, <1>4 DEF JobStates

(* Every thread of a process that ends is gone.                            *)
LEMMA LostRows ==
  ASSUME Typed, Lost
  PROVE  /\ worker' \in [Workers -> ThreadRows]
         /\ \A v \in Workers : IF Alive(v) THEN worker'[v].pc = "gone" /\ worker'[v].build = worker[v].build
                               ELSE worker'[v] = worker[v]
<1>1. ASSUME NEW v \in Workers
      PROVE  [worker[v] EXCEPT !.pc = "gone"] \in ThreadRows /\ worker[v] \in ThreadRows
             /\ [worker[v] EXCEPT !.pc = "gone"].pc = "gone" /\ [worker[v] EXCEPT !.pc = "gone"].build = worker[v].build
  <2>1. PICK old \in ThreadRows : old = worker[v]  BY TypedFacts
  <2>2. [old EXCEPT !.pc = "gone"] \in ThreadRows /\ [old EXCEPT !.pc = "gone"].pc = "gone"
        /\ [old EXCEPT !.pc = "gone"].build = old.build
    BY DEF ThreadRows
  <2>. QED  BY <2>1, <2>2
<1>2. worker' = [v \in Workers |-> IF Alive(v) THEN [worker[v] EXCEPT !.pc = "gone"] ELSE worker[v]]  BY DEF Lost
<1>. QED  BY <1>1, <1>2

(* A start closes the open runs of the job it supersedes.                  *)
LEMMA ClosedNewest ==
  ASSUME Typed
  PROVE  /\ CloseNewest \in [Workers -> {"none"} \cup JobStates]
         /\ \A v \in Workers : CloseNewest[v] = IF worker[v].build \in Newest /\ run[v] = "running" THEN "failed" ELSE run[v]
BY DEF Typed, CloseNewest, JobStates

(* Counting an event changes its count only.                               *)
LEMMA Counted ==
  ASSUME Typed, NEW what \in {"retries", "cancels", "crashes", "failures", "history"}, Count(what)
  PROVE  /\ used' \in [retries : Nat, cancels : Nat, crashes : Nat, failures : Nat, history : Nat]
         /\ used.retries \in Nat /\ used.cancels \in Nat /\ used.crashes \in Nat /\ used.history \in Nat
         /\ used'.retries = IF what = "retries" THEN used.retries + 1 ELSE used.retries
         /\ used'.cancels = IF what = "cancels" THEN used.cancels + 1 ELSE used.cancels
         /\ used'.crashes = IF what = "crashes" THEN used.crashes + 1 ELSE used.crashes
         /\ used'.history = IF what = "history" THEN used.history + 1 ELSE used.history
<1>1. used \in [retries : Nat, cancels : Nat, crashes : Nat, failures : Nat, history : Nat]  BY DEF Typed
<1>2. used' = [used EXCEPT ![what] = used[what] + 1]  BY DEF Count
<1>3. CASE what = "retries"  BY <1>1, <1>2, <1>3
<1>4. CASE what = "cancels"  BY <1>1, <1>2, <1>4
<1>5. CASE what = "crashes"  BY <1>1, <1>2, <1>5
<1>6. CASE what = "failures"  BY <1>1, <1>2, <1>6
<1>7. CASE what = "history"  BY <1>1, <1>2, <1>7
<1>. QED  BY <1>3, <1>4, <1>5, <1>6, <1>7

(* The effect of a start.                                                  *)
LEMMA StartTyped ==
  ASSUME Typed, Start
  PROVE  /\ Typed' /\ Insert(Steps) /\ UNCHANGED <<artifact, newer, ready, used>> /\ Startable
         /\ \E w \in Workers :
           /\ worker[w].pc = "idle" /\ worker'[w].pc = "new" /\ worker'[w].build = Len(builds) + 1 /\ worker'[w].at = 1
           /\ run'[w] = "running"
           /\ \A v \in Workers : v # w => worker'[v] = worker[v] /\ run'[v] = CloseNewest[v]
<1>1. /\ Len(builds) < MaxBuilds /\ Insert(Steps) /\ Spawn(Len(builds) + 1, CloseNewest) /\ Startable
      /\ UNCHANGED <<artifact, newer, ready, used>>
  BY DEF Start, results
<1>2. Len(builds) \in Nat /\ Len(builds) + 1 \in Nat /\ MaxBuilds \in Nat  BY TypedFacts, PipelineAssumption
<1>3. PICK w \in Workers :
           /\ worker[w].pc = "idle" /\ worker' \in [Workers -> ThreadRows]
           /\ worker'[w].pc = "new" /\ worker'[w].build = Len(builds) + 1 /\ worker'[w].at = 1
           /\ run' \in [Workers -> {"none"} \cup JobStates] /\ run'[w] = "running"
           /\ \A v \in Workers : v # w => worker'[v] = worker[v] /\ run'[v] = CloseNewest[v]
  BY <1>1, <1>2, SpawnRow, ClosedNewest
<1>4. Typed'
  <2>1. /\ builds' \in Seq(BuildRows) /\ Len(builds') = Len(builds) + 1
        /\ Len(builds) + 1 \in DOMAIN builds' /\ DOMAIN builds \subseteq DOMAIN builds'
        /\ DOMAIN builds' = DOMAIN builds \cup {Len(builds) + 1}
        /\ steps' \in Seq(StepRows) /\ Len(steps') = Len(builds) + 1 /\ steps'[Len(builds) + 1] = [s \in Steps |-> NewStep]
        /\ \A b \in DOMAIN builds : DOMAIN steps'[b] = DOMAIN steps[b]
        /\ tasks' \in Seq([Chunks -> TaskStates]) /\ Len(tasks') = Len(builds) + 1
    BY <1>1, Inserted
  <2>2. Len(builds') <= MaxBuilds  BY <1>1, <1>2, <2>1
  <2>3. used'.crashes = 0 => \A b \in DOMAIN builds' : DOMAIN steps'[b] = Steps  BY <1>1, <2>1 DEF Typed
  <2>4. \A v \in Workers : v # w => worker'[v] = worker[v] /\ (run[v] = "none" => run'[v] = "none")
    BY <1>3, ClosedNewest
  <2>5. /\ artifact' \in [Stored -> {"none", "part", "whole"}] /\ newer' \in BOOLEAN /\ ready' \in BOOLEAN
        /\ used' \in [retries : Nat, cancels : Nat, crashes : Nat, failures : Nat, history : Nat]
    BY <1>1 DEF Typed
  <2>6. \A v \in Workers : \/ worker'[v] = worker[v] /\ (run[v] = "none" => run'[v] = "none")
                           \/ worker'[v].pc = "gone" /\ worker[v].pc # "idle" /\ worker'[v].build = worker[v].build
                           \/ worker'[v].pc \in {"new", "finalize"} /\ worker'[v].at \in {0, 1} /\ worker'[v].build \in DOMAIN builds'
                              /\ (worker'[v].pc = "new" => worker'[v].at = 1)
    BY <1>3, <2>1, <2>4
  <2>. QED  BY <1>3, <2>1, <2>2, <2>3, <2>5, <2>6, Grown
<1>. QED  BY <1>1, <1>3, <1>4

(* The effect of a start that the process did not survive.                 *)
LEMMA StartTornTyped ==
  ASSUME Typed, StartTorn
  PROVE  /\ Typed' /\ \E names \in SUBSET Steps : Insert(names)
         /\ Lost /\ run' = CloseNewest /\ UNCHANGED <<artifact, newer, ready>> /\ Count("crashes") /\ Startable
<1>1. /\ Len(builds) < MaxBuilds /\ Lost /\ run' = CloseNewest /\ Count("crashes") /\ UNCHANGED <<artifact, newer, ready>>
      /\ Startable
  BY DEF StartTorn, results
<1>2. PICK names \in SUBSET Steps : Insert(names)
  <2>1. PICK n \in 0..Len(StepOrder) - 1 : Insert({StepOrder[i] : i \in 1..n})  BY DEF StartTorn
  <2>2. {StepOrder[i] : i \in 1..n} \subseteq Steps
    <3>1. 1..n \subseteq DOMAIN StepOrder  BY StepsFacts
    <3>. QED  BY <3>1, StepsFacts
  <2>. QED  BY <2>1, <2>2
<1>3. Len(builds) \in Nat /\ Len(builds) + 1 \in Nat /\ MaxBuilds \in Nat  BY TypedFacts, PipelineAssumption
<1>4. Typed'
  <2>1. /\ builds' \in Seq(BuildRows) /\ Len(builds') = Len(builds) + 1 /\ DOMAIN builds \subseteq DOMAIN builds'
        /\ steps' \in Seq(StepRows) /\ Len(steps') = Len(builds) + 1
        /\ \A b \in DOMAIN builds : DOMAIN steps'[b] = DOMAIN steps[b]
        /\ tasks' \in Seq([Chunks -> TaskStates]) /\ Len(tasks') = Len(builds) + 1
    BY <1>2, Inserted
  <2>2. Len(builds') <= MaxBuilds  BY <1>1, <1>3, <2>1
  <2>3. /\ used' \in [retries : Nat, cancels : Nat, crashes : Nat, failures : Nat, history : Nat]
        /\ used'.crashes # 0
    BY <1>1, Counted
  <2>4. /\ artifact' \in [Stored -> {"none", "part", "whole"}] /\ newer' \in BOOLEAN /\ ready' \in BOOLEAN
    BY <1>1 DEF Typed
  <2>5. run' \in [Workers -> {"none"} \cup JobStates] /\ \A v \in Workers : run[v] = "none" => run'[v] = "none"
    BY <1>1, ClosedNewest
  <2>6. worker' \in [Workers -> ThreadRows]
        /\ \A v \in Workers : worker'[v] = worker[v] \/
             (worker'[v].pc = "gone" /\ worker[v].pc # "idle" /\ worker'[v].build = worker[v].build)
    BY <1>1, LostRows DEF Alive
  <2>. QED  BY <2>1, <2>2, <2>3, <2>4, <2>5, <2>6, Grown
<1>. QED  BY <1>1, <1>2, <1>4

(* The effect of a retry: completed steps and chunks stay.                 *)
LEMMA RetryTyped ==
  ASSUME Typed, NEW b \in DOMAIN builds, NEW targets, Retry(b, targets)
  PROVE  /\ Typed' /\ UNCHANGED <<artifact, newer, ready>> /\ Count("retries") /\ (Active(b) => builds[b].stale)
         /\ Len(builds') = Len(builds) /\ DOMAIN builds' = DOMAIN builds
         /\ builds'[b].status = "queued" /\ ~builds'[b].stale
         /\ \A c \in DOMAIN builds : c # b => builds'[c] = builds[c] /\ steps'[c] = steps[c] /\ tasks'[c] = tasks[c]
         /\ \A s \in DOMAIN steps[b] :
              \/ steps'[b][s] = steps[b][s]
              \/ steps[b][s].status # "completed" /\ steps'[b][s].status = "pending" /\ ~steps'[b][s].reused
         /\ \A c \in Chunks : tasks'[b][c] = ResetTask(tasks[b][c])
         /\ \E w \in Workers :
              /\ worker[w].pc = "idle" /\ worker'[w].pc = "new" /\ worker'[w].build = b /\ worker'[w].at = 1
              /\ run'[w] = "running"
              /\ \A v \in Workers : v # w =>
                   /\ worker'[v] = worker[v]
                   /\ run'[v] = IF worker[v].build = b /\ run[v] = "running" THEN "failed" ELSE run[v]
<1>1. /\ Count("retries") /\ UNCHANGED <<artifact, newer, ready>> /\ Spawn(b, CloseRuns(b, "failed"))
      /\ (Active(b) => builds[b].stale)
  BY DEF Retry, results
<1>2. b \in Nat /\ DOMAIN builds = DOMAIN steps /\ DOMAIN tasks = DOMAIN builds  BY TypedFacts
<1>3. CloseRuns(b, "failed") \in [Workers -> {"none"} \cup JobStates]  BY DEF CloseRuns, JobStates, Typed
<1>4. PICK w \in Workers :
           /\ worker[w].pc = "idle" /\ worker' \in [Workers -> ThreadRows]
           /\ worker'[w].pc = "new" /\ worker'[w].build = b /\ worker'[w].at = 1
           /\ run' \in [Workers -> {"none"} \cup JobStates] /\ run'[w] = "running"
           /\ \A v \in Workers : v # w => worker'[v] = worker[v] /\ run'[v] = CloseRuns(b, "failed")[v]
  BY <1>1, <1>2, <1>3, SpawnRow
<1>5. \A v \in Workers : v # w => run'[v] = IF worker[v].build = b /\ run[v] = "running" THEN "failed" ELSE run[v]
  BY <1>4 DEF CloseRuns
<1>6. /\ builds' \in Seq(BuildRows) /\ Len(builds') = Len(builds) /\ DOMAIN builds' = DOMAIN builds
      /\ builds'[b].status = "queued" /\ ~builds'[b].stale
      /\ \A c \in DOMAIN builds : c # b => builds'[c] = builds[c]
  <2>1. PICK x \in BuildRows : x = builds[b]  BY TypedFacts
  <2>. DEFINE r == [NewBuild EXCEPT !.pinned = x.pinned]
  <2>2. r \in BuildRows /\ r.status = "queued" /\ ~r.stale  BY DEF NewBuild, BuildRows, JobStates
  <2>3. builds' = [builds EXCEPT ![b] = r]  BY <2>1 DEF Retry
  <2>. HIDE DEF r
  <2>4. builds \in Seq(BuildRows)  BY DEF Typed
  <2>. QED  BY <2>2, <2>3, <2>4, RowSet
<1>7. /\ steps' \in Seq(StepRows) /\ Len(steps') = Len(steps)
      /\ \A c \in DOMAIN builds : DOMAIN steps'[c] = DOMAIN steps[c]
      /\ \A c \in DOMAIN builds : c # b => steps'[c] = steps[c]
      /\ \A s \in DOMAIN steps[b] :
              \/ steps'[b][s] = steps[b][s]
              \/ steps[b][s].status # "completed" /\ steps'[b][s].status = "pending" /\ ~steps'[b][s].reused
  <2>. DEFINE row == [s \in DOMAIN steps[b] |-> IF s \in Resettable(b, targets) THEN NewStep ELSE steps[b][s]]
  <2>1. NewStep \in StepRow /\ NewStep.status = "pending" /\ ~NewStep.reused  BY DEF NewStep, StepRow, StepStates
  <2>2. row \in [DOMAIN steps[b] -> StepRow]  BY <2>1, TypedFacts
  <2>3. steps' = [steps EXCEPT ![b] = row]  BY <1>2 DEF Retry
  <2>4. \A s \in DOMAIN steps[b] :
              \/ row[s] = steps[b][s]
              \/ steps[b][s].status # "completed" /\ row[s].status = "pending" /\ ~row[s].reused
    BY <2>1 DEF Resettable
  <2>. HIDE DEF row
  <2>. QED  BY <1>2, <2>2, <2>3, <2>4, StepsRow
<1>8. /\ tasks' \in Seq([Chunks -> TaskStates]) /\ Len(tasks') = Len(tasks)
      /\ \A c \in DOMAIN builds : c # b => tasks'[c] = tasks[c]
      /\ \A c \in Chunks : tasks'[b][c] = ResetTask(tasks[b][c])
  <2>. DEFINE row == [c \in Chunks |-> ResetTask(tasks[b][c])]
  <2>1. tasks[b] \in [Chunks -> TaskStates]  BY TypedFacts
  <2>2. row \in [Chunks -> TaskStates]  BY <2>1 DEF ResetTask, TaskStates
  <2>3. tasks' = [tasks EXCEPT ![b] = row]  BY <1>2 DEF Retry
  <2>4. \A c \in Chunks : row[c] = ResetTask(tasks[b][c])  OBVIOUS
  <2>. HIDE DEF row
  <2>. QED  BY <1>2, <2>2, <2>3, <2>4, TasksRow
<1>9. Typed'
  <2>1. used'.crashes = used.crashes /\ used' \in [retries : Nat, cancels : Nat, crashes : Nat, failures : Nat, history : Nat]
    BY <1>1, Counted
  <2>2. used'.crashes = 0 => \A c \in DOMAIN builds' : DOMAIN steps'[c] = Steps  BY <1>6, <1>7, <2>1 DEF Typed
  <2>3. artifact' \in [Stored -> {"none", "part", "whole"}] /\ newer' \in BOOLEAN /\ ready' \in BOOLEAN
    BY <1>1 DEF Typed
  <2>4. \A v \in Workers : \/ worker'[v] = worker[v] /\ (run[v] = "none" => run'[v] = "none")
                           \/ worker'[v].pc \in {"new", "finalize"} /\ worker'[v].at \in {0, 1} /\ worker'[v].build \in DOMAIN builds'
                              /\ (worker'[v].pc = "new" => worker'[v].at = 1)
    BY <1>4, <1>5, <1>6
  <2>5. Len(builds') <= MaxBuilds /\ Len(steps') = Len(builds') /\ Len(tasks') = Len(builds')
    BY <1>6, <1>7, <1>8 DEF Typed
  <2>. QED  BY <1>4, <1>6, <1>7, <1>8, <2>1, <2>2, <2>3, <2>4, <2>5, Grown
<1>. QED  BY <1>1, <1>4, <1>5, <1>6, <1>7, <1>8, <1>9

(* The effect of cancelling a job.                                         *)
LEMMA CancelBuildTyped ==
  ASSUME Typed, NEW b \in DOMAIN builds, CancelBuild(b)
  PROVE  /\ Typed' /\ UNCHANGED <<steps, tasks, artifact, newer, ready, run>> /\ Count("cancels") /\ Active(b)
         /\ DOMAIN builds' = DOMAIN builds
         /\ \A c \in DOMAIN builds : builds'[c].status = builds[c].status /\ builds'[c].stale = builds[c].stale
         /\ \/ UNCHANGED worker
            \/ /\ builds[b].stale
               /\ \E w \in Workers :
                    /\ worker[w].pc = "idle" /\ worker'[w].pc = "finalize" /\ worker'[w].build = b /\ worker'[w].stop
                    /\ \A v \in Workers : v # w => worker'[v] = worker[v]
<1>1. UNCHANGED <<steps, tasks, artifact, newer, ready, run>> /\ Count("cancels") /\ Active(b)
  BY DEF CancelBuild, results
<1>2. /\ builds' \in Seq(BuildRows) /\ Len(builds') = Len(builds) /\ DOMAIN builds' = DOMAIN builds
      /\ \A c \in DOMAIN builds : builds'[c].status = builds[c].status /\ builds'[c].stale = builds[c].stale
  <2>1. PICK x \in BuildRows : x = builds[b]  BY TypedFacts
  <2>. DEFINE r == [x EXCEPT !.cancel = TRUE]
  <2>2. r \in BuildRows /\ r.status = x.status /\ r.stale = x.stale  BY DEF BuildRows
  <2>3. builds' = [builds EXCEPT ![b] = r]  BY <2>1 DEF CancelBuild
  <2>. HIDE DEF r
  <2>4. builds \in Seq(BuildRows)  BY DEF Typed
  <2>5. /\ builds' \in Seq(BuildRows) /\ Len(builds') = Len(builds) /\ DOMAIN builds' = DOMAIN builds
        /\ builds'[b] = r /\ \A c \in DOMAIN builds : c # b => builds'[c] = builds[c]
    BY <2>2, <2>3, <2>4, RowSet
  <2>. QED  BY <2>1, <2>2, <2>5
<1>3. /\ worker' \in [Workers -> ThreadRows]
      /\ \/ UNCHANGED worker
         \/ /\ builds[b].stale
            /\ \E w \in Workers :
                 /\ worker[w].pc = "idle" /\ worker'[w].pc = "finalize" /\ worker'[w].build = b /\ worker'[w].stop
                 /\ worker'[w].at = 0
                 /\ \A v \in Workers : v # w => worker'[v] = worker[v]
  <2>1. CASE builds[b].stale
    <3>1. PICK w \in Workers : /\ worker[w].pc = "idle"
            /\ worker' = [worker EXCEPT ![w] = [Idle EXCEPT !.pc = "finalize", !.build = b, !.stop = TRUE]]
      BY <2>1 DEF CancelBuild
    <3>. DEFINE r == [Idle EXCEPT !.pc = "finalize", !.build = b, !.stop = TRUE]
    <3>2. b \in Nat  BY TypedFacts
    <3>3. r \in ThreadRows /\ r.pc = "finalize" /\ r.build = b /\ r.stop /\ r.at = 0
      <4>1. PICK old \in ThreadRows : old = Idle /\ old.at = 0  BY IdleThread
      <4>2. [old EXCEPT !.pc = "finalize", !.build = b, !.stop = TRUE] \in ThreadRows  BY <3>2 DEF ThreadRows, Closing
      <4>. QED  BY <4>1, <4>2 DEF ThreadRows
    <3>. HIDE DEF r
    <3>4. worker' = [worker EXCEPT ![w] = r]  BY <3>1 DEF r
    <3>5. worker \in [Workers -> ThreadRows]  BY DEF Typed
    <3>. QED  BY <2>1, <3>1, <3>3, <3>4, <3>5
  <2>2. CASE ~builds[b].stale  BY <2>2 DEF CancelBuild, Typed
  <2>. QED  BY <2>1, <2>2
<1>4. Typed'
  <2>1. /\ used'.crashes = used.crashes
        /\ used' \in [retries : Nat, cancels : Nat, crashes : Nat, failures : Nat, history : Nat]
    BY <1>1, Counted
  <2>2. /\ artifact' \in [Stored -> {"none", "part", "whole"}] /\ newer' \in BOOLEAN /\ ready' \in BOOLEAN
        /\ steps' \in Seq(StepRows) /\ tasks' \in Seq([Chunks -> TaskStates])
        /\ Len(builds') <= MaxBuilds /\ Len(steps') = Len(builds') /\ Len(tasks') = Len(builds')
        /\ run' \in [Workers -> {"none"} \cup JobStates]
    BY <1>1, <1>2 DEF Typed
  <2>3. used'.crashes = 0 => \A c \in DOMAIN builds' : DOMAIN steps'[c] = Steps  BY <1>1, <1>2, <2>1 DEF Typed
  <2>4. \A v \in Workers : \/ worker'[v] = worker[v] /\ (run[v] = "none" => run'[v] = "none")
                           \/ worker'[v].pc \in {"new", "finalize"} /\ worker'[v].at \in {0, 1} /\ worker'[v].build \in DOMAIN builds'
                              /\ (worker'[v].pc = "new" => worker'[v].at = 1)
    BY <1>1, <1>2, <1>3
  <2>5. DOMAIN builds \subseteq DOMAIN builds' /\ \A c \in DOMAIN builds : DOMAIN steps'[c] = DOMAIN steps[c]
    BY <1>1, <1>2
  <2>. QED  BY <1>2, <1>3, <2>1, <2>2, <2>3, <2>4, <2>5, Grown
<1>. QED  BY <1>1, <1>2, <1>3, <1>4

(* A table that is not the threads' changes; the threads stay.             *)
LEMMA StillTyped ==
  ASSUME Typed, UNCHANGED <<worker, run, tasks>>,
         builds' \in Seq(BuildRows), Len(builds') = Len(builds),
         steps' \in Seq(StepRows), Len(steps') = Len(steps),
         \A c \in DOMAIN builds : DOMAIN steps'[c] = DOMAIN steps[c],
         artifact' = artifact, newer' = newer, ready' \in BOOLEAN,
         used'.crashes = used.crashes,
         used' \in [retries : Nat, cancels : Nat, crashes : Nat, failures : Nat, history : Nat]
  PROVE  Typed'
<1>1. DOMAIN builds' = DOMAIN builds
  <2>1. DOMAIN builds' = 1..Len(builds')  BY LenProperties
  <2>. QED  BY <2>1, TypedFacts
<1>2. /\ artifact' \in [Stored -> {"none", "part", "whole"}] /\ newer' \in BOOLEAN
      /\ tasks' \in Seq([Chunks -> TaskStates])
      /\ Len(builds') <= MaxBuilds /\ Len(steps') = Len(builds') /\ Len(tasks') = Len(builds')
      /\ run' \in [Workers -> {"none"} \cup JobStates] /\ worker' \in [Workers -> ThreadRows]
      /\ \A v \in Workers : worker'[v] = worker[v] /\ (run[v] = "none" => run'[v] = "none")
  BY DEF Typed
<1>3. used'.crashes = 0 => \A c \in DOMAIN builds' : DOMAIN steps'[c] = Steps  BY <1>1 DEF Typed
<1>. QED  BY <1>1, <1>2, <1>3, Grown

(* The effect of cancelling a step.                                        *)
LEMMA CancelStepTyped ==
  ASSUME Typed, NEW b \in DOMAIN builds, CancelStep(b)
  PROVE  /\ Typed' /\ UNCHANGED <<builds, tasks, artifact, newer, ready, worker, run>> /\ Count("cancels")
         /\ \A c \in DOMAIN builds : c # b => steps'[c] = steps[c]
         /\ \A s \in DOMAIN steps[b] :
              /\ steps'[b][s].reused = steps[b][s].reused
              /\ \/ steps'[b][s].status = steps[b][s].status
                 \/ steps[b][s].status \in Left /\ steps'[b][s].status = "cancelled"
<1>1. UNCHANGED <<builds, tasks, artifact, newer, ready, worker, run>> /\ Count("cancels")  BY DEF CancelStep, results
<1>2. PICK s \in DOMAIN steps[b] :
       /\ steps[b][s].status \in {"pending", "running"}
       /\ steps' = [steps EXCEPT ![b][s].status = IF Active(b) /\ ~builds[b].stale THEN @ ELSE "cancelled",
                                 ![b][s].cancel = TRUE]
  BY DEF CancelStep
<1>3. PICK x \in StepRow : x = steps[b][s]  BY TypedFacts
<1>. DEFINE st == IF Active(b) /\ ~builds[b].stale THEN x.status ELSE "cancelled"
            row == [x EXCEPT !.status = st, !.cancel = TRUE]
<1>4. st \in StepStates /\ (st = x.status \/ st = "cancelled")  BY DEF StepRow, StepStates
<1>5. steps' = [steps EXCEPT ![b][s] = row]  BY <1>2, <1>3
<1>. HIDE DEF st
<1>6. row \in StepRow /\ row.status = st /\ row.reused = x.reused  BY <1>4 DEF StepRow
<1>. HIDE DEF row
<1>7. /\ steps' \in Seq(StepRows) /\ Len(steps') = Len(steps) /\ DOMAIN steps' = DOMAIN steps
      /\ steps'[b][s] = row /\ \A t \in DOMAIN steps[b] : t # s => steps'[b][t] = steps[b][t]
      /\ \A c \in DOMAIN steps : c # b => steps'[c] = steps[c]
      /\ \A c \in DOMAIN builds : DOMAIN steps'[c] = DOMAIN steps[c]
  BY <1>5, <1>6, SetStatus
<1>8. Typed'
  <2>1. builds' \in Seq(BuildRows) /\ Len(builds') = Len(builds) /\ ready' \in BOOLEAN  BY <1>1 DEF Typed
  <2>2. /\ used'.crashes = used.crashes
        /\ used' \in [retries : Nat, cancels : Nat, crashes : Nat, failures : Nat, history : Nat]
    BY <1>1, Counted
  <2>. QED  BY <1>1, <1>7, <2>1, <2>2, StillTyped
<1>9. \A t \in DOMAIN steps[b] :
              /\ steps'[b][t].reused = steps[b][t].reused
              /\ \/ steps'[b][t].status = steps[b][t].status
                 \/ steps[b][t].status \in Left /\ steps'[b][t].status = "cancelled"
  BY <1>2, <1>3, <1>4, <1>6, <1>7 DEF Left
<1>10. \A c \in DOMAIN builds : c # b => steps'[c] = steps[c]  BY <1>7, TypedFacts
<1>. QED  BY <1>1, <1>8, <1>9, <1>10

(* The effect of missing heartbeats.                                       *)
LEMMA GoSilentTyped ==
  ASSUME Typed, NEW b \in DOMAIN builds, GoSilent(b)
  PROVE  /\ Typed' /\ UNCHANGED <<steps, tasks, artifact, newer, ready, worker, run, used>>
         /\ DOMAIN builds' = DOMAIN builds
         /\ \A c \in DOMAIN builds : builds'[c].status = builds[c].status
         /\ \A c \in DOMAIN builds : c # b => builds'[c].stale = builds[c].stale
         /\ Active(b) /\ (Silence \/ \A w \in Live(b) : run[w] = "none")
<1>1. UNCHANGED <<steps, tasks, artifact, newer, ready, worker, run, used>> /\ Active(b)  BY DEF GoSilent, results
<1>2. Silence \/ \A w \in Live(b) : run[w] = "none"  BY DEF GoSilent
<1>3. PICK x \in BuildRows : x = builds[b]  BY TypedFacts
<1>. DEFINE r == [x EXCEPT !.stale = TRUE]
<1>4. r \in BuildRows /\ r.status = x.status  BY DEF BuildRows
<1>5. builds' = [builds EXCEPT ![b] = r]  BY <1>3 DEF GoSilent
<1>. HIDE DEF r
<1>6. builds \in Seq(BuildRows)  BY DEF Typed
<1>7. /\ builds' \in Seq(BuildRows) /\ Len(builds') = Len(builds) /\ DOMAIN builds' = DOMAIN builds
      /\ builds'[b] = r /\ \A c \in DOMAIN builds : c # b => builds'[c] = builds[c]
  BY <1>4, <1>5, <1>6, RowSet
<1>8. Typed'
  <2>1. /\ steps' \in Seq(StepRows) /\ Len(steps') = Len(steps) /\ ready' \in BOOLEAN
        /\ \A c \in DOMAIN builds : DOMAIN steps'[c] = DOMAIN steps[c]
        /\ used'.crashes = used.crashes
        /\ used' \in [retries : Nat, cancels : Nat, crashes : Nat, failures : Nat, history : Nat]
    BY <1>1 DEF Typed
  <2>. QED  BY <1>1, <1>7, <2>1, StillTyped
<1>. QED  BY <1>1, <1>2, <1>3, <1>4, <1>7, <1>8

(* The effect of the end of the process.                                   *)
LEMMA CrashTyped ==
  ASSUME Typed, Crash
  PROVE  /\ Typed' /\ UNCHANGED <<builds, steps, tasks, newer, ready, run>> /\ Lost /\ Count("crashes")
<1>1. UNCHANGED <<builds, steps, tasks, newer, ready, run>> /\ Lost /\ Count("crashes")  BY DEF Crash
<1>2. artifact' \in [Stored -> {"none", "part", "whole"}]
  <2>1. CASE UNCHANGED artifact  BY <2>1 DEF Typed
  <2>2. CASE \E w \in Workers : CutShort(w)  BY <2>2 DEF CutShort, Cut, Typed
  <2>. QED  BY <2>1, <2>2 DEF Crash
<1>3. /\ used' \in [retries : Nat, cancels : Nat, crashes : Nat, failures : Nat, history : Nat]
      /\ used'.crashes # 0
  BY <1>1, Counted
<1>4. worker' \in [Workers -> ThreadRows]
        /\ \A v \in Workers : worker'[v] = worker[v] \/
             (worker'[v].pc = "gone" /\ worker[v].pc # "idle" /\ worker'[v].build = worker[v].build)
  BY <1>1, LostRows DEF Alive
<1>5. /\ builds' \in Seq(BuildRows) /\ Len(builds') <= MaxBuilds /\ steps' \in Seq(StepRows) /\ Len(steps') = Len(builds')
      /\ tasks' \in Seq([Chunks -> TaskStates]) /\ Len(tasks') = Len(builds') /\ newer' \in BOOLEAN /\ ready' \in BOOLEAN
      /\ run' \in [Workers -> {"none"} \cup JobStates] /\ \A v \in Workers : run[v] = "none" => run'[v] = "none"
      /\ DOMAIN builds \subseteq DOMAIN builds' /\ \A c \in DOMAIN builds : DOMAIN steps'[c] = DOMAIN steps[c]
  BY <1>1 DEF Typed
<1>6. Typed'  BY <1>2, <1>3, <1>4, <1>5, Grown
<1>. QED  BY <1>1, <1>6

(* The types hold at the beginning.                                        *)
LEMMA InitTyped == Init => Typed
<1>. SUFFICES ASSUME Init  PROVE Typed
  OBVIOUS
<1>1. Len(builds) = 0 /\ Len(steps) = 0 /\ Len(tasks) = 0 /\ DOMAIN builds = {}  BY DEF Init
<1>2. builds \in Seq(BuildRows) /\ steps \in Seq(StepRows) /\ tasks \in Seq([Chunks -> TaskStates])
  BY DEF Init
<1>3. MaxBuilds \in Nat  BY PipelineAssumption
<1>4. /\ artifact \in [Stored -> {"none", "part", "whole"}] /\ newer \in BOOLEAN /\ ready \in BOOLEAN
      /\ run \in [Workers -> {"none"} \cup JobStates] /\ \A w \in Workers : run[w] = "none"
      /\ used \in [retries : Nat, cancels : Nat, crashes : Nat, failures : Nat, history : Nat]
  BY DEF Init
<1>5. worker \in [Workers -> ThreadRows] /\ \A w \in Workers : worker[w] = Idle  BY IdleThread DEF Init
<1>6. ASSUME NEW w \in Workers  PROVE ThreadTyped(w)
  <2>1. worker[w].pc = "idle"  BY <1>5, IdleThread
  <2>2. worker[w].pc \notin Stepping \cup AtStep \cup Scans  BY <2>1 DEF Stepping, AtStep, Scans
  <2>. QED  BY <1>4, <2>1, <2>2 DEF ThreadTyped
<1>. QED  BY <1>1, <1>2, <1>3, <1>4, <1>5, <1>6 DEF Typed

(* Every step keeps the types.                                             *)
LEMMA TypedKept ==
  ASSUME Typed, [Next]_vars
  PROVE  Typed'
<1>1. CASE Start  BY <1>1, StartTyped
<1>2. CASE StartTorn  BY <1>2, StartTornTyped
<1>3. CASE SnapshotReady
  <2>1. UNCHANGED <<builds, steps, tasks, artifact, newer, worker, run, used>> /\ ready' = TRUE
    BY <1>3 DEF SnapshotReady
  <2>2. /\ builds' \in Seq(BuildRows) /\ Len(builds') = Len(builds) /\ steps' \in Seq(StepRows) /\ Len(steps') = Len(steps)
        /\ \A c \in DOMAIN builds : DOMAIN steps'[c] = DOMAIN steps[c]
        /\ ready' \in BOOLEAN /\ used'.crashes = used.crashes
        /\ used' \in [retries : Nat, cancels : Nat, crashes : Nat, failures : Nat, history : Nat]
    BY <2>1 DEF Typed
  <2>. QED  BY <2>1, <2>2, StillTyped
<1>4. CASE Crash  BY <1>4, CrashTyped
<1>5. ASSUME NEW b \in DOMAIN builds, RetryAll(b) \/ RetryStep(b)  PROVE Typed'
  <2>1. PICK targets : Retry(b, targets)  BY <1>5 DEF RetryAll, RetryStep
  <2>. QED  BY <2>1, RetryTyped
<1>6. ASSUME NEW b \in DOMAIN builds, CancelBuild(b) \/ CancelStep(b) \/ GoSilent(b)  PROVE Typed'
  BY <1>6, CancelBuildTyped, CancelStepTyped, GoSilentTyped
<1>7. ASSUME NEW w \in Workers, Work(w) \/ Trouble(w)  PROVE Typed'
  <2>1. CASE LookEnd(w) \/ Look(w) \/ Unconfigured(w) \/ Check(w) \/ Compute(w) \/ Cancelled(w) \/ NextChunk(w)
               \/ Again(w) \/ ScanEnds(w)
    BY <2>1, QuietTyped
  <2>2. CASE Begin(w)  BY <2>2, BeginTyped
  <2>3. CASE FailUnready(w)  BY <2>3, FailUnreadyTyped
  <2>4. CASE BeginStep(w)  BY <2>4, BeginStepTyped
  <2>5. CASE MarkStep(w)  BY <2>5, MarkStepTyped
  <2>6. CASE Save(w)  BY <2>6, SaveTyped
  <2>7. CASE StepFails(w)  BY <2>7, StepFailsTyped
  <2>8. CASE Plan(w) \/ Call(w) \/ ChunkScanned(w) \/ ChunkFails(w)  BY <2>8, ScanTyped
  <2>9. CASE Finalize(w) \/ Write(w) \/ Raised(w)  BY <2>9, CloseTyped
  <2>. QED  BY <1>7, <2>1, <2>2, <2>3, <2>4, <2>5, <2>6, <2>7, <2>8, <2>9 DEF Work, Trouble
<1>8. CASE UNCHANGED vars
  <2>1. UNCHANGED <<builds, steps, tasks, artifact, newer, ready, worker, run, used>>  BY <1>8 DEF vars
  <2>2. /\ builds' \in Seq(BuildRows) /\ Len(builds') = Len(builds) /\ steps' \in Seq(StepRows) /\ Len(steps') = Len(steps)
        /\ \A c \in DOMAIN builds : DOMAIN steps'[c] = DOMAIN steps[c]
        /\ ready' \in BOOLEAN /\ used'.crashes = used.crashes
        /\ used' \in [retries : Nat, cancels : Nat, crashes : Nat, failures : Nat, history : Nat]
    BY <2>1 DEF Typed
  <2>. QED  BY <2>1, <2>2, StillTyped
<1>. QED  BY <1>1, <1>2, <1>3, <1>4, <1>5, <1>6, <1>7, <1>8 DEF Next

-----------------------------------------------------------------------------
(* Threads.                                                                *)

(* What the requests and the clock have counted is never taken back.       *)
LEMMA CountsGrow ==
  ASSUME Typed, [Next]_vars
  PROVE  /\ used.retries \in Nat /\ used.cancels \in Nat /\ used.crashes \in Nat /\ used.history \in Nat
         /\ used'.retries \in Nat /\ used'.cancels \in Nat /\ used'.crashes \in Nat /\ used'.history \in Nat
         /\ used.retries <= used'.retries /\ used.cancels <= used'.cancels
         /\ used.crashes <= used'.crashes /\ used.history <= used'.history
         /\ LateSettling => LateSettling'
         /\ TwoThreads => TwoThreads'
<1>1. used' = used \/ \E what \in {"retries", "cancels", "crashes", "failures", "history"} : Count(what)
  <2>1. CASE Start  BY <2>1 DEF Start
  <2>2. CASE StartTorn  BY <2>2 DEF StartTorn
  <2>3. CASE SnapshotReady \/ Crash  BY <2>3 DEF SnapshotReady, Crash
  <2>4. ASSUME NEW b \in DOMAIN builds, RetryAll(b) \/ RetryStep(b) \/ CancelBuild(b) \/ CancelStep(b) \/ GoSilent(b)
        PROVE  used' = used \/ \E what \in {"retries", "cancels", "crashes", "failures", "history"} : Count(what)
    BY <2>4 DEF RetryAll, RetryStep, Retry, CancelBuild, CancelStep, GoSilent
  <2>5. ASSUME NEW w \in Workers, Work(w)
        PROVE  used' = used \/ \E what \in {"retries", "cancels", "crashes", "failures", "history"} : Count(what)
    <3>1. CASE Begin(w) \/ FailUnready(w) \/ LookEnd(w) \/ Look(w) \/ Check(w) \/ BeginStep(w) \/ MarkStep(w)
      BY <3>1 DEF Begin, FailUnready, LookEnd, Look, Check, BeginStep, MarkStep
    <3>2. CASE Compute(w) \/ Save(w) \/ Plan(w) \/ Cancelled(w) \/ NextChunk(w) \/ Again(w) \/ Call(w)
      BY <3>2 DEF Compute, Save, Plan, Cancelled, NextChunk, Again, Call
    <3>3. CASE ChunkScanned(w) \/ ScanEnds(w) \/ Finalize(w) \/ Write(w) \/ Raised(w)
      BY <3>3 DEF ChunkScanned, ScanEnds, Finalize, Write, Raised
    <3>. QED  BY <2>5, <3>1, <3>2, <3>3 DEF Work
  <2>6. ASSUME NEW w \in Workers, Trouble(w)
        PROVE  used' = used \/ \E what \in {"retries", "cancels", "crashes", "failures", "history"} : Count(what)
    BY <2>6 DEF Trouble, Unconfigured, StepFails, ChunkFails
  <2>7. CASE UNCHANGED vars  BY <2>7 DEF vars
  <2>. QED  BY <2>1, <2>2, <2>3, <2>4, <2>5, <2>6, <2>7 DEF Next
<1>2. /\ used.retries \in Nat /\ used.cancels \in Nat /\ used.crashes \in Nat /\ used.history \in Nat
  BY DEF Typed
<1>3. /\ used'.retries \in Nat /\ used'.cancels \in Nat /\ used'.crashes \in Nat /\ used'.history \in Nat
      /\ used.retries <= used'.retries /\ used.cancels <= used'.cancels
      /\ used.crashes <= used'.crashes /\ used.history <= used'.history
  BY <1>1, <1>2, Counted
<1>4. (LateSettling => LateSettling') /\ (TwoThreads => TwoThreads')
  BY <1>2, <1>3 DEF LateSettling, TwoThreads
<1>. QED  BY <1>2, <1>3, <1>4

SameCounts == /\ used'.retries = used.retries /\ used'.cancels = used.cancels
              /\ used'.crashes = used.crashes /\ used'.history = used.history

(* A step of a thread that does not settle its job.                        *)
Inner(w) ==
  /\ \A v \in Workers : v # w => worker'[v] = worker[v]
  /\ worker'[w].build = worker[w].build
  /\ worker[w].pc \in Stepping \cup {"finalize"} /\ worker'[w].pc \in Stepping \cup Closing
  /\ worker'[w].pc \in Stepping => worker[w].pc \in Stepping
  /\ worker[w].pc = "finalize" => worker'[w].pc = "write" /\ (worker[w].stop => worker'[w].mark = "cancelled")
  /\ worker'[w].pc = "raised" => used.crashes > 0
  /\ run' = run /\ SameCounts
  /\ DOMAIN builds' = DOMAIN builds
  /\ \A c \in DOMAIN builds :
       /\ builds'[c].stale => builds[c].stale
       /\ \/ builds'[c].status = builds[c].status
          \/ c = worker[w].build /\ builds'[c].status = "running" /\ worker[w].pc = "new"

(* All steps of a thread but its last ones are inner.                      *)
LEMMA InnerSteps ==
  ASSUME Typed, NEW w \in Workers,
         \/ Begin(w) \/ LookEnd(w) \/ Look(w) \/ Unconfigured(w) \/ Check(w) \/ BeginStep(w) \/ MarkStep(w)
         \/ Compute(w) \/ Save(w) \/ StepFails(w) \/ Plan(w) \/ Cancelled(w) \/ NextChunk(w) \/ Again(w) \/ Call(w)
         \/ ChunkScanned(w) \/ ChunkFails(w) \/ ScanEnds(w) \/ Finalize(w)
  PROVE  Inner(w)
<1>1. worker \in [Workers -> ThreadRows] /\ worker[w] \in ThreadRows  BY DEF Typed
<1>2. PICK old \in ThreadRows : old = worker[w]  BY <1>1
(* What each step does to the row of its thread.                           *)
<1>3. ASSUME NEW r, worker' = [worker EXCEPT ![w] = r], r.build = old.build,
             old.pc \in Stepping \cup {"finalize"}, r.pc \in Stepping \cup Closing,
             r.pc \in Stepping => old.pc \in Stepping,
             old.pc = "finalize" => r.pc = "write" /\ (old.stop => r.mark = "cancelled"),
             r.pc = "raised" => used.crashes > 0,
             run' = run, UNCHANGED builds,
             used' = used \/ Count("failures")
      PROVE  Inner(w)
  <2>1. worker'[w] = r /\ \A v \in Workers : v # w => worker'[v] = worker[v]  BY <1>1, <1>3
  <2>2. SameCounts  BY <1>3, Counted DEF SameCounts
  <2>. QED  BY <1>2, <1>3, <2>1, <2>2 DEF Inner
<1>4. ASSUME NEW r, worker' = [worker EXCEPT ![w] = r], r.build = old.build,
             old.pc \in Stepping, r.pc \in Stepping,
             run' = run, UNCHANGED used, old.build \in DOMAIN builds,
             builds' = [builds EXCEPT ![old.build].stale = FALSE]
      PROVE  Inner(w)
  <2>1. worker'[w] = r /\ \A v \in Workers : v # w => worker'[v] = worker[v]  BY <1>1, <1>4
  <2>2. SameCounts  BY <1>4 DEF SameCounts
  <2>3. /\ DOMAIN builds' = DOMAIN builds
        /\ \A c \in DOMAIN builds : (builds'[c].stale => builds[c].stale) /\ builds'[c].status = builds[c].status
    BY <1>4, BeatRow
  <2>4. r.pc # "raised" /\ old.pc # "finalize"  BY <1>4 DEF Stepping
  <2>. QED  BY <1>2, <1>4, <2>1, <2>2, <2>3, <2>4 DEF Inner
<1>5. CASE Begin(w)
  <2>1. old.pc = "new" /\ run' = run /\ UNCHANGED used /\ (Go(w, "step") \/ Go(w, "unready"))
    BY <1>2, <1>5 DEF Begin
  <2>2. PICK r \in ThreadRows : worker' = [worker EXCEPT ![w] = r] /\ r.pc \in {"step", "unready"} /\ r.build = old.build
    BY <1>2, <2>1, GoRow, LabelFacts DEF Stepping
  <2>3. worker'[w] = r /\ \A v \in Workers : v # w => worker'[v] = worker[v]  BY <1>1, <2>2
  <2>4. /\ DOMAIN builds' = DOMAIN builds
        /\ builds'[old.build].status = "running" /\ ~builds'[old.build].stale
        /\ \A c \in DOMAIN builds : c # old.build => builds'[c] = builds[c]
    BY <1>2, <1>5, BeginTyped
  <2>5. SameCounts  BY <2>1 DEF SameCounts
  <2>6. old.pc \in Stepping /\ r.pc \in Stepping /\ r.pc # "raised" /\ old.pc # "finalize"  BY <2>1, <2>2 DEF Stepping
  <2>. QED  BY <1>2, <2>1, <2>2, <2>3, <2>4, <2>5, <2>6 DEF Inner
<1>6. CASE LookEnd(w)
  <2>. DEFINE r == [old EXCEPT !.pc = "finalize", !.stop = old.at <= Len(StepOrder)]
  <2>1. worker' = [worker EXCEPT ![w] = r] /\ UNCHANGED <<rows, used>> /\ old.pc = "step"  BY <1>2, <1>6 DEF LookEnd
  <2>2. r.pc = "finalize" /\ r.build = old.build  BY DEF ThreadRows
  <2>. HIDE DEF r
  <2>. QED  BY <1>3, <2>1, <2>2 DEF rows, Stepping, Closing
<1>7. CASE Look(w)
  <2>1. old.pc = "step" /\ UNCHANGED <<rows, used>> /\ old.at <= Len(StepOrder)  BY <1>2, <1>7 DEF Look
  <2>2. (Missing(w) /\ Go(w, "raised")) \/ Onward(w) \/ Mark(w, "cancelled") \/ Mark(w, "blocked") \/ Go(w, "check")
    BY <1>7 DEF Look
  <2>3. Missing(w) => used.crashes > 0
    <3>1. old.build \in DOMAIN builds /\ old.at # 0 /\ old.at \in Nat /\ used.crashes \in Nat
      BY <1>2, <2>1, TypedFacts DEF ThreadTyped, Stepping, ThreadRows, Typed
    <3>2. old.at \in DOMAIN StepOrder /\ StepOrder[old.at] \in Steps  BY <2>1, <3>1, StepsFacts
    <3>3. used.crashes = 0 => StepOrder[old.at] \in DOMAIN steps[old.build]  BY <3>1, <3>2 DEF Typed
    <3>. QED  BY <1>2, <3>1, <3>3 DEF Missing, StepOf
  <2>4. PICK r \in ThreadRows : /\ worker' = [worker EXCEPT ![w] = r] /\ r.build = old.build
                                /\ \/ r.pc = "raised" /\ Missing(w)
                                   \/ r.pc \in {"step", "mark", "check"}
    BY <1>2, <2>2, GoRow, OnwardRow, MarkRow, LabelFacts DEF Marks, Stepping, Closing
  <2>. QED  BY <1>3, <2>1, <2>3, <2>4 DEF rows, Stepping, Closing
<1>8. CASE Unconfigured(w) \/ Check(w)
  <2>1. old.pc = "check" /\ UNCHANGED rows /\ (used' = used \/ Count("failures"))
        /\ (Mark(w, "blocked") \/ Mark(w, "reused") \/ Go(w, "begin"))
    BY <1>2, <1>8 DEF Unconfigured, Check
  <2>2. PICK r \in ThreadRows : worker' = [worker EXCEPT ![w] = r] /\ r.build = old.build /\ r.pc \in {"mark", "begin"}
    BY <1>2, <2>1, MarkRow, GoRow, LabelFacts DEF Marks, Stepping
  <2>. QED  BY <1>3, <2>1, <2>2 DEF rows, Stepping
<1>9. CASE BeginStep(w)
  <2>1. old.pc = "begin" /\ run' = run /\ UNCHANGED used /\ Go(w, "run")
        /\ builds' = [builds EXCEPT ![old.build].stale = FALSE]
    BY <1>2, <1>9 DEF BeginStep, results
  <2>2. PICK r \in ThreadRows : worker' = [worker EXCEPT ![w] = r] /\ r.build = old.build /\ r.pc = "run"
    BY <1>2, <2>1, GoRow, LabelFacts DEF Stepping
  <2>3. old.build \in DOMAIN builds  BY <1>2, <2>1, TypedFacts
  <2>. QED  BY <1>4, <2>1, <2>2, <2>3 DEF Stepping
<1>10. CASE MarkStep(w)
  <2>1. old.pc = "mark" /\ UNCHANGED <<builds, run, used>> /\ (Go(w, "finalize") \/ Onward(w))
    BY <1>2, <1>10 DEF MarkStep, results
  <2>2. PICK r \in ThreadRows : worker' = [worker EXCEPT ![w] = r] /\ r.build = old.build /\ r.pc \in {"finalize", "step"}
    BY <1>2, <2>1, GoRow, OnwardRow, LabelFacts DEF Closing
  <2>. QED  BY <1>3, <2>1, <2>2 DEF Stepping, Closing
<1>11. CASE Compute(w)
  <2>. DEFINE m == IF StepOf(w) = "understanding_graph" /\ ~Scanned(worker[w].build) THEN "part" ELSE "whole"
              r == [old EXCEPT !.pc = "save", !.mark = m]
  <2>1. worker' = [worker EXCEPT ![w] = r] /\ UNCHANGED <<rows, used>> /\ old.pc = "run"
    BY <1>2, <1>11 DEF Compute
  <2>. HIDE DEF m
  <2>2. r.pc = "save" /\ r.build = old.build  BY DEF ThreadRows
  <2>. HIDE DEF r
  <2>. QED  BY <1>3, <2>1, <2>2 DEF rows, Stepping
<1>12. CASE Save(w)
  <2>1. old.pc = "save" /\ run' = run /\ UNCHANGED used /\ Mark(w, "completed")
        /\ builds' = [builds EXCEPT ![old.build].stale = FALSE]
    BY <1>2, <1>12 DEF Save
  <2>2. PICK r \in ThreadRows : worker' = [worker EXCEPT ![w] = r] /\ r.build = old.build /\ r.pc = "mark"
    BY <1>2, <2>1, MarkRow DEF Marks
  <2>3. old.build \in DOMAIN builds  BY <1>2, <2>1, TypedFacts
  <2>. QED  BY <1>4, <2>1, <2>2, <2>3 DEF Stepping
<1>13. CASE StepFails(w)
  <2>. DEFINE r == [old EXCEPT !.pc = "mark", !.mark = "failed", !.todo = {}, !.chunk = {}, !.tries = 0]
  <2>1. worker' = [worker EXCEPT ![w] = r] /\ UNCHANGED <<builds, run>> /\ Count("failures") /\ old.pc \in {"run", "save", "called"}
    BY <1>2, <1>13 DEF StepFails
  <2>2. r.pc = "mark" /\ r.build = old.build  BY DEF ThreadRows
  <2>. HIDE DEF r
  <2>. QED  BY <1>3, <2>1, <2>2 DEF Stepping
<1>14. CASE Plan(w)
  <2>1. old.pc = "run" /\ UNCHANGED <<builds, run, used>>  BY <1>2, <1>14 DEF Plan
  <2>2. PICK r \in ThreadRows : worker' = [worker EXCEPT ![w] = r] /\ r.build = old.build /\ r.pc = "scan"
    BY <1>2, <1>14, PlanTasks
  <2>. QED  BY <1>3, <2>1, <2>2 DEF Stepping
<1>15. CASE Cancelled(w)
  <2>. DEFINE r == [old EXCEPT !.pc = "mark", !.mark = "cancelled", !.stop = builds[old.build].cancel,
                              !.todo = {}, !.chunk = {}, !.tries = 0]
  <2>1. worker' = [worker EXCEPT ![w] = r] /\ UNCHANGED <<rows, used>> /\ old.pc \in {"backoff", "scan"}
    BY <1>2, <1>15 DEF Cancelled
  <2>2. r.pc = "mark" /\ r.build = old.build  BY DEF ThreadRows
  <2>. HIDE DEF r
  <2>. QED  BY <1>3, <2>1, <2>2 DEF rows, Stepping
<1>16. CASE NextChunk(w)
  <2>1. PICK c \in old.todo : worker' = [worker EXCEPT ![w].pc = "call", ![w].chunk = {c}, ![w].tries = 0,
                                                       ![w].todo = @ \ {c}]
    BY <1>2, <1>16 DEF NextChunk
  <2>. DEFINE r == [old EXCEPT !.pc = "call", !.chunk = {c}, !.tries = 0, !.todo = @ \ {c}]
  <2>2. worker' = [worker EXCEPT ![w] = r] /\ UNCHANGED <<rows, used>> /\ old.pc = "scan"
    BY <1>2, <1>16, <2>1 DEF NextChunk
  <2>3. r.pc = "call" /\ r.build = old.build  BY DEF ThreadRows
  <2>. HIDE DEF r
  <2>. QED  BY <1>3, <2>2, <2>3 DEF rows, Stepping
<1>17. CASE Again(w)
  <2>1. PICK r \in ThreadRows : worker' = [worker EXCEPT ![w] = r] /\ r.build = old.build /\ r.pc = "call"
    BY <1>2, <1>17, GoRow, LabelFacts DEF Stepping, Again
  <2>2. old.pc = "backoff" /\ UNCHANGED <<rows, used>>  BY <1>2, <1>17 DEF Again
  <2>. QED  BY <1>3, <2>1, <2>2 DEF rows, Stepping
<1>18. CASE Call(w)
  <2>. DEFINE r == [old EXCEPT !.pc = "called", !.tries = old.tries + 1]
  <2>1. worker' = [worker EXCEPT ![w] = r] /\ run' = run /\ UNCHANGED used /\ old.pc = "call"
        /\ builds' = [builds EXCEPT ![old.build].stale = FALSE]
    BY <1>2, <1>18 DEF Call
  <2>2. r.pc = "called" /\ r.build = old.build  BY DEF ThreadRows
  <2>3. old.build \in DOMAIN builds  BY <1>2, <2>1, TypedFacts
  <2>. HIDE DEF r
  <2>. QED  BY <1>4, <2>1, <2>2, <2>3 DEF Stepping
<1>19. CASE ChunkScanned(w) \/ ChunkFails(w)
  <2>1. PICK r \in ThreadRows : worker' = [worker EXCEPT ![w] = r] /\ r.build = old.build /\ r.pc \in {"scan", "backoff"}
    BY <1>2, <1>19, GoRow, LabelFacts DEF Stepping, ChunkScanned, ChunkFails
  <2>2. old.pc = "called" /\ UNCHANGED <<builds, run>> /\ (used' = used \/ Count("failures"))
    BY <1>2, <1>19 DEF ChunkScanned, ChunkFails, results
  <2>. QED  BY <1>3, <2>1, <2>2 DEF Stepping
<1>20. CASE ScanEnds(w)
  <2>. DEFINE m == ScanResult(worker[w].build)
              r == [old EXCEPT !.pc = "mark", !.mark = m, !.chunk = {}, !.tries = 0]
  <2>1. worker' = [worker EXCEPT ![w] = r] /\ UNCHANGED <<rows, used>> /\ old.pc = "scan"
    BY <1>2, <1>20 DEF ScanEnds
  <2>. HIDE DEF m
  <2>2. r.pc = "mark" /\ r.build = old.build  BY DEF ThreadRows
  <2>. HIDE DEF r
  <2>. QED  BY <1>3, <2>1, <2>2 DEF rows, Stepping
<1>21. CASE Finalize(w)
  <2>1. PICK r \in ThreadRows : /\ worker' = [worker EXCEPT ![w] = r] /\ worker'[w] = r /\ r.pc = "write" /\ r.build = old.build
    BY <1>2, <1>21, FinalizeRows
  <2>2. old.pc = "finalize" /\ UNCHANGED <<builds, run, used>>  BY <1>2, <1>21 DEF Finalize
  <2>3. old.stop => r.mark = "cancelled"  BY <1>2, <1>21, <2>1, FinalizeRows
  <2>. QED  BY <1>3, <2>1, <2>2, <2>3 DEF Stepping, Closing
<1>. QED
  BY <1>5, <1>6, <1>7, <1>8, <1>9, <1>10, <1>11, <1>12, <1>13, <1>14, <1>15, <1>16, <1>17, <1>18, <1>19, <1>20, <1>21

(* A step of a thread that settles its job.                                *)
Ends(w) ==
  LET b == worker[w].build IN
  /\ worker[w].pc \in {"unready", "write", "raised"} /\ b \in DOMAIN builds
  /\ \A v \in Workers : v # w => worker'[v] = worker[v]
  /\ worker'[w].build = b
  /\ DOMAIN builds' = DOMAIN builds /\ \A c \in DOMAIN builds : c # b => builds'[c] = builds[c]
  /\ builds'[b].status \in JobStates \ {"queued", "running"} /\ ~builds'[b].stale
  /\ \A v \in Workers :
       /\ run[v] = "none" <=> run'[v] = "none"
       /\ worker[v].build # b => run'[v] = run[v]
       /\ worker[v].build = b => run'[v] = IF run[v] = "running" THEN builds'[b].status ELSE run[v]
  /\ \/ worker'[w].pc = "gone" /\ SameCounts
     \/ worker'[w].pc = "raised" /\ worker[w].pc = "write" /\ worker[w].mark # "cancelled" /\ Count("history")

(* The last steps settle the job: a write with the computed status, the    *)
(* others as failed.                                                       *)
LEMMA EndSteps ==
  ASSUME Typed, NEW w \in Workers, FailUnready(w) \/ Write(w) \/ Raised(w)
  PROVE  Ends(w) /\ (Write(w) => builds'[worker[w].build].status = worker[w].mark)
         /\ (~Write(w) => builds'[worker[w].build].status = "failed")
<1>1. worker[w].pc \in {"unready", "write", "raised"}  BY DEF FailUnready, Write, Raised
<1>2. PICK b \in DOMAIN builds : b = worker[w].build  BY <1>1, TypedFacts
<1>3. worker[w].pc = "write" => worker[w].mark \in JobStates \ {"queued", "running"}  BY TypedFacts DEF ThreadTyped
<1>4. PICK status \in JobStates \ {"queued", "running"} :
        /\ Settle(b, status) /\ run' = CloseRuns(b, status)
        /\ Write(w) => status = worker[w].mark
        /\ ~Write(w) => status = "failed"
  <2>1. CASE Write(w)  BY <1>2, <1>3, <2>1 DEF Write
  <2>2. CASE ~Write(w)  BY <1>2, <2>2 DEF FailUnready, Raised, JobStates
  <2>. QED  BY <2>1, <2>2
<1>5. \/ Go(w, "gone") /\ used' = used
      \/ Go(w, "raised") /\ worker[w].pc = "write" /\ worker[w].mark # "cancelled" /\ Count("history")
  BY DEF FailUnready, Write, Raised
<1>6. PICK r \in ThreadRows : /\ worker' = [worker EXCEPT ![w] = r] /\ worker'[w] = r /\ r.build = b
                              /\ \/ r.pc = "gone" /\ used' = used
                                 \/ r.pc = "raised" /\ worker[w].pc = "write" /\ worker[w].mark # "cancelled" /\ Count("history")
  BY <1>2, <1>5, GoRow, LabelFacts DEF Closing
<1>7. \A v \in Workers : v # w => worker'[v] = worker[v]  BY <1>6 DEF Typed
<1>8. /\ DOMAIN builds' = DOMAIN builds /\ builds'[b].status = status /\ ~builds'[b].stale
      /\ \A c \in DOMAIN builds : c # b => builds'[c] = builds[c]
  BY <1>4, SettleRow
<1>9. \A v \in Workers :
       /\ run[v] = "none" <=> run'[v] = "none"
       /\ worker[v].build # b => run'[v] = run[v]
       /\ worker[v].build = b => run'[v] = IF run[v] = "running" THEN status ELSE run[v]
  BY <1>4, ClosedRuns
<1>10. used' = used => SameCounts  BY DEF SameCounts
<1>. QED  BY <1>1, <1>2, <1>4, <1>6, <1>7, <1>8, <1>9, <1>10 DEF Ends

(* A thread at a step is alive and not closing its job.                    *)
LEMMA StepperFacts ==
  ASSUME NEW w \in Workers, worker[w].pc \in Stepping
  PROVE  Alive(w) /\ worker[w].pc \notin {"finalize", "write", "raised"}
BY DEF Alive, Stepping

(* A thread at work is alive.                                              *)
LEMMA ClosingFacts ==
  ASSUME NEW w \in Workers, worker[w].pc \in Stepping \cup Closing
  PROVE  Alive(w)
BY DEF Alive, Stepping, Closing

(* Inner steps keep the invariant of the threads.                          *)
LEMMA InnerThreads ==
  ASSUME Typed, Typed', ThreadInv, NEW w \in Workers, Inner(w)
  PROVE  ThreadInv'
<1>1. /\ \A v \in Workers : v # w => worker'[v] = worker[v]
      /\ worker'[w].build = worker[w].build
      /\ worker[w].pc \in Stepping \cup {"finalize"} /\ worker'[w].pc \in Stepping \cup Closing
      /\ worker'[w].pc \in Stepping => worker[w].pc \in Stepping
      /\ worker[w].pc = "finalize" => worker'[w].pc = "write" /\ (worker[w].stop => worker'[w].mark = "cancelled")
      /\ worker'[w].pc = "raised" => used.crashes > 0
      /\ run' = run /\ SameCounts /\ DOMAIN builds' = DOMAIN builds
      /\ \A c \in DOMAIN builds :
           /\ builds'[c].stale => builds[c].stale
           /\ \/ builds'[c].status = builds[c].status
              \/ c = worker[w].build /\ builds'[c].status = "running" /\ worker[w].pc = "new"
  BY DEF Inner
<1>2. Alive(w) /\ Alive(w)' /\ worker[w].pc # "raised"
  BY <1>1 DEF Alive, Stepping, Closing
<1>3. \A v \in Workers : /\ worker'[v].build = worker[v].build /\ (Alive(v) <=> Alive(v)') /\ (OfJob(v) <=> OfJob(v)')
                         /\ (worker'[v].pc \in Stepping => worker[v].pc \in Stepping)
                         /\ (Alive(v) => worker[v].build \in DOMAIN builds)
  BY <1>1, <1>2, TypedFacts DEF Alive, OfJob
<1>4. (LateSettling <=> LateSettling') /\ (TwoThreads <=> TwoThreads')
  BY <1>1 DEF SameCounts, LateSettling, TwoThreads
<1>5. \A c \in DOMAIN builds : Active(c) => Active(c)'  BY <1>1 DEF Active
<1>6. StaleIsLost'  BY <1>1, <1>3 DEF ThreadInv, StaleIsLost, OfJob
<1>7. StepperIsOfJob'  BY <1>1, <1>3 DEF ThreadInv, StepperIsOfJob
<1>8. CancellerIsLate'
  <2>1. ASSUME NEW v \in Workers, Alive(v)', run'[v] = "none"
        PROVE  /\ used'.cancels > 0 /\ used'.crashes > 0
               /\ worker'[v].pc \in {"finalize", "write"}
               /\ worker'[v].pc = "finalize" => worker'[v].stop
               /\ worker'[v].pc = "write" => worker'[v].mark = "cancelled"
    <3>1. /\ used.cancels > 0 /\ used.crashes > 0
          /\ worker[v].pc \in {"finalize", "write"}
          /\ worker[v].pc = "finalize" => worker[v].stop
          /\ worker[v].pc = "write" => worker[v].mark = "cancelled"
      BY <1>1, <1>3, <2>1 DEF ThreadInv, CancellerIsLate
    <3>2. CASE v = w
      <4>1. worker[w].pc = "finalize"  BY <1>1, <3>1, <3>2 DEF Stepping
      <4>. QED  BY <1>1, <3>1, <3>2, <4>1 DEF SameCounts
    <3>3. CASE v # w  BY <1>1, <3>1, <3>3 DEF SameCounts
    <3>. QED  BY <3>2, <3>3
  <2>. QED  BY <2>1 DEF CancellerIsLate
<1>9. ActiveHasThread'
  <2>1. ASSUME used'.crashes = 0, NEW b \in DOMAIN builds', Active(b)'  PROVE \E v \in Live(b)' : run'[v] # "none"
    <3>1. CASE Active(b)
      <4>1. PICK v \in Live(b) : run[v] # "none"  BY <1>1, <2>1, <3>1 DEF ThreadInv, ActiveHasThread, SameCounts
      <4>. QED  BY <1>1, <1>3, <4>1 DEF Live
    <3>2. CASE ~Active(b)
      <4>1. b = worker[w].build /\ worker[w].pc = "new"  BY <1>1, <2>1, <3>2 DEF Active
      <4>2. run[w] # "none"  BY <4>1 DEF ThreadInv, StepperIsOfJob, Stepping
      <4>. QED  BY <1>1, <1>2, <1>3, <4>1, <4>2 DEF Live
    <3>. QED  BY <3>1, <3>2
  <2>. QED  BY <2>1 DEF ActiveHasThread
<1>10. RaisedIsRare'
  <2>1. ASSUME NEW v \in Workers, worker'[v].pc = "raised"  PROVE used'.history > 0 \/ used'.crashes > 0
    <3>1. CASE v = w  BY <1>1, <2>1, <3>1 DEF SameCounts
    <3>2. CASE v # w  BY <1>1, <2>1, <3>2 DEF SameCounts, ThreadInv, RaisedIsRare
    <3>. QED  BY <3>1, <3>2
  <2>. QED  BY <2>1 DEF RaisedIsRare
<1>11. SettledIsLate'
  <2>1. ASSUME NEW v \in Workers, OfJob(v)', builds'[worker'[v].build].status \notin {"queued", "running"}
        PROVE LateSettling' \/ (worker'[v].pc = "raised" /\ used'.history > 0)
    <3>1. OfJob(v) /\ worker[v].build \in DOMAIN builds /\ worker'[v].build = worker[v].build  BY <1>3, <2>1 DEF OfJob
    <3>2. ~Active(worker[v].build)  BY <1>1, <2>1, <3>1 DEF Active
    <3>3. LateSettling \/ (worker[v].pc = "raised" /\ used.history > 0)  BY <3>1, <3>2 DEF ThreadInv, SettledIsLate
    <3>4. worker[v].pc = "raised" => worker'[v].pc = "raised"  BY <1>1, <1>2
    <3>. QED  BY <1>1, <1>4, <3>3, <3>4 DEF SameCounts
  <2>. QED  BY <2>1 DEF SettledIsLate, Active
<1>12. OneOfJob'  BY <1>3, <1>4 DEF ThreadInv, OneOfJob
<1>13. OneStepper'  BY <1>3, <1>4 DEF ThreadInv, OneStepper
<1>14. RunOpen'
  <2>1. ASSUME used'.crashes = 0, NEW v \in Workers
        PROVE  /\ ~Alive(v)' => run'[v] # "running"
               /\ OfJob(v)' /\ worker'[v].pc # "raised" => LateSettling' \/ run'[v] = "running"
    <3>1. /\ ~Alive(v) => run[v] # "running"
          /\ OfJob(v) /\ worker[v].pc # "raised" => LateSettling \/ run[v] = "running"
      BY <1>1, <2>1 DEF ThreadInv, RunOpen, SameCounts
    <3>. QED  BY <1>1, <1>2, <1>3, <1>4, <3>1
  <2>. QED  BY <2>1 DEF RunOpen
<1>. QED  BY <1>6, <1>7, <1>8, <1>9, <1>10, <1>11, <1>12, <1>13, <1>14 DEF ThreadInv

(* Last steps keep the invariant of the threads.                           *)
LEMMA EndThreads ==
  ASSUME Typed, Typed', ThreadInv, NEW w \in Workers, Ends(w), [Next]_vars
  PROVE  ThreadInv'
<1>0. PICK b \in DOMAIN builds : b = worker[w].build  BY DEF Ends
<1>1. /\ worker[w].pc \in {"unready", "write", "raised"}
      /\ \A v \in Workers : v # w => worker'[v] = worker[v]
      /\ worker'[w].build = b
      /\ DOMAIN builds' = DOMAIN builds /\ \A c \in DOMAIN builds : c # b => builds'[c] = builds[c]
      /\ builds'[b].status \notin {"queued", "running"} /\ ~builds'[b].stale
      /\ \A v \in Workers :
           /\ run[v] = "none" <=> run'[v] = "none"
           /\ worker[v].build # b => run'[v] = run[v]
           /\ worker[v].build = b => run'[v] = IF run[v] = "running" THEN builds'[b].status ELSE run[v]
  BY <1>0 DEF Ends
<1>2. \/ worker'[w].pc = "gone" /\ SameCounts
      \/ worker'[w].pc = "raised" /\ worker[w].pc = "write" /\ worker[w].mark # "cancelled" /\ Count("history")
  BY DEF Ends
<1>3. Alive(w) /\ worker'[w].pc \notin Stepping  BY <1>1, <1>2 DEF Alive, Stepping
<1>4. /\ used.cancels \in Nat /\ used.crashes \in Nat /\ used.history \in Nat
      /\ used'.cancels = used.cancels /\ used'.crashes = used.crashes /\ used'.history >= used.history
      /\ used'.history \in Nat /\ (worker'[w].pc = "raised" => used'.history > 0)
  <2>1. used.cancels \in Nat /\ used.crashes \in Nat /\ used.history \in Nat  BY DEF Typed
  <2>. QED  BY <1>2, <2>1, Counted DEF SameCounts
<1>5. (LateSettling => LateSettling') /\ (TwoThreads => TwoThreads')  BY CountsGrow
<1>6. \A v \in Workers : /\ worker'[v].build = worker[v].build /\ (Alive(v)' => Alive(v)) /\ (OfJob(v)' => OfJob(v))
                         /\ (worker'[v].pc \in Stepping => worker[v].pc \in Stepping /\ v # w)
                         /\ (Alive(v) => worker[v].build \in DOMAIN builds)
                         /\ (v # w => (Alive(v) <=> Alive(v)') /\ (OfJob(v) <=> OfJob(v)'))
  BY <1>0, <1>1, <1>3, TypedFacts DEF Alive, OfJob
<1>7. \A v \in Workers : v # w /\ OfJob(v) /\ worker[v].build = b => LateSettling
  BY <1>0, <1>3 DEF ThreadInv, OneOfJob
<1>8. StaleIsLost'
  <2>1. ASSUME NEW v \in Workers, OfJob(v)'  PROVE ~builds'[worker'[v].build].stale
    <3>1. OfJob(v) /\ worker[v].build \in DOMAIN builds /\ worker'[v].build = worker[v].build  BY <1>6, <2>1 DEF OfJob
    <3>2. ~builds[worker[v].build].stale  BY <3>1 DEF ThreadInv, StaleIsLost
    <3>. QED  BY <1>1, <3>1, <3>2
  <2>. QED  BY <2>1 DEF StaleIsLost
<1>9. StepperIsOfJob'  BY <1>1, <1>6 DEF ThreadInv, StepperIsOfJob
<1>10. CancellerIsLate'
  <2>1. ASSUME NEW v \in Workers, Alive(v)', run'[v] = "none"
        PROVE  /\ used'.cancels > 0 /\ used'.crashes > 0
               /\ worker'[v].pc \in {"finalize", "write"}
               /\ worker'[v].pc = "finalize" => worker'[v].stop
               /\ worker'[v].pc = "write" => worker'[v].mark = "cancelled"
    <3>1. /\ used.cancels > 0 /\ used.crashes > 0
          /\ worker[v].pc \in {"finalize", "write"}
          /\ worker[v].pc = "finalize" => worker[v].stop
          /\ worker[v].pc = "write" => worker[v].mark = "cancelled"
      BY <1>1, <1>6, <2>1 DEF ThreadInv, CancellerIsLate
    <3>2. v # w  BY <1>2, <2>1, <3>1 DEF Alive
    <3>. QED  BY <1>1, <1>4, <3>1, <3>2
  <2>. QED  BY <2>1 DEF CancellerIsLate
<1>11. ActiveHasThread'
  <2>1. ASSUME used'.crashes = 0, NEW c \in DOMAIN builds', Active(c)'  PROVE \E v \in Live(c)' : run'[v] # "none"
    <3>1. c # b /\ c \in DOMAIN builds /\ Active(c)  BY <1>1, <2>1 DEF Active
    <3>2. PICK v \in Live(c) : run[v] # "none"  BY <1>4, <2>1, <3>1 DEF ThreadInv, ActiveHasThread
    <3>3. v \in Workers /\ v # w  BY <1>0, <3>1, <3>2 DEF Live
    <3>. QED  BY <1>1, <1>6, <3>2, <3>3 DEF Live
  <2>. QED  BY <2>1 DEF ActiveHasThread
<1>12. RaisedIsRare'
  <2>1. ASSUME NEW v \in Workers, worker'[v].pc = "raised"  PROVE used'.history > 0 \/ used'.crashes > 0
    <3>1. CASE v = w  BY <1>4, <2>1, <3>1
    <3>2. CASE v # w  BY <1>1, <1>4, <2>1, <3>2 DEF ThreadInv, RaisedIsRare
    <3>. QED  BY <3>1, <3>2
  <2>. QED  BY <2>1 DEF RaisedIsRare
<1>13. SettledIsLate'
  <2>1. ASSUME NEW v \in Workers, OfJob(v)', builds'[worker'[v].build].status \notin {"queued", "running"}
        PROVE LateSettling' \/ (worker'[v].pc = "raised" /\ used'.history > 0)
    <3>1. CASE v = w
      <4>1. worker'[w].pc = "raised"  BY <1>2, <2>1, <3>1 DEF OfJob, Alive
      <4>. QED  BY <1>4, <3>1, <4>1
    <3>2. CASE v # w /\ worker[v].build = b  BY <1>5, <1>6, <1>7, <2>1, <3>2
    <3>3. CASE v # w /\ worker[v].build # b
      <4>1. OfJob(v) /\ worker[v].build \in DOMAIN builds /\ worker'[v] = worker[v]
        BY <1>1, <1>6, <2>1, <3>3 DEF OfJob
      <4>2. ~Active(worker[v].build)  BY <1>1, <2>1, <3>3, <4>1 DEF Active
      <4>3. LateSettling \/ (worker[v].pc = "raised" /\ used.history > 0)  BY <4>1, <4>2 DEF ThreadInv, SettledIsLate
      <4>. QED  BY <1>4, <1>5, <4>1, <4>3
    <3>. QED  BY <3>1, <3>2, <3>3
  <2>. QED  BY <2>1 DEF SettledIsLate, Active
<1>14. OneOfJob'  BY <1>5, <1>6 DEF ThreadInv, OneOfJob
<1>15. OneStepper'  BY <1>5, <1>6 DEF ThreadInv, OneStepper
<1>16. RunOpen'
  <2>1. ASSUME used'.crashes = 0, NEW v \in Workers
        PROVE  /\ ~Alive(v)' => run'[v] # "running"
               /\ OfJob(v)' /\ worker'[v].pc # "raised" => LateSettling' \/ run'[v] = "running"
    <3>1. /\ ~Alive(v) => run[v] # "running"
          /\ OfJob(v) /\ worker[v].pc # "raised" => LateSettling \/ run[v] = "running"
      BY <1>4, <2>1 DEF ThreadInv, RunOpen
    <3>2. CASE v = w
      <4>1. run'[w] # "running"  BY <1>0, <1>1
      <4>. QED  BY <1>2, <3>2, <4>1 DEF OfJob, Alive
    <3>3. CASE v # w /\ worker[v].build = b  BY <1>1, <1>5, <1>6, <1>7, <3>1, <3>3
    <3>4. CASE v # w /\ worker[v].build # b  BY <1>1, <1>5, <1>6, <3>1, <3>4
    <3>. QED  BY <3>2, <3>3, <3>4
  <2>. QED  BY <2>1 DEF RunOpen
<1>. QED  BY <1>8, <1>9, <1>10, <1>11, <1>12, <1>13, <1>14, <1>15, <1>16 DEF ThreadInv

(* No thread outlives its process.                                         *)
LEMMA NoThreads ==
  ASSUME used'.crashes > 0, \A v \in Workers : ~Alive(v)'
  PROVE  ThreadInv'
<1>1. \A v \in Workers : worker'[v].pc \notin Stepping \cup Closing  BY DEF Alive, Stepping, Closing
<1>2. used'.crashes # 0  OBVIOUS
<1>3. StaleIsLost' /\ CancellerIsLate' /\ SettledIsLate' /\ OneOfJob'
  BY DEF StaleIsLost, CancellerIsLate, SettledIsLate, OneOfJob, OfJob
<1>4. StepperIsOfJob' /\ OneStepper' /\ RaisedIsRare'  BY <1>1 DEF StepperIsOfJob, OneStepper, RaisedIsRare, Closing
<1>5. ActiveHasThread' /\ RunOpen'  BY <1>2 DEF ActiveHasThread, RunOpen
<1>. QED  BY <1>3, <1>4, <1>5 DEF ThreadInv

(* So does the end of a process, which leaves no thread.                   *)
LEMMA LostThreads ==
  ASSUME Typed, Lost, Count("crashes")
  PROVE  ThreadInv'
<1>1. used'.crashes > 0  BY Counted
<1>2. ASSUME NEW v \in Workers  PROVE ~Alive(v)'
  <2>1. CASE Alive(v)  BY <2>1, LostRows DEF Alive
  <2>2. CASE ~Alive(v)  BY <2>2, LostRows DEF Alive
  <2>. QED  BY <2>1, <2>2
<1>. QED  BY <1>1, <1>2, NoThreads

(* What a request leaves of the threads that were there.                   *)
LEMMA OthersStay ==
  ASSUME Typed, NEW w \in Workers, \A v \in Workers : v # w => worker'[v] = worker[v] /\ (run[v] = "none" <=> run'[v] = "none")
  PROVE  \A v \in Workers : v # w => /\ Alive(v) <=> Alive(v)'
                                     /\ OfJob(v) <=> OfJob(v)'
                                     /\ Alive(v) => worker[v].build \in DOMAIN builds
                                     /\ worker[v].pc \in Stepping => Alive(v)
BY TypedFacts, StepperFacts DEF Alive, OfJob

(* A start keeps it: what it supersedes had lost its thread.               *)
LEMMA StartThreads ==
  ASSUME Typed, Typed', ThreadInv, Start
  PROVE  ThreadInv'
<1>. DEFINE n == Len(builds) + 1
<1>1. Insert(Steps) /\ UNCHANGED used /\ Startable  BY StartTyped
<1>2. PICK w \in Workers :
           /\ worker[w].pc = "idle" /\ worker'[w].pc = "new" /\ worker'[w].build = n
           /\ run'[w] = "running"
           /\ \A v \in Workers : v # w => worker'[v] = worker[v] /\ run'[v] = CloseNewest[v]
  BY StartTyped
<1>3. /\ DOMAIN builds' = DOMAIN builds \cup {n} /\ n \notin DOMAIN builds
      /\ builds'[n] = NewBuild
      /\ \A b \in DOMAIN builds :
           /\ b \notin Newest => builds'[b] = builds[b]
           /\ b \in Newest => builds'[b].status = "failed" /\ builds'[b].stale = builds[b].stale
  BY <1>1, Inserted
<1>. HIDE DEF n
<1>4. \A v \in Workers : v # w => /\ worker'[v] = worker[v]
                                  /\ run[v] = "none" <=> run'[v] = "none"
                                  /\ run'[v] = IF worker[v].build \in Newest /\ run[v] = "running" THEN "failed" ELSE run[v]
  BY <1>2, ClosedNewest
<1>5. \A v \in Workers : v # w => /\ Alive(v) <=> Alive(v)'
                                  /\ OfJob(v) <=> OfJob(v)'
                                  /\ Alive(v) => worker[v].build \in DOMAIN builds
                                  /\ worker[v].pc \in Stepping => Alive(v)
  BY <1>4, OthersStay
<1>6. Alive(w)' /\ OfJob(w)' /\ worker'[w].pc \in Stepping /\ ~builds'[n].stale /\ builds'[n].status = "queued"
  BY <1>2, <1>3 DEF Alive, OfJob, Stepping, NewBuild
<1>7. (LateSettling <=> LateSettling') /\ (TwoThreads <=> TwoThreads')  BY <1>1 DEF LateSettling, TwoThreads
(* A build that is superseded has no thread.                               *)
<1>8. \A v \in Workers : OfJob(v) => worker[v].build \notin Newest
  BY <1>1 DEF ThreadInv, StaleIsLost, Startable
<1>9. StaleIsLost'
  <2>1. ASSUME NEW v \in Workers, OfJob(v)'  PROVE ~builds'[worker'[v].build].stale
    <3>1. CASE v = w  BY <1>2, <1>6, <3>1
    <3>2. CASE v # w
      <4>1. OfJob(v) /\ worker[v].build \in DOMAIN builds /\ worker'[v] = worker[v]
        BY <1>4, <1>5, <2>1, <3>2 DEF OfJob
      <4>2. ~builds[worker[v].build].stale  BY <4>1 DEF ThreadInv, StaleIsLost
      <4>. QED  BY <1>3, <4>1, <4>2
    <3>. QED  BY <3>1, <3>2
  <2>. QED  BY <2>1 DEF StaleIsLost
<1>10. StepperIsOfJob'
  BY <1>4, <1>2 DEF ThreadInv, StepperIsOfJob
<1>11. CancellerIsLate'
  <2>1. ASSUME NEW v \in Workers, Alive(v)', run'[v] = "none"
        PROVE  v # w /\ Alive(v) /\ run[v] = "none" /\ worker'[v] = worker[v]
    BY <1>2, <1>4, <1>5, <2>1
  <2>. QED  BY <1>1, <2>1 DEF ThreadInv, CancellerIsLate
<1>12. ActiveHasThread'
  <2>1. ASSUME used'.crashes = 0, NEW c \in DOMAIN builds', Active(c)'  PROVE \E v \in Live(c)' : run'[v] # "none"
    <3>1. CASE c = n  BY <1>2, <1>6, <3>1 DEF Live
    <3>2. CASE c # n
      <4>1. c \in DOMAIN builds /\ Active(c)  BY <1>3, <2>1, <3>2 DEF Active
      <4>2. PICK v \in Live(c) : run[v] # "none"  BY <1>1, <2>1, <4>1 DEF ThreadInv, ActiveHasThread
      <4>3. v \in Workers /\ v # w  BY <1>2, <4>2 DEF Live, Alive
      <4>. QED  BY <1>4, <1>5, <4>2, <4>3 DEF Live
    <3>. QED  BY <3>1, <3>2
  <2>. QED  BY <2>1 DEF ActiveHasThread
<1>13. RaisedIsRare'
  <2>1. ASSUME NEW v \in Workers, worker'[v].pc = "raised"  PROVE v # w /\ worker[v].pc = "raised"
    BY <1>2, <1>4, <2>1
  <2>. QED  BY <1>1, <2>1 DEF ThreadInv, RaisedIsRare
<1>14. SettledIsLate'
  <2>1. ASSUME NEW v \in Workers, OfJob(v)', builds'[worker'[v].build].status \notin {"queued", "running"}
        PROVE LateSettling' \/ (worker'[v].pc = "raised" /\ used'.history > 0)
    <3>1. v # w  BY <1>2, <1>6, <2>1
    <3>2. OfJob(v) /\ worker[v].build \in DOMAIN builds /\ worker'[v] = worker[v]  BY <1>4, <1>5, <2>1, <3>1 DEF OfJob
    <3>3. worker[v].build \notin Newest  BY <1>8, <3>2
    <3>4. ~Active(worker[v].build)  BY <1>3, <2>1, <3>2, <3>3 DEF Active
    <3>. QED  BY <1>1, <1>7, <3>2, <3>4 DEF ThreadInv, SettledIsLate
  <2>. QED  BY <2>1 DEF SettledIsLate, Active
<1>15. OneOfJob'
  <2>1. ASSUME NEW u \in Workers, NEW v \in Workers, u # v, OfJob(v)', Alive(u)', worker'[u].build = worker'[v].build
        PROVE LateSettling'
    <3>1. u # w /\ v # w
      <4>1. ASSUME NEW x \in Workers, x # w, Alive(x)'  PROVE worker'[x].build # n
        BY <1>3, <1>4, <1>5, <4>1
      <4>. QED  BY <1>2, <2>1, <4>1 DEF OfJob
    <3>. QED  BY <1>4, <1>5, <1>7, <2>1, <3>1 DEF ThreadInv, OneOfJob
  <2>. QED  BY <2>1 DEF OneOfJob
<1>16. OneStepper'
  <2>1. ASSUME NEW u \in Workers, NEW v \in Workers, u # v, worker'[u].pc \in Stepping, worker'[v].pc \in Stepping,
               worker'[u].build = worker'[v].build
        PROVE TwoThreads'
    <3>1. u # w /\ v # w
      <4>1. ASSUME NEW x \in Workers, x # w, worker'[x].pc \in Stepping  PROVE worker'[x].build # n
        BY <1>3, <1>4, <1>5, <4>1
      <4>. QED  BY <1>2, <2>1, <4>1
    <3>. QED  BY <1>4, <1>7, <2>1, <3>1 DEF ThreadInv, OneStepper
  <2>. QED  BY <2>1 DEF OneStepper
<1>17. RunOpen'
  <2>1. ASSUME used'.crashes = 0, NEW v \in Workers
        PROVE  /\ ~Alive(v)' => run'[v] # "running"
               /\ OfJob(v)' /\ worker'[v].pc # "raised" => LateSettling' \/ run'[v] = "running"
    <3>1. /\ ~Alive(v) => run[v] # "running"
          /\ OfJob(v) /\ worker[v].pc # "raised" => LateSettling \/ run[v] = "running"
      BY <1>1, <2>1 DEF ThreadInv, RunOpen
    <3>2. CASE v = w  BY <1>2, <1>6, <3>2
    <3>3. CASE v # w  BY <1>4, <1>5, <1>7, <1>8, <3>1, <3>3
    <3>. QED  BY <3>2, <3>3
  <2>. QED  BY <2>1 DEF RunOpen
<1>. QED  BY <1>9, <1>10, <1>11, <1>12, <1>13, <1>14, <1>15, <1>16, <1>17 DEF ThreadInv

(* A retry keeps it: the job was settled or had lost its thread.           *)
LEMMA RetryThreads ==
  ASSUME Typed, Typed', ThreadInv, NEW b \in DOMAIN builds, NEW targets, Retry(b, targets), [Next]_vars
  PROVE  ThreadInv'
<1>1. /\ Count("retries") /\ (Active(b) => builds[b].stale)
      /\ DOMAIN builds' = DOMAIN builds /\ builds'[b].status = "queued" /\ ~builds'[b].stale
      /\ \A c \in DOMAIN builds : c # b => builds'[c] = builds[c]
  BY RetryTyped
<1>2. PICK w \in Workers :
        /\ worker[w].pc = "idle" /\ worker'[w].pc = "new" /\ worker'[w].build = b
        /\ run'[w] = "running"
        /\ \A v \in Workers : v # w =>
             /\ worker'[v] = worker[v]
             /\ run'[v] = IF worker[v].build = b /\ run[v] = "running" THEN "failed" ELSE run[v]
  BY RetryTyped
<1>3. \A v \in Workers : v # w => (run[v] = "none" <=> run'[v] = "none")  BY <1>2
<1>4. \A v \in Workers : v # w => /\ Alive(v) <=> Alive(v)'
                                  /\ OfJob(v) <=> OfJob(v)'
                                  /\ Alive(v) => worker[v].build \in DOMAIN builds
                                  /\ worker[v].pc \in Stepping => Alive(v)
  BY <1>2, <1>3, OthersStay
<1>5. Alive(w)' /\ OfJob(w)' /\ worker'[w].pc \in Stepping  BY <1>2 DEF Alive, OfJob, Stepping
<1>6. /\ used.retries \in Nat /\ used'.retries = used.retries + 1 /\ used'.cancels = used.cancels
      /\ used'.crashes = used.crashes /\ used'.history = used.history
  BY <1>1, Counted
<1>7. (LateSettling => LateSettling') /\ (TwoThreads => TwoThreads')  BY CountsGrow
(* A thread that the job still has settles it late.                        *)
<1>8. \A v \in Workers : v # w /\ Alive(v) /\ worker[v].build = b => LateSettling'
  <2>1. ASSUME NEW v \in Workers, v # w, Alive(v), worker[v].build = b  PROVE LateSettling'
    <3>1. CASE OfJob(v)
      <4>1. ~Active(b)  BY <1>1, <2>1, <3>1 DEF ThreadInv, StaleIsLost
      <4>2. LateSettling \/ used.history > 0  BY <2>1, <3>1, <4>1 DEF ThreadInv, SettledIsLate
      <4>. QED  BY <1>6, <1>7, <4>2 DEF LateSettling
    <3>2. CASE ~OfJob(v)
      <4>1. used.cancels > 0 /\ used.crashes > 0  BY <2>1, <3>2 DEF ThreadInv, CancellerIsLate, OfJob
      <4>. QED  BY <1>6, <4>1 DEF LateSettling
    <3>. QED  BY <3>1, <3>2
  <2>. QED  BY <2>1
<1>9. \A v \in Workers : v # w /\ worker[v].pc \in Stepping /\ worker[v].build = b => TwoThreads'
  <2>1. ASSUME NEW v \in Workers, v # w, worker[v].pc \in Stepping, worker[v].build = b  PROVE TwoThreads'
    <3>1. OfJob(v)  BY <1>4, <2>1 DEF ThreadInv, StepperIsOfJob, OfJob
    <3>2. ~Active(b)  BY <1>1, <2>1, <3>1 DEF ThreadInv, StaleIsLost
    <3>3. worker[v].pc # "raised"  BY <2>1 DEF Stepping
    <3>4. LateSettling  BY <2>1, <3>1, <3>2, <3>3 DEF ThreadInv, SettledIsLate
    <3>5. used.retries > 0  BY <3>4 DEF LateSettling
    <3>. QED  BY <1>6, <1>7, <3>4, <3>5 DEF TwoThreads
  <2>. QED  BY <2>1
<1>10. StaleIsLost'
  <2>1. ASSUME NEW v \in Workers, OfJob(v)'  PROVE ~builds'[worker'[v].build].stale
    <3>1. CASE v = w  BY <1>1, <1>2, <3>1
    <3>2. CASE v # w
      <4>1. OfJob(v) /\ worker[v].build \in DOMAIN builds /\ worker'[v] = worker[v]
        BY <1>2, <1>4, <2>1, <3>2 DEF OfJob
      <4>2. ~builds[worker[v].build].stale  BY <4>1 DEF ThreadInv, StaleIsLost
      <4>. QED  BY <1>1, <4>1, <4>2
    <3>. QED  BY <3>1, <3>2
  <2>. QED  BY <2>1 DEF StaleIsLost
<1>11. StepperIsOfJob'  BY <1>2, <1>3 DEF ThreadInv, StepperIsOfJob
<1>12. CancellerIsLate'
  <2>1. ASSUME NEW v \in Workers, Alive(v)', run'[v] = "none"
        PROVE  v # w /\ Alive(v) /\ run[v] = "none" /\ worker'[v] = worker[v]
    BY <1>2, <1>3, <1>4, <2>1
  <2>. QED  BY <1>6, <2>1 DEF ThreadInv, CancellerIsLate
<1>13. ActiveHasThread'
  <2>1. ASSUME used'.crashes = 0, NEW c \in DOMAIN builds', Active(c)'  PROVE \E v \in Live(c)' : run'[v] # "none"
    <3>1. CASE c = b  BY <1>2, <1>5, <3>1 DEF Live
    <3>2. CASE c # b
      <4>1. c \in DOMAIN builds /\ Active(c)  BY <1>1, <2>1, <3>2 DEF Active
      <4>2. PICK v \in Live(c) : run[v] # "none"  BY <1>6, <2>1, <4>1 DEF ThreadInv, ActiveHasThread
      <4>3. v \in Workers /\ v # w  BY <1>2, <4>2 DEF Live, Alive
      <4>. QED  BY <1>2, <1>3, <1>4, <4>2, <4>3 DEF Live
    <3>. QED  BY <3>1, <3>2
  <2>. QED  BY <2>1 DEF ActiveHasThread
<1>14. RaisedIsRare'
  <2>1. ASSUME NEW v \in Workers, worker'[v].pc = "raised"  PROVE v # w /\ worker[v].pc = "raised"
    BY <1>2, <2>1
  <2>. QED  BY <1>6, <2>1 DEF ThreadInv, RaisedIsRare
<1>15. SettledIsLate'
  <2>1. ASSUME NEW v \in Workers, OfJob(v)', builds'[worker'[v].build].status \notin {"queued", "running"}
        PROVE LateSettling' \/ (worker'[v].pc = "raised" /\ used'.history > 0)
    <3>1. v # w  BY <1>1, <1>2, <2>1
    <3>2. OfJob(v) /\ worker[v].build \in DOMAIN builds /\ worker'[v] = worker[v]  BY <1>2, <1>4, <2>1, <3>1 DEF OfJob
    <3>3. ~Active(worker[v].build)  BY <1>1, <2>1, <3>2 DEF Active
    <3>. QED  BY <1>6, <1>7, <3>2, <3>3 DEF ThreadInv, SettledIsLate
  <2>. QED  BY <2>1 DEF SettledIsLate, Active
<1>16. OneOfJob'
  <2>1. ASSUME NEW u \in Workers, NEW v \in Workers, u # v, OfJob(v)', Alive(u)', worker'[u].build = worker'[v].build
        PROVE LateSettling'
    <3>1. CASE u # w /\ v # w  BY <1>2, <1>4, <1>7, <2>1, <3>1 DEF ThreadInv, OneOfJob
    <3>2. CASE u = w  BY <1>2, <1>4, <1>8, <2>1, <3>2 DEF OfJob
    <3>3. CASE v = w  BY <1>2, <1>4, <1>8, <2>1, <3>3
    <3>. QED  BY <3>1, <3>2, <3>3
  <2>. QED  BY <2>1 DEF OneOfJob
<1>17. OneStepper'
  <2>1. ASSUME NEW u \in Workers, NEW v \in Workers, u # v, worker'[u].pc \in Stepping, worker'[v].pc \in Stepping,
               worker'[u].build = worker'[v].build
        PROVE TwoThreads'
    <3>1. CASE u # w /\ v # w  BY <1>2, <1>7, <2>1, <3>1 DEF ThreadInv, OneStepper
    <3>2. CASE u = w  BY <1>2, <1>9, <2>1, <3>2
    <3>3. CASE v = w  BY <1>2, <1>9, <2>1, <3>3
    <3>. QED  BY <3>1, <3>2, <3>3
  <2>. QED  BY <2>1 DEF OneStepper
<1>18. RunOpen'
  <2>1. ASSUME used'.crashes = 0, NEW v \in Workers
        PROVE  /\ ~Alive(v)' => run'[v] # "running"
               /\ OfJob(v)' /\ worker'[v].pc # "raised" => LateSettling' \/ run'[v] = "running"
    <3>1. /\ ~Alive(v) => run[v] # "running"
          /\ OfJob(v) /\ worker[v].pc # "raised" => LateSettling \/ run[v] = "running"
      BY <1>6, <2>1 DEF ThreadInv, RunOpen
    <3>2. CASE v = w  BY <1>2, <1>5, <3>2
    <3>3. CASE v # w /\ worker[v].build = b  BY <1>2, <1>4, <1>8, <3>1, <3>3 DEF OfJob
    <3>4. CASE v # w /\ worker[v].build # b  BY <1>2, <1>4, <1>7, <3>1, <3>4
    <3>. QED  BY <3>2, <3>3, <3>4
  <2>. QED  BY <2>1 DEF RunOpen
<1>. QED  BY <1>10, <1>11, <1>12, <1>13, <1>14, <1>15, <1>16, <1>17, <1>18 DEF ThreadInv

(* The threads stay; no status changes; a build may look lost that has none. *)
LEMMA StillThreads ==
  ASSUME Typed, ThreadInv, UNCHANGED <<worker, run>>, DOMAIN builds' = DOMAIN builds,
         \A c \in DOMAIN builds : builds'[c].status = builds[c].status,
         \A c \in DOMAIN builds : builds'[c].stale => builds[c].stale \/ \A v \in Live(c) : run[v] = "none",
         used' = used \/ Count("cancels"), LateSettling => LateSettling', TwoThreads => TwoThreads'
  PROVE  ThreadInv'
<1>1. /\ used'.crashes = used.crashes /\ used'.history = used.history /\ used'.cancels >= used.cancels
      /\ used.cancels \in Nat /\ used'.cancels \in Nat
  BY Counted DEF Typed
<1>2. \A v \in Workers : /\ worker'[v] = worker[v] /\ run'[v] = run[v]
                         /\ (Alive(v) <=> Alive(v)') /\ (OfJob(v) <=> OfJob(v)')
                         /\ (Alive(v) => worker[v].build \in DOMAIN builds)
  BY TypedFacts DEF Alive, OfJob
<1>3. StaleIsLost'
  <2>1. ASSUME NEW v \in Workers, OfJob(v)'  PROVE ~builds'[worker'[v].build].stale
    <3>1. OfJob(v) /\ worker[v].build \in DOMAIN builds /\ worker'[v] = worker[v]  BY <1>2, <2>1 DEF OfJob
    <3>2. ~builds[worker[v].build].stale  BY <3>1 DEF ThreadInv, StaleIsLost
    <3>3. v \in Live(worker[v].build) /\ run[v] # "none"  BY <3>1 DEF Live, OfJob
    <3>. QED  BY <3>1, <3>2, <3>3
  <2>. QED  BY <2>1 DEF StaleIsLost
<1>4. StepperIsOfJob'  BY <1>2 DEF ThreadInv, StepperIsOfJob
<1>5. CancellerIsLate'  BY <1>1, <1>2 DEF ThreadInv, CancellerIsLate
<1>6. ActiveHasThread'
  <2>1. ASSUME used'.crashes = 0, NEW c \in DOMAIN builds', Active(c)'  PROVE \E v \in Live(c)' : run'[v] # "none"
    <3>1. c \in DOMAIN builds /\ Active(c)  BY <2>1 DEF Active
    <3>2. PICK v \in Live(c) : run[v] # "none"  BY <1>1, <2>1, <3>1 DEF ThreadInv, ActiveHasThread
    <3>. QED  BY <1>2, <3>2 DEF Live
  <2>. QED  BY <2>1 DEF ActiveHasThread
<1>7. RaisedIsRare'  BY <1>1, <1>2 DEF ThreadInv, RaisedIsRare
<1>8. SettledIsLate'
  <2>1. ASSUME NEW v \in Workers, OfJob(v)', builds'[worker'[v].build].status \notin {"queued", "running"}
        PROVE LateSettling' \/ (worker'[v].pc = "raised" /\ used'.history > 0)
    <3>1. OfJob(v) /\ worker[v].build \in DOMAIN builds /\ worker'[v] = worker[v]  BY <1>2, <2>1 DEF OfJob
    <3>2. ~Active(worker[v].build)  BY <2>1, <3>1 DEF Active
    <3>. QED  BY <1>1, <3>1, <3>2 DEF ThreadInv, SettledIsLate
  <2>. QED  BY <2>1 DEF SettledIsLate, Active
<1>9. OneOfJob' /\ OneStepper'  BY <1>2 DEF ThreadInv, OneOfJob, OneStepper
<1>10. RunOpen'  BY <1>1, <1>2 DEF ThreadInv, RunOpen
<1>. QED  BY <1>3, <1>4, <1>5, <1>6, <1>7, <1>8, <1>9, <1>10 DEF ThreadInv

(* A cancellation keeps it: the request finalises a job only after a       *)
(* crash.                                                                  *)
LEMMA CancelBuildThreads ==
  ASSUME Typed, ThreadInv, NEW b \in DOMAIN builds, CancelBuild(b), [Next]_vars
  PROVE  ThreadInv'
<1>1. /\ UNCHANGED run /\ Count("cancels") /\ Active(b) /\ DOMAIN builds' = DOMAIN builds
      /\ \A c \in DOMAIN builds : builds'[c].status = builds[c].status /\ builds'[c].stale = builds[c].stale
  BY CancelBuildTyped
<1>2. (LateSettling => LateSettling') /\ (TwoThreads => TwoThreads')  BY CountsGrow
<1>3. CASE UNCHANGED worker  BY <1>1, <1>2, <1>3, StillThreads
<1>4. ASSUME builds[b].stale, NEW w \in Workers,
             worker[w].pc = "idle", worker'[w].pc = "finalize", worker'[w].build = b, worker'[w].stop,
             \A v \in Workers : v # w => worker'[v] = worker[v]
      PROVE  ThreadInv'
  <2>1. run[w] = "none" /\ run' = run  BY <1>1, <1>4, TypedFacts DEF ThreadTyped
  <2>2. \A v \in Workers : v # w => /\ Alive(v) <=> Alive(v)'
                                    /\ OfJob(v) <=> OfJob(v)'
                                    /\ Alive(v) => worker[v].build \in DOMAIN builds
                                    /\ worker[v].pc \in Stepping => Alive(v)
    BY <1>4, <2>1, OthersStay
  <2>3. Alive(w)' /\ ~OfJob(w)' /\ worker'[w].pc \notin Stepping  BY <1>4, <2>1 DEF Alive, OfJob, Stepping
  <2>4. /\ used'.crashes = used.crashes /\ used'.history = used.history /\ used'.cancels > 0
    BY <1>1, Counted
  (* The job has lost its thread.                                          *)
  <2>5. \A v \in Workers : OfJob(v) => worker[v].build # b  BY <1>4 DEF ThreadInv, StaleIsLost
  <2>6. used.crashes > 0
    <3>1. used.crashes # 0  BY <1>1, <2>5 DEF ThreadInv, ActiveHasThread, Live, OfJob
    <3>. QED  BY <3>1 DEF Typed
  <2>7. StaleIsLost'
    <3>1. ASSUME NEW v \in Workers, OfJob(v)'  PROVE ~builds'[worker'[v].build].stale
      <4>1. v # w /\ OfJob(v) /\ worker[v].build \in DOMAIN builds /\ worker'[v] = worker[v]
        BY <1>4, <2>2, <2>3, <3>1 DEF OfJob
      <4>2. ~builds[worker[v].build].stale  BY <4>1 DEF ThreadInv, StaleIsLost
      <4>. QED  BY <1>1, <4>1, <4>2
    <3>. QED  BY <3>1 DEF StaleIsLost
  <2>8. StepperIsOfJob'  BY <1>4, <2>1, <2>3 DEF ThreadInv, StepperIsOfJob
  <2>9. CancellerIsLate'
    <3>1. ASSUME NEW v \in Workers, Alive(v)', run'[v] = "none"
          PROVE  /\ used'.cancels > 0 /\ used'.crashes > 0
                 /\ worker'[v].pc \in {"finalize", "write"}
                 /\ worker'[v].pc = "finalize" => worker'[v].stop
                 /\ worker'[v].pc = "write" => worker'[v].mark = "cancelled"
      <4>1. CASE v = w  BY <1>4, <2>4, <2>6, <4>1
      <4>2. CASE v # w  BY <1>4, <2>1, <2>2, <2>4, <2>6, <3>1, <4>2 DEF ThreadInv, CancellerIsLate
      <4>. QED  BY <4>1, <4>2
    <3>. QED  BY <3>1 DEF CancellerIsLate
  <2>10. ActiveHasThread' /\ RunOpen'  BY <2>4, <2>6 DEF ActiveHasThread, RunOpen
  <2>11. RaisedIsRare'  BY <2>4, <2>6 DEF RaisedIsRare
  <2>12. SettledIsLate'
    <3>1. ASSUME NEW v \in Workers, OfJob(v)', builds'[worker'[v].build].status \notin {"queued", "running"}
          PROVE LateSettling' \/ (worker'[v].pc = "raised" /\ used'.history > 0)
      <4>1. v # w /\ OfJob(v) /\ worker[v].build \in DOMAIN builds /\ worker'[v] = worker[v]
        BY <1>4, <2>2, <2>3, <3>1 DEF OfJob
      <4>2. ~Active(worker[v].build)  BY <1>1, <3>1, <4>1 DEF Active
      <4>. QED  BY <1>2, <2>4, <4>1, <4>2 DEF ThreadInv, SettledIsLate
    <3>. QED  BY <3>1 DEF SettledIsLate, Active
  <2>13. OneOfJob'
    <3>1. ASSUME NEW u \in Workers, NEW v \in Workers, u # v, OfJob(v)', Alive(u)', worker'[u].build = worker'[v].build
          PROVE LateSettling'
      <4>1. v # w /\ OfJob(v) /\ worker'[v] = worker[v]  BY <1>4, <2>2, <2>3, <3>1
      <4>2. u # w  BY <1>4, <2>5, <3>1, <4>1
      <4>. QED  BY <1>2, <1>4, <2>2, <3>1, <4>1, <4>2 DEF ThreadInv, OneOfJob
    <3>. QED  BY <3>1 DEF OneOfJob
  <2>14. OneStepper'
    <3>1. ASSUME NEW u \in Workers, NEW v \in Workers, u # v, worker'[u].pc \in Stepping, worker'[v].pc \in Stepping,
               worker'[u].build = worker'[v].build
          PROVE TwoThreads'
      <4>1. u # w /\ v # w  BY <2>3, <3>1
      <4>. QED  BY <1>2, <1>4, <3>1, <4>1 DEF ThreadInv, OneStepper
    <3>. QED  BY <3>1 DEF OneStepper
  <2>. QED  BY <2>7, <2>8, <2>9, <2>10, <2>11, <2>12, <2>13, <2>14 DEF ThreadInv
<1>. QED  BY <1>3, <1>4, CancelBuildTyped

(* There are no threads at the beginning.                                  *)
LEMMA InitThreads == Init => ThreadInv
<1>. SUFFICES ASSUME Init  PROVE ThreadInv
  OBVIOUS
<1>1. \A w \in Workers : worker[w].pc = "idle" /\ run[w] = "none"  BY IdleThread DEF Init
<1>2. \A w \in Workers : ~Alive(w) /\ worker[w].pc \notin Stepping \cup Closing  BY <1>1 DEF Alive, Stepping, Closing
<1>3. DOMAIN builds = {}  BY DEF Init
<1>. QED
  BY <1>1, <1>2, <1>3 DEF ThreadInv, StaleIsLost, StepperIsOfJob, CancellerIsLate, ActiveHasThread, RaisedIsRare,
                                  SettledIsLate, OneOfJob, OneStepper, RunOpen, OfJob, Closing

(* Every step keeps the invariant of the threads.                          *)
LEMMA ThreadsKept ==
  ASSUME ~Silence, Typed, Typed', ThreadInv, [Next]_vars
  PROVE  ThreadInv'
<1>1. CASE Start  BY <1>1, StartThreads
<1>2. CASE StartTorn  BY <1>2, StartTornTyped, LostThreads
<1>3. CASE Crash  BY <1>3, CrashTyped, LostThreads
<1>4. CASE SnapshotReady
  <2>1. UNCHANGED <<worker, run, builds, used>>  BY <1>4 DEF SnapshotReady
  <2>. QED  BY <2>1, StillThreads DEF LateSettling, TwoThreads
<1>5. ASSUME NEW b \in DOMAIN builds, RetryAll(b) \/ RetryStep(b)  PROVE ThreadInv'
  <2>1. PICK targets : Retry(b, targets)  BY <1>5 DEF RetryAll, RetryStep
  <2>. QED  BY <2>1, RetryThreads
<1>6. ASSUME NEW b \in DOMAIN builds, CancelBuild(b)  PROVE ThreadInv'
  BY <1>6, CancelBuildThreads
<1>7. ASSUME NEW b \in DOMAIN builds, CancelStep(b)  PROVE ThreadInv'
  <2>1. UNCHANGED <<builds, worker, run>> /\ Count("cancels")  BY <1>7, CancelStepTyped
  <2>. QED  BY <2>1, CountsGrow, StillThreads
<1>8. ASSUME NEW b \in DOMAIN builds, GoSilent(b)  PROVE ThreadInv'
  <2>1. /\ UNCHANGED <<worker, run, used>> /\ DOMAIN builds' = DOMAIN builds
        /\ \A c \in DOMAIN builds : builds'[c].status = builds[c].status
        /\ \A c \in DOMAIN builds : builds'[c].stale => builds[c].stale \/ \A v \in Live(c) : run[v] = "none"
    BY <1>8, GoSilentTyped
  <2>. QED  BY <2>1, StillThreads DEF LateSettling, TwoThreads
<1>9. ASSUME NEW w \in Workers, Work(w) \/ Trouble(w)  PROVE ThreadInv'
  <2>1. CASE FailUnready(w) \/ Write(w) \/ Raised(w)  BY <2>1, EndSteps, EndThreads
  <2>2. CASE ~(FailUnready(w) \/ Write(w) \/ Raised(w))
    <3>1. Inner(w)  BY <1>9, <2>2, InnerSteps DEF Work, Trouble
    <3>. QED  BY <3>1, InnerThreads
  <2>. QED  BY <2>1, <2>2
<1>10. CASE UNCHANGED vars
  <2>1. UNCHANGED <<worker, run, builds, used>>  BY <1>10 DEF vars
  <2>. QED  BY <2>1, StillThreads DEF LateSettling, TwoThreads
<1>. QED  BY <1>1, <1>2, <1>3, <1>4, <1>5, <1>6, <1>7, <1>8, <1>9, <1>10 DEF Next

-----------------------------------------------------------------------------
(* Steps.                                                                  *)

(* What marking a step as running writes.                                  *)
LEMMA BeginStepRow ==
  ASSUME Typed, NEW w \in Workers, BeginStep(w)
  PROVE  LET b == worker[w].build  s == StepOf(w) IN
         /\ worker[w].pc = "begin" /\ worker[w].pc \in AtStep /\ b \in DOMAIN builds /\ s \in DOMAIN steps[b]
         /\ steps'[b][s].status = "running" /\ steps'[b][s].reused = steps[b][s].reused
         /\ \A t \in DOMAIN steps[b] : t # s => steps'[b][t] = steps[b][t]
         /\ \A c \in DOMAIN steps : c # b => steps'[c] = steps[c]
         /\ \A c \in DOMAIN builds : DOMAIN steps'[c] = DOMAIN steps[c]
<1>1. worker[w].pc = "begin" /\ worker[w].pc \in AtStep  BY DEF BeginStep, AtStep, Stepping
<1>3. PICK b \in DOMAIN builds : b = worker[w].build  BY <1>1, AtStepFacts
<1>4. PICK s \in DOMAIN steps[b] : s = StepOf(w)  BY <1>1, <1>3, AtStepFacts
<1>5. PICK x \in StepRow : x = steps[b][s]  BY TypedFacts
<1>. DEFINE row == [x EXCEPT !.status = "running"]
<1>6. row \in StepRow /\ row.status = "running" /\ row.reused = x.reused  BY DEF StepRow, StepStates
<1>7. steps' = [steps EXCEPT ![b][s] = row]  BY <1>3, <1>4, <1>5 DEF BeginStep
<1>. HIDE DEF row
<1>8. /\ steps' \in Seq(StepRows) /\ Len(steps') = Len(steps) /\ DOMAIN steps' = DOMAIN steps
      /\ steps'[b][s] = row /\ \A t \in DOMAIN steps[b] : t # s => steps'[b][t] = steps[b][t]
      /\ \A c \in DOMAIN steps : c # b => steps'[c] = steps[c]
      /\ \A c \in DOMAIN builds : DOMAIN steps'[c] = DOMAIN steps[c]
  BY <1>6, <1>7, SetStatus
<1>. QED  BY <1>1, <1>3, <1>4, <1>5, <1>6, <1>8

(* What failing a job without a snapshot writes.                           *)
LEMMA FailUnreadyRow ==
  ASSUME Typed, NEW w \in Workers, FailUnready(w)
  PROVE  LET b == worker[w].build IN
         /\ b \in DOMAIN builds
         /\ \A s \in DOMAIN steps[b] :
              /\ steps'[b][s].reused = steps[b][s].reused
              /\ \/ steps'[b][s].status = steps[b][s].status
                 \/ steps[b][s].status = "pending" /\ steps'[b][s].status = "blocked"
         /\ \A c \in DOMAIN steps : c # b => steps'[c] = steps[c]
         /\ \A c \in DOMAIN builds : DOMAIN steps'[c] = DOMAIN steps[c]
<1>1. worker[w].pc = "unready"  BY DEF FailUnready
<1>2. PICK b \in DOMAIN builds : b = worker[w].build  BY <1>1, TypedFacts
<1>. DEFINE row == [s \in DOMAIN steps[b] |->
       IF steps[b][s].status = "pending" THEN [steps[b][s] EXCEPT !.status = "blocked"] ELSE steps[b][s]]
<1>3. steps' = [steps EXCEPT ![b] = row]  BY <1>2, TypedFacts DEF FailUnready
<1>4. \A s \in DOMAIN steps[b] :
        /\ row[s] \in StepRow /\ row[s].reused = steps[b][s].reused
        /\ \/ row[s].status = steps[b][s].status
           \/ steps[b][s].status = "pending" /\ row[s].status = "blocked"
  <2>1. ASSUME NEW s \in DOMAIN steps[b]
        PROVE  /\ row[s] \in StepRow /\ row[s].reused = steps[b][s].reused
               /\ \/ row[s].status = steps[b][s].status
                  \/ steps[b][s].status = "pending" /\ row[s].status = "blocked"
    <3>1. PICK x \in StepRow : x = steps[b][s]  BY <2>1, TypedFacts
    <3>2. [x EXCEPT !.status = "blocked"] \in StepRow /\ [x EXCEPT !.status = "blocked"].status = "blocked"
          /\ [x EXCEPT !.status = "blocked"].reused = x.reused
      BY DEF StepRow, StepStates
    <3>. QED  BY <3>1, <3>2
  <2>. QED  BY <2>1
<1>5. row \in [DOMAIN steps[b] -> StepRow]
  <2>1. row = [s \in DOMAIN steps[b] |-> row[s]]  OBVIOUS
  <2>. QED  BY <1>4, <2>1
<1>. HIDE DEF row
<1>. QED  BY <1>2, <1>3, <1>4, <1>5, StepsRow

(* A step's row stays, leaves off, or is marked by the thread that is at it. *)
Marked(b, s) == \E w \in Workers :
  /\ worker[w].build = b /\ worker[w].pc \in AtStep /\ StepOf(w) = s
  /\ \/ BeginStep(w) /\ steps'[b][s].status = "running" /\ steps'[b][s].reused = steps[b][s].reused
     \/ /\ MarkStep(w) /\ worker[w].pc = "mark" /\ steps'[b][s].status = StatusOf(worker[w].mark)
        /\ steps'[b][s].reused = (steps[b][s].reused \/ worker[w].mark = "reused")
StaysOrLeavesOff(b, s) ==
  \/ steps'[b][s].status = steps[b][s].status /\ steps'[b][s].reused = steps[b][s].reused
  \/ /\ steps[b][s].status # "completed" /\ steps'[b][s].status \notin {"running", "completed"}
     /\ steps'[b][s].reused => steps[b][s].reused

(* A step keeps its row, leaves off, or is marked; new steps are pending.  *)
LEMMA StepChange ==
  ASSUME Typed, [Next]_vars
  PROVE  /\ \A b \in DOMAIN builds :
              /\ b \in DOMAIN builds' /\ DOMAIN steps'[b] = DOMAIN steps[b]
              /\ \A s \in DOMAIN steps[b] : StaysOrLeavesOff(b, s) \/ Marked(b, s)
         /\ \A b \in DOMAIN builds' \ DOMAIN builds : \A s \in DOMAIN steps'[b] :
              steps'[b][s].status = "pending" /\ ~steps'[b][s].reused
<1>0. DOMAIN steps = DOMAIN builds  BY TypedFacts
<1>1. ASSUME UNCHANGED steps, DOMAIN builds' = DOMAIN builds
      PROVE  /\ \A b \in DOMAIN builds :
              /\ b \in DOMAIN builds' /\ DOMAIN steps'[b] = DOMAIN steps[b]
              /\ \A s \in DOMAIN steps[b] : StaysOrLeavesOff(b, s) \/ Marked(b, s)
             /\ \A b \in DOMAIN builds' \ DOMAIN builds : \A s \in DOMAIN steps'[b] :
              steps'[b][s].status = "pending" /\ ~steps'[b][s].reused
  BY <1>1 DEF StaysOrLeavesOff
<1>2. ASSUME NEW names \in SUBSET Steps, Insert(names)
      PROVE  /\ \A b \in DOMAIN builds :
              /\ b \in DOMAIN builds' /\ DOMAIN steps'[b] = DOMAIN steps[b]
              /\ \A s \in DOMAIN steps[b] : StaysOrLeavesOff(b, s) \/ Marked(b, s)
             /\ \A b \in DOMAIN builds' \ DOMAIN builds : \A s \in DOMAIN steps'[b] :
              steps'[b][s].status = "pending" /\ ~steps'[b][s].reused
  <2>. DEFINE n == Len(builds) + 1
  <2>1. /\ DOMAIN builds \subseteq DOMAIN builds' /\ DOMAIN builds' = DOMAIN builds \cup {n}
        /\ steps'[n] = [s \in names |-> NewStep]
        /\ \A b \in DOMAIN builds :
              /\ DOMAIN steps'[b] = DOMAIN steps[b]
              /\ \A s \in DOMAIN steps[b] :
                   /\ steps'[b][s].reused = steps[b][s].reused
                   /\ \/ steps'[b][s].status = steps[b][s].status
                      \/ steps[b][s].status = "running" /\ steps'[b][s].status = "failed"
    BY <1>2, Inserted
  <2>. HIDE DEF n
  <2>2. \A b \in DOMAIN builds : \A s \in DOMAIN steps[b] : StaysOrLeavesOff(b, s)  BY <2>1 DEF StaysOrLeavesOff
  <2>3. NewStep.status = "pending" /\ ~NewStep.reused  BY DEF NewStep
  <2>. QED  BY <2>1, <2>2, <2>3
<1>3. CASE Start  BY <1>2, <1>3, StartTyped
<1>4. CASE StartTorn  BY <1>2, <1>4, StartTornTyped
<1>5. CASE SnapshotReady \/ Crash \/ UNCHANGED vars  BY <1>1, <1>5 DEF SnapshotReady, Crash, vars
(* One build's rows change.                                                *)
<1>6. ASSUME NEW b \in DOMAIN builds, DOMAIN builds' = DOMAIN builds,
             \A c \in DOMAIN builds : DOMAIN steps'[c] = DOMAIN steps[c],
             \A c \in DOMAIN steps : c # b => steps'[c] = steps[c],
             \A s \in DOMAIN steps[b] : StaysOrLeavesOff(b, s) \/ Marked(b, s)
      PROVE  /\ \A c \in DOMAIN builds :
              /\ c \in DOMAIN builds' /\ DOMAIN steps'[c] = DOMAIN steps[c]
              /\ \A s \in DOMAIN steps[c] : StaysOrLeavesOff(c, s) \/ Marked(c, s)
             /\ \A c \in DOMAIN builds' \ DOMAIN builds : \A s \in DOMAIN steps'[c] :
              steps'[c][s].status = "pending" /\ ~steps'[c][s].reused
  <2>1. \A c \in DOMAIN builds : c # b => \A s \in DOMAIN steps[c] : StaysOrLeavesOff(c, s)
    BY <1>0, <1>6 DEF StaysOrLeavesOff
  <2>. QED  BY <1>6, <2>1
<1>7. ASSUME NEW b \in DOMAIN builds, RetryAll(b) \/ RetryStep(b)
      PROVE  /\ \A c \in DOMAIN builds :
              /\ c \in DOMAIN builds' /\ DOMAIN steps'[c] = DOMAIN steps[c]
              /\ \A s \in DOMAIN steps[c] : StaysOrLeavesOff(c, s) \/ Marked(c, s)
             /\ \A c \in DOMAIN builds' \ DOMAIN builds : \A s \in DOMAIN steps'[c] :
              steps'[c][s].status = "pending" /\ ~steps'[c][s].reused
  <2>1. PICK targets : Retry(b, targets)  BY <1>7 DEF RetryAll, RetryStep
  <2>2. /\ DOMAIN builds' = DOMAIN builds
        /\ \A c \in DOMAIN builds : c # b => steps'[c] = steps[c]
        /\ \A s \in DOMAIN steps[b] :
              \/ steps'[b][s] = steps[b][s]
              \/ steps[b][s].status # "completed" /\ steps'[b][s].status = "pending" /\ ~steps'[b][s].reused
    BY <2>1, RetryTyped
  <2>3. DOMAIN steps'[b] = DOMAIN steps[b]
    <3>1. steps' = [steps EXCEPT ![b] = [s \in DOMAIN @ |-> IF s \in Resettable(b, targets) THEN NewStep ELSE @[s]]]
      BY <2>1 DEF Retry
    <3>. QED  BY <1>0, <3>1
  <2>4. \A s \in DOMAIN steps[b] : StaysOrLeavesOff(b, s)  BY <2>2 DEF StaysOrLeavesOff
  <2>. QED  BY <1>0, <1>6, <2>2, <2>3, <2>4
<1>8. ASSUME NEW b \in DOMAIN builds, CancelBuild(b) \/ GoSilent(b)
      PROVE  UNCHANGED steps /\ DOMAIN builds' = DOMAIN builds
  BY <1>8, CancelBuildTyped, GoSilentTyped
<1>9. ASSUME NEW b \in DOMAIN builds, CancelStep(b)
      PROVE  /\ \A c \in DOMAIN builds :
              /\ c \in DOMAIN builds' /\ DOMAIN steps'[c] = DOMAIN steps[c]
              /\ \A s \in DOMAIN steps[c] : StaysOrLeavesOff(c, s) \/ Marked(c, s)
             /\ \A c \in DOMAIN builds' \ DOMAIN builds : \A s \in DOMAIN steps'[c] :
              steps'[c][s].status = "pending" /\ ~steps'[c][s].reused
  <2>1. /\ UNCHANGED builds
        /\ \A c \in DOMAIN builds : c # b => steps'[c] = steps[c]
        /\ \A s \in DOMAIN steps[b] :
              /\ steps'[b][s].reused = steps[b][s].reused
              /\ \/ steps'[b][s].status = steps[b][s].status
                 \/ steps[b][s].status \in Left /\ steps'[b][s].status = "cancelled"
    BY <1>9, CancelStepTyped
  <2>2. DOMAIN steps'[b] = DOMAIN steps[b]
    <3>1. PICK s \in DOMAIN steps[b] :
            steps' = [steps EXCEPT ![b][s].status = IF Active(b) /\ ~builds[b].stale THEN @ ELSE "cancelled",
                                   ![b][s].cancel = TRUE]
      BY <1>9 DEF CancelStep
    <3>. QED  BY <1>0, <3>1
  <2>3. \A s \in DOMAIN steps[b] : StaysOrLeavesOff(b, s)  BY <2>1 DEF StaysOrLeavesOff, Left
  <2>. QED  BY <1>0, <1>6, <2>1, <2>2, <2>3
<1>10. ASSUME NEW w \in Workers, Work(w) \/ Trouble(w)
      PROVE  /\ \A c \in DOMAIN builds :
              /\ c \in DOMAIN builds' /\ DOMAIN steps'[c] = DOMAIN steps[c]
              /\ \A s \in DOMAIN steps[c] : StaysOrLeavesOff(c, s) \/ Marked(c, s)
             /\ \A c \in DOMAIN builds' \ DOMAIN builds : \A s \in DOMAIN steps'[c] :
              steps'[c][s].status = "pending" /\ ~steps'[c][s].reused
  <2>0. DOMAIN builds' = DOMAIN builds
    <3>1. CASE FailUnready(w) \/ Write(w) \/ Raised(w)  BY <3>1, EndSteps DEF Ends
    <3>2. CASE ~(FailUnready(w) \/ Write(w) \/ Raised(w))  BY <1>10, <3>2, InnerSteps DEF Work, Trouble, Inner
    <3>. QED  BY <3>1, <3>2
  <2>1. CASE BeginStep(w)
    <3>1. PICK b \in DOMAIN builds : b = worker[w].build  BY <2>1, BeginStepRow
    <3>2. \A s \in DOMAIN steps[b] : StaysOrLeavesOff(b, s) \/ Marked(b, s)
      BY <2>1, <3>1, BeginStepRow DEF StaysOrLeavesOff, Marked
    <3>. QED  BY <1>6, <2>0, <2>1, <3>1, <3>2, BeginStepRow
  <2>2. CASE MarkStep(w)
    <3>1. PICK b \in DOMAIN builds : b = worker[w].build  BY <2>2, MarkStepRow
    <3>2. \A s \in DOMAIN steps[b] : StaysOrLeavesOff(b, s) \/ Marked(b, s)
      BY <2>2, <3>1, MarkStepRow DEF StaysOrLeavesOff, Marked
    <3>. QED  BY <1>6, <2>0, <2>2, <3>1, <3>2, MarkStepRow
  <2>3. CASE FailUnready(w)
    <3>1. PICK b \in DOMAIN builds : b = worker[w].build  BY <2>3, FailUnreadyRow
    <3>2. \A s \in DOMAIN steps[b] : StaysOrLeavesOff(b, s)
      BY <2>3, <3>1, FailUnreadyRow DEF StaysOrLeavesOff
    <3>. QED  BY <1>6, <2>0, <2>3, <3>1, <3>2, FailUnreadyRow
  <2>4. CASE Finalize(w)
    <3>1. PICK b \in DOMAIN builds : b = worker[w].build  BY <2>4, FinalizeRows
    <3>2. \A s \in DOMAIN steps[b] : StaysOrLeavesOff(b, s)
      BY <2>4, <3>1, FinalizeRows DEF StaysOrLeavesOff, Left
    <3>. QED  BY <1>6, <2>0, <2>4, <3>1, <3>2, FinalizeRows
  <2>5. CASE ~(BeginStep(w) \/ MarkStep(w) \/ FailUnready(w) \/ Finalize(w))
    <3>1. CASE Begin(w) \/ LookEnd(w) \/ Look(w) \/ Check(w) \/ Compute(w) \/ Save(w) \/ Plan(w) \/ Cancelled(w) \/ NextChunk(w)
      BY <1>1, <2>0, <3>1 DEF Begin, LookEnd, Look, Check, Compute, Save, Plan, Cancelled, NextChunk, rows
    <3>2. CASE Again(w) \/ Call(w) \/ ChunkScanned(w) \/ ScanEnds(w) \/ Write(w) \/ Raised(w) \/ Trouble(w)

        BY <1>1, <2>0, <3>2 DEF Again, Call, ChunkScanned, ScanEnds, Write, Raised, Trouble, Unconfigured, StepFails, ChunkFails, rows
    <3>. QED  BY <1>10, <2>5, <3>1, <3>2 DEF Work
  <2>. QED  BY <2>1, <2>2, <2>3, <2>4, <2>5
<1>. QED  BY <1>1, <1>3, <1>4, <1>5, <1>7, <1>8, <1>9, <1>10 DEF Next

(* A thread that is at its step stays at it until it marks it.             *)
AtItsStep == {"check", "begin", "run", "save"} \cup Scans

(* These steps of a thread leave it at its step.                           *)
LEMMA StayAtStep ==
  ASSUME Typed, NEW w \in Workers,
         \/ Unconfigured(w) \/ Check(w) \/ BeginStep(w) \/ Compute(w) \/ Save(w) \/ StepFails(w) \/ Plan(w) \/ Cancelled(w)
         \/ NextChunk(w) \/ Again(w) \/ Call(w) \/ ChunkScanned(w) \/ ChunkFails(w) \/ ScanEnds(w)
  PROVE  worker[w].pc \in AtItsStep /\ worker'[w].at = worker[w].at /\ worker'[w].build = worker[w].build
<1>1. worker \in [Workers -> ThreadRows] /\ worker[w] \in ThreadRows  BY DEF Typed
<1>2. CASE Unconfigured(w) \/ Check(w) \/ BeginStep(w) \/ Again(w)
  BY <1>1, <1>2 DEF Unconfigured, Check, BeginStep, Again, Mark, Go, AtItsStep, Scans, ThreadRows
<1>3. CASE Compute(w) \/ Save(w) \/ StepFails(w) \/ ScanEnds(w)
  BY <1>1, <1>3 DEF Compute, Save, StepFails, ScanEnds, Mark, AtItsStep, Scans, ThreadRows
<1>4. CASE Plan(w) \/ Cancelled(w) \/ Call(w) \/ NextChunk(w)
  <2>1. CASE Plan(w)
    <3>1. worker[w].pc = "run"  BY <2>1 DEF Plan
    <3>. QED  BY <2>1, <3>1, PlanTasks DEF AtItsStep
  <2>2. CASE Cancelled(w)
    <3>1. worker' = [worker EXCEPT ![w].pc = "mark", ![w].mark = "cancelled", ![w].stop = builds[worker[w].build].cancel,
                                   ![w].todo = {}, ![w].chunk = {}, ![w].tries = 0]
      BY <2>2 DEF Cancelled
    <3>2. worker[w].pc \in AtItsStep  BY <2>2 DEF Cancelled, AtItsStep, Scans
    <3>. QED  BY <1>1, <3>1, <3>2 DEF ThreadRows
  <2>3. CASE Call(w)
    <3>1. worker' = [worker EXCEPT ![w].pc = "called", ![w].tries = @ + 1] /\ worker[w].pc = "call"  BY <2>3 DEF Call
    <3>. QED  BY <1>1, <3>1 DEF ThreadRows, AtItsStep, Scans
  <2>4. CASE NextChunk(w)
    <3>1. PICK c \in worker[w].todo : worker' = [worker EXCEPT ![w].pc = "call", ![w].chunk = {c}, ![w].tries = 0,
                                                               ![w].todo = @ \ {c}]
      BY <2>4 DEF NextChunk
    <3>2. worker[w].pc \in AtItsStep  BY <2>4 DEF NextChunk, AtItsStep, Scans
    <3>. QED  BY <1>1, <3>1, <3>2 DEF ThreadRows
  <2>. QED  BY <1>4, <2>1, <2>2, <2>3, <2>4
<1>6. CASE ChunkScanned(w) \/ ChunkFails(w)
  BY <1>1, <1>6 DEF ChunkScanned, ChunkFails, Go, AtItsStep, Scans, ThreadRows
<1>. QED  BY <1>2, <1>3, <1>4, <1>6

(* How a thread comes to be at a step.                                     *)
ComesToStep(w) ==
  \/ worker'[w].pc \notin AtStep
  \/ worker'[w] = worker[w] /\ ~MarkStep(w) /\ ~BeginStep(w)
  \/ worker[w].pc \in AtItsStep /\ worker'[w].at = worker[w].at /\ worker'[w].build = worker[w].build /\ ~MarkStep(w)
  \/ Look(w) /\ worker'[w].at = worker[w].at /\ worker'[w].build = worker[w].build /\ UNCHANGED steps
     /\ ~Missing(w) /\ steps[worker[w].build][StepOf(w)].status # "completed"
     /\ \/ worker'[w].pc = "mark" /\ worker'[w].mark \in {"cancelled", "blocked"}
        \/ worker'[w].pc = "check" /\ Unmet(worker[w].build, StepOf(w)) = {}

(* Every step of the system brings a thread to its step in one of these    *)
(* ways.                                                                   *)
LEMMA ThreadChange ==
  ASSUME Typed, [Next]_vars, NEW w \in Workers
  PROVE  ComesToStep(w)
<1>1. worker \in [Workers -> ThreadRows] /\ worker[w] \in ThreadRows  BY DEF Typed
(* Begin and mark move their thread.                                       *)
<1>2. MarkStep(w) => worker[w].pc = "mark" /\ worker'[w].pc \in {"finalize", "step"}
  BY <1>1 DEF MarkStep, Go, Onward, ThreadRows
<1>3. BeginStep(w) => worker[w].pc = "begin" /\ worker'[w].pc = "run"
  BY <1>1 DEF BeginStep, Go, ThreadRows
<1>4. ASSUME worker'[w] = worker[w]  PROVE ComesToStep(w)
  BY <1>2, <1>3, <1>4 DEF ComesToStep
<1>5. {"new", "finalize", "gone", "step", "unready", "write", "raised"} \cap AtStep = {}
  BY DEF AtStep, Stepping
<1>6. CASE Start
  <2>1. worker'[w] = worker[w] \/ worker'[w].pc = "new"  BY <1>6, StartTyped
  <2>. QED  BY <1>4, <1>5, <2>1 DEF ComesToStep
<1>7. CASE StartTorn \/ Crash
  <2>1. worker'[w] = worker[w] \/ worker'[w].pc = "gone"  BY <1>7, StartTornTyped, CrashTyped, LostRows
  <2>. QED  BY <1>4, <1>5, <2>1 DEF ComesToStep
<1>8. CASE SnapshotReady \/ UNCHANGED vars
  <2>1. worker'[w] = worker[w]  BY <1>8 DEF SnapshotReady, vars
  <2>. QED  BY <1>4, <2>1
<1>9. ASSUME NEW b \in DOMAIN builds, RetryAll(b) \/ RetryStep(b)  PROVE ComesToStep(w)
  <2>1. PICK targets : Retry(b, targets)  BY <1>9 DEF RetryAll, RetryStep
  <2>2. worker'[w] = worker[w] \/ worker'[w].pc = "new"  BY <2>1, RetryTyped
  <2>. QED  BY <1>4, <1>5, <2>2 DEF ComesToStep
<1>10. ASSUME NEW b \in DOMAIN builds, CancelBuild(b) \/ CancelStep(b) \/ GoSilent(b)  PROVE ComesToStep(w)
  <2>1. worker'[w] = worker[w] \/ worker'[w].pc = "finalize"
    BY <1>10, CancelBuildTyped, CancelStepTyped, GoSilentTyped
  <2>. QED  BY <1>4, <1>5, <2>1 DEF ComesToStep
<1>11. ASSUME NEW v \in Workers, v # w, Work(v) \/ Trouble(v)  PROVE ComesToStep(w)
  <2>1. worker'[w] = worker[w]
    <3>1. CASE FailUnready(v) \/ Write(v) \/ Raised(v)  BY <1>11, <3>1, EndSteps DEF Ends
    <3>2. CASE ~(FailUnready(v) \/ Write(v) \/ Raised(v))  BY <1>11, <3>2, InnerSteps DEF Work, Trouble, Inner
    <3>. QED  BY <3>1, <3>2
  <2>. QED  BY <1>4, <2>1
<1>12. CASE FailUnready(w) \/ Write(w) \/ Raised(w)
  <2>1. worker'[w].pc \in {"gone", "raised"}  BY <1>12, EndSteps DEF Ends
  <2>. QED  BY <1>5, <2>1 DEF ComesToStep
<1>13. CASE Begin(w) \/ LookEnd(w) \/ MarkStep(w) \/ Finalize(w)
  <2>1. worker'[w].pc \in {"step", "unready", "finalize", "write"}
    <3>1. CASE Begin(w)  BY <1>1, <3>1 DEF Begin, Go, ThreadRows
    <3>2. CASE LookEnd(w)  BY <1>1, <3>2 DEF LookEnd, ThreadRows
    <3>3. CASE MarkStep(w)  BY <1>2, <3>3
    <3>4. CASE Finalize(w)  BY <3>4, FinalizeRows
    <3>. QED  BY <1>13, <3>1, <3>2, <3>3, <3>4
  <2>. QED  BY <1>5, <2>1 DEF ComesToStep
<1>14. CASE Look(w)
  <2>1. UNCHANGED steps  BY <1>14 DEF Look, rows
  <2>2. CASE Missing(w)
    <3>1. worker'[w].pc = "raised"  BY <1>1, <1>14, <2>2 DEF Look, Go, ThreadRows
    <3>. QED  BY <1>5, <3>1 DEF ComesToStep
  <2>3. CASE ~Missing(w) /\ steps[worker[w].build][StepOf(w)].status \in {"completed", "cancelled"}
    <3>1. worker'[w].pc = "step"  BY <1>1, <1>14, <2>3 DEF Look, Onward, ThreadRows
    <3>. QED  BY <1>5, <3>1 DEF ComesToStep
  <2>4. CASE ~Missing(w) /\ steps[worker[w].build][StepOf(w)].status \notin {"completed", "cancelled"}
    <3>1. \/ Mark(w, "cancelled") \/ Mark(w, "blocked")
          \/ Go(w, "check") /\ Unmet(worker[w].build, StepOf(w)) = {}
      BY <1>14, <2>4 DEF Look
    <3>2. /\ worker'[w].at = worker[w].at /\ worker'[w].build = worker[w].build
          /\ \/ worker'[w].pc = "mark" /\ worker'[w].mark \in {"cancelled", "blocked"}
             \/ worker'[w].pc = "check" /\ Unmet(worker[w].build, StepOf(w)) = {}
      BY <1>1, <3>1 DEF Mark, Go, ThreadRows
    <3>. QED  BY <1>14, <2>1, <2>4, <3>2 DEF ComesToStep
  <2>. QED  BY <2>2, <2>3, <2>4
<1>15. CASE \/ Unconfigured(w) \/ Check(w) \/ BeginStep(w) \/ Compute(w) \/ Save(w) \/ StepFails(w) \/ Plan(w) \/ Cancelled(w)
            \/ NextChunk(w) \/ Again(w) \/ Call(w) \/ ChunkScanned(w) \/ ChunkFails(w) \/ ScanEnds(w)
  <2>1. worker[w].pc \in AtItsStep /\ worker'[w].at = worker[w].at /\ worker'[w].build = worker[w].build
    BY <1>15, StayAtStep
  <2>2. worker[w].pc # "mark"  BY <2>1 DEF AtItsStep, Scans
  <2>. QED  BY <1>2, <2>1, <2>2 DEF ComesToStep
<1>. QED
  <2>1. ASSUME NEW v \in Workers, Work(v) \/ Trouble(v)  PROVE ComesToStep(w)
    <3>1. CASE v # w  BY <1>11, <2>1, <3>1
    <3>2. CASE v = w  BY <1>12, <1>13, <1>14, <1>15, <2>1, <3>2 DEF Work, Trouble
    <3>. QED  BY <3>1, <3>2
  <2>. QED  BY <1>6, <1>7, <1>8, <1>9, <1>10, <2>1 DEF Next

(* What a job has completed it keeps, while its steps have one thread.     *)
LEMMA CompletedStays ==
  ASSUME Typed, ThreadInv, StepInv, [Next]_vars, ~TwoThreads
  PROVE  /\ \A b \in DOMAIN builds : \A s \in DOMAIN steps[b] :
              steps[b][s].status = "completed" => steps'[b][s].status = "completed" /\ steps'[b][s].reused = steps[b][s].reused
         /\ \A b \in DOMAIN builds : \A s : Unmet(b, s) = {} => Unmet(b, s)' = {}
<1>1. ASSUME NEW b \in DOMAIN builds, NEW s \in DOMAIN steps[b], steps[b][s].status = "completed"
      PROVE  steps'[b][s].status = "completed" /\ steps'[b][s].reused = steps[b][s].reused
  <2>1. ~Marked(b, s)  BY <1>1 DEF Marked, StepInv, StepIsOpen
  <2>. QED  BY <1>1, <2>1, StepChange DEF StaysOrLeavesOff
<1>2. ASSUME NEW b \in DOMAIN builds, NEW s, Unmet(b, s) = {}  PROVE Unmet(b, s)' = {}
  <2>1. DOMAIN steps'[b] = DOMAIN steps[b]  BY StepChange
  <2>2. \A d \in StepDepends[s] : d \in DOMAIN steps[b] /\ steps[b][d].status = "completed"  BY <1>2 DEF Unmet
  <2>. QED  BY <1>1, <2>1, <2>2 DEF Unmet
<1>. QED  BY <1>1, <1>2

(* Every step keeps the invariant of the steps.                            *)
LEMMA StepsKept ==
  ASSUME Typed, Typed', ThreadInv, ThreadInv', StepInv, [Next]_vars
  PROVE  StepInv'
<1>. SUFFICES ASSUME ~TwoThreads'  PROVE StepInv'
  BY DEF StepInv, StepIsOpen, StepIsMet, ReusedIsDone, DependenciesFirst
<1>1. ~TwoThreads  BY CountsGrow
<1>2. /\ DOMAIN steps = DOMAIN builds /\ DOMAIN steps' = DOMAIN builds'
      /\ \A w \in Workers : worker[w].pc \in AtStep => worker[w].build \in DOMAIN builds /\ StepOf(w) \in DOMAIN steps[worker[w].build]
  <2>1. Len(builds') = Len(steps') /\ builds' \in Seq(BuildRows) /\ steps' \in Seq(StepRows)  BY DEF Typed
  <2>2. DOMAIN builds' = 1..Len(builds') /\ DOMAIN steps' = 1..Len(steps')  BY <2>1, LenProperties
  <2>. QED  BY <2>1, <2>2, TypedFacts, AtStepFacts
(* Only the thread at a step marks it.                                     *)
<1>3. ASSUME NEW w \in Workers, worker[w].pc \in AtStep, worker'[w].pc \in AtStep, ~MarkStep(w),
             steps'[worker[w].build][StepOf(w)].status = "completed"
      PROVE  FALSE
  <2>1. steps[worker[w].build][StepOf(w)].status # "completed"  BY <1>1, <1>3 DEF StepInv, StepIsOpen
  <2>2. Marked(worker[w].build, StepOf(w))  BY <1>2, <1>3, <2>1, StepChange DEF StaysOrLeavesOff
  <2>3. PICK v \in Workers : worker[v].build = worker[w].build /\ worker[v].pc \in AtStep /\ MarkStep(v)
    BY <1>3, <2>2 DEF Marked
  <2>4. worker[v].pc \in Stepping /\ worker[w].pc \in Stepping  BY <1>3, <2>3, LabelFacts
  <2>. QED  BY <1>1, <1>3, <2>3, <2>4 DEF ThreadInv, OneStepper
<1>4. AtItsStep \subseteq AtStep /\ \A w \in Workers : worker[w].pc \in AtItsStep => Doing(w)
  BY DEF AtItsStep, AtStep, Stepping, Scans, Doing
<1>5. StepIsOpen'
  <2>1. ASSUME NEW w \in Workers, worker'[w].pc \in AtStep
        PROVE  steps'[worker'[w].build][StepOf(w)'].status # "completed"
    <3>1. CASE worker'[w] = worker[w] /\ ~MarkStep(w)  BY <1>3, <2>1, <3>1 DEF StepOf
    <3>2. CASE worker[w].pc \in AtItsStep /\ worker'[w].at = worker[w].at /\ worker'[w].build = worker[w].build /\ ~MarkStep(w)
      BY <1>3, <1>4, <2>1, <3>2 DEF StepOf
    <3>3. CASE worker'[w].at = worker[w].at /\ worker'[w].build = worker[w].build /\ UNCHANGED steps
               /\ steps[worker[w].build][StepOf(w)].status # "completed"
      BY <3>3 DEF StepOf
    <3>. QED  BY <2>1, <3>1, <3>2, <3>3, ThreadChange DEF ComesToStep
  <2>. QED  BY <2>1 DEF StepIsOpen, StepOf
<1>6. StepIsMet'
  <2>1. ASSUME NEW w \in Workers, Doing(w)'  PROVE Unmet(worker[w].build, StepOf(w))' = {}
    <3>1. worker'[w].pc \in AtStep  BY <2>1 DEF Doing, AtStep, Stepping
    <3>2. CASE Doing(w) /\ worker'[w].at = worker[w].at /\ worker'[w].build = worker[w].build
      <4>1. PICK b \in DOMAIN builds : b = worker[w].build
        <5>1. worker[w].pc \in AtStep  BY <3>2 DEF Doing, AtStep, Stepping
        <5>. QED  BY <1>2, <5>1
      <4>2. Unmet(b, StepOf(w)) = {}  BY <1>1, <3>2, <4>1 DEF StepInv, StepIsMet
      <4>3. Unmet(b, StepOf(w))' = {}
        <5>1. PICK s : s = StepOf(w)  OBVIOUS
        <5>2. Unmet(b, s)' = {}  BY <1>1, <4>2, <5>1, CompletedStays
        <5>3. StepOf(w)' = s  BY <3>2, <5>1 DEF StepOf
        <5>. QED  BY <5>2, <5>3 DEF Unmet
      <4>. QED  BY <3>2, <4>1, <4>3 DEF Unmet
    <3>3. CASE worker'[w] = worker[w] /\ ~MarkStep(w)  BY <2>1, <3>2, <3>3 DEF Doing
    <3>4. CASE worker[w].pc \in AtItsStep /\ worker'[w].at = worker[w].at /\ worker'[w].build = worker[w].build
      BY <1>4, <3>2, <3>4
    <3>5. CASE /\ worker'[w].at = worker[w].at /\ worker'[w].build = worker[w].build /\ UNCHANGED steps
               /\ \/ worker'[w].pc = "mark" /\ worker'[w].mark \in {"cancelled", "blocked"}
                  \/ worker'[w].pc = "check" /\ Unmet(worker[w].build, StepOf(w)) = {}
      <4>1. Unmet(worker[w].build, StepOf(w)) = {}  BY <2>1, <3>5 DEF Doing
      <4>2. StepOf(w)' = StepOf(w)  BY <3>5 DEF StepOf
      <4>. QED  BY <3>5, <4>1, <4>2 DEF Unmet
    <3>. QED  BY <3>1, <3>3, <3>4, <3>5, ThreadChange DEF ComesToStep
  <2>. QED  BY <2>1 DEF StepIsMet
<1>7. ReusedIsDone'
  <2>1. ASSUME NEW b \in DOMAIN steps', NEW s \in DOMAIN steps'[b], steps'[b][s].reused
        PROVE  steps'[b][s].status = "completed"
    <3>1. b \in DOMAIN builds /\ s \in DOMAIN steps[b]  BY <1>2, <2>1, StepChange
    <3>2. steps[b][s].reused => steps[b][s].status = "completed"  BY <1>1, <1>2, <3>1 DEF StepInv, ReusedIsDone
    <3>3. CASE StaysOrLeavesOff(b, s)  BY <2>1, <3>2, <3>3 DEF StaysOrLeavesOff
    <3>4. CASE Marked(b, s)
      <4>1. PICK w \in Workers :
             /\ worker[w].build = b /\ worker[w].pc \in AtStep /\ StepOf(w) = s
             /\ \/ BeginStep(w) /\ steps'[b][s].status = "running" /\ steps'[b][s].reused = steps[b][s].reused
                \/ /\ MarkStep(w) /\ worker[w].pc = "mark" /\ steps'[b][s].status = StatusOf(worker[w].mark)
                   /\ steps'[b][s].reused = (steps[b][s].reused \/ worker[w].mark = "reused")
        BY <3>4 DEF Marked
      <4>2. steps[b][s].status # "completed"  BY <1>1, <4>1 DEF StepInv, StepIsOpen
      <4>. QED  BY <2>1, <3>2, <4>1, <4>2 DEF StatusOf
    <3>. QED  BY <3>1, <3>3, <3>4, StepChange
  <2>. QED  BY <2>1 DEF ReusedIsDone
<1>8. DependenciesFirst'
  <2>1. ASSUME NEW b \in DOMAIN steps', NEW s \in DOMAIN steps'[b], steps'[b][s].status \in {"running", "completed"}
        PROVE  Unmet(b, s)' = {}
    <3>1. b \in DOMAIN builds /\ s \in DOMAIN steps[b]  BY <1>2, <2>1, StepChange
    <3>2. Unmet(b, s) = {}
      <4>1. CASE StaysOrLeavesOff(b, s)
        <5>1. steps[b][s].status \in {"running", "completed"}  BY <2>1, <4>1 DEF StaysOrLeavesOff
        <5>. QED  BY <1>1, <1>2, <3>1, <5>1 DEF StepInv, DependenciesFirst
      <4>2. CASE Marked(b, s)
        <5>1. PICK w \in Workers :
               /\ worker[w].build = b /\ worker[w].pc \in AtStep /\ StepOf(w) = s
               /\ \/ BeginStep(w) 
                  \/ MarkStep(w) /\ worker[w].pc = "mark" /\ steps'[b][s].status = StatusOf(worker[w].mark)
          BY <4>2 DEF Marked
        <5>2. Doing(w)
          <6>1. CASE BeginStep(w)  BY <5>1, <6>1 DEF BeginStep, Doing, AtStep, Stepping
          <6>2. CASE worker[w].pc = "mark" /\ steps'[b][s].status = StatusOf(worker[w].mark)
            BY <2>1, <5>1, <6>2, AtStepFacts DEF Doing, StatusOf, Marks
          <6>. QED  BY <5>1, <6>1, <6>2
        <5>. QED  BY <1>1, <5>1, <5>2 DEF StepInv, StepIsMet
      <4>. QED  BY <3>1, <4>1, <4>2, StepChange
    <3>. QED  BY <1>1, <3>1, <3>2, CompletedStays
  <2>. QED  BY <2>1 DEF DependenciesFirst
<1>. QED  BY <1>5, <1>6, <1>7, <1>8 DEF StepInv

-----------------------------------------------------------------------------
(* Scans.                                                                  *)

(* Which rows of chunk tasks change, and who changes them.                 *)
ScansChunks(w) == Plan(w) \/ Call(w) \/ ChunkScanned(w) \/ ChunkFails(w)

(* Chunk tasks change by a retry, or by a thread of the build.             *)
LEMMA TaskChange ==
  ASSUME Typed, [Next]_vars, NEW b \in DOMAIN builds
  PROVE  \/ tasks'[b] = tasks[b]
         \/ \E targets : Retry(b, targets)
         \/ \E w \in Workers : worker[w].build = b /\ Alive(w) /\ (ScansChunks(w) \/ Finalize(w))
<1>0. DOMAIN tasks = DOMAIN builds  BY TypedFacts
<1>1. CASE Start \/ StartTorn
  <2>1. PICK names \in SUBSET Steps : Insert(names)  BY <1>1, StartTyped, StartTornTyped
  <2>. QED  BY <2>1, Inserted
<1>2. CASE SnapshotReady \/ Crash \/ UNCHANGED vars  BY <1>2 DEF SnapshotReady, Crash, vars
<1>3. ASSUME NEW c \in DOMAIN builds, RetryAll(c) \/ RetryStep(c)
      PROVE  tasks'[b] = tasks[b] \/ \E targets : Retry(b, targets)
  <2>1. PICK targets : Retry(c, targets)  BY <1>3 DEF RetryAll, RetryStep
  <2>. QED  BY <2>1, RetryTyped
<1>4. ASSUME NEW c \in DOMAIN builds, CancelBuild(c) \/ CancelStep(c) \/ GoSilent(c)
      PROVE  tasks'[b] = tasks[b]
  BY <1>4, CancelBuildTyped, CancelStepTyped, GoSilentTyped
<1>5. ASSUME NEW w \in Workers, Work(w) \/ Trouble(w)
      PROVE  tasks'[b] = tasks[b] \/ (worker[w].build = b /\ Alive(w) /\ (ScansChunks(w) \/ Finalize(w)))
  <2>1. CASE Begin(w) \/ FailUnready(w) \/ LookEnd(w) \/ Look(w) \/ Check(w) \/ BeginStep(w) \/ MarkStep(w) \/ Compute(w) \/ Save(w)
    BY <2>1 DEF Begin, FailUnready, LookEnd, Look, Check, BeginStep, MarkStep, Compute, Save, rows
  <2>2. CASE \/ Cancelled(w) \/ NextChunk(w) \/ Again(w) \/ ScanEnds(w) \/ Write(w) \/ Raised(w) \/ Unconfigured(w) \/ StepFails(w)
    BY <2>2 DEF Cancelled, NextChunk, Again, ScanEnds, Write, Raised, Unconfigured, StepFails, rows
  <2>3. CASE Finalize(w)
    <3>1. Alive(w)  BY <2>3 DEF Finalize, Alive
    <3>. QED  BY <1>0, <2>3, <3>1, FinalizeRows
  <2>4. CASE ScansChunks(w)
    <3>1. Alive(w)  BY <2>4 DEF ScansChunks, Plan, Call, ChunkScanned, ChunkFails, Alive
    <3>2. ASSUME worker[w].build # b  PROVE tasks'[b] = tasks[b]
      <4>1. CASE Plan(w)  BY <1>0, <3>2, <4>1, PlanTasks
      <4>2. CASE SetChunk(w, "running") \/ SetChunk(w, "completed") \/ SetChunk(w, "failed")
        BY <1>0, <3>2, <4>2 DEF SetChunk
      <4>3. CASE UNCHANGED tasks  BY <4>3
      <4>. QED  BY <2>4, <4>1, <4>2, <4>3 DEF ScansChunks, Call, ChunkScanned, ChunkFails
    <3>. QED  BY <2>4, <3>1, <3>2
  <2>. QED  BY <1>5, <2>1, <2>2, <2>3, <2>4 DEF Work, Trouble, ScansChunks
<1>. QED  BY <1>1, <1>2, <1>3, <1>4, <1>5 DEF Next

(* Nothing else changes the chunk tasks of a build that has a thread.      *)
LEMMA OwnTasks ==
  ASSUME Typed, ThreadInv, ThreadInv', [Next]_vars, ~LateSettling', NEW w \in Workers,
         worker[w].pc \in Stepping, worker'[w].pc \in Stepping, worker'[w].build = worker[w].build, ~ScansChunks(w)
  PROVE  tasks'[worker[w].build] = tasks[worker[w].build]
<1>1. ~LateSettling  BY CountsGrow
<1>2. PICK b \in DOMAIN builds : b = worker[w].build
  <2>1. worker[w].pc # "idle"  BY LabelFacts
  <2>. QED  BY <2>1, TypedFacts
<1>3. OfJob(w)  BY StepperFacts DEF ThreadInv, StepperIsOfJob, OfJob
<1>4. ASSUME NEW targets, Retry(b, targets)  PROVE FALSE
  <2>1. PICK v \in Workers : worker[v].pc = "idle" /\ worker'[v].pc = "new" /\ worker'[v].build = b
    BY <1>4, RetryTyped
  <2>2. v # w /\ Alive(v)' /\ Alive(w)' /\ run'[w] # "none"
    <3>1. v # w  BY <2>1, LabelFacts
    <3>2. run'[w] # "none"  BY DEF ThreadInv, StepperIsOfJob
    <3>. QED  BY <2>1, <3>1, <3>2 DEF Alive, Stepping
  <2>. QED  BY <1>2, <2>1, <2>2 DEF ThreadInv, OneOfJob, OfJob
<1>5. ASSUME NEW v \in Workers, worker[v].build = b, Alive(v), ScansChunks(v) \/ Finalize(v)  PROVE FALSE
  <2>1. v # w
    <3>1. ~Finalize(w)  BY DEF Finalize, Stepping
    <3>. QED  BY <1>5, <3>1
  <2>. QED  BY <1>1, <1>2, <1>3, <1>5, <2>1 DEF ThreadInv, OneOfJob
<1>. QED  BY <1>2, <1>4, <1>5, TaskChange

(* How a thread goes on from step to step.                                 *)
Proceeds(w) ==
  \/ worker'[w].pc \notin Stepping
  \/ /\ worker[w].pc = "idle" /\ worker'[w].pc = "new"
     /\ \/ Start /\ worker'[w].build = Len(builds) + 1
        \/ \E b \in DOMAIN builds : worker'[w].build = b /\ \E targets : Retry(b, targets)
  \/ /\ worker[w].pc \in Stepping /\ worker'[w].build = worker[w].build
     /\ \/ worker'[w].at = worker[w].at + 1 /\ worker'[w].pc = "step"
        \/ worker'[w].at = worker[w].at /\ (worker[w].pc \in Scans \cup {"mark"} => worker'[w].pc \in Scans \cup {"mark"})

(* Every step of the system moves a thread so.                             *)
LEMMA ThreadProceeds ==
  ASSUME Typed, [Next]_vars, NEW w \in Workers
  PROVE  Proceeds(w)
<1>1. worker \in [Workers -> ThreadRows] /\ worker[w] \in ThreadRows  BY DEF Typed
<1>2. ASSUME worker'[w] = worker[w]  PROVE Proceeds(w)
  BY <1>2 DEF Proceeds
<1>3. {"finalize", "gone", "write", "raised"} \cap Stepping = {}  BY DEF Stepping
<1>4. CASE Start
  <2>1. worker'[w] = worker[w] \/ (worker[w].pc = "idle" /\ worker'[w].pc = "new" /\ worker'[w].build = Len(builds) + 1)
    BY <1>4, StartTyped
  <2>. QED  BY <1>2, <1>4, <2>1 DEF Proceeds
<1>5. CASE StartTorn \/ Crash
  <2>1. worker'[w] = worker[w] \/ worker'[w].pc = "gone"  BY <1>5, StartTornTyped, CrashTyped, LostRows
  <2>. QED  BY <1>2, <1>3, <2>1 DEF Proceeds
<1>6. CASE SnapshotReady \/ UNCHANGED vars
  <2>1. worker'[w] = worker[w]  BY <1>6 DEF SnapshotReady, vars
  <2>. QED  BY <1>2, <2>1
<1>7. ASSUME NEW b \in DOMAIN builds, RetryAll(b) \/ RetryStep(b)  PROVE Proceeds(w)
  <2>1. PICK targets : Retry(b, targets)  BY <1>7 DEF RetryAll, RetryStep
  <2>2. worker'[w] = worker[w] \/ (worker[w].pc = "idle" /\ worker'[w].pc = "new" /\ worker'[w].build = b)
    BY <2>1, RetryTyped
  <2>. QED  BY <1>2, <2>1, <2>2 DEF Proceeds
<1>8. ASSUME NEW b \in DOMAIN builds, CancelBuild(b) \/ CancelStep(b) \/ GoSilent(b)  PROVE Proceeds(w)
  <2>1. worker'[w] = worker[w] \/ worker'[w].pc = "finalize"
    BY <1>8, CancelBuildTyped, CancelStepTyped, GoSilentTyped
  <2>. QED  BY <1>2, <1>3, <2>1 DEF Proceeds
<1>9. ASSUME NEW v \in Workers, v # w, Work(v) \/ Trouble(v)  PROVE Proceeds(w)
  <2>1. worker'[w] = worker[w]
    <3>1. CASE FailUnready(v) \/ Write(v) \/ Raised(v)  BY <1>9, <3>1, EndSteps DEF Ends
    <3>2. CASE ~(FailUnready(v) \/ Write(v) \/ Raised(v))  BY <1>9, <3>2, InnerSteps DEF Work, Trouble, Inner
    <3>. QED  BY <3>1, <3>2
  <2>. QED  BY <1>2, <2>1
<1>10. CASE FailUnready(w) \/ Write(w) \/ Raised(w)
  <2>1. worker'[w].pc \in {"gone", "raised"}  BY <1>10, EndSteps DEF Ends
  <2>. QED  BY <1>3, <2>1 DEF Proceeds
<1>11. CASE Begin(w)
  <2>1. worker[w].pc = "new" /\ worker'[w].at = worker[w].at /\ worker'[w].build = worker[w].build
    BY <1>1, <1>11 DEF Begin, Go, ThreadRows
  <2>. QED  BY <2>1 DEF Proceeds, Stepping, Scans
<1>12. CASE LookEnd(w) \/ Finalize(w)
  <2>1. worker'[w].pc \in {"finalize", "write"}
    <3>1. CASE LookEnd(w)  BY <1>1, <3>1 DEF LookEnd, ThreadRows
    <3>2. CASE Finalize(w)  BY <3>2, FinalizeRows
    <3>. QED  BY <1>12, <3>1, <3>2
  <2>. QED  BY <1>3, <2>1 DEF Proceeds
<1>13. CASE Look(w)
  <2>1. worker[w].pc = "step" /\ (Go(w, "raised") \/ Onward(w) \/ Mark(w, "cancelled") \/ Mark(w, "blocked") \/ Go(w, "check"))
    BY <1>13 DEF Look
  <2>2. /\ worker'[w].build = worker[w].build
        /\ \/ worker'[w].at = worker[w].at + 1 /\ worker'[w].pc = "step"
           \/ worker'[w].at = worker[w].at
    BY <1>1, <2>1 DEF Go, Onward, Mark, ThreadRows
  <2>. QED  BY <2>1, <2>2 DEF Proceeds, Stepping, Scans
<1>14. CASE MarkStep(w)
  <2>1. worker[w].pc = "mark" /\ (Go(w, "finalize") \/ Onward(w))  BY <1>14 DEF MarkStep
  <2>2. \/ worker'[w].pc = "finalize"
        \/ worker'[w].build = worker[w].build /\ worker'[w].at = worker[w].at + 1 /\ worker'[w].pc = "step"
    BY <1>1, <2>1 DEF Go, Onward, ThreadRows
  <2>. QED  BY <1>3, <2>1, <2>2 DEF Proceeds, Stepping
<1>15. CASE \/ Unconfigured(w) \/ Check(w) \/ BeginStep(w) \/ Compute(w) \/ Save(w) \/ StepFails(w) \/ Plan(w) \/ Cancelled(w)
            \/ NextChunk(w) \/ Again(w) \/ Call(w) \/ ChunkScanned(w) \/ ChunkFails(w) \/ ScanEnds(w)
  <2>1. worker[w].pc \in AtItsStep /\ worker'[w].at = worker[w].at /\ worker'[w].build = worker[w].build
    BY <1>15, StayAtStep
  <2>2. worker[w].pc \in Stepping  BY <2>1 DEF AtItsStep, Stepping, Scans
  <2>3. worker[w].pc \in Scans => worker'[w].pc \in Scans \cup {"mark"}
    <3>1. CASE Unconfigured(w) \/ Check(w) \/ BeginStep(w) \/ Compute(w) \/ Save(w) \/ Plan(w)
      BY <3>1 DEF Unconfigured, Check, BeginStep, Compute, Save, Plan, Scans
    <3>2. CASE StepFails(w) \/ Cancelled(w) \/ ScanEnds(w)
      <4>1. worker'[w].pc = "mark"
        <5>1. CASE StepFails(w)
          <6>1. worker' = [worker EXCEPT ![w].pc = "mark", ![w].mark = "failed",
                              ![w].todo = {}, ![w].chunk = {}, ![w].tries = 0]
            BY <5>1 DEF StepFails
          <6>. QED  BY <1>1, <6>1 DEF ThreadRows
        <5>2. CASE Cancelled(w)
          <6>1. worker' = [worker EXCEPT ![w].pc = "mark", ![w].mark = "cancelled", ![w].stop = builds[worker[w].build].cancel,
                                   ![w].todo = {}, ![w].chunk = {}, ![w].tries = 0]
            BY <5>2 DEF Cancelled
          <6>. QED  BY <1>1, <6>1 DEF ThreadRows
        <5>3. CASE ScanEnds(w)
          <6>1. worker' = [worker EXCEPT ![w].pc = "mark", ![w].mark = ScanResult(worker[w].build),
                              ![w].chunk = {}, ![w].tries = 0]
            BY <5>3 DEF ScanEnds
          <6>. QED  BY <1>1, <6>1 DEF ThreadRows
        <5>. QED  BY <3>2, <5>1, <5>2, <5>3
      <4>. QED  BY <4>1
    <3>3. CASE NextChunk(w)
      <4>1. PICK c \in worker[w].todo : worker' = [worker EXCEPT ![w].pc = "call", ![w].chunk = {c}, ![w].tries = 0,
                                                               ![w].todo = @ \ {c}]
        BY <3>3 DEF NextChunk
      <4>. QED  BY <1>1, <4>1 DEF ThreadRows, Scans
    <3>4. CASE Again(w) \/ ChunkScanned(w) \/ ChunkFails(w)
      BY <1>1, <3>4 DEF Again, ChunkScanned, ChunkFails, Go, ThreadRows, Scans
    <3>5. CASE Call(w)
      <4>1. worker' = [worker EXCEPT ![w].pc = "called", ![w].tries = @ + 1]  BY <3>5 DEF Call
      <4>. QED  BY <1>1, <4>1 DEF ThreadRows, Scans
    <3>. QED  BY <1>15, <3>1, <3>2, <3>3, <3>4, <3>5
  <2>4. worker[w].pc # "mark"  BY <2>1 DEF AtItsStep, Scans
  <2>. QED  BY <2>1, <2>2, <2>3, <2>4 DEF Proceeds
<1>. QED
  <2>1. ASSUME NEW v \in Workers, Work(v) \/ Trouble(v)  PROVE Proceeds(w)
    <3>1. CASE v # w  BY <1>9, <2>1, <3>1
    <3>2. CASE v = w  BY <1>10, <1>11, <1>12, <1>13, <1>14, <1>15, <2>1, <3>2 DEF Work, Trouble
    <3>. QED  BY <3>1, <3>2
  <2>. QED  BY <1>4, <1>5, <1>6, <1>7, <1>8, <2>1 DEF Next

(* Where each step of a thread leaves it.                                  *)
Labelled(w) ==
  /\ Begin(w) => worker'[w].pc \in {"step", "unready"}
  /\ FailUnready(w) \/ Raised(w) => worker'[w].pc = "gone"
  /\ Write(w) => worker'[w].pc \in {"gone", "raised"}
  /\ LookEnd(w) => worker'[w].pc = "finalize"
  /\ Look(w) => worker'[w].pc \in {"raised", "step", "check"} \/ (worker'[w].pc = "mark" /\ worker'[w].mark \in {"cancelled", "blocked"})
  /\ Check(w) => \/ worker'[w].pc = "mark" /\ worker'[w].mark = "reused" /\ Existing(StepOf(w))
                 \/ worker'[w].pc = "begin" /\ ~Existing(StepOf(w))
  /\ BeginStep(w) => worker'[w].pc = "run"
  /\ MarkStep(w) => worker'[w].pc \in {"finalize", "step"}
  /\ Compute(w) => /\ worker'[w].pc = "save"
                   /\ worker'[w].mark = IF StepOf(w) = "understanding_graph" /\ ~Scanned(worker[w].build) THEN "part" ELSE "whole"
  /\ Save(w) => worker'[w].pc = "mark" /\ worker'[w].mark = "completed"
  /\ Finalize(w) => worker'[w].pc = "write"
  /\ Unconfigured(w) => worker'[w].pc = "mark" /\ worker'[w].mark = "blocked"
  /\ StepFails(w) => worker'[w].pc = "mark" /\ worker'[w].mark = "failed"
  /\ Cancelled(w) => worker'[w].pc = "mark" /\ worker'[w].mark = "cancelled"
  /\ ScanEnds(w) => worker'[w].pc = "mark" /\ worker'[w].mark = ScanResult(worker[w].build)
  /\ Plan(w) => worker[w].pc = "run" /\ worker'[w].pc = "scan"
  /\ NextChunk(w) => worker[w].pc = "scan" /\ worker'[w].pc = "call"
  /\ Again(w) => worker[w].pc = "backoff" /\ worker'[w].pc = "call"
  /\ Call(w) => worker[w].pc = "call" /\ worker'[w].pc = "called"
  /\ ChunkScanned(w) => worker[w].pc = "called" /\ worker'[w].pc = "scan"
  /\ ChunkFails(w) => worker[w].pc = "called" /\ worker'[w].pc \in {"scan", "backoff"}

(* The labels are those the steps set.                                     *)
LEMMA LabelsOf ==
  ASSUME Typed, NEW w \in Workers
  PROVE  Labelled(w)
<1>1. worker \in [Workers -> ThreadRows] /\ worker[w] \in ThreadRows  BY DEF Typed
<1>2. Begin(w) => worker'[w].pc \in {"step", "unready"}  BY <1>1 DEF Begin, Go, ThreadRows
<1>3. FailUnready(w) \/ Raised(w) => worker'[w].pc = "gone"  BY <1>1 DEF FailUnready, Raised, Go, ThreadRows
<1>4. Write(w) => worker'[w].pc \in {"gone", "raised"}  BY <1>1 DEF Write, Go, ThreadRows
<1>5. LookEnd(w) => worker'[w].pc = "finalize"  BY <1>1 DEF LookEnd, ThreadRows
<1>6. Look(w) => worker'[w].pc \in {"raised", "step", "check"} \/ (worker'[w].pc = "mark" /\ worker'[w].mark \in {"cancelled", "blocked"})
  <2>1. Look(w) => Go(w, "raised") \/ Onward(w) \/ Mark(w, "cancelled") \/ Mark(w, "blocked") \/ Go(w, "check")
    BY DEF Look
  <2>. QED  BY <1>1, <2>1 DEF Go, Onward, Mark, ThreadRows
<1>7. Check(w) => \/ worker'[w].pc = "mark" /\ worker'[w].mark = "reused" /\ Existing(StepOf(w))
                  \/ worker'[w].pc = "begin" /\ ~Existing(StepOf(w))
  <2>1. Check(w) => (Mark(w, "reused") /\ Existing(StepOf(w))) \/ (Go(w, "begin") /\ ~Existing(StepOf(w)))
    BY DEF Check
  <2>. QED  BY <1>1, <2>1 DEF Go, Mark, ThreadRows
<1>8. BeginStep(w) => worker'[w].pc = "run"  BY <1>1 DEF BeginStep, Go, ThreadRows
<1>9. MarkStep(w) => worker'[w].pc \in {"finalize", "step"}
  <2>1. MarkStep(w) => Go(w, "finalize") \/ Onward(w)  BY DEF MarkStep
  <2>. QED  BY <1>1, <2>1 DEF Go, Onward, ThreadRows
<1>10. Compute(w) => /\ worker'[w].pc = "save"
                     /\ worker'[w].mark = IF StepOf(w) = "understanding_graph" /\ ~Scanned(worker[w].build) THEN "part" ELSE "whole"
  BY <1>1 DEF Compute, ThreadRows
<1>11. Save(w) => worker'[w].pc = "mark" /\ worker'[w].mark = "completed"  BY <1>1 DEF Save, Mark, ThreadRows
<1>12. Finalize(w) => worker'[w].pc = "write"  BY FinalizeRows
<1>13. Unconfigured(w) => worker'[w].pc = "mark" /\ worker'[w].mark = "blocked"
  BY <1>1 DEF Unconfigured, Mark, ThreadRows
<1>14. StepFails(w) => worker'[w].pc = "mark" /\ worker'[w].mark = "failed"
  <2>1. StepFails(w) => worker' = [worker EXCEPT ![w].pc = "mark", ![w].mark = "failed",
                              ![w].todo = {}, ![w].chunk = {}, ![w].tries = 0]  BY DEF StepFails
  <2>. QED  BY <1>1, <2>1 DEF ThreadRows
<1>15. Cancelled(w) => worker'[w].pc = "mark" /\ worker'[w].mark = "cancelled"
  <2>1. Cancelled(w) => worker' = [worker EXCEPT ![w].pc = "mark", ![w].mark = "cancelled", ![w].stop = builds[worker[w].build].cancel,
                              ![w].todo = {}, ![w].chunk = {}, ![w].tries = 0]  BY DEF Cancelled
  <2>. QED  BY <1>1, <2>1 DEF ThreadRows
<1>16. ScanEnds(w) => worker'[w].pc = "mark" /\ worker'[w].mark = ScanResult(worker[w].build)
  <2>1. ScanEnds(w) => worker' = [worker EXCEPT ![w].pc = "mark", ![w].mark = ScanResult(worker[w].build),
                              ![w].chunk = {}, ![w].tries = 0]  BY DEF ScanEnds
  <2>. QED  BY <1>1, <2>1 DEF ThreadRows
<1>17. Plan(w) => worker[w].pc = "run" /\ worker'[w].pc = "scan"  BY PlanTasks
<1>18. NextChunk(w) => worker[w].pc = "scan" /\ worker'[w].pc = "call"
  <2>. SUFFICES ASSUME NextChunk(w)  PROVE worker[w].pc = "scan" /\ worker'[w].pc = "call"
    OBVIOUS
  <2>1. worker[w].pc = "scan"  BY DEF NextChunk
  <2>2. PICK c \in worker[w].todo : worker' = [worker EXCEPT ![w].pc = "call", ![w].chunk = {c}, ![w].tries = 0,
                                                           ![w].todo = @ \ {c}]
    BY DEF NextChunk
  <2>. QED  BY <1>1, <2>1, <2>2 DEF ThreadRows
<1>19. Again(w) => worker[w].pc = "backoff" /\ worker'[w].pc = "call"  BY <1>1 DEF Again, Go, ThreadRows
<1>20. Call(w) => worker[w].pc = "call" /\ worker'[w].pc = "called"
  <2>1. Call(w) => worker[w].pc = "call" /\ worker' = [worker EXCEPT ![w].pc = "called", ![w].tries = @ + 1]
    BY DEF Call
  <2>. QED  BY <1>1, <2>1 DEF ThreadRows
<1>21. ChunkScanned(w) => worker[w].pc = "called" /\ worker'[w].pc = "scan"  BY <1>1 DEF ChunkScanned, Go, ThreadRows
<1>22. ChunkFails(w) => worker[w].pc = "called" /\ worker'[w].pc \in {"scan", "backoff"}
  <2>1. ChunkFails(w) => worker[w].pc = "called" /\ (Go(w, "scan") \/ Go(w, "backoff"))  BY DEF ChunkFails
  <2>. QED  BY <1>1, <2>1 DEF Go, ThreadRows
<1>. QED  BY <1>2, <1>3, <1>4, <1>5, <1>6, <1>7, <1>8, <1>9, <1>10, <1>11, <1>12, <1>13, <1>14, <1>15, <1>16,
             <1>17, <1>18, <1>19, <1>20, <1>21, <1>22 DEF Labelled

(* A thread is moved by itself, by its start, or by the end of its process. *)
LEMMA WhoMoves ==
  ASSUME Typed, [Next]_vars, NEW w \in Workers
  PROVE  \/ worker'[w] = worker[w] \/ worker'[w].pc \in {"new", "gone", "finalize"}
         \/ Work(w) \/ Trouble(w)
<1>1. CASE Start  BY <1>1, StartTyped
<1>2. CASE StartTorn \/ Crash  BY <1>2, StartTornTyped, CrashTyped, LostRows
<1>3. CASE SnapshotReady \/ UNCHANGED vars  BY <1>3 DEF SnapshotReady, vars
<1>4. ASSUME NEW b \in DOMAIN builds, RetryAll(b) \/ RetryStep(b)
      PROVE  worker'[w] = worker[w] \/ worker'[w].pc = "new"
  <2>1. PICK targets : Retry(b, targets)  BY <1>4 DEF RetryAll, RetryStep
  <2>. QED  BY <2>1, RetryTyped
<1>5. ASSUME NEW b \in DOMAIN builds, CancelBuild(b) \/ CancelStep(b) \/ GoSilent(b)
      PROVE  worker'[w] = worker[w] \/ worker'[w].pc = "finalize"
  BY <1>5, CancelBuildTyped, CancelStepTyped, GoSilentTyped
<1>6. ASSUME NEW v \in Workers, v # w, Work(v) \/ Trouble(v)  PROVE worker'[w] = worker[w]
  <2>1. CASE FailUnready(v) \/ Write(v) \/ Raised(v)  BY <1>6, <2>1, EndSteps DEF Ends
  <2>2. CASE ~(FailUnready(v) \/ Write(v) \/ Raised(v))  BY <1>6, <2>2, InnerSteps DEF Work, Trouble, Inner
  <2>. QED  BY <2>1, <2>2
<1>. QED  BY <1>1, <1>2, <1>3, <1>4, <1>5, <1>6 DEF Next

(* How a thread comes to be scanning, and to mark a step.                  *)
LEMMA ComesToScan ==
  ASSUME Typed, [Next]_vars, NEW w \in Workers, worker'[w].pc \in Scans
  PROVE  \/ worker'[w] = worker[w] /\ ~ScansChunks(w)
         \/ Plan(w) \/ NextChunk(w) \/ Again(w) \/ Call(w) \/ ChunkScanned(w) \/ ChunkFails(w)
<1>1. worker'[w].pc \notin {"new", "gone", "finalize", "step", "unready", "raised", "check", "mark", "begin", "run", "save", "write"}
  BY DEF Scans
<1>2. CASE worker'[w] = worker[w]
  <2>1. ~ScansChunks(w)  BY <1>2, LabelsOf DEF Labelled, ScansChunks
  <2>. QED  BY <1>2, <2>1
<1>3. CASE Work(w) \/ Trouble(w)
  BY <1>1, <1>3, LabelsOf DEF Labelled, Work, Trouble
<1>. QED  BY <1>1, <1>2, <1>3, WhoMoves

(* How a thread comes to mark a step as it does.                           *)
LEMMA ComesToMark ==
  ASSUME Typed, [Next]_vars, NEW w \in Workers, worker'[w].pc = "mark"
  PROVE  \/ worker'[w] = worker[w] /\ ~ScansChunks(w)
         \/ worker'[w].mark \in {"cancelled", "blocked", "failed"} /\ (Look(w) \/ Unconfigured(w) \/ StepFails(w) \/ Cancelled(w))
         \/ worker'[w].mark = "reused" /\ Check(w) /\ Existing(StepOf(w))
         \/ worker'[w].mark = "completed" /\ Save(w)
         \/ worker'[w].mark = ScanResult(worker[w].build) /\ ScanEnds(w)
<1>1. CASE worker'[w] = worker[w]
  <2>1. ~ScansChunks(w)  BY <1>1, LabelsOf DEF Labelled, ScansChunks
  <2>. QED  BY <1>1, <2>1
<1>2. CASE Work(w) \/ Trouble(w)
  BY <1>2, LabelsOf DEF Labelled, Work, Trouble
<1>. QED  BY <1>1, <1>2, WhoMoves

(* What a call and its result write, and what they leave alone.            *)
LEMMA ScanRows ==
  ASSUME Typed, NEW w \in Workers, Call(w) \/ ChunkScanned(w) \/ ChunkFails(w)
  PROVE  LET b == worker[w].build IN
         /\ worker[w].pc \in Scans /\ b \in DOMAIN builds
         /\ worker'[w].build = b /\ worker'[w].todo = worker[w].todo /\ worker'[w].chunk = worker[w].chunk
         /\ \A c \in Chunks : c \notin worker[w].chunk => tasks'[b][c] = tasks[b][c]
         /\ ChunkScanned(w) => \A c \in worker[w].chunk : tasks'[b][c] = "completed"
         /\ ChunkFails(w) /\ worker'[w].pc = "scan" => \A c \in worker[w].chunk : tasks'[b][c] = "failed"
<1>1. worker \in [Workers -> ThreadRows] /\ worker[w] \in ThreadRows  BY DEF Typed
<1>2. worker[w].pc \in Scans /\ worker[w].pc \in AtStep
  BY DEF Call, ChunkScanned, ChunkFails, Scans, AtStep, Stepping
<1>3. PICK b \in DOMAIN builds : b = worker[w].build  BY <1>2, AtStepFacts
<1>4. worker[w].chunk \subseteq Chunks  BY <1>1 DEF ThreadRows
<1>5. {"running", "completed", "failed"} \subseteq TaskStates  BY DEF TaskStates
<1>6. CASE Call(w)
  <2>1. worker' = [worker EXCEPT ![w].pc = "called", ![w].tries = @ + 1] /\ SetChunk(w, "running")  BY <1>6 DEF Call
  <2>2. /\ worker'[w].build = worker[w].build /\ worker'[w].todo = worker[w].todo /\ worker'[w].chunk = worker[w].chunk
        /\ worker'[w].pc = "called"
    BY <1>1, <2>1 DEF ThreadRows
  <2>3. \A c \in Chunks : tasks'[b][c] = IF c \in worker[w].chunk THEN "running" ELSE tasks[b][c]
    BY <1>3, <1>5, <2>1, ChunksSet
  <2>4. ~ChunkScanned(w) /\ ~ChunkFails(w)  BY <1>6 DEF Call, ChunkScanned, ChunkFails
  <2>. QED  BY <1>2, <1>3, <2>2, <2>3, <2>4
<1>7. CASE ChunkScanned(w)
  <2>1. Go(w, "scan") /\ SetChunk(w, "completed")  BY <1>7 DEF ChunkScanned
  <2>2. /\ worker'[w].build = worker[w].build /\ worker'[w].todo = worker[w].todo /\ worker'[w].chunk = worker[w].chunk
    BY <1>1, <2>1 DEF Go, ThreadRows
  <2>3. \A c \in Chunks : tasks'[b][c] = IF c \in worker[w].chunk THEN "completed" ELSE tasks[b][c]
    BY <1>3, <1>5, <2>1, ChunksSet
  <2>4. ChunkFails(w) /\ worker'[w].pc = "scan" => \A c \in worker[w].chunk : tasks'[b][c] = "failed"
    <3>1. ASSUME ChunkFails(w), worker'[w].pc = "scan"  PROVE SetChunk(w, "failed")
      BY <1>1, <3>1 DEF ChunkFails, Go, ThreadRows
    <3>2. ASSUME SetChunk(w, "failed")  PROVE \A c \in Chunks : tasks'[b][c] = IF c \in worker[w].chunk THEN "failed" ELSE tasks[b][c]
      BY <1>3, <1>5, <3>2, ChunksSet
    <3>. QED  BY <1>4, <3>1, <3>2
  <2>. QED  BY <1>2, <1>3, <1>4, <2>2, <2>3, <2>4
<1>8. CASE ChunkFails(w) /\ ~ChunkScanned(w)
  <2>1. \/ Go(w, "backoff") /\ UNCHANGED tasks
        \/ Go(w, "scan") /\ SetChunk(w, "failed")
    BY <1>8 DEF ChunkFails
  <2>2. /\ worker'[w].build = worker[w].build /\ worker'[w].todo = worker[w].todo /\ worker'[w].chunk = worker[w].chunk
    BY <1>1, <2>1 DEF Go, ThreadRows
  <2>3. CASE Go(w, "backoff") /\ UNCHANGED tasks
    <3>1. worker'[w].pc = "backoff"  BY <1>1, <2>3 DEF Go, ThreadRows
    <3>. QED  BY <1>2, <1>3, <1>8, <2>2, <2>3, <3>1
  <2>4. CASE SetChunk(w, "failed")
    <3>1. \A c \in Chunks : tasks'[b][c] = IF c \in worker[w].chunk THEN "failed" ELSE tasks[b][c]
      BY <1>3, <1>5, <2>4, ChunksSet
    <3>. QED  BY <1>2, <1>3, <1>4, <1>8, <2>2, <3>1
  <2>. QED  BY <2>1, <2>3, <2>4
<1>. QED  BY <1>6, <1>7, <1>8

(* There are no steps at the beginning.                                    *)
LEMMA InitSteps == Init => StepInv /\ ScanInv
<1>. SUFFICES ASSUME Init  PROVE StepInv /\ ScanInv
  OBVIOUS
<1>1. DOMAIN steps = {}  BY DEF Init
<1>2. \A w \in Workers : worker[w].pc = "idle"  BY IdleThread DEF Init
<1>3. \A w \in Workers : worker[w].pc \notin AtStep /\ worker[w].pc \notin Stepping /\ worker[w].pc \notin Scans /\ worker[w].pc # "mark" /\ ~Doing(w)
  BY <1>2 DEF AtStep, Stepping, Scans, Doing
<1>4. StepInv  BY <1>1, <1>3 DEF StepInv, StepIsOpen, StepIsMet, ReusedIsDone, DependenciesFirst
<1>5. ScanInv  BY <1>1, <1>3 DEF ScanInv, NothingLeft, EveryChunk, MarkScanned, ScanIsComplete
<1>. QED  BY <1>4, <1>5

(* Every step keeps the invariant of the scan.                             *)
LEMMA ScansKept ==
  ASSUME Typed, Typed', ThreadInv, ThreadInv', StepInv, ScanInv, [Next]_vars
  PROVE  ScanInv'
<1>. SUFFICES ASSUME ~LateSettling'  PROVE ScanInv'
  BY DEF ScanInv, NothingLeft, EveryChunk, MarkScanned, ScanIsComplete
<1>1. ~LateSettling /\ ~TwoThreads  BY CountsGrow DEF TwoThreads
<1>2. /\ DOMAIN tasks = DOMAIN builds /\ DOMAIN steps = DOMAIN builds /\ DOMAIN steps' = DOMAIN builds'
  <2>1. Len(builds') = Len(steps') /\ builds' \in Seq(BuildRows) /\ steps' \in Seq(StepRows)  BY DEF Typed
  <2>2. DOMAIN builds' = 1..Len(builds') /\ DOMAIN steps' = 1..Len(steps')  BY <2>1, LenProperties
  <2>. QED  BY <2>1, <2>2, TypedFacts
<1>3. Scans \subseteq Stepping /\ Scans \subseteq AtStep /\ "mark" \in AtStep /\ "mark" \in Stepping
  BY DEF Scans, Stepping, AtStep
<1>4. ASSUME NEW w \in Workers, worker[w].pc \in AtStep, StepOf(w) = "claim_scan"
      PROVE  \A i \in 1..worker[w].at - 1 : StepOrder[i] # "claim_scan"
  <2>1. worker[w].at \in DOMAIN StepOrder /\ StepOrder[worker[w].at] = "claim_scan"  BY <1>4, AtStepFacts
  <2>2. DOMAIN StepOrder = 1..Len(StepOrder) /\ Len(StepOrder) \in Nat
        /\ \A i, j \in DOMAIN StepOrder : StepOrder[i] = StepOrder[j] => i = j
    BY StepsFacts
  <2>3. ASSUME NEW i \in 1..worker[w].at - 1  PROVE i \in DOMAIN StepOrder /\ i # worker[w].at
    BY <2>1, <2>2, <2>3
  <2>. QED  BY <2>1, <2>2, <2>3
<1>5. NothingLeft'
  <2>1. ASSUME NEW w \in Workers, worker'[w].pc \in Stepping, Before(w)'
        PROVE  \A c \in Chunks : tasks'[worker'[w].build][c] \in {"none", "pending", "completed"}
    <3>1. CASE Start /\ worker'[w].build = Len(builds) + 1
      <4>1. Insert(Steps)  BY <3>1, StartTyped
      <4>2. tasks'[Len(builds) + 1] = [c \in Chunks |-> "none"]  BY <4>1, Inserted
      <4>. QED  BY <3>1, <4>2
    <3>2. ASSUME NEW b \in DOMAIN builds, worker'[w].build = b, NEW targets, Retry(b, targets)
          PROVE  \A c \in Chunks : tasks'[worker'[w].build][c] \in {"none", "pending", "completed"}
      <4>1. \A c \in Chunks : tasks'[b][c] = ResetTask(tasks[b][c])  BY <3>2, RetryTyped
      <4>2. \A c \in Chunks : tasks[b][c] \in TaskStates  BY TypedFacts
      <4>. QED  BY <3>2, <4>1, <4>2 DEF ResetTask, TaskStates
    <3>3. CASE /\ worker[w].pc \in Stepping /\ worker'[w].build = worker[w].build
               /\ \/ worker'[w].at = worker[w].at + 1 /\ worker'[w].pc = "step"
                  \/ worker'[w].at = worker[w].at /\ (worker[w].pc \in Scans \cup {"mark"} => worker'[w].pc \in Scans \cup {"mark"})
      <4>1. worker[w].at \in Nat /\ worker[w].at # 0 /\ ThreadTyped(w)
        BY <3>3, TypedFacts DEF ThreadRows, ThreadTyped
      <4>2. /\ \A i \in 1..worker'[w].at - 1 : StepOrder[i] # "claim_scan"
            /\ worker'[w].at \in DOMAIN StepOrder /\ StepOrder[worker'[w].at] = "claim_scan" =>
                 worker'[w].pc \in {"new", "unready", "step", "check", "begin", "run"}
        BY <2>1 DEF Before, StepOf
      <4>3. Before(w)
        <5>1. CASE worker'[w].at = worker[w].at + 1
          BY <4>1, <4>2, <5>1 DEF Before, StepOf
        <5>2. CASE worker'[w].at = worker[w].at /\ (worker[w].pc \in Scans \cup {"mark"} => worker'[w].pc \in Scans \cup {"mark"})
          <6>1. worker[w].pc = "save" => StepOf(w) # "claim_scan"  BY <4>1 DEF ThreadTyped
          <6>. QED  BY <3>3, <4>2, <5>2, <6>1 DEF Before, StepOf, Scans, Stepping
        <5>. QED  BY <3>3, <5>1, <5>2
      <4>4. ~ScansChunks(w)
        <5>1. CASE Plan(w)
          <6>1. worker'[w].pc = "scan" /\ worker'[w].at = worker[w].at /\ StepOf(w) = "claim_scan" /\ worker[w].pc \in AtStep
            BY <5>1, PlanTasks
          <6>. QED  BY <4>2, <6>1, AtStepFacts DEF StepOf
        <5>2. CASE Call(w) \/ ChunkScanned(w) \/ ChunkFails(w)
          <6>1. worker[w].pc \in {"call", "called"}  BY <5>2 DEF Call, ChunkScanned, ChunkFails
          <6>2. worker[w].pc \in AtStep /\ worker[w].pc \in Scans  BY <6>1 DEF AtStep, Stepping, Scans
          <6>. QED  BY <4>3, <6>1, <6>2, AtStepFacts DEF Before
        <5>. QED  BY <5>1, <5>2 DEF ScansChunks
      <4>5. tasks'[worker[w].build] = tasks[worker[w].build]  BY <2>1, <3>3, <4>4, OwnTasks
      <4>6. \A c \in Chunks : tasks[worker[w].build][c] \in {"none", "pending", "completed"}
        BY <1>1, <3>3, <4>3 DEF ScanInv, NothingLeft
      <4>. QED  BY <3>3, <4>5, <4>6
    <3>. QED  BY <2>1, <3>1, <3>2, <3>3, ThreadProceeds DEF Proceeds
  <2>. QED  BY <2>1 DEF NothingLeft
<1>6. EveryChunk'
  <2>1. ASSUME NEW w \in Workers, worker'[w].pc \in Scans, NEW c \in Chunks
        PROVE  \/ tasks'[worker'[w].build][c] \in {"completed", "failed"} \/ c \in worker'[w].todo
               \/ worker'[w].pc # "scan" /\ c \in worker'[w].chunk
    <3>1. worker[w].pc \in Scans =>
             \/ tasks[worker[w].build][c] \in {"completed", "failed"} \/ c \in worker[w].todo
             \/ worker[w].pc # "scan" /\ c \in worker[w].chunk
      BY <1>1 DEF ScanInv, EveryChunk
    <3>2. CASE worker'[w] = worker[w] /\ ~ScansChunks(w)
      <4>1. tasks'[worker[w].build] = tasks[worker[w].build]  BY <1>3, <2>1, <3>2, OwnTasks
      <4>. QED  BY <2>1, <3>1, <3>2, <4>1
    <3>3. CASE Plan(w)
      <4>1. PICK b \in DOMAIN builds : b = worker[w].build  BY <3>3, PlanTasks
      <4>2. worker[w].pc = "run" /\ worker[w].pc \in AtStep /\ StepOf(w) = "claim_scan"  BY <3>3, PlanTasks
      <4>3. Before(w) /\ worker[w].pc \in Stepping  BY <1>4, <4>2, LabelFacts DEF Before
      <4>4. tasks[b][c] \in {"none", "pending", "completed"}  BY <1>1, <4>1, <4>3 DEF ScanInv, NothingLeft
      <4>. DEFINE pending == {k \in Chunks : tasks[b][k] \in {"none", "pending"}}
      <4>5. /\ tasks'[b][c] = IF c \in pending \cap Elsewhere(b) THEN "completed" ELSE IF c \in pending THEN "pending" ELSE tasks[b][c]
            /\ worker'[w].build = b /\ worker'[w].todo = pending \ (pending \cap Elsewhere(b))
        BY <3>3, <4>1, PlanTasks
      <4>6. c \notin pending => tasks[b][c] = "completed"  BY <4>4
      <4>. HIDE DEF pending
      <4>. QED  BY <4>5, <4>6
    <3>4. CASE NextChunk(w)
      <4>1. PICK k \in worker[w].todo : worker' = [worker EXCEPT ![w].pc = "call", ![w].chunk = {k}, ![w].tries = 0,
                                                               ![w].todo = @ \ {k}]
        BY <3>4 DEF NextChunk
      <4>2. worker \in [Workers -> ThreadRows] /\ worker[w] \in ThreadRows  BY DEF Typed
      <4>3. /\ worker'[w].build = worker[w].build /\ worker'[w].todo = worker[w].todo \ {k} /\ worker'[w].chunk = {k}
            /\ worker'[w].pc = "call"
        BY <4>1, <4>2 DEF ThreadRows
      <4>4. worker[w].pc = "scan" /\ tasks' = tasks  BY <3>4 DEF NextChunk, rows
      <4>. QED  BY <3>1, <4>3, <4>4 DEF Scans
    <3>5. CASE Again(w)
      <4>1. worker \in [Workers -> ThreadRows] /\ worker[w] \in ThreadRows  BY DEF Typed
      <4>2. /\ worker'[w].build = worker[w].build /\ worker'[w].todo = worker[w].todo /\ worker'[w].chunk = worker[w].chunk
            /\ worker'[w].pc = "call" /\ worker[w].pc = "backoff" /\ tasks' = tasks
        BY <3>5, <4>1 DEF Again, Go, ThreadRows, rows
      <4>. QED  BY <3>1, <4>2 DEF Scans
    <3>6. CASE Call(w)
      <4>1. worker'[w].pc = "called"  BY <3>6, LabelsOf DEF Labelled
      <4>. QED  BY <3>1, <3>6, <4>1, ScanRows
    <3>7. CASE ChunkScanned(w)  BY <3>1, <3>7, ScanRows
    <3>8. CASE ChunkFails(w)
      <4>1. worker'[w].pc \in {"scan", "backoff"}  BY <3>8, LabelsOf DEF Labelled
      <4>. QED  BY <3>1, <3>8, <4>1, ScanRows
    <3>. QED  BY <2>1, <3>2, <3>3, <3>4, <3>5, <3>6, <3>7, <3>8, ComesToScan
  <2>. QED  BY <2>1 DEF EveryChunk
<1>7. MarkScanned'
  <2>1. ASSUME NEW w \in Workers, worker'[w].pc = "mark", StepOf(w)' = "claim_scan", worker'[w].mark = "completed"
        PROVE  Scanned(worker[w].build)'
    <3>1. CASE worker'[w] = worker[w] /\ ~ScansChunks(w)
      <4>1. tasks'[worker[w].build] = tasks[worker[w].build]  BY <1>3, <2>1, <3>1, OwnTasks
      <4>2. worker[w].pc = "mark" /\ StepOf(w) = "claim_scan" /\ worker[w].mark = "completed"
        BY <2>1, <3>1 DEF StepOf
      <4>3. Scanned(worker[w].build)  BY <1>1, <4>2 DEF ScanInv, MarkScanned
      <4>. QED  BY <3>1, <4>1, <4>3 DEF Scanned
    <3>2. CASE Save(w)
      <4>1. worker[w].pc = "save" /\ worker[w].pc \in AtStep  BY <3>2 DEF Save, AtStep, Stepping
      <4>2. StepOf(w) # "claim_scan"  BY <4>1, AtStepFacts
      <4>3. worker'[w].at = worker[w].at  BY <3>2, StayAtStep
      <4>. QED  BY <2>1, <4>2, <4>3 DEF StepOf
    <3>3. CASE worker'[w].mark = ScanResult(worker[w].build) /\ ScanEnds(w)
      <4>1. worker[w].pc = "scan" /\ worker[w].todo = {} /\ tasks' = tasks  BY <3>3 DEF ScanEnds, rows
      <4>2. worker'[w].build = worker[w].build  BY <3>3, StayAtStep
      <4>3. \A c \in Chunks : tasks[worker[w].build][c] # "failed"  BY <2>1, <3>3 DEF ScanResult
      <4>4. \A c \in Chunks : tasks[worker[w].build][c] \in {"completed", "failed"}
        BY <1>1, <4>1 DEF ScanInv, EveryChunk, Scans
      <4>. QED  BY <4>1, <4>2, <4>3, <4>4 DEF Scanned
    <3>. QED  BY <2>1, <3>1, <3>2, <3>3, ComesToMark
  <2>. QED  BY <2>1 DEF MarkScanned, Scanned
<1>8. ScanIsComplete'
  <2>1. ASSUME NEW b \in DOMAIN steps', "claim_scan" \in DOMAIN steps'[b], steps'[b]["claim_scan"].status = "completed",
               ~steps'[b]["claim_scan"].reused
        PROVE  \A c \in Chunks : tasks'[b][c] = "completed"
    <3>1. b \in DOMAIN builds /\ "claim_scan" \in DOMAIN steps[b]  BY <1>2, <2>1, StepChange
    <3>2. CASE StaysOrLeavesOff(b, "claim_scan")
      <4>1. steps[b]["claim_scan"].status = "completed" /\ ~steps[b]["claim_scan"].reused
        BY <2>1, <3>2 DEF StaysOrLeavesOff
      <4>2. Scanned(b)  BY <1>1, <1>2, <3>1, <4>1 DEF ScanInv, ScanIsComplete
      <4>3. CASE tasks'[b] = tasks[b]  BY <4>2, <4>3 DEF Scanned
      <4>4. ASSUME NEW targets, Retry(b, targets)  PROVE \A c \in Chunks : tasks'[b][c] = "completed"
        BY <3>1, <4>2, <4>4, RetryTyped DEF Scanned, ResetTask
      <4>5. ASSUME NEW v \in Workers, worker[v].build = b, ScansChunks(v)
            PROVE  \A c \in Chunks : tasks'[b][c] = "completed"
        <5>1. CASE Plan(v)
          <6>1. \A c \in Chunks : tasks[b][c] = "completed"  BY <4>2 DEF Scanned
          <6>2. \A c \in Chunks : c \notin {k \in Chunks : tasks[b][k] \in {"none", "pending"}}  BY <6>1
          <6>. QED  BY <4>5, <5>1, <6>1, <6>2, PlanTasks
        <5>2. CASE Call(v) \/ ChunkScanned(v) \/ ChunkFails(v)
          <6>1. worker[v].pc \in {"call", "called"}  BY <5>2 DEF Call, ChunkScanned, ChunkFails
          <6>2. worker[v].pc \in AtStep /\ worker[v].pc \in Scans  BY <6>1 DEF AtStep, Stepping, Scans
          <6>3. StepOf(v) = "claim_scan"  BY <6>2, AtStepFacts
          <6>. QED  BY <1>1, <4>1, <4>5, <6>2, <6>3 DEF StepInv, StepIsOpen
        <5>. QED  BY <4>5, <5>1, <5>2 DEF ScansChunks
      <4>6. ASSUME NEW v \in Workers, worker[v].build = b, Finalize(v)
            PROVE  \A c \in Chunks : tasks'[b][c] = "completed"
        <5>1. \A c \in Chunks : tasks'[b][c] = tasks[b][c] \/ tasks[b][c] \in Left  BY <4>6, FinalizeRows
        <5>. QED  BY <4>2, <5>1 DEF Scanned, Left
      <4>. QED  BY <3>1, <4>3, <4>4, <4>5, <4>6, TaskChange
    <3>3. CASE Marked(b, "claim_scan")
      <4>1. PICK w \in Workers :
               /\ worker[w].build = b /\ worker[w].pc \in AtStep /\ StepOf(w) = "claim_scan"
               /\ MarkStep(w) /\ worker[w].pc = "mark" /\ steps'[b]["claim_scan"].status = StatusOf(worker[w].mark)
               /\ steps'[b]["claim_scan"].reused = (steps[b]["claim_scan"].reused \/ worker[w].mark = "reused")
        BY <2>1, <3>3 DEF Marked
      <4>2. worker[w].mark = "completed"  BY <2>1, <4>1 DEF StatusOf
      <4>3. Scanned(b)  BY <1>1, <4>1, <4>2 DEF ScanInv, MarkScanned
      <4>4. tasks' = tasks  BY <4>1 DEF MarkStep
      <4>. QED  BY <4>3, <4>4 DEF Scanned
    <3>. QED  BY <3>1, <3>2, <3>3, StepChange
  <2>. QED  BY <2>1 DEF ScanIsComplete, Scanned
<1>. QED  BY <1>5, <1>6, <1>7, <1>8 DEF ScanInv

-----------------------------------------------------------------------------
(* The graph.                                                              *)

(* A history with few jobs had few jobs before.                            *)
LEMMA FewKept ==
  ASSUME Typed, [Next]_vars, FewJobs'
  PROVE  FewJobs /\ ~TwoThreads /\ ~LateSettling /\ ~TwoThreads'
<1>1. ~LateSettling /\ ~LateSettling'  BY CountsGrow DEF FewJobs
<1>2. Len(builds) \in Nat /\ DOMAIN builds = 1..Len(builds)  BY TypedFacts
<1>3. \A b \in DOMAIN builds : b \in DOMAIN builds'  BY StepChange
<1>4. Len(builds') \in Nat /\ DOMAIN builds' = 1..Len(builds')
  <2>1. builds' \in Seq(BuildRows)  BY TypedKept DEF Typed
  <2>. QED  BY <2>1, LenProperties
<1>5. Len(builds) <= Len(builds')
  <2>1. CASE Len(builds) = 0  BY <1>4, <2>1
  <2>2. CASE Len(builds) # 0
    <3>1. Len(builds) \in 1..Len(builds)  BY <1>2, <2>2
    <3>2. Len(builds) \in 1..Len(builds')  BY <1>2, <1>3, <1>4, <3>1
    <3>. QED  BY <3>2
  <2>. QED  BY <2>1, <2>2
<1>6. used'.retries = 0 => used.retries = 0  BY CountsGrow
<1>. QED  BY <1>1, <1>2, <1>4, <1>5, <1>6 DEF FewJobs, TwoThreads

(* What stores a graph, and what outdates it.                              *)
LEMMA GraphChange ==
  ASSUME Typed, [Next]_vars, HasGraph
  PROVE  \/ artifact'["understanding_graph"] = artifact["understanding_graph"]
         \/ \E w \in Workers :
              /\ Save(w) /\ worker[w].pc = "save" /\ StepOf(w) = "understanding_graph" /\ steps' = steps
              /\ artifact'["understanding_graph"] = worker[w].mark
<1>. DEFINE Same == artifact'["understanding_graph"] = artifact["understanding_graph"]
<1>1. "understanding_graph" \in Stored /\ "understanding_graph" \notin Torn
      /\ artifact \in [Stored -> {"none", "part", "whole"}]
  BY PipelineAssumption DEF HasGraph, Typed
<1>2. ASSUME NEW w \in Workers, StepOf(w) \in Torn, CutShort(w)  PROVE Same
  BY <1>1, <1>2 DEF CutShort
<1>3. CASE Start \/ StartTorn  BY <1>3, StartTyped, StartTornTyped
<1>4. CASE SnapshotReady \/ UNCHANGED vars  BY <1>4 DEF SnapshotReady, vars
<1>5. CASE Crash  BY <1>2, <1>5 DEF Crash
<1>6. ASSUME NEW b \in DOMAIN builds, RetryAll(b) \/ RetryStep(b)  PROVE Same
  <2>1. PICK targets : Retry(b, targets)  BY <1>6 DEF RetryAll, RetryStep
  <2>. QED  BY <2>1, RetryTyped
<1>7. ASSUME NEW b \in DOMAIN builds, CancelBuild(b) \/ CancelStep(b) \/ GoSilent(b)  PROVE Same
  BY <1>7, CancelBuildTyped, CancelStepTyped, GoSilentTyped
<1>8. ASSUME NEW w \in Workers, Save(w)
      PROVE  Same \/ (/\ worker[w].pc = "save" /\ StepOf(w) = "understanding_graph" /\ steps' = steps
                      /\ artifact'["understanding_graph"] = worker[w].mark)
  BY <1>1, <1>8 DEF Save
<1>9. ASSUME NEW w \in Workers, StepFails(w)  PROVE Same
  BY <1>2, <1>9 DEF StepFails
<1>10. ASSUME NEW w \in Workers,
              \/ Begin(w) \/ FailUnready(w) \/ LookEnd(w) \/ Look(w) \/ Check(w) \/ BeginStep(w) \/ MarkStep(w)
              \/ Compute(w) \/ Cancelled(w) \/ NextChunk(w) \/ Again(w)
       PROVE  Same
  BY <1>10 DEF Begin, FailUnready, LookEnd, Look, Check, BeginStep, MarkStep, Compute, Cancelled, NextChunk, Again,
               rows, results
<1>11. ASSUME NEW w \in Workers,
              \/ Plan(w) \/ Call(w) \/ ChunkScanned(w) \/ ScanEnds(w) \/ Finalize(w) \/ Write(w) \/ Raised(w)
              \/ Unconfigured(w) \/ ChunkFails(w)
       PROVE  Same
  BY <1>11 DEF Plan, Call, ChunkScanned, ScanEnds, Finalize, Write, Raised, Unconfigured, ChunkFails, rows, results
<1>. QED  BY <1>3, <1>4, <1>5, <1>6, <1>7, <1>8, <1>9, <1>10, <1>11 DEF Next, Work, Trouble

(* A graph is outdated only by a thread that scans.                        *)
LEMMA NewerChange ==
  ASSUME Typed, [Next]_vars, newer', ~newer
  PROVE  \E w \in Workers : Scanning(w)
<1>1. ASSUME NEW w \in Workers, Plan(w) \/ ChunkScanned(w)  PROVE Scanning(w)
  <2>1. CASE Plan(w)  BY <2>1, PlanTasks DEF Scanning
  <2>2. CASE ChunkScanned(w)
    <3>1. worker[w].pc \in Scans /\ worker[w].pc \in AtStep  BY <2>2 DEF ChunkScanned, Scans, AtStep, Stepping
    <3>. QED  BY <3>1, AtStepFacts DEF Scanning
  <2>. QED  BY <1>1, <2>1, <2>2
<1>2. CASE Start \/ StartTorn  BY <1>2, StartTyped, StartTornTyped
<1>3. CASE SnapshotReady \/ UNCHANGED vars  BY <1>3 DEF SnapshotReady, vars
<1>4. CASE Crash  BY <1>4 DEF Crash
<1>5. ASSUME NEW b \in DOMAIN builds, RetryAll(b) \/ RetryStep(b)  PROVE newer' = newer
  <2>1. PICK targets : Retry(b, targets)  BY <1>5 DEF RetryAll, RetryStep
  <2>. QED  BY <2>1, RetryTyped
<1>6. ASSUME NEW b \in DOMAIN builds, CancelBuild(b) \/ CancelStep(b) \/ GoSilent(b)  PROVE newer' = newer
  BY <1>6, CancelBuildTyped, CancelStepTyped, GoSilentTyped
<1>7. ASSUME NEW w \in Workers, Save(w)  PROVE newer' = newer
  BY <1>7 DEF Save
<1>8. ASSUME NEW w \in Workers,
              \/ Begin(w) \/ FailUnready(w) \/ LookEnd(w) \/ Look(w) \/ Check(w) \/ BeginStep(w) \/ MarkStep(w)
              \/ Compute(w) \/ Cancelled(w) \/ NextChunk(w) \/ Again(w)
      PROVE  newer' = newer
  BY <1>8 DEF Begin, FailUnready, LookEnd, Look, Check, BeginStep, MarkStep, Compute, Cancelled, NextChunk, Again,
               rows, results
<1>9. ASSUME NEW w \in Workers,
              \/ Call(w) \/ ScanEnds(w) \/ Finalize(w) \/ Write(w) \/ Raised(w) \/ Unconfigured(w) \/ ChunkFails(w) \/ StepFails(w)
      PROVE  newer' = newer
  BY <1>9 DEF Call, ScanEnds, Finalize, Write, Raised, Unconfigured, ChunkFails, StepFails, rows, results
<1>. QED  BY <1>1, <1>2, <1>3, <1>4, <1>5, <1>6, <1>7, <1>8, <1>9 DEF Next, Work, Trouble

(* How a thread comes to run a step.                                       *)
LEMMA ComesToRun ==
  ASSUME Typed, [Next]_vars, NEW w \in Workers, worker'[w].pc \in {"begin", "run", "save"}
  PROVE  \/ worker'[w] = worker[w]
         \/ Check(w) /\ ~Existing(StepOf(w))
         \/ BeginStep(w) /\ worker[w].pc = "begin"
         \/ Compute(w) /\ worker[w].pc = "run"
           /\ worker'[w].mark = IF StepOf(w) = "understanding_graph" /\ ~Scanned(worker[w].build) THEN "part" ELSE "whole"
<1>1. CASE Work(w) \/ Trouble(w)
  <2>1. Check(w) \/ BeginStep(w) \/ Compute(w)  BY <1>1, LabelsOf DEF Labelled, Work, Trouble
  <2>. QED  BY <2>1, LabelsOf DEF Labelled, BeginStep, Compute
<1>. QED  BY <1>1, WhoMoves

(* A thread comes to scan when it finds no fresh graph.                    *)
LEMMA ComesToScanning ==
  ASSUME Typed, [Next]_vars, NEW w \in Workers, Scanning(w)'
  PROVE  Scanning(w) \/ (Check(w) /\ ~Existing("claim_scan"))
<1>1. worker'[w].pc \in Scans \cup {"begin", "run"} /\ StepOrder[worker'[w].at] = "claim_scan"
  BY DEF Scanning, StepOf
<1>2. CASE worker'[w] = worker[w]  BY <1>1, <1>2 DEF Scanning, StepOf
<1>3. CASE worker'[w].pc \in {"begin", "run"}
  <2>1. CASE Check(w) \/ BeginStep(w)
    <3>1. worker'[w].at = worker[w].at  BY <2>1, StayAtStep
    <3>. QED  BY <1>1, <1>2, <1>3, <2>1, <3>1, LabelsOf, ComesToRun DEF Scanning, StepOf, Labelled
  <2>2. CASE Compute(w)  BY <1>3, <2>2, LabelsOf DEF Labelled
  <2>. QED  BY <1>2, <1>3, <2>1, <2>2, ComesToRun
<1>4. CASE worker'[w].pc \in Scans
  <2>1. CASE Plan(w)  BY <2>1, PlanTasks DEF Scanning
  <2>2. CASE NextChunk(w) \/ Again(w) \/ Call(w) \/ ChunkScanned(w) \/ ChunkFails(w)
    <3>1. worker[w].pc \in Scans /\ worker[w].pc \in AtStep
      BY <2>2 DEF NextChunk, Again, Call, ChunkScanned, ChunkFails, Scans, AtStep, Stepping
    <3>. QED  BY <3>1, AtStepFacts DEF Scanning
  <2>. QED  BY <1>2, <1>4, <2>1, <2>2, ComesToScan
<1>. QED  BY <1>1, <1>3, <1>4

(* A scan is marked reused by the thread that found the graph fresh.       *)
LEMMA ComesToReused ==
  ASSUME Typed, [Next]_vars, StepInv, ~TwoThreads, NEW b \in DOMAIN builds', Reused(b)'
  PROVE  /\ b \in DOMAIN builds
         /\ Reused(b) \/ \E w \in Workers : MarkStep(w) /\ worker[w].build = b /\ Reusing(w)
<1>1. /\ "claim_scan" \in DOMAIN steps'[b] /\ steps'[b]["claim_scan"].status = "completed"
      /\ steps'[b]["claim_scan"].reused
  BY DEF Reused, ScanDone
<1>2. b \in DOMAIN builds /\ "claim_scan" \in DOMAIN steps[b]  BY <1>1, StepChange
<1>3. CASE StaysOrLeavesOff(b, "claim_scan")
  BY <1>1, <1>2, <1>3 DEF StaysOrLeavesOff, Reused, ScanDone
<1>4. CASE Marked(b, "claim_scan")
  <2>1. PICK w \in Workers :
           /\ worker[w].build = b /\ worker[w].pc \in AtStep /\ StepOf(w) = "claim_scan"
           /\ MarkStep(w) /\ worker[w].pc = "mark"
           /\ steps'[b]["claim_scan"].reused = (steps[b]["claim_scan"].reused \/ worker[w].mark = "reused")
    BY <1>1, <1>4 DEF Marked
  <2>2. steps[b]["claim_scan"].status # "completed"  BY <2>1 DEF StepInv, StepIsOpen
  <2>3. ~steps[b]["claim_scan"].reused
    <3>1. b \in DOMAIN steps  BY <1>2, TypedFacts
    <3>. QED  BY <1>2, <2>2, <3>1 DEF StepInv, ReusedIsDone
  <2>. QED  BY <1>1, <1>2, <2>1, <2>3 DEF Reusing
<1>. QED  BY <1>2, <1>3, <1>4, StepChange

(* There is no graph at the beginning.                                     *)
LEMMA InitGraph == Init => GraphInv
<1>. SUFFICES ASSUME Init  PROVE GraphInv
  OBVIOUS
<1>1. DOMAIN steps = {} /\ DOMAIN builds = {}  BY DEF Init
<1>2. \A w \in Workers : worker[w].pc = "idle"  BY IdleThread DEF Init
<1>3. \A w \in Workers : worker[w].pc \notin Stepping /\ ~Reusing(w) /\ worker[w].pc \notin {"begin", "run", "save"}
  BY <1>2 DEF Stepping, Reusing
<1>4. HasGraph => Graph = "none"  BY DEF Init, HasGraph, Graph
<1>5. OneActive /\ OneActiveB  BY <1>1, <1>3 DEF OneActive, OneActiveB
<1>6. GraphHasScan /\ ReusedIsFresh /\ OwnScan /\ SavesWhole
  BY <1>1, <1>3, <1>4 DEF GraphHasScan, ReusedIsFresh, OwnScan, SavesWhole
<1>7. GraphIsWhole  BY <1>4 DEF GraphIsWhole, HasGraph, Graph
<1>. QED  BY <1>5, <1>6, <1>7 DEF GraphInv

(* Without a retry one job is active, and one thread steps.                *)
LEMMA OneActiveKept ==
  ASSUME Typed, Typed', ThreadInv, ThreadInv', OneActiveB, [Next]_vars
  PROVE  OneActive' /\ OneActiveB'
<1>. SUFFICES ASSUME used'.retries = 0  PROVE OneActive' /\ OneActiveB'
  BY DEF OneActive, OneActiveB
<1>1. used.retries = 0 /\ ~LateSettling /\ ~LateSettling' /\ ~TwoThreads'
  BY CountsGrow DEF LateSettling, TwoThreads
<1>2. \A b, c \in DOMAIN builds : Active(b) /\ Active(c) => b = c  BY <1>1 DEF OneActiveB
<1>. DEFINE Now(b) == builds'[b].status \in {"queued", "running"}
<1>3. ASSUME DOMAIN builds' = DOMAIN builds, \A c \in DOMAIN builds : Now(c) => Active(c)  PROVE OneActiveB'
  <2>1. \A b, c \in DOMAIN builds' : Now(b) /\ Now(c) => b = c  BY <1>2, <1>3
  <2>. QED  BY <2>1 DEF OneActiveB, Active
<1>4. ASSUME NEW names \in SUBSET Steps, Insert(names)  PROVE OneActiveB'
  <2>1. Len(builds) \in Nat /\ DOMAIN builds = 1..Len(builds)  BY TypedFacts
  <2>2. \A b \in DOMAIN builds : Active(b) => b \in Newest
    <3>1. ASSUME NEW b \in DOMAIN builds, Active(b)  PROVE b \in Newest
      <4>1. \A c \in DOMAIN builds : Active(c) => c <= b  BY <1>2, <2>1, <3>1
      <4>. QED  BY <3>1, <4>1 DEF Newest
    <3>. QED  BY <3>1
  <2>3. /\ DOMAIN builds' = DOMAIN builds \cup {Len(builds) + 1}
        /\ \A b \in DOMAIN builds : /\ b \notin Newest => builds'[b] = builds[b]
                                    /\ b \in Newest => builds'[b].status = "failed"
    BY <1>4, Inserted
  <2>4. \A b \in DOMAIN builds : ~Now(b)  BY <2>2, <2>3 DEF Active
  <2>5. \A b, c \in DOMAIN builds' : Now(b) /\ Now(c) => b = c  BY <2>3, <2>4
  <2>. QED  BY <2>5 DEF OneActiveB, Active
<1>5. OneActiveB'
  <2>1. CASE Start \/ StartTorn  BY <1>4, <2>1, StartTyped, StartTornTyped
  <2>2. CASE SnapshotReady \/ Crash \/ UNCHANGED vars
    <3>1. UNCHANGED builds  BY <2>2 DEF SnapshotReady, Crash, vars
    <3>. QED  BY <1>3, <3>1 DEF Active
  <2>3. ASSUME NEW b \in DOMAIN builds, RetryAll(b) \/ RetryStep(b)  PROVE FALSE
    <3>1. PICK targets : Retry(b, targets)  BY <2>3 DEF RetryAll, RetryStep
    <3>2. Count("retries")  BY <3>1, RetryTyped
    <3>. QED  BY <1>1, <3>2, Counted
  <2>4. ASSUME NEW b \in DOMAIN builds, CancelBuild(b) \/ CancelStep(b) \/ GoSilent(b)  PROVE OneActiveB'
    <3>1. DOMAIN builds' = DOMAIN builds /\ \A c \in DOMAIN builds : builds'[c].status = builds[c].status
      BY <2>4, CancelBuildTyped, CancelStepTyped, GoSilentTyped
    <3>. QED  BY <1>3, <3>1 DEF Active
  <2>5. ASSUME NEW w \in Workers, FailUnready(w) \/ Write(w) \/ Raised(w)  PROVE OneActiveB'
    <3>1. /\ DOMAIN builds' = DOMAIN builds /\ \A c \in DOMAIN builds : c # worker[w].build => builds'[c] = builds[c]
          /\ builds'[worker[w].build].status \notin {"queued", "running"}
      BY <2>5, EndSteps DEF Ends
    <3>. QED  BY <1>3, <3>1 DEF Active
  <2>6. ASSUME NEW w \in Workers, Inner(w)  PROVE OneActiveB'
    <3>1. /\ DOMAIN builds' = DOMAIN builds
          /\ \A c \in DOMAIN builds : \/ builds'[c].status = builds[c].status
                                      \/ c = worker[w].build /\ worker[w].pc = "new"
      BY <2>6 DEF Inner
    <3>2. worker[w].pc = "new" => Active(worker[w].build)
      <4>1. ASSUME worker[w].pc = "new"  PROVE OfJob(w)
        BY <4>1 DEF ThreadInv, StepperIsOfJob, OfJob, Alive, Stepping
      <4>. QED  BY <1>1, <4>1 DEF ThreadInv, SettledIsLate
    <3>. QED  BY <1>3, <3>1, <3>2 DEF Active
  <2>7. ASSUME NEW w \in Workers, Work(w) \/ Trouble(w)  PROVE OneActiveB'
    <3>1. CASE FailUnready(w) \/ Write(w) \/ Raised(w)  BY <2>5, <3>1
    <3>2. CASE ~(FailUnready(w) \/ Write(w) \/ Raised(w))  BY <2>6, <2>7, <3>2, InnerSteps DEF Work, Trouble
    <3>. QED  BY <3>1, <3>2
  <2>. QED  BY <2>1, <2>2, <2>3, <2>4, <2>7 DEF Next
<1>6. OneActive'
  <2>1. ASSUME NEW v \in Workers, NEW w \in Workers, worker'[v].pc \in Stepping, worker'[w].pc \in Stepping, v # w
        PROVE  FALSE
    <3>1. worker'[v].build \in DOMAIN builds' /\ worker'[w].build \in DOMAIN builds'
      <4>1. ThreadTyped(v)' /\ ThreadTyped(w)'  BY DEF Typed
      <4>2. worker'[v].pc # "idle" /\ worker'[w].pc # "idle"  BY <2>1, LabelFacts
      <4>. QED  BY <4>1, <4>2 DEF ThreadTyped
    <3>2. \A u \in {v, w} : builds'[worker'[u].build].status \in {"queued", "running"}
      <4>1. ASSUME NEW u \in {v, w}  PROVE builds'[worker'[u].build].status \in {"queued", "running"}
        <5>1. worker'[u].pc \in Stepping /\ worker'[u].pc # "raised" /\ u \in Workers  BY <2>1, <4>1 DEF Stepping
        <5>2. worker'[u].pc \notin {"idle", "gone"} /\ run'[u] # "none"
          BY <5>1, LabelFacts DEF ThreadInv, StepperIsOfJob
        <5>3. OfJob(u)'  BY <5>2 DEF OfJob, Alive
        <5>. QED  BY <1>1, <5>1, <5>3 DEF ThreadInv, SettledIsLate, Active
      <4>. QED  BY <4>1
    <3>3. worker'[v].build = worker'[w].build  BY <1>5, <3>1, <3>2 DEF OneActiveB, Active
    <3>. QED  BY <1>1, <2>1, <3>3 DEF ThreadInv, OneStepper
  <2>. QED  BY <2>1 DEF OneActive
<1>. QED  BY <1>5, <1>6

(* Every step keeps the invariant of the graph.                            *)
LEMMA GraphKept ==
  ASSUME Typed, Typed', ThreadInv, ThreadInv', StepInv, StepInv', ScanInv, GraphInv, [Next]_vars
  PROVE  GraphInv'
<1>1. OneActive' /\ OneActiveB'  BY OneActiveKept DEF GraphInv
<1>. SUFFICES ASSUME HasGraph  PROVE GraphInv'
  <2>1. "understanding_graph" \notin Stored =>
          GraphHasScan' /\ ReusedIsFresh' /\ OwnScan' /\ SavesWhole' /\ GraphIsWhole'
    BY DEF HasGraph, GraphHasScan, ReusedIsFresh, OwnScan, SavesWhole, GraphIsWhole
  <2>. QED  BY <1>1, <2>1 DEF GraphInv, HasGraph
<1>2. HasGraph'  BY DEF HasGraph
<1>3. artifact["understanding_graph"] = Graph /\ artifact'["understanding_graph"] = Graph'  BY DEF Graph
<1>4. "claim_scan" \in StepDepends["understanding_graph"]  BY PipelineAssumption DEF HasGraph
<1>5. DOMAIN steps = DOMAIN builds /\ Len(builds) \in Nat /\ DOMAIN builds = 1..Len(builds)  BY TypedFacts
(* The graph's step is run after the scan.                                 *)
<1>6. ASSUME NEW w \in Workers, ~TwoThreads, worker[w].pc \in {"run", "save"}, StepOf(w) = "understanding_graph"
      PROVE  ScanDone(worker[w].build)
  <2>1. Doing(w)  BY <1>6 DEF Doing, AtStep, Stepping
  <2>2. Unmet(worker[w].build, "understanding_graph") = {}  BY <1>6, <2>1 DEF StepInv, StepIsMet
  <2>. QED  BY <1>4, <2>2 DEF Unmet, ScanDone
<1>7. GraphHasScan'
  <2>. SUFFICES ASSUME ~TwoThreads', Graph' # "none"  PROVE \E b \in DOMAIN builds' : ScanDone(b)'
    BY DEF GraphHasScan
  <2>1. ~TwoThreads  BY CountsGrow
  <2>2. ASSUME NEW b \in DOMAIN builds, ScanDone(b)  PROVE b \in DOMAIN builds' /\ ScanDone(b)'
    <3>1. DOMAIN steps'[b] = DOMAIN steps[b] /\ b \in DOMAIN builds'  BY StepChange
    <3>. QED  BY <2>1, <2>2, <3>1, CompletedStays DEF ScanDone
  <2>3. CASE Graph' = Graph
    <3>1. PICK b \in DOMAIN builds : ScanDone(b)  BY <1>2, <2>1, <2>3 DEF GraphInv, GraphHasScan
    <3>. QED  BY <2>2, <3>1
  <2>4. ASSUME NEW w \in Workers, worker[w].pc = "save", StepOf(w) = "understanding_graph"
        PROVE  \E b \in DOMAIN builds' : ScanDone(b)'
    <3>1. worker[w].build \in DOMAIN builds
      <4>1. worker[w].pc \in AtStep  BY <2>4 DEF AtStep, Stepping
      <4>. QED  BY <4>1, AtStepFacts
    <3>. QED  BY <1>6, <2>1, <2>2, <2>4, <3>1
  <2>. QED  BY <1>3, <2>3, <2>4, GraphChange
<1>8. ReusedIsFresh'
  <2>. SUFFICES ASSUME FewJobs', (\E b \in DOMAIN builds' : Reused(b)') \/ \E w \in Workers : Reusing(w)'
                PROVE  Graph' # "none" /\ ~newer' /\ \A w \in Workers : ~Scanning(w)'
    BY DEF ReusedIsFresh
  <2>1. FewJobs /\ ~TwoThreads /\ ~LateSettling  BY FewKept
  <2>2. CASE (\E b \in DOMAIN builds : Reused(b)) \/ \E w \in Workers : Reusing(w)
    <3>1. Graph # "none" /\ ~newer /\ \A w \in Workers : ~Scanning(w)
      BY <1>2, <2>1, <2>2 DEF GraphInv, ReusedIsFresh
    <3>2. Graph' # "none"
      <4>1. ASSUME NEW w \in Workers, worker[w].pc = "save"  PROVE worker[w].mark # "none"
        <5>1. worker[w].pc \in AtStep  BY <4>1 DEF AtStep, Stepping
        <5>. QED  BY <4>1, <5>1, AtStepFacts
      <4>. QED  BY <1>3, <3>1, <4>1, GraphChange
    <3>3. ~newer'  BY <3>1, NewerChange
    <3>4. Existing("claim_scan")  BY <1>3, <3>1 DEF Existing
    <3>. QED  BY <3>1, <3>2, <3>3, <3>4, ComesToScanning
  <2>3. CASE ~((\E b \in DOMAIN builds : Reused(b)) \/ \E w \in Workers : Reusing(w))
    <3>1. ~\E b \in DOMAIN builds' : Reused(b)'  BY <2>1, <2>3, ComesToReused
    <3>2. PICK w \in Workers : worker'[w].pc = "mark" /\ StepOrder[worker'[w].at] = "claim_scan" /\ worker'[w].mark = "reused"
      BY <3>1 DEF Reusing, StepOf
    <3>3. Check(w) /\ Existing(StepOf(w))
      <4>1. worker'[w] # worker[w]  BY <2>3, <3>2 DEF Reusing, StepOf
      <4>. QED  BY <3>2, <4>1, ComesToMark DEF ScanResult
    <3>4. StepOf(w) = "claim_scan"
      <4>1. worker'[w].at = worker[w].at  BY <3>3, StayAtStep
      <4>. QED  BY <3>2, <4>1 DEF StepOf
    <3>5. Graph # "none" /\ ~newer  BY <1>3, <3>3, <3>4 DEF Existing
    <3>6. Graph' # "none" /\ ~newer'  BY <1>3, <3>3, <3>5 DEF Check, rows, results
    <3>7. ASSUME NEW v \in Workers, Scanning(v)'  PROVE FALSE
      <4>1. v # w  BY <3>2, <3>7 DEF Scanning, Scans
      <4>2. Scanning(v)
        <5>1. ~Existing("claim_scan") => FALSE  BY <3>3, <3>4
        <5>. QED  BY <3>7, <5>1, ComesToScanning
      <4>3. worker[w].pc = "check"  BY <3>3 DEF Check
      <4>4. worker[v].pc \in AtStep /\ worker[w].pc \in AtStep /\ worker[v].pc \in Stepping /\ worker[w].pc \in Stepping
        BY <4>2, <4>3 DEF Scanning, AtStep, Stepping, Scans
      <4>5. StepOf(v) = "claim_scan"  BY <4>2 DEF Scanning
      <4>6. CASE used.retries = 0  BY <4>1, <4>4, <4>6 DEF GraphInv, OneActive
      <4>7. CASE used.retries # 0
        <5>1. Len(builds) <= 2  BY <2>1, <4>7 DEF FewJobs
        <5>2. worker[v].build # worker[w].build  BY <2>1, <4>1, <4>4 DEF ThreadInv, OneStepper
        <5>3. ~ScanDone(worker[v].build) /\ ~ScanDone(worker[w].build)
          BY <2>1, <3>4, <4>4, <4>5 DEF StepInv, StepIsOpen, ScanDone
        <5>4. worker[v].build \in DOMAIN builds /\ worker[w].build \in DOMAIN builds  BY <4>4, AtStepFacts
        <5>5. PICK b \in DOMAIN builds : ScanDone(b)  BY <1>2, <2>1, <3>5 DEF GraphInv, GraphHasScan
        <5>6. b \notin {worker[v].build, worker[w].build}  BY <5>3, <5>5
        <5>. QED  BY <1>5, <5>1, <5>2, <5>4, <5>6
      <4>. QED  BY <4>6, <4>7
    <3>. QED  BY <3>6, <3>7
  <2>. QED  BY <2>2, <2>3
<1>9. OwnScan'
  <2>. SUFFICES ASSUME FewJobs', NEW w \in Workers, worker'[w].pc \in {"begin", "run", "save"},
                       StepOf(w)' = "understanding_graph", Reused(worker[w].build)'
                PROVE  FALSE
    BY DEF OwnScan
  <2>1. FewJobs /\ ~TwoThreads /\ ~LateSettling  BY FewKept
  <2>2. StepOrder[worker'[w].at] = "understanding_graph"  BY DEF StepOf
  <2>3. ASSUME worker[w].pc \in {"begin", "run", "save"}, worker'[w].at = worker[w].at, worker'[w].build = worker[w].build
        PROVE  FALSE
    <3>1. PICK b \in DOMAIN builds : b = worker[w].build /\ worker[w].pc \in Stepping
      <4>1. worker[w].pc \in AtStep  BY <2>3 DEF AtStep, Stepping
      <4>. QED  BY <4>1, AtStepFacts
    <3>2. StepOf(w) = "understanding_graph"  BY <2>2, <2>3 DEF StepOf
    <3>3. ~Reused(b)  BY <2>1, <2>3, <3>1, <3>2 DEF GraphInv, OwnScan
    <3>4. b \in DOMAIN builds'  BY StepChange
    <3>5. Reused(b)'  BY <2>3, <3>1 DEF Reused, ScanDone
    <3>6. PICK v \in Workers : worker[v].build = b /\ Reusing(v)  BY <2>1, <3>3, <3>4, <3>5, ComesToReused
    <3>7. v # w /\ worker[v].pc \in Stepping  BY <3>2, <3>6 DEF Reusing, Stepping
    <3>. QED  BY <2>1, <3>1, <3>6, <3>7 DEF ThreadInv, OneStepper
  <2>4. CASE worker'[w] = worker[w]  BY <2>3, <2>4
  <2>5. CASE BeginStep(w) \/ Compute(w)
    <3>1. worker'[w].at = worker[w].at /\ worker'[w].build = worker[w].build  BY <2>5, StayAtStep
    <3>2. worker[w].pc \in {"begin", "run"}  BY <2>5 DEF BeginStep, Compute
    <3>. QED  BY <2>3, <3>1, <3>2
  <2>6. CASE Check(w) /\ ~Existing(StepOf(w))
    <3>1. worker'[w].at = worker[w].at /\ worker'[w].build = worker[w].build  BY <2>6, StayAtStep
    <3>2. StepOf(w) = "understanding_graph"  BY <2>2, <3>1 DEF StepOf
    <3>3. steps' = steps /\ worker[w].pc \in AtStep  BY <2>6 DEF Check, rows, AtStep, Stepping
    <3>4. Reused(worker[w].build) /\ worker[w].build \in DOMAIN builds
      BY <3>1, <3>3, AtStepFacts DEF Reused, ScanDone
    <3>5. Graph # "none" /\ ~newer  BY <1>2, <2>1, <3>4 DEF GraphInv, ReusedIsFresh
    <3>. QED  BY <1>3, <2>6, <3>2, <3>5 DEF Existing
  <2>. QED  BY <2>4, <2>5, <2>6, ComesToRun
<1>10. SavesWhole'
  <2>. SUFFICES ASSUME FewJobs', NEW w \in Workers, worker'[w].pc = "save", StepOf(w)' = "understanding_graph"
                PROVE  worker'[w].mark = "whole"
    BY DEF SavesWhole
  <2>1. FewJobs /\ ~TwoThreads /\ ~LateSettling  BY FewKept
  <2>2. StepOrder[worker'[w].at] = "understanding_graph"  BY DEF StepOf
  <2>3. CASE worker'[w] = worker[w]
    BY <1>2, <2>1, <2>2, <2>3 DEF GraphInv, SavesWhole, StepOf
  <2>4. CASE /\ Compute(w) /\ worker[w].pc = "run"
             /\ worker'[w].mark = IF StepOf(w) = "understanding_graph" /\ ~Scanned(worker[w].build) THEN "part" ELSE "whole"
    <3>1. worker'[w].at = worker[w].at  BY <2>4, StayAtStep
    <3>2. StepOf(w) = "understanding_graph"  BY <2>2, <3>1 DEF StepOf
    <3>3. ScanDone(worker[w].build)  BY <1>6, <2>1, <2>4, <3>2
    <3>4. ~Reused(worker[w].build)  BY <2>1, <2>4, <3>2 DEF GraphInv, OwnScan
    <3>5. worker[w].build \in DOMAIN steps
      <4>1. worker[w].pc \in AtStep  BY <2>4 DEF AtStep, Stepping
      <4>. QED  BY <1>5, <4>1, AtStepFacts
    <3>6. Scanned(worker[w].build)
      BY <2>1, <3>3, <3>4, <3>5 DEF ScanInv, ScanIsComplete, ScanDone, Reused
    <3>. QED  BY <2>4, <3>6
  <2>5. CASE Check(w) \/ BeginStep(w)  BY <2>5, LabelsOf DEF Labelled
  <2>. QED  BY <2>3, <2>4, <2>5, ComesToRun
<1>11. GraphIsWhole'
  <2>. SUFFICES ASSUME FewJobs'  PROVE artifact'["understanding_graph"] # "part"
    BY DEF GraphIsWhole, FewJobs
  <2>1. FewJobs  BY FewKept
  <2>2. artifact["understanding_graph"] # "part"  BY <2>1 DEF GraphInv, GraphIsWhole, FewJobs, HasGraph
  <2>3. ASSUME NEW w \in Workers, worker[w].pc = "save", StepOf(w) = "understanding_graph"
        PROVE  worker[w].mark # "part"
    BY <2>1, <2>3 DEF GraphInv, SavesWhole
  <2>. QED  BY <2>2, <2>3, GraphChange
<1>. QED  BY <1>1, <1>7, <1>8, <1>9, <1>10, <1>11 DEF GraphInv

-----------------------------------------------------------------------------
(* What the job promises.                                                  *)

BuildsInductive == Typed /\ ThreadInv /\ StepInv /\ ScanInv /\ GraphInv

(* The invariant holds at the beginning.                                   *)
LEMMA BuildsInit == Init => BuildsInductive
BY InitTyped, InitThreads, InitSteps, InitGraph DEF BuildsInductive

(* Every step keeps it, when a thread at work is heard of.                 *)
LEMMA BuildsNext ==
  ASSUME ~Silence, BuildsInductive, [Next]_vars
  PROVE  BuildsInductive'
<1>1. Typed'  BY TypedKept DEF BuildsInductive
<1>2. ThreadInv'  BY <1>1, ThreadsKept DEF BuildsInductive
<1>3. StepInv'  BY <1>1, <1>2, StepsKept DEF BuildsInductive
<1>4. ScanInv'  BY <1>1, <1>2, ScansKept DEF BuildsInductive
<1>5. GraphInv'  BY <1>1, <1>2, <1>3, GraphKept DEF BuildsInductive
<1>. QED  BY <1>1, <1>2, <1>3, <1>4, <1>5 DEF BuildsInductive

(* It gives the types that are checked,                                    *)
LEMMA TypedIsTypeOK == Typed => TypeOK
<1>. SUFFICES ASSUME Typed  PROVE TypeOK
  OBVIOUS
<1>1. /\ Len(builds) <= MaxBuilds /\ Len(steps) = Len(builds) /\ Len(tasks) = Len(builds)
      /\ artifact \in [Stored -> {"none", "part", "whole"}] /\ newer \in BOOLEAN /\ ready \in BOOLEAN
  BY DEF Typed
<1>2. ASSUME NEW b \in DOMAIN builds
      PROVE  /\ builds[b] \in [status : JobStates, cancel : BOOLEAN, stale : BOOLEAN, pinned : BOOLEAN]
             /\ DOMAIN steps[b] \subseteq Steps
             /\ \A s \in DOMAIN steps[b] : steps[b][s] \in [status : StepStates, cancel : BOOLEAN, reused : BOOLEAN]
             /\ tasks[b] \in [Chunks -> {"none", "pending", "running", "completed", "failed", "cancelled"}]
             /\ used.crashes = 0 => DOMAIN steps[b] = Steps
  <2>1. used.crashes = 0 => DOMAIN steps[b] = Steps  BY <1>2 DEF Typed
  <2>2. builds[b] \in BuildRows /\ DOMAIN steps[b] \subseteq Steps /\ \A s \in DOMAIN steps[b] : steps[b][s] \in StepRow
    BY <1>2, TypedFacts
  <2>3. tasks[b] \in [Chunks -> TaskStates]  BY <1>2, TypedFacts
  <2>. QED  BY <2>1, <2>2, <2>3 DEF BuildRows, StepRow, TaskStates
<1>. QED  BY <1>1, <1>2 DEF TypeOK

(* the run of each thread,                                                 *)
LEMMA ThreadsOwnRuns == ThreadInv /\ Typed => RunIsOfItsThread
<1>. SUFFICES ASSUME ThreadInv, Typed, used.crashes = 0, ~LateSettling, NEW w \in Workers, run[w] # "none", worker[w].pc # "raised"
              PROVE  run[w] = "running" <=> Alive(w)
  BY DEF RunIsOfItsThread
<1>1. ~Alive(w) => run[w] # "running"  BY DEF ThreadInv, RunOpen
<1>2. Alive(w) => run[w] = "running"  BY DEF ThreadInv, RunOpen, OfJob
<1>. QED  BY <1>1, <1>2

(* and all that the jobs promise.                                          *)
LEMMA BuildsAsPromised == BuildsInductive => BuildInv
BY TypedIsTypeOK, ThreadsOwnRuns DEF BuildsInductive, BuildInv, StepInv, ScanInv, GraphInv

(* A settled job is not run or completed by any step.                      *)
LEMMA SettledStep ==
  ASSUME Typed, ThreadInv, [Next]_vars, NEW b \in DOMAIN builds, ~Active(b), ~LateSettling
  PROVE  \/ builds'[b].status = builds[b].status \/ builds'[b].status \notin {"running", "completed", "partial"}
<1>. DEFINE Goal == builds'[b].status = builds[b].status \/ builds'[b].status \notin {"running", "completed", "partial"}
<1>1. CASE Start \/ StartTorn
  <2>1. PICK names \in SUBSET Steps : Insert(names)  BY <1>1, StartTyped, StartTornTyped
  <2>2. b \notin Newest => builds'[b] = builds[b]  BY <2>1, Inserted
  <2>. QED  BY <2>2 DEF Newest
<1>2. CASE SnapshotReady \/ Crash \/ UNCHANGED vars
  BY <1>2 DEF SnapshotReady, Crash, vars
<1>3. ASSUME NEW c \in DOMAIN builds, RetryAll(c) \/ RetryStep(c)  PROVE Goal
  <2>1. PICK targets : Retry(c, targets)  BY <1>3 DEF RetryAll, RetryStep
  <2>2. builds'[c].status = "queued" /\ (c # b => builds'[b] = builds[b])  BY <2>1, RetryTyped
  <2>. QED  BY <2>2
<1>4. ASSUME NEW c \in DOMAIN builds, CancelBuild(c) \/ CancelStep(c) \/ GoSilent(c)  PROVE Goal
  BY <1>4, CancelBuildTyped, CancelStepTyped, GoSilentTyped
<1>5. ASSUME NEW w \in Workers, Inner(w)  PROVE Goal
  <2>1. builds'[b].status = builds[b].status \/ (b = worker[w].build /\ worker[w].pc = "new")  BY <1>5 DEF Inner
  <2>2. worker[w].pc = "new" => Active(worker[w].build)
    <3>1. ASSUME worker[w].pc = "new"  PROVE OfJob(w)
      BY <3>1 DEF ThreadInv, StepperIsOfJob, OfJob, Alive, Stepping
    <3>. QED  BY <3>1 DEF ThreadInv, SettledIsLate
  <2>. QED  BY <2>1, <2>2
<1>6. ASSUME NEW w \in Workers, Write(w), worker[w].build = b  PROVE Goal
  <2>1. worker[w].pc = "write" /\ Alive(w)  BY <1>6 DEF Write, Alive
  <2>2. run[w] # "none" => FALSE  BY <1>6, <2>1 DEF ThreadInv, SettledIsLate, OfJob
  <2>3. worker[w].mark = "cancelled"  BY <2>1, <2>2 DEF ThreadInv, CancellerIsLate
  <2>4. builds'[b].status = worker[w].mark  BY <1>6, EndSteps
  <2>. QED  BY <2>3, <2>4
<1>7. ASSUME NEW w \in Workers, FailUnready(w) \/ Raised(w), worker[w].build = b  PROVE Goal
  <2>1. ~Write(w)  BY <1>7 DEF FailUnready, Raised, Write
  <2>. QED  BY <1>7, <2>1, EndSteps
<1>8. ASSUME NEW w \in Workers, FailUnready(w) \/ Write(w) \/ Raised(w), worker[w].build # b  PROVE Goal
  BY <1>8, EndSteps DEF Ends
<1>9. ASSUME NEW w \in Workers, Work(w) \/ Trouble(w)  PROVE Goal
  <2>1. CASE FailUnready(w) \/ Write(w) \/ Raised(w)  BY <1>6, <1>7, <1>8, <2>1
  <2>2. CASE ~(FailUnready(w) \/ Write(w) \/ Raised(w))  BY <1>5, <1>9, <2>2, InnerSteps DEF Work, Trouble
  <2>. QED  BY <2>1, <2>2
<1>. QED  BY <1>1, <1>2, <1>3, <1>4, <1>9 DEF Next

(* Whatever the pipeline, and however many builds, retries, cancellations, *)
(* crashes and failures there are: nothing is run before what it depends   *)
(* on, a scan that a job calls complete has scanned every chunk, a graph   *)
(* that is stored is whole, and a run is open while its thread is at work  *)
(* (but for the races that TwoThreads and LateSettling name), provided no  *)
(* thread at work is taken for lost.                                       *)
THEOREM BuildsHold == ~Silence => (Spec => []BuildInv)
<1>. SUFFICES ASSUME ~Silence  PROVE Spec => []BuildInv
  OBVIOUS
<1>1. Init => BuildsInductive  BY BuildsInit
<1>2. BuildsInductive /\ [Next]_vars => BuildsInductive'  BY BuildsNext
<1>3. BuildsInductive => BuildInv  BY BuildsAsPromised
<1>. QED  BY <1>1, <1>2, <1>3, PTL DEF Spec

(* And a settled or superseded job does not run or complete again, nor is a*)
(* step that a job completed run again by it.                              *)
THEOREM BuildsKeep == ~Silence => (Spec => BuildKeeps)
<1>. SUFFICES ASSUME ~Silence  PROVE Spec => BuildKeeps
  OBVIOUS
<1>. DEFINE Settled == \A b \in DOMAIN builds : ~Active(b) /\ ~LateSettling =>
                         builds'[b].status \notin {"running", "completed", "partial"} \ {builds[b].status}
            Once == ~TwoThreads => \A b \in DOMAIN steps : \A s \in DOMAIN steps[b] :
                      steps[b][s].status = "completed" => steps'[b][s].status = "completed"
<1>1. Init => BuildsInductive  BY BuildsInit
<1>2. BuildsInductive /\ [Next]_vars => BuildsInductive'  BY BuildsNext
<1>3. BuildsInductive /\ [Next]_vars => Settled
  BY SettledStep DEF BuildsInductive
<1>4. BuildsInductive /\ [Next]_vars => Once
  <2>. SUFFICES ASSUME BuildsInductive, [Next]_vars  PROVE Once
    OBVIOUS
  <2>1. Typed /\ DOMAIN steps = DOMAIN builds  BY TypedFacts DEF BuildsInductive
  <2>. QED  BY <2>1, CompletedStays DEF BuildsInductive
<1>. HIDE DEF Settled, Once
<1>5. Spec => [][Settled]_vars /\ [][Once]_vars  BY <1>1, <1>2, <1>3, <1>4, PTL DEF Spec
<1>. QED  BY <1>5 DEF BuildKeeps, SettledStays, NeverReExecuted, Settled, Once
=============================================================================

--------------------------- MODULE InterviewRefresh ---------------------------
(***************************************************************************)
(* The automatic refresh of one interview session.  Every answer of the    *)
(* developer, once committed, asks for a refresh; requests are merged into *)
(* at most one pending job; threads of the server run the jobs one after   *)
(* the other under the session's lock, while answers, a confirmation, the  *)
(* manual rebuild and restarts come at any time.                           *)
(*                                                                         *)
(* A step is one database connection (they are serialized in the process)  *)
(* or the call of the reasoning model between two connections.  An answer  *)
(* is a model value; an understanding is the set of answers it was built   *)
(* from.                                                                   *)
(***************************************************************************)
EXTENDS Naturals, Sequences, FiniteSets

CONSTANTS
  Answers,    \* what the developer will say
  Threads,    \* background threads of the server
  Manual,     \* the request of the manual rebuild, which is not a thread
  None,       \* nobody
  Kinds,      \* the triggers that occur
  MaxManual, MaxConfirms, MaxRetries, MaxCrashes   \* bounds

VARIABLES
  answer,    \* each answer: is it saved and its refresh requested, its kind, time and job
  jobs,      \* rows of interview_refresh_job, by id
  run,       \* what each thread, and the manual rebuild, is doing
  lock,      \* who holds the session's lock
  session,   \* the session's row and its latest understanding
  clock,     \* time.time(), as far as it is compared
  used       \* how often each bounded action happened

vars == <<answer, jobs, run, lock, session, clock, used>>

Runners == Threads \cup {Manual}
Idle == [pc |-> "idle", job |-> 0, began |-> 0, read |-> {}, stage |-> "purpose"]
Saved == {a \in Answers : answer[a].pc \in {"request", "requested", "forgotten"}}
Evidence == {a \in Saved : answer[a].kind # "intent_update"}
WithStatus(s) == {j \in DOMAIN jobs : jobs[j].status = s}
Go(p, label) == run' = [run EXCEPT ![p].pc = label]
CloseJob(j, status, note) ==
  jobs' = [jobs EXCEPT ![j].status = status, ![j].note = note]

(* The session has a first understanding, confirmed or not.                *)
Init ==
  /\ answer = [a \in Answers |-> [pc |-> "none", kind |-> "qa_answer", at |-> 0, job |-> 0]]
  /\ jobs = <<>>
  /\ run = [p \in Runners |-> Idle]
  /\ lock = None
  /\ \E confirmed \in BOOLEAN :
       session = [built |-> {}, revision |-> 1, stage |-> IF confirmed THEN "proposal" ELSE "purpose",
                  confirmedAt |-> IF confirmed THEN 1 ELSE 0,
                  confirmedRevision |-> IF confirmed THEN 1 ELSE 0,
                  rebuiltAt |-> 0, revised |-> FALSE]
  /\ clock = 2
  /\ used = [manual |-> 0, confirms |-> 0, retries |-> 0, crashes |-> 0]

-----------------------------------------------------------------------------
(* An answer: first its own transaction, then, outside of it,              *)
(* request_refresh.  A correction of an earlier answer also marks the      *)
(* session.                                                                *)

SaveAnswer(a) ==
  /\ answer[a].pc = "none"
  /\ \E k \in Kinds :
       /\ answer' = [answer EXCEPT ![a] = [pc |-> "request", kind |-> k, at |-> clock, job |-> 0]]
       /\ \/ k = "qa_answer" /\ session' = [session EXCEPT !.revised = TRUE]
          \/ UNCHANGED session
  /\ clock' = clock + 1
  /\ UNCHANGED <<jobs, run, lock, used>>

Priority(k) == CASE k = "intent_update" -> 0 [] k = "qa_answer" -> 1 [] k = "alignment_answer" -> 2
Bug_Merged(old, new) == old
Merged(old, new) == IF Priority(new) > Priority(old) THEN new ELSE old

Spawn(j) ==
  \E t \in Threads :
    /\ run[t].pc = "idle"
    /\ run' = [run EXCEPT ![t] = [Idle EXCEPT !.pc = "lock", !.job = j]]

Dispatches == WithStatus("updating") = {}

(* _enqueue, and the thread started when nobody would drain the job.       *)
Enqueue(k, id) ==
  IF WithStatus("pending") # {}
  THEN \E j \in WithStatus("pending") :
         /\ jobs' = [jobs EXCEPT ![j].kind = Merged(@, k)]
         /\ id = j
         /\ UNCHANGED run
  ELSE /\ jobs' = Append(jobs, [kind |-> k, status |-> "pending", note |-> "", seen |-> {}])
       /\ id = Len(jobs) + 1
       /\ IF Dispatches THEN Spawn(id) ELSE UNCHANGED run

RequestRefresh(a) ==
  /\ answer[a].pc = "request"
  /\ \E id \in 1..Len(jobs) + 1 :
       /\ Enqueue(answer[a].kind, id)
       /\ answer' = [answer EXCEPT ![a].pc = "requested", ![a].job = id]
  /\ UNCHANGED <<lock, session, clock, used>>

Retry ==
  /\ used.retries < MaxRetries
  /\ \E j \in DOMAIN jobs :
       /\ \/ jobs[j].status = "failed"
          \/ jobs[j].status = "updated" /\ jobs[j].note # ""
       /\ \E id \in 1..Len(jobs) + 1 : Enqueue(jobs[j].kind, id)
  /\ used' = [used EXCEPT !.retries = @ + 1]
  /\ UNCHANGED <<answer, lock, session, clock>>

-----------------------------------------------------------------------------
(* run_refresh_job: take the lock, run the job, look for the next.         *)

Bug_Lockable == TRUE
Lockable == lock = None

Acquire(t) ==
  /\ run[t].pc = "lock" /\ Lockable
  /\ lock' = t /\ Go(t, "start")
  /\ UNCHANGED <<answer, jobs, session, clock, used>>

(* _understanding_update_blocked.                                          *)
Watermark == IF session.rebuiltAt > session.confirmedAt
             THEN session.rebuiltAt ELSE session.confirmedAt
Blocked ==
  /\ session.stage = "proposal" /\ session.confirmedAt # 0 /\ ~session.revised
  /\ \A a \in Saved : answer[a].kind = "qa_answer" => answer[a].at <= Watermark

Rebuilds(k) == k \in {"qa_answer", "alignment_answer"}

(* The first connection of _run_one_in_context.  The premise of the        *)
(* session may have moved on.                                              *)
StartJob(t) ==
  /\ run[t].pc = "start"
  /\ LET j == run[t].job IN
       \/ /\ jobs[j].status # "pending" \/ \E n \in WithStatus("updated") : n > j
          /\ jobs' = IF jobs[j].status = "pending" THEN [jobs EXCEPT ![j].status = "stale"] ELSE jobs
          /\ Go(t, "drain")
       \/ /\ jobs[j].status = "pending" /\ \A n \in WithStatus("updated") : n < j
          /\ \/ CloseJob(j, "updated", "premise") /\ Go(t, "drain")
             \/ /\ jobs[j].kind = "qa_answer" /\ Blocked
                /\ CloseJob(j, "updated", "no_new_answers") /\ Go(t, "drain")
             \/ /\ ~(jobs[j].kind = "qa_answer" /\ Blocked)
                /\ CloseJob(j, "updating", "")
                /\ run' = [run EXCEPT ![t].pc = IF Rebuilds(jobs[j].kind) THEN "begin" ELSE "align",
                                      ![t].read = {}, ![t].stage = session.stage]
  /\ UNCHANGED <<answer, lock, session, clock, used>>

(* _rebuild_understanding: the time it will be said to have happened at is *)
(* taken first, then the answers are read.                                 *)
Begin(p) ==
  /\ run[p].pc = "begin"
  /\ run' = [run EXCEPT ![p].pc = "read", ![p].began = clock]
  /\ clock' = clock + 1
  /\ UNCHANGED <<answer, jobs, lock, session, used>>

ReadEvidence(p) ==
  /\ run[p].pc = "read"
  /\ \/ run' = [run EXCEPT ![p].pc = "think", ![p].read = Evidence]
     \/ Go(p, "fail")
  /\ UNCHANGED <<answer, jobs, lock, session, clock, used>>

Bug_RebuiltAt(p) == clock
RebuiltAt(p) == run[p].began
AdvanceStage(stage) == IF stage = "proposal" THEN "proposal" ELSE "purpose"

(* The call of the model is over.  Its outcome is stored in one            *)
(* transaction, or an error is when it failed or the premise has moved.    *)
Persist(p) ==
  /\ run[p].pc = "think"
  /\ \/ /\ session' = [session EXCEPT !.built = run[p].read, !.revision = @ + 1,
                         !.stage = AdvanceStage(run[p].stage),
                         !.rebuiltAt = RebuiltAt(p), !.revised = FALSE]
        /\ run' = [run EXCEPT ![p].pc = IF p = Manual THEN "idle" ELSE "align"]
     \/ Go(p, "fail") /\ UNCHANGED session
  /\ UNCHANGED <<answer, jobs, lock, clock, used>>

Fail(p) ==
  /\ run[p].pc = "fail"
  /\ IF p = Manual THEN UNCHANGED jobs /\ run' = [run EXCEPT ![p] = Idle]
     ELSE CloseJob(run[p].job, "failed", "error") /\ Go(p, "drain")
  /\ UNCHANGED <<answer, lock, session, clock, used>>

(* run_alignment_build reads the developer's intents; its failure is a     *)
(* note on a job that succeeded.                                           *)
ReadIntents(t) ==
  /\ run[t].pc = "align"
  /\ run' = [run EXCEPT ![t].pc = "finish", ![t].read = @ \cup (Saved \ Evidence)]
  /\ UNCHANGED <<answer, jobs, lock, session, clock, used>>

Finish(t) ==
  /\ run[t].pc = "finish" /\ Go(t, "drain")
  /\ \E note \in {"", "alignment"} :
       jobs' = [jobs EXCEPT ![run[t].job].status = "updated", ![run[t].job].note = note,
                            ![run[t].job].seen = run[t].read]
  /\ UNCHANGED <<answer, lock, session, clock, used>>

(* _next_pending_job_id, still under the lock.                             *)
NextPending == WithStatus("pending")

Drain(t) ==
  /\ run[t].pc = "drain"
  /\ lock' = None
  /\ run' = [run EXCEPT ![t] = IF NextPending = {} THEN Idle
       ELSE [Idle EXCEPT !.pc = "lock", !.job = CHOOSE j \in NextPending : \A n \in NextPending : j <= n]]
  /\ UNCHANGED <<answer, jobs, session, clock, used>>

-----------------------------------------------------------------------------
(* update_interview_understanding: the same rebuild, without the lock.     *)
ManualRebuild ==
  /\ run[Manual].pc = "idle" /\ used.manual < MaxManual /\ ~Blocked
  /\ run' = [run EXCEPT ![Manual] = [Idle EXCEPT !.pc = "begin", !.stage = session.stage]]
  /\ used' = [used EXCEPT !.manual = @ + 1]
  /\ UNCHANGED <<answer, jobs, lock, session, clock>>

(* The developer confirms the latest revision, once.                       *)
Confirm ==
  /\ used.confirms < MaxConfirms /\ session.confirmedRevision # session.revision
  /\ session' = [session EXCEPT !.stage = "proposal", !.confirmedAt = clock,
                                !.confirmedRevision = session.revision]
  /\ clock' = clock + 1
  /\ used' = [used EXCEPT !.confirms = @ + 1]
  /\ UNCHANGED <<answer, jobs, run, lock>>

(* The process dies and starts again, which closes the jobs left open.  An *)
(* answer whose refresh was not yet requested stays saved.                 *)
Interrupted == {"pending", "updating"}

Restart ==
  /\ used.crashes < MaxCrashes
  /\ jobs' = [j \in DOMAIN jobs |-> IF jobs[j].status \in Interrupted
                                    THEN [jobs[j] EXCEPT !.status = "failed", !.note = "error"]
                                    ELSE jobs[j]]
  /\ answer' = [a \in Answers |-> IF answer[a].pc = "request"
                                  THEN [answer[a] EXCEPT !.pc = "forgotten"] ELSE answer[a]]
  /\ run' = [p \in Runners |-> Idle] /\ lock' = None
  /\ used' = [used EXCEPT !.crashes = @ + 1]
  /\ UNCHANGED <<session, clock>>

Rebuild(p) == Begin(p) \/ ReadEvidence(p) \/ Persist(p) \/ Fail(p)
ThreadStep(t) ==
  Acquire(t) \/ StartJob(t) \/ Rebuild(t) \/ ReadIntents(t) \/ Finish(t) \/ Drain(t)

Next ==
  \/ \E a \in Answers : SaveAnswer(a) \/ RequestRefresh(a)
  \/ \E t \in Threads : ThreadStep(t)
  \/ ManualRebuild \/ Rebuild(Manual) \/ Confirm \/ Retry \/ Restart

Spec == Init /\ [][Next]_vars

-----------------------------------------------------------------------------
(* Properties.                                                             *)

TypeOK ==
  /\ \A a \in Answers : /\ answer[a].pc \in {"none", "request", "requested", "forgotten"}
                        /\ answer[a].kind \in Kinds \cup {"qa_answer"}
                        /\ answer[a].job \in 0..Len(jobs)
  /\ \A j \in DOMAIN jobs : /\ jobs[j].status \in {"pending", "updating", "updated", "failed", "stale"}
                            /\ jobs[j].kind \in Kinds /\ jobs[j].seen \subseteq Saved
  /\ lock \in Threads \cup {None}
  /\ session.built \subseteq Evidence /\ session.rebuiltAt < clock

(* However requests, threads, retries and restarts interleave, a session   *)
(* has one pending job at most, which is its newest job, and one running,  *)
(* run by the one thread that holds the lock.                              *)
AtMostOneOfEach ==
  /\ \A j \in WithStatus("pending") : j = Len(jobs)
  /\ \A j \in WithStatus("updating") : \E t \in Threads : run[t].job = j /\ lock = t
  /\ Cardinality(WithStatus("updating")) <= 1

ReadsLater(j, k) ==
  \E t \in Threads : run[t].job = j /\ run[t].pc \in IF Rebuilds(k) THEN {"begin", "read"}
                                                     ELSE {"begin", "read", "think", "align"}

(* Merging requests never loses an answer: the job its request named is    *)
(* strong enough and has still to read the answers, or has read this one,  *)
(* or ended with an error or a note that lets the developer retry.         *)
NoAnswerIsLost ==
  \A a \in Answers : answer[a].pc = "requested" =>
    LET k == answer[a].kind  j == answer[a].job IN
      CASE jobs[j].status = "pending" -> Priority(jobs[j].kind) >= Priority(k)
        [] jobs[j].status = "updating" ->
             ReadsLater(j, k) \/ \E t \in Threads : run[t].job = j /\ (a \in run[t].read \/ run[t].pc = "fail")
        [] jobs[j].status = "updated" /\ jobs[j].note \in {"", "alignment"} -> a \in jobs[j].seen
        [] OTHER -> jobs[j].note # "" \/ jobs[j].status = "stale"

(* What the runs check of the above in every state.                        *)
RefreshInv == TypeOK /\ AtMostOneOfEach /\ NoAnswerIsLost

Closes(j, note) ==
  /\ j \in WithStatus("pending") /\ j \in DOMAIN jobs'
  /\ jobs'[j].status = "updated" /\ jobs'[j].note = note

(* A job that finds nothing new is right, up to what the developer         *)
(* confirmed later: each answer is in the understanding or older than the  *)
(* confirmation, although it may have come during a rebuild.               *)
SkippedIsConfirmed ==
  [][\A j \in DOMAIN jobs : Closes(j, "no_new_answers") =>
       \A a \in Saved : answer[a].kind = "qa_answer" =>
         a \in session.built \/ answer[a].at < session.confirmedAt]_vars

(* A result of the jobs never overwrites a newer one: while nobody rebuilds*)
(* by hand the understanding never loses an answer it was built from.      *)
NeverRegresses == [][used.manual = 0 => session.built \subseteq session'.built]_vars
===========================================================================

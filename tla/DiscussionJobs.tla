---------------------------- MODULE DiscussionJobs ----------------------------
(***************************************************************************)
(* The background work of one interview discussion: jobs that extract      *)
(* candidates from intervals of its turns, run by workers under a lease,   *)
(* and the outbox that hands the events of applied contributions to the    *)
(* interview refresh.                                                      *)
(*                                                                         *)
(* A step is one transaction, or the call of the reasoning model between   *)
(* two transactions.  A lease that lapses is an action: at any time once   *)
(* its worker is gone, and a bounded number of times under a worker that   *)
(* is only slow.                                                           *)
(***************************************************************************)
EXTENDS Naturals, Sequences, FiniteSets, FiniteSetsExt

CONSTANTS
  Workers,    \* worker threads, each in a process of its own
  Events,     \* applications that change answers or intents
  Batch,      \* turns of one job, 24 in the code
  MaxTurns, MaxSchedules, MaxSlow, MaxCrashes, MaxChanges   \* bounds

ASSUME BoundsAssumption ==
  Batch \in Nat \ {0} /\ MaxTurns \in Nat /\ MaxSchedules \in Nat
  /\ MaxSlow \in Nat /\ MaxCrashes \in Nat /\ MaxChanges \in Nat

VARIABLES
  turns,     \* how many turns the discussion has
  targets,   \* a version of what the session's targets resolve to
  jobs,      \* rows of interview_discussion_extraction, by id
  outbox,    \* rows of interview_discussion_outbox
  worker,    \* what each worker is doing
  used       \* how often each bounded action happened

vars == <<turns, targets, jobs, outbox, worker, used>>

Idle == [pc |-> "idle", job |-> 0, attempt |-> 0, event |-> {}]

Init ==
  /\ turns = 0 /\ targets = 0 /\ jobs = <<>>
  /\ outbox = [e \in Events |-> [state |-> "none", lease |-> "none", requests |-> 0]]
  /\ worker = [w \in Workers |-> Idle]
  /\ used = [schedules |-> 0, slow |-> 0, crashes |-> 0]

Go(w, label) == worker' = [worker EXCEPT ![w].pc = label]

-----------------------------------------------------------------------------
(* The discussion goes on, and the things it is about change.              *)

Say == turns < MaxTurns /\ turns' = turns + 1 /\ UNCHANGED <<targets, jobs, outbox, worker, used>>

TargetChanges ==
  /\ targets < MaxChanges /\ targets' = targets + 1
  /\ UNCHANGED <<turns, jobs, outbox, worker, used>>

(* schedule(): from behind the last successful interval, a batch at most.  *)
Bug_Counted == DOMAIN jobs
Counted == {j \in DOMAIN jobs : jobs[j].state = "succeeded"}
Cursor == Max({jobs[j].input.to : j \in Counted} \cup {0})

Bug_Interval(through) ==
  [from |-> Cursor + 1, to |-> Cursor + Batch, through |-> through, targets |-> targets]
Interval(through) ==
  [from |-> Cursor + 1, to |-> Min({Cursor + Batch, through, turns}),
   through |-> through, targets |-> targets]

Enqueue(input) ==
  IF \E j \in DOMAIN jobs : jobs[j].input = input
  THEN jobs' = [j \in DOMAIN jobs |->
                  IF jobs[j].input = input /\ jobs[j].state = "failed"
                  THEN [jobs[j] EXCEPT !.state = "queued"] ELSE jobs[j]]
  ELSE jobs' = Append(jobs, [input |-> input, state |-> "queued", attempt |-> 0,
                             lease |-> "none", stored |-> 0])

Schedule ==
  /\ used.schedules < MaxSchedules
  /\ \E through \in Cursor + 1..turns : Enqueue(Interval(through))
  /\ used' = [used EXCEPT !.schedules = @ + 1]
  /\ UNCHANGED <<turns, targets, outbox, worker>>

-----------------------------------------------------------------------------
(* The loop of a worker: find a job, claim it, call the model, store.      *)

Bug_Runnable(j) == jobs[j].state = "queued"
Runnable(j) ==
  \/ jobs[j].state = "queued"
  \/ jobs[j].state = "running" /\ jobs[j].lease = "lapsed"

Pick(w) ==
  /\ worker[w].pc = "idle"
  /\ LET found == {j \in DOMAIN jobs : Runnable(j)} IN
       worker' = [worker EXCEPT ![w] = IF found = {} THEN [Idle EXCEPT !.pc = "outbox"]
                                       ELSE [Idle EXCEPT !.pc = "claim", !.job = Min(found)]]
  /\ UNCHANGED <<turns, targets, jobs, outbox, used>>

Bug_Claimable(j) == TRUE
Claimable(j) == Runnable(j)

Claim(w) ==
  /\ worker[w].pc = "claim"
  /\ LET j == worker[w].job IN
       IF Claimable(j)
       THEN /\ jobs' = [jobs EXCEPT ![j].state = "running", ![j].lease = "held", ![j].attempt = @ + 1]
            /\ worker' = [worker EXCEPT ![w].pc = "think", ![w].attempt = jobs[j].attempt + 1]
       ELSE Go(w, "outbox") /\ UNCHANGED jobs
  /\ UNCHANGED <<turns, targets, outbox, used>>

Bug_Current(w) == jobs[worker[w].job].state = "running"
Current(w) ==
  /\ jobs[worker[w].job].attempt = worker[w].attempt
  /\ jobs[worker[w].job].state = "running"

(* The result is stored, unless the job has gone to another attempt, a     *)
(* target has changed or the model failed or answered nonsense.            *)
Store(w) ==
  /\ worker[w].pc = "think"
  /\ LET j == worker[w].job IN
       \/ ~Current(w) /\ Go(w, "outbox") /\ UNCHANGED jobs
       \/ /\ Current(w) /\ jobs[j].input.targets = targets
          /\ jobs' = [jobs EXCEPT ![j].state = "succeeded", ![j].lease = "none", ![j].stored = @ + 1]
          /\ Go(w, "outbox")
       \/ Go(w, "fail") /\ UNCHANGED jobs
  /\ UNCHANGED <<turns, targets, outbox, used>>

Bug_MayFail(w) == TRUE
MayFail(w) == jobs[worker[w].job].attempt = worker[w].attempt

Fail(w) ==
  /\ worker[w].pc = "fail" /\ Go(w, "outbox")
  /\ jobs' = IF MayFail(w)
             THEN [jobs EXCEPT ![worker[w].job].state = "failed", ![worker[w].job].lease = "none"]
             ELSE jobs
  /\ UNCHANGED <<turns, targets, outbox, used>>

-----------------------------------------------------------------------------
(* The outbox.  apply_preview inserts an event with the writes it is about;*)
(* drain_outbox leases one, calls request_refresh, and marks it.           *)

Apply(e) ==
  /\ outbox[e].state = "none" /\ outbox' = [outbox EXCEPT ![e].state = "queued"]
  /\ UNCHANGED <<turns, targets, jobs, worker, used>>

Bug_Due(e) == outbox[e].state = "queued" /\ outbox[e].lease = "none"
Due(e) == outbox[e].state = "queued" /\ outbox[e].lease # "held"

LeaseEvent(w) ==
  /\ worker[w].pc = "outbox"
  /\ IF \E e \in Events : Due(e)
     THEN \E e \in Events :
            /\ Due(e)
            /\ outbox' = [outbox EXCEPT ![e].lease = "held"]
            /\ worker' = [worker EXCEPT ![w].pc = "deliver", ![w].event = {e}]
     ELSE worker' = [worker EXCEPT ![w] = Idle] /\ UNCHANGED outbox
  /\ UNCHANGED <<turns, targets, jobs, used>>

(* request_refresh(); its failure is kept for a later attempt.             *)
Deliver(w) ==
  /\ worker[w].pc = "deliver"
  /\ \E e \in worker[w].event :
       \/ outbox' = [outbox EXCEPT ![e].requests = IF @ = 0 THEN 1 ELSE @] /\ Go(w, "mark")
       \/ used.slow < MaxSlow /\ Go(w, "defer") /\ UNCHANGED outbox
  /\ used' = [used EXCEPT !.slow = IF worker'[w].pc = "defer" THEN @ + 1 ELSE @]
  /\ UNCHANGED <<turns, targets, jobs>>

Bug_Deferred(row) == [row EXCEPT !.state = "done", !.lease = "none"]
Deferred(row) == [row EXCEPT !.lease = "none"]

MarkEvent(w) ==
  /\ worker[w].pc \in {"mark", "defer"}
  /\ \E e \in worker[w].event :
       outbox' = [outbox EXCEPT ![e] = IF worker[w].pc = "mark"
                                       THEN [@ EXCEPT !.state = "done", !.lease = "none"]
                                       ELSE Deferred(@)]
  /\ worker' = [worker EXCEPT ![w] = Idle]
  /\ UNCHANGED <<turns, targets, jobs, used>>

-----------------------------------------------------------------------------
(* Faults.                                                                 *)

Crash(w) ==
  /\ used.crashes < MaxCrashes /\ worker[w].pc # "idle"
  /\ worker' = [worker EXCEPT ![w] = Idle]
  /\ used' = [used EXCEPT !.crashes = @ + 1]
  /\ UNCHANGED <<turns, targets, jobs, outbox>>

Works(w, j) == worker[w].pc \in {"think", "fail"} /\ worker[w].job = j
                 /\ worker[w].attempt = jobs[j].attempt
Slow(busy) == IF busy THEN used.slow < MaxSlow /\ used' = [used EXCEPT !.slow = @ + 1]
              ELSE UNCHANGED used

LapseJob(j) ==
  /\ jobs[j].lease = "held"
  /\ jobs' = [jobs EXCEPT ![j].lease = "lapsed"]
  /\ Slow(\E w \in Workers : Works(w, j))
  /\ UNCHANGED <<turns, targets, outbox, worker>>

LapseEvent(e) ==
  /\ outbox[e].lease = "held"
  /\ outbox' = [outbox EXCEPT ![e].lease = "lapsed"]
  /\ Slow(\E w \in Workers : e \in worker[w].event)
  /\ UNCHANGED <<turns, targets, jobs, worker>>

Work(w) ==
  Pick(w) \/ Claim(w) \/ Store(w) \/ Fail(w) \/ LeaseEvent(w) \/ Deliver(w) \/ MarkEvent(w)
Lapse == (\E j \in DOMAIN jobs : LapseJob(j)) \/ \E e \in Events : LapseEvent(e)

Next ==
  \/ Say \/ TargetChanges \/ Schedule \/ Lapse
  \/ \E w \in Workers : Work(w) \/ Crash(w)
  \/ \E e \in Events : Apply(e)

Spec == Init /\ [][Next]_vars

(* Workers loop, calls of the model end, and time passes.                  *)
LiveSpec == Spec /\ WF_vars(Lapse) /\ \A w \in Workers : WF_vars(Work(w))

-----------------------------------------------------------------------------
(* Properties.                                                             *)

TypeOK ==
  /\ turns \in 0..MaxTurns /\ targets \in 0..MaxChanges
  /\ \A j \in DOMAIN jobs :
       /\ jobs[j].state \in {"queued", "running", "succeeded", "failed"}
       /\ jobs[j].lease \in {"none", "held", "lapsed"}
       /\ jobs[j].lease # "none" <=> jobs[j].state = "running"
       /\ jobs[j].input.from <= jobs[j].input.to /\ jobs[j].input.to <= turns
  /\ \A e \in Events : outbox[e].state \in {"none", "queued", "done"}

(* The candidates of a job are stored once, however many workers ran it    *)
(* after its lease lapsed or it was requeued.                              *)
StoredOnce == \A j \in DOMAIN jobs : jobs[j].stored <= 1

(* A job that has succeeded stays so: no late failure, no second claim.    *)
SuccessIsFinal ==
  [][\A j \in DOMAIN jobs : jobs[j].state = "succeeded" => jobs'[j].state = "succeeded"]_vars

(* Every turn behind the cursor has been through a job that succeeded,     *)
(* although jobs over overlapping intervals end in any order.              *)
CursorIsProcessed ==
  \A t \in 1..Cursor : \E j \in DOMAIN jobs :
    jobs[j].stored > 0 /\ t \in jobs[j].input.from..jobs[j].input.to

(* An event that is done has reached the interview refresh.                *)
DoneIsRequested == \A e \in Events : outbox[e].state = "done" => outbox[e].requests > 0

(* What the runs check of the above in every state.                        *)
DiscussionInv == TypeOK /\ StoredOnce /\ CursorIsProcessed /\ DoneIsRequested

(* A queued job ends, and an event is delivered, whoever crashes with it.  *)
EveryJobEnds ==
  \A j \in 1..MaxSchedules :
    (j \in DOMAIN jobs) ~> (j \in DOMAIN jobs /\ jobs[j].state \in {"succeeded", "failed"})
EveryEventIsDelivered == \A e \in Events : (outbox[e].state = "queued") ~> (outbox[e].state = "done")
=============================================================================

--------------------------- MODULE ProbeTransport ---------------------------
(***************************************************************************)
(* The telemetry transport of the Python SDK (ControlClient): threads of   *)
(* the instrumented program hand over events without ever waiting, a       *)
(* bounded queue holds them, one daemon worker posts them, and a circuit   *)
(* breaker stops everything while the control server does not answer.      *)
(* Events that are not sent are counted, and the counters travel with the  *)
(* next post; a post that succeeds takes away only what it reported.       *)
(*                                                                         *)
(* A step is one critical section of self._lock, one call of the queue, or *)
(* one post.  Events carry no data here: the queue is its length.          *)
(***************************************************************************)
EXTENDS Integers, FiniteSets

CONSTANTS
  Callers,    \* threads of the program that hand over events
  Worker,     \* the daemon thread "probe-transport"
  QueueMax,   \* PROBE_SEND_QUEUE_MAX
  Threshold,  \* PROBE_BREAKER_FAILURE_THRESHOLD
  MaxEvents,  \* bound of the model on the events handed over
  LateDrain   \* may the cooldown end before the worker has emptied the queue?

ASSUME CallersAssumption == IsFiniteSet(Callers) /\ Worker \notin Callers
ASSUME SizeAssumption == QueueMax \in Nat \ {0} /\ Threshold \in Nat \ {0} /\ MaxEvents \in Nat
ASSUME LateAssumption == LateDrain \in BOOLEAN

Threads == Callers \cup {Worker}

VARIABLES
  state,        \* _state of the breaker
  cooled,       \* have reset_seconds passed since _opened_at?
  consecutive,  \* _consecutive_failures
  reserved,     \* _half_open_reserved
  counts,       \* _dropped_count and _failure_count, not acknowledged yet
  pending,      \* _pending, what flush() waits for
  queued,       \* length of _queue
  pc,           \* next step of each thread ("none": the worker is not started)
  drained,      \* events a thread has taken out of the queue to drop them
  summary,      \* the snapshot the worker attached to the post in flight
  total         \* history: what happened to every event so far

vars == <<state, cooled, consecutive, reserved, counts, pending, queued, pc, drained, summary,
          total>>
breaker == <<state, cooled, consecutive, reserved>>

Zero == [dropped |-> 0, failed |-> 0]
Goto(t, label) == pc' = [pc EXCEPT ![t] = label]
Atmost0(n) == IF n < 0 THEN 0 ELSE n     \* max(0, n)

Init ==
  /\ state = "closed" /\ cooled = FALSE /\ consecutive = 0 /\ reserved = FALSE
  /\ counts = Zero /\ summary = Zero
  /\ pending = 0 /\ queued = 0
  /\ pc = [t \in Threads |-> IF t = Worker THEN "none" ELSE "idle"]
  /\ drained = [t \in Threads |-> 0]
  /\ total = [offered |-> 0, posted |-> 0, reported |-> 0]

-----------------------------------------------------------------------------
(* A caller: _enqueue.                                                     *)

Cooling == state = "open" /\ ~cooled
Trial == state = "half_open" \/ (state = "open" /\ cooled)

(* _reserve_enqueue.  In half_open one event at a time may pass.           *)
Refuses == Cooling \/ (state = "half_open" /\ reserved)

Reserve(c) ==
  /\ pc[c] = "idle" /\ total.offered < MaxEvents
  /\ IF Refuses
     THEN /\ counts' = [counts EXCEPT !.dropped = @ + 1]
          /\ total' = [total EXCEPT !.offered = @ + 1]
          /\ UNCHANGED <<breaker, pc>>
     ELSE /\ state' = IF Trial THEN "half_open" ELSE state
          /\ reserved' = (Trial \/ reserved)
          /\ total' = [total EXCEPT !.offered = @ + 1]
          /\ Goto(c, "count")
          /\ UNCHANGED <<cooled, consecutive, counts>>
  /\ UNCHANGED <<pending, queued, drained, summary>>

(* The event is counted before the queue publishes it.                     *)
Count(c) ==
  /\ pc[c] = "count"
  /\ pending' = pending + 1
  /\ Goto(c, "put")
  /\ UNCHANGED <<breaker, counts, queued, drained, summary, total>>

Bug_HasRoom == queued <= QueueMax
HasRoom == queued < QueueMax

Put(c) ==
  /\ pc[c] = "put"
  /\ IF HasRoom
     THEN queued' = queued + 1 /\ Goto(c, "ensure")
     ELSE Goto(c, "release") /\ UNCHANGED queued
  /\ UNCHANGED <<breaker, counts, pending, drained, summary, total>>

(* queue.Full: _release_failed_reservation, whoever's reservation it is.   *)
ReleaseReservation == reserved /\ state # "half_open"

Release(c) ==
  /\ pc[c] = "release"
  /\ reserved' = ReleaseReservation
  /\ Goto(c, "uncount")
  /\ UNCHANGED <<state, cooled, consecutive, counts, pending, queued, drained, summary, total>>

Uncount(c) ==
  /\ pc[c] = "uncount"
  /\ pending' = Atmost0(pending - 1)
  /\ counts' = [counts EXCEPT !.dropped = @ + 1]
  /\ Goto(c, "idle")
  /\ UNCHANGED <<breaker, queued, drained, summary, total>>

(* _ensure_worker: starting the thread may fail; the queue is then emptied. *)
EnsureWorker(c) ==
  /\ pc[c] = "ensure"
  /\ \/ pc[Worker] # "none" /\ Goto(c, "idle")
     \/ pc[Worker] = "none" /\ pc' = [pc EXCEPT ![c] = "idle", ![Worker] = "get"]
     \/ pc[Worker] = "none" /\ Goto(c, "drain")
  /\ UNCHANGED <<breaker, counts, pending, queued, drained, summary, total>>

-----------------------------------------------------------------------------
(* _drain_queue_as_dropped, by the worker after the breaker opened or by a *)
(* caller whose worker did not start.                                      *)

AfterDrain(t) == IF t = Worker THEN "settle" ELSE "idle"

Drain(t) ==
  /\ pc[t] = "drain"
  /\ IF queued > 0
     THEN /\ queued' = queued - 1
          /\ drained' = [drained EXCEPT ![t] = @ + 1]
          /\ UNCHANGED pc
     ELSE /\ Goto(t, IF drained[t] > 0 THEN "account" ELSE AfterDrain(t))
          /\ UNCHANGED <<queued, drained>>
  /\ UNCHANGED <<breaker, counts, pending, summary, total>>

Bug_DrainedPending(t) == pending
DrainedPending(t) == Atmost0(pending - drained[t])

Account(t) ==
  /\ pc[t] = "account"
  /\ counts' = [counts EXCEPT !.dropped = @ + drained[t]]
  /\ pending' = DrainedPending(t)
  /\ drained' = [drained EXCEPT ![t] = 0]
  /\ Goto(t, AfterDrain(t))
  /\ UNCHANGED <<breaker, queued, summary, total>>

-----------------------------------------------------------------------------
(* The worker: _worker_loop.                                               *)

Get ==
  /\ pc[Worker] = "get" /\ queued > 0
  /\ queued' = queued - 1
  /\ Goto(Worker, "snapshot")
  /\ UNCHANGED <<breaker, counts, pending, drained, summary, total>>

Snapshot ==
  /\ pc[Worker] = "snapshot"
  /\ summary' = counts
  /\ Goto(Worker, "post")
  /\ UNCHANGED <<breaker, counts, pending, queued, drained, total>>

(* The post is answered with 2xx, or not: an error, a timeout, a lost answer. *)
Post ==
  /\ pc[Worker] = "post"
  /\ \E answered \in BOOLEAN : Goto(Worker, IF answered THEN "ack" ELSE "fail")
  /\ UNCHANGED <<breaker, counts, pending, queued, drained, summary, total>>

(* _ack_summary: only what this post reported is taken away.               *)
Bug_Acknowledged == Zero
Acknowledged == [dropped |-> Atmost0(counts.dropped - summary.dropped),
                 failed |-> Atmost0(counts.failed - summary.failed)]

Ack ==
  /\ pc[Worker] = "ack"
  /\ counts' = Acknowledged
  /\ summary' = Zero
  /\ total' = [total EXCEPT !.posted = @ + 1,
                            !.reported = @ + summary.dropped + summary.failed]
  /\ Goto(Worker, "close")
  /\ UNCHANGED <<breaker, pending, queued, drained>>

(* The rest of _record_success.                                            *)
Bug_Close ==
  /\ pc[Worker] = "close"
  /\ Goto(Worker, "settle")
  /\ UNCHANGED <<breaker, counts, pending, queued, drained, summary, total>>

Close ==
  /\ pc[Worker] = "close"
  /\ state' = "closed" /\ consecutive' = 0 /\ reserved' = FALSE
  /\ cooled' = FALSE
  /\ Goto(Worker, "settle")
  /\ UNCHANGED <<counts, pending, queued, drained, summary, total>>

(* _record_failure: the breaker opens under the lock, and the queue is     *)
(* emptied after the lock is released.  (More than Threshold failures in a *)
(* row are not told apart.)                                                *)
Bug_Opens == consecutive + 1 > Threshold
Opens == state = "half_open" \/ consecutive + 1 >= Threshold

Bug_AfterOpening == "settle"
AfterOpening == "drain"

RecordFailure ==
  /\ pc[Worker] = "fail"
  /\ counts' = [counts EXCEPT !.failed = @ + 1]
  /\ summary' = Zero
  /\ consecutive' = IF consecutive < Threshold THEN consecutive + 1 ELSE consecutive
  /\ IF Opens
     THEN /\ state' = "open" /\ cooled' = FALSE /\ reserved' = FALSE
          /\ Goto(Worker, AfterOpening)
     ELSE Goto(Worker, "settle") /\ UNCHANGED <<state, cooled, reserved>>
  /\ UNCHANGED <<pending, queued, drained, total>>

(* task_done, and flush() may return.                                      *)
Settle ==
  /\ pc[Worker] = "settle"
  /\ pending' = Atmost0(pending - 1)
  /\ Goto(Worker, "get")
  /\ UNCHANGED <<breaker, counts, queued, drained, summary, total>>

(* Time: reset_seconds after the breaker opened.  Emptying the queue takes *)
(* microseconds and reset_seconds is 0.1 s at least, but nothing in the    *)
(* code makes the cooldown wait for it.                                    *)
Draining == \E t \in Threads : pc[t] \in {"drain", "account"}

CooldownEnds ==
  /\ Cooling /\ (LateDrain \/ ~Draining)
  /\ cooled' = TRUE
  /\ UNCHANGED <<state, consecutive, reserved, counts, pending, queued, pc, drained, summary,
                 total>>

-----------------------------------------------------------------------------
Enqueue(c) == Count(c) \/ Put(c) \/ Release(c) \/ Uncount(c) \/ EnsureWorker(c)
Empty(t) == Drain(t) \/ Account(t)
Deliver == Get \/ Snapshot \/ Post \/ Ack \/ Close \/ RecordFailure \/ Settle

(* All events are handed over and dealt with.                              *)
Quiet ==
  /\ total.offered = MaxEvents /\ ~Cooling /\ queued = 0
  /\ \A c \in Callers : pc[c] = "idle"
  /\ pc[Worker] \in {"none", "get"}
  /\ UNCHANGED vars

Next ==
  \/ \E c \in Callers : Reserve(c) \/ Enqueue(c)
  \/ \E t \in Threads : Empty(t)
  \/ Deliver
  \/ CooldownEnds
  \/ Quiet

Spec == Init /\ [][Next]_vars

(* Threads that run are scheduled, a post ends by its timeout, and time    *)
(* passes.  Nobody has to hand over an event.                              *)
Fairness ==
  /\ \A c \in Callers : WF_vars(Enqueue(c) \/ Empty(c))
  /\ WF_vars(Deliver \/ Empty(Worker))
  /\ WF_vars(CooldownEnds)
LiveSpec == Spec /\ Fairness

-----------------------------------------------------------------------------
(* Properties.                                                             *)

CallersAt(labels) == Cardinality({c \in Callers : pc[c] \in labels})
Undecided == IF pc[Worker] \in {"snapshot", "post", "ack", "fail"} THEN 1 ELSE 0
InHand == IF pc[Worker] \in {"none", "get"} THEN 0 ELSE 1
Unaccounted == Cardinality({taken \in Threads \X (1..MaxEvents) : taken[2] <= drained[taken[1]]})

TypeOK ==
  /\ state \in {"closed", "open", "half_open"} /\ cooled \in BOOLEAN
  /\ consecutive \in 0..Threshold /\ reserved \in BOOLEAN
  /\ counts \in [dropped : 0..MaxEvents, failed : 0..MaxEvents]
  /\ summary \in [dropped : 0..MaxEvents, failed : 0..MaxEvents]
  /\ pending \in 0..MaxEvents /\ queued \in 0..QueueMax
  /\ pc[Worker] \in {"none", "get", "snapshot", "post", "ack", "close", "fail", "drain", "account",
                     "settle"}
  /\ \A c \in Callers : pc[c] \in {"idle", "count", "put", "release", "uncount", "ensure", "drain",
                                   "account"}

(* flush() returns True only when nothing that was handed over is still    *)
(* under way: _pending counts exactly the events between the count and the *)
(* worker's last word on them, whatever drains and failures do to the      *)
(* queue meanwhile (the max(0, ...) of the code never hides a miscount).   *)
PendingIsExact ==
  pending = CallersAt({"put", "release", "uncount"}) + queued + InHand + Unaccounted

(* No event vanishes and none is counted twice: each one handed over was  *)
(* posted, is on its way, or is in a counter as dropped or failed; and     *)
(* what a counter loses was reported by a post that succeeded, however     *)
(* many drops arrived while that post was in flight.                       *)
EveryEventIsAccounted ==
  total.offered = total.posted + total.reported + counts.dropped + counts.failed
                  + CallersAt({"count", "put", "release", "uncount"}) + queued + Undecided
                  + Unaccounted

(* While the breaker cools, each caller can have at most one event between *)
(* its reservation and the end of its post: the one it had reserved before *)
(* the breaker opened.  Everything else was thrown out of the queue.       *)
OutageLimitsTraffic ==
  Cooling /\ pc[Worker] # "drain"
    => CallersAt({"count", "put"}) + queued + Undecided <= Cardinality(Callers)

(* An outage opens the breaker: Threshold failures in a row never leave it *)
(* closed, whoever moves it to half_open and back meanwhile.               *)
OutageOpens == consecutive = Threshold => state # "closed"

(* What the runs check of the above in every state.                        *)
TransportInv ==
  TypeOK /\ PendingIsExact /\ EveryEventIsAccounted /\ OutageLimitsTraffic /\ OutageOpens

(* The single trial of a half-open breaker decides: the reservation never  *)
(* outlives the event it was made for, or the breaker would refuse         *)
(* everything for good.                                                    *)
TrialDecides == (state = "half_open" /\ reserved) ~> ~(state = "half_open" /\ reserved)

(* flush() comes back: what was handed over is eventually dealt with.      *)
FlushReturns == (pending > 0) ~> (pending = 0)
=============================================================================

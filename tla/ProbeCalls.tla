----------------------------- MODULE ProbeCalls -----------------------------
(***************************************************************************)
(* A probed function of the instrumented program, seen from its callers:   *)
(* the @probe wrapper looks up the component's policy in the PolicyCache   *)
(* (a fetch from the control server when the entry is older than its TTL), *)
(* runs the function, hands the trace to the transport and, in shadow      *)
(* mode, runs a candidate in a thread of its own.  flush() waits for these *)
(* threads.  Several threads call the function at the same time.           *)
(*                                                                         *)
(* One component; its policy is a version number, which the server raises. *)
(* What the transport does with an event is in ProbeTransport.             *)
(***************************************************************************)
EXTENDS Integers

CONSTANTS
  Callers,     \* threads of the program that call the function
  Ttl,         \* PROBE_POLICY_TTL
  MaxClock,    \* bound of the model on time
  MaxPolicy,   \* bound of the model on the server's policy changes
  MaxCalls     \* bound of the model on the calls of one thread (numbers, all of them)

Default == 0        \* the policy made of PROBE_DEFAULT_MODE
Failed == -1        \* get_policy returned None

VARIABLES
  clock,      \* time.monotonic()
  policy,     \* version the server holds
  replaced,   \* history: when the server replaced each version
  cache,      \* _cache and _fetched_at for the component
  call,       \* what each caller is doing
  calls,      \* calls made so far by each caller
  outcome,    \* history: what the last call of each caller gave back
  shadow,     \* the shadow thread of each caller's last shadowed call
  inflight,   \* _inflight
  flusher     \* the thread in flush(): its step and the threads it joins

vars == <<clock, policy, replaced, cache, call, calls, outcome, shadow, inflight, flusher>>
server == <<clock, policy, replaced>>
waiting == <<shadow, inflight, flusher>>

NoEntry == [held |-> FALSE, policy |-> Default, at |-> 0, kept |-> FALSE]
At(c, label) == call[c].pc = label
Goto(c, label) == call' = [call EXCEPT ![c].pc = label]

Init ==
  /\ clock = 0 /\ policy = 1 /\ replaced = [v \in 1..MaxPolicy |-> MaxClock + 1]
  /\ cache = NoEntry
  /\ call = [c \in Callers |-> [pc |-> "idle", now |-> 0, got |-> Failed, shadowed |-> FALSE]]
  /\ calls = [c \in Callers |-> 0]
  /\ outcome = [c \in Callers |-> "none"]
  /\ shadow = [c \in Callers |-> "none"]
  /\ inflight = {}
  /\ flusher = [pc |-> "idle", joins |-> {}, owed |-> {}]

-----------------------------------------------------------------------------
(* Around the program.                                                     *)

Tick ==
  /\ clock < MaxClock /\ clock' = clock + 1
  /\ UNCHANGED <<policy, replaced, cache, call, calls, outcome, waiting>>

ChangePolicy ==
  /\ policy < MaxPolicy
  /\ policy' = policy + 1
  /\ replaced' = [replaced EXCEPT ![policy] = clock]
  /\ UNCHANGED <<clock, cache, call, calls, outcome, waiting>>

(* PolicyCache.invalidate.                                                 *)
Invalidate ==
  /\ cache.held /\ cache' = NoEntry
  /\ UNCHANGED <<server, call, calls, outcome, waiting>>

-----------------------------------------------------------------------------
(* A call.  With the breaker open the function is run and nothing else.    *)

Begin(c) ==
  /\ At(c, "idle") /\ calls[c] < MaxCalls /\ shadow[c] \in {"none", "done"}
  /\ calls' = [calls EXCEPT ![c] = @ + 1]
  /\ outcome' = [outcome EXCEPT ![c] = "none"]
  /\ \/ Goto(c, "run_bare")
     \/ call' = [call EXCEPT ![c].pc = "lookup", ![c].now = clock]
  /\ UNCHANGED <<server, cache, waiting>>

(* PolicyCache.get: the entry is used while it is younger than its TTL.    *)
Fresh(now) == cache.held /\ now - cache.at < Ttl

Lookup(c) ==
  /\ At(c, "lookup")
  /\ Goto(c, IF Fresh(call[c].now) THEN "apply" ELSE "fetch")
  /\ UNCHANGED <<server, cache, calls, outcome, waiting>>

(* The request is answered, or fails; an answer that is no JSON object     *)
(* raises through get_policy, PolicyCache.get and the wrapper.             *)
Fetch(c) ==
  /\ At(c, "fetch")
  /\ \/ /\ \E got \in {policy, Failed} :
             call' = [call EXCEPT ![c].pc = "store", ![c].got = got]
        /\ UNCHANGED outcome
     \/ Goto(c, "idle") /\ outcome' = [outcome EXCEPT ![c] = "telemetry_error"]
  /\ UNCHANGED <<server, cache, calls, waiting>>

(* What was fetched is stored under the time the request was made, even    *)
(* if another thread has stored or invalidated the entry meanwhile.        *)
Bug_StoredAt(c) == clock
Bug_ExpiredAt(c) == call[c].now - Ttl
StoredAt(c) == call[c].now

Store(c) ==
  /\ At(c, "store")
  /\ cache' = IF call[c].got # Failed
              THEN [held |-> TRUE, policy |-> call[c].got, at |-> StoredAt(c), kept |-> FALSE]
              ELSE [held |-> TRUE, policy |-> cache.policy, at |-> StoredAt(c), kept |-> TRUE]
  /\ call' = [call EXCEPT ![c].pc = "apply", ![c].got = Failed]
  /\ UNCHANGED <<server, calls, outcome, waiting>>

(* The mode of the policy: off, trace, or shadow with a candidate.         *)
ApplyMode(c) ==
  /\ At(c, "apply")
  /\ \/ Goto(c, "run_bare")
     \/ \E shadowed \in BOOLEAN :
          call' = [call EXCEPT ![c].pc = "run", ![c].shadowed = shadowed]
  /\ UNCHANGED <<server, cache, calls, outcome, waiting>>

(* The function returns, or raises; the wrapper keeps either for the end.  *)
Run(c) ==
  /\ \E result \in {"returned", "raised"} : outcome' = [outcome EXCEPT ![c] = result]
  /\ \/ At(c, "run_bare") /\ Goto(c, "idle")
     \/ At(c, "run") /\ Goto(c, "send")
  /\ UNCHANGED <<server, cache, calls, waiting>>

(* send_trace, which never raises; no shadow run for a call that raised.   *)
Send(c) ==
  /\ At(c, "send")
  /\ Goto(c, IF call[c].shadowed /\ outcome[c] = "returned" THEN "spawn" ELSE "idle")
  /\ UNCHANGED <<server, cache, calls, outcome, waiting>>

(* _spawn_shadow: the thread is listed, then started, if the operating     *)
(* system has one left; if not, the caller gets the exception.             *)
Bug_Listed(c) == inflight
Listed(c) == inflight \cup {c}

List(c) ==
  /\ At(c, "spawn")
  /\ inflight' = Listed(c)
  /\ shadow' = [shadow EXCEPT ![c] = "listed"]
  /\ Goto(c, "start")
  /\ UNCHANGED <<server, cache, calls, outcome, flusher>>

Start(c) ==
  /\ At(c, "start")
  /\ \/ shadow' = [shadow EXCEPT ![c] = "running"] /\ UNCHANGED outcome
     \/ outcome' = [outcome EXCEPT ![c] = "telemetry_error"] /\ UNCHANGED shadow
  /\ Goto(c, "idle")
  /\ UNCHANGED <<server, cache, calls, inflight, flusher>>

-----------------------------------------------------------------------------
(* The shadow thread: the candidate runs, its result is handed to the      *)
(* transport, and the thread takes itself off the list.  A flush that      *)
(* joins it goes on.                                                       *)

Deliver(c) ==
  /\ shadow[c] = "running"
  /\ shadow' = [shadow EXCEPT ![c] = "sent"]
  /\ flusher' = [flusher EXCEPT !.owed = @ \ {c}]
  /\ UNCHANGED <<server, cache, call, calls, outcome, inflight>>

Finish(c) ==
  /\ shadow[c] = "sent"
  /\ shadow' = [shadow EXCEPT ![c] = "done"]
  /\ inflight' = inflight \ {c}
  /\ flusher' = [flusher EXCEPT !.joins = @ \ {c}]
  /\ UNCHANGED <<server, cache, call, calls, outcome>>

-----------------------------------------------------------------------------
(* flush(), called by another thread: join what is listed until nothing is *)
(* listed, then wait for the transport.                                    *)

FlushBegin ==
  /\ flusher.pc = "idle"
  /\ flusher' = [pc |-> "scan", joins |-> {}, owed |-> {c \in Callers : shadow[c] = "running"}]
  /\ UNCHANGED <<server, cache, call, calls, outcome, shadow, inflight>>

FlushScan ==
  /\ flusher.pc = "scan"
  /\ flusher' = [flusher EXCEPT !.pc = IF inflight = {} THEN "waited" ELSE "join",
                                !.joins = inflight]
  /\ UNCHANGED <<server, cache, call, calls, outcome, shadow, inflight>>

(* join() of a thread that is listed but not started raises.               *)
FlushJoin ==
  /\ flusher.pc = "join"
  /\ \/ flusher.joins = {} /\ flusher' = [flusher EXCEPT !.pc = "scan"]
     \/ /\ \E c \in flusher.joins : shadow[c] = "listed"
        /\ flusher' = [flusher EXCEPT !.pc = "raised"]
     \/ flusher' = [flusher EXCEPT !.pc = "timed_out"]
  /\ UNCHANGED <<server, cache, call, calls, outcome, shadow, inflight>>

-----------------------------------------------------------------------------
Wrapper(c) ==
  \/ Lookup(c) \/ Fetch(c) \/ Store(c) \/ ApplyMode(c) \/ Run(c) \/ Send(c)
  \/ List(c) \/ Start(c)
Shadow(c) == Deliver(c) \/ Finish(c)
Flush == FlushBegin \/ FlushScan \/ FlushJoin

Next ==
  \/ Tick \/ ChangePolicy \/ Invalidate
  \/ \E c \in Callers : Begin(c) \/ Wrapper(c) \/ Shadow(c)
  \/ Flush

Spec == Init /\ [][Next]_vars

-----------------------------------------------------------------------------
(* Properties.                                                             *)

TypeOK ==
  /\ clock \in 0..MaxClock /\ policy \in 1..MaxPolicy
  /\ cache \in [held : BOOLEAN, policy : 0..MaxPolicy, at : 0..MaxClock, kept : BOOLEAN]
  /\ \A c \in Callers :
       /\ call[c].pc \in {"idle", "lookup", "fetch", "store", "apply", "run", "run_bare", "send",
                          "spawn", "start"}
       /\ call[c].now \in 0..clock /\ call[c].got \in {Failed} \cup 1..MaxPolicy
       /\ shadow[c] \in {"none", "listed", "running", "sent", "done"}
       /\ outcome[c] \in {"none", "returned", "raised", "telemetry_error"}
  /\ inflight \subseteq Callers
  /\ flusher.joins \subseteq Callers /\ flusher.owed \subseteq Callers

(* A cached policy is never older than the cache believes: unless the last *)
(* fetch failed, the server still held it when its TTL began to run, so a  *)
(* call never applies a policy the server replaced more than a TTL ago,    *)
(* in whatever order the answers of concurrent fetches are stored.         *)
AgeIsNotUnderestimated ==
  cache.held /\ ~cache.kept => replaced[cache.policy] >= cache.at

(* flush() waits for the shadow threads: when it goes on to the transport, *)
(* every candidate that was running when it was called has handed over its *)
(* result.                                                                 *)
FlushCoversShadows == flusher.pc = "waited" => flusher.owed = {}

(* What the runs check of the above.                                       *)
CallsInv == TypeOK /\ AgeIsNotUnderestimated /\ FlushCoversShadows
=============================================================================

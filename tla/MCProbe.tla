------------------------------ MODULE MCProbe ------------------------------
(***************************************************************************)
(* Small instances of the two halves of the Python SDK.  They share        *)
(* nothing but the callers, so a behaviour is one of the transport or one  *)
(* of the calls, as `half' says, and the other half stays as it begins.    *)
(***************************************************************************)
EXTENDS ProbeTransport

CONSTANTS Ttl, MaxClock, MaxPolicy, MaxCalls

ASSUME ClockAssumption == MaxClock \in Nat /\ MaxPolicy \in Nat \ {0}

VARIABLES half, clock, policy, replaced, cache, call, calls, outcome, shadow, inflight, flusher

Calls == INSTANCE ProbeCalls
calling == <<clock, policy, replaced, cache, call, calls, outcome, shadow, inflight, flusher>>

MCInit == half \in {"transport", "calls"} /\ Init /\ Calls!Init

Transports == half = "transport" /\ Next /\ UNCHANGED <<half, calling>>
CallsOrRests ==
  /\ half = "calls" /\ UNCHANGED <<half, vars>>
  /\ Calls!Next \/ UNCHANGED calling

MCSpec ==
  /\ MCInit /\ [][Transports \/ CallsOrRests]_<<half, vars, calling>>
  /\ \A c \in Callers : WF_vars(half = "transport" /\ (Enqueue(c) \/ Empty(c)))
  /\ WF_vars(half = "transport" /\ (Deliver \/ Empty(Worker)))
  /\ WF_vars(half = "transport" /\ CooldownEnds)

(* No probed call applies a policy the server replaced more than a TTL     *)
(* ago, and flush() waits for every candidate that runs (ProbeCalls).      *)
CallsInv == Calls!CallsInv
=============================================================================

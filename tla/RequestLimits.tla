---------------------------- MODULE RequestLimits ----------------------------
(***************************************************************************)
(* The two limits a posted trace meets: the fixed-window rate of its API   *)
(* token, counted in the memory of the process, and the storage quota of   *)
(* its System, checked in the transaction that stores it.                  *)
(*                                                                         *)
(* A call reads the number of the present window, then waits for the lock  *)
(* of the limiter, then posts in one transaction.                          *)
(***************************************************************************)
EXTENDS Naturals, FiniteSets, Folds

CONSTANTS
  Tokens,     \* keys of the limiter
  Threads,    \* request threads
  Traces,     \* trace ids
  Sizes,      \* estimated sizes of a trace
  Legacy,     \* traces stored before they were scanned, by their sizes
  Limit,      \* calls of a token in a window
  MaxKeys,    \* windows the limiter remembers
  MaxRows, MaxBytes,                  \* storage quota
  MaxWindow, MaxCalls, MaxRescans     \* bounds

ASSUME LimitsAssumption == {Limit, MaxKeys, MaxRows} \subseteq Nat \ {0}
ASSUME QuotaAssumption ==
  /\ {MaxBytes, MaxWindow, MaxCalls, MaxRescans} \cup Sizes \subseteq Nat
  /\ DOMAIN Legacy \subseteq Traces

VARIABLES
  clock,     \* number of the present window
  windows,   \* _windows: the window and the count of each remembered key
  call,      \* what each thread does, for which key, in which window it believes to be
  stored,    \* traces: the stored ids and their sizes
  status,    \* trace_quota_status: "none", "accepted" or "rejected"
  admitted,  \* calls admitted, by key and by the window they were counted in
  late,      \* how many were admitted after their window had ended
  used       \* how often each bounded action happened

limiter == <<windows, admitted, late>>
vars == <<clock, windows, call, stored, status, admitted, late, used>>

Idle == [pc |-> "idle"]

Init ==
  /\ clock = 0 /\ windows = <<>> /\ late = 0
  /\ call = [t \in Threads |-> Idle]
  /\ stored = Legacy /\ status = "none"
  /\ admitted = [k \in Tokens |-> [n \in 0..MaxWindow |-> 0]]
  /\ used = [calls |-> 0, rescans |-> 0]

Count(what) == used' = [used EXCEPT ![what] = @ + 1]

Tick == clock < MaxWindow /\ clock' = clock + 1 /\ UNCHANGED <<limiter, call, stored, status, used>>

-----------------------------------------------------------------------------
(* FixedWindowLimiter.allow()                                              *)

ReadClock(t) ==
  /\ call[t].pc = "idle" /\ used.calls < MaxCalls /\ Count("calls")
  /\ \E k \in Tokens : call' = [call EXCEPT ![t] = [pc |-> "lock", key |-> k, number |-> clock]]
  /\ UNCHANGED <<clock, limiter, stored, status>>

(* At the limit on keys, a new key drops the windows that are not its own. *)
Full == Cardinality(DOMAIN windows) >= MaxKeys
Kept(k, n) ==
  IF k \notin DOMAIN windows /\ Full
  THEN [l \in {l \in DOMAIN windows : windows[l].number = n} |-> windows[l]]
  ELSE windows

Counts(k, n) == k \in DOMAIN windows /\ windows[k].number = n

Bug_Allows(k, n) == Counts(k, n) => windows[k].count <= Limit
Allows(k, n) ==
  IF Counts(k, n) THEN windows[k].count < Limit
  ELSE k \in DOMAIN windows \/ Cardinality(DOMAIN Kept(k, n)) < MaxKeys

Bug_Remember(k, n) == [l \in DOMAIN windows \cup {k} |->
  IF l = k THEN [number |-> n, count |-> IF Counts(k, n) THEN windows[k].count + 1 ELSE 1] ELSE windows[l]]
Remember(k, n) == [l \in DOMAIN Kept(k, n) \cup {k} |->
  IF l = k THEN [number |-> n, count |-> IF Counts(k, n) THEN windows[k].count + 1 ELSE 1] ELSE windows[l]]

Admit(t) ==
  LET k == call[t].key  n == call[t].number IN
  /\ call[t].pc = "lock" /\ Allows(k, n)
  /\ windows' = Remember(k, n)
  /\ admitted' = [admitted EXCEPT ![k][n] = @ + 1]
  /\ late' = IF n < clock THEN late + 1 ELSE late
  /\ call' = [call EXCEPT ![t] = [pc |-> "store"]]
  /\ UNCHANGED <<clock, stored, status, used>>

Refuse(t) ==
  LET k == call[t].key  n == call[t].number IN
  /\ call[t].pc = "lock" /\ ~Allows(k, n)
  /\ windows' = Kept(k, n)
  /\ call' = [call EXCEPT ![t] = Idle]
  /\ UNCHANGED <<clock, admitted, late, stored, status, used>>

-----------------------------------------------------------------------------
(* post_trace(): a trace is new or replaces the one with its id.           *)

Bytes(rows) ==
  MapThenFoldSet(LAMBDA a, b : a + b, 0, LAMBDA id : rows[id], LAMBDA s : CHOOSE x \in s : TRUE, DOMAIN rows)
With(id, size) == [i \in DOMAIN stored \cup {id} |-> IF i = id THEN size ELSE stored[i]]

Fits(rows) == Cardinality(DOMAIN rows) <= MaxRows /\ Bytes(rows) <= MaxBytes

(* What was stored before the scan was once posted within the quota.       *)
ASSUME LegacyAssumption == Fits(Legacy)

Store(t) ==
  /\ call[t].pc = "store"
  /\ \E id \in Traces, size \in Sizes :
       IF Fits(With(id, size))
       THEN stored' = With(id, size) /\ status' = "accepted"
       ELSE status' = "rejected" /\ UNCHANGED stored
  /\ call' = [call EXCEPT ![t] = Idle]
  /\ UNCHANGED <<clock, limiter, used>>

(* trace_redaction_rescan(): what was stored unscanned is rewritten and    *)
(* gets the summary of the scan.                                           *)
Rescan ==
  /\ used.rescans < MaxRescans /\ Count("rescans")
  /\ \E size \in [DOMAIN Legacy \cap DOMAIN stored -> Sizes] :
       stored' = [id \in DOMAIN stored |-> IF id \in DOMAIN size /\ stored[id] = Legacy[id] THEN size[id] ELSE stored[id]]
  /\ UNCHANGED <<clock, limiter, call, status>>

Next == Tick \/ Rescan \/ \E t \in Threads : ReadClock(t) \/ Admit(t) \/ Refuse(t) \/ Store(t)

Spec == Init /\ [][Next]_vars

-----------------------------------------------------------------------------
(* Every variable has its type.                                            *)
TypeOK ==
  /\ clock \in 0..MaxWindow /\ status \in {"none", "accepted", "rejected"} /\ late \in Nat
  /\ DOMAIN windows \subseteq Tokens
  /\ \A k \in DOMAIN windows : windows[k] \in [number : 0..clock, count : 1..Limit]
  /\ DOMAIN stored \subseteq Traces

(* The memory of the limiter is bounded, also when late calls bring keys.  *)
KeysAreBounded == Cardinality(DOMAIN windows) <= MaxKeys

(* A window admits a token its limit, and at most that again for every     *)
(* call that came to the lock after its own window had ended.              *)
OverrunIsBounded == \A k \in Tokens : \A n \in 0..MaxWindow : admitted[k][n] <= Limit * (1 + late)

(* A System never stores more rows than its quota, however often traces    *)
(* are posted again, and posts leave it within its bytes.                  *)
RowsWithin == Cardinality(DOMAIN stored) <= MaxRows /\ (used.rescans = 0 => Bytes(stored) <= MaxBytes)

(* What the runs check of the above.                                       *)
LimitsInv == TypeOK /\ KeysAreBounded /\ OverrunIsBounded /\ RowsWithin
=============================================================================

----------------------------- MODULE ProbeProofs -----------------------------
(***************************************************************************)
(* Proofs about the Python SDK, for any number of threads, events, queue   *)
(* places and policies.                                                    *)
(*                                                                         *)
(* ProbeTransport counts by cardinalities: callers at labels, and events   *)
(* taken out of the queue (Taken).  A step moves one caller or the worker, *)
(* so each number changes by what the one that moves weighs (In).  What    *)
(* makes the two equations inductive is that the counters never fall below *)
(* what the post in flight reports (only the worker takes away from them), *)
(* so no max(0, ...) ever cuts anything off.                               *)
(*                                                                         *)
(* ProbeCalls needs that the answer a caller is about to store was still   *)
(* the server's when its request was made, and that a candidate's thread   *)
(* is listed before it runs and until it has handed over its result.       *)
(***************************************************************************)
EXTENDS MCProbe, FiniteSetTheorems, TLAPS

(* The transport: counters never lag behind what a post in flight reports, *)
(* and an event the worker has dealt with is posted or counted as failed.  *)
Counters == [dropped : Nat, failed : Nat]
WorkerLabels == {"none", "get", "snapshot", "post", "ack", "close", "fail", "drain", "account", "settle"}
CallerLabels == {"idle", "count", "put", "release", "uncount", "ensure", "drain", "account"}

TransportTyped ==
  /\ state \in {"closed", "open", "half_open"} /\ cooled \in BOOLEAN
  /\ consecutive \in 0..Threshold /\ reserved \in BOOLEAN
  /\ counts \in Counters /\ summary \in Counters /\ pending \in Nat /\ queued \in 0..QueueMax
  /\ pc \in [Threads -> WorkerLabels \cup CallerLabels]
  /\ pc[Worker] \in WorkerLabels /\ \A c \in Callers : pc[c] \in CallerLabels
  /\ drained \in [Threads -> 0..MaxEvents]
  /\ total \in [offered : 0..MaxEvents, posted : Nat, reported : Nat]

ReportedIsCounted == summary.dropped <= counts.dropped /\ summary.failed <= counts.failed

DealtWith == pc[Worker] \in {"close", "drain", "account", "settle"} => total.posted + counts.failed >= 1

TransportIInv ==
  /\ TransportTyped /\ PendingIsExact /\ EveryEventIsAccounted /\ OutageLimitsTraffic /\ OutageOpens
  /\ ReportedIsCounted /\ DealtWith

(* The calls: a policy that is about to be stored was still the server's   *)
(* when its request was made, and a candidate that runs is listed.         *)
CallRows ==
  [pc : {"idle", "lookup", "fetch", "store", "apply", "run", "run_bare", "send", "spawn", "start"},
   now : Nat, got : {-1} \cup 1..MaxPolicy, shadowed : BOOLEAN]
Shadows == {"none", "listed", "running", "sent", "done"}

CallsTyped ==
  /\ clock \in 0..MaxClock /\ policy \in 1..MaxPolicy /\ replaced \in [1..MaxPolicy -> Nat]
  /\ cache \in [held : BOOLEAN, policy : 0..MaxPolicy, at : 0..MaxClock, kept : BOOLEAN]
  /\ call \in [Callers -> CallRows] /\ \A c \in Callers : call[c].now <= clock
  /\ calls \in [Callers -> Nat]
  /\ outcome \in [Callers -> {"none", "returned", "raised", "telemetry_error"}]
  /\ shadow \in [Callers -> Shadows] /\ inflight \in SUBSET Callers
  /\ flusher \in [pc : {"idle", "scan", "join", "waited", "raised", "timed_out"},
                  joins : SUBSET Callers, owed : SUBSET Callers]

CacheOK ==
  /\ cache.at <= clock
  /\ cache.held /\ ~cache.kept => cache.policy # 0 /\ replaced[cache.policy] >= cache.at

CallOK(c) ==
  /\ call[c].pc = "store" /\ call[c].got # -1 => replaced[call[c].got] >= call[c].now
  /\ call[c].pc \notin {"idle", "start"} => shadow[c] \in {"none", "done"}
  /\ call[c].pc = "start" => shadow[c] = "listed"
  /\ shadow[c] \in {"listed", "running"} => c \in inflight

CallsIInv ==
  /\ CallsTyped /\ CacheOK
  /\ \A v \in 1..MaxPolicy : v >= policy => replaced[v] = MaxClock + 1
  /\ \A c \in Callers : CallOK(c)
  /\ \A c \in flusher.owed : shadow[c] = "running"
  /\ flusher.pc = "waited" => flusher.owed = {}
-----------------------------------------------------------------------------
(* Counting callers at labels, and events taken out of the queue.          *)

In(x, S) == IF x \in S THEN 1 ELSE 0

LEMMA CountedCallers ==
  ASSUME NEW p, NEW L
  PROVE  LET at == {c \in Callers : p[c] \in L} IN
         IsFiniteSet(at) /\ Cardinality(at) \in Nat /\ Cardinality(at) <= Cardinality(Callers)
<1>. DEFINE at == {c \in Callers : p[c] \in L}
<1>1. IsFiniteSet(Callers) /\ at \in SUBSET Callers  BY CallersAssumption
<1>. HIDE DEF at
<1>2. IsFiniteSet(at) /\ Cardinality(at) <= Cardinality(Callers)  BY <1>1, FS_Subset
<1>3. Cardinality(at) \in Nat  BY <1>2, FS_CardinalityType
<1>4. QED  BY <1>2, <1>3 DEF at

LEMMA CountOneMove ==
  ASSUME NEW before \in SUBSET Callers, NEW after \in SUBSET Callers, NEW c \in Callers, after \ {c} = before \ {c}
  PROVE  Cardinality(after) + In(c, before) = Cardinality(before) + In(c, after)
<1>. DEFINE rest == before \ {c}
<1>1. IsFiniteSet(Callers) /\ rest \in SUBSET Callers /\ c \notin rest  BY CallersAssumption
<1>2. IsFiniteSet(rest) /\ Cardinality(rest) \in Nat  BY <1>1, FS_Subset, FS_CardinalityType
<1>3. IsFiniteSet(rest \cup {c}) /\ Cardinality(rest \cup {c}) = Cardinality(rest) + 1
  BY <1>1, <1>2, FS_AddElement
<1>4. (c \in before => before = rest \cup {c}) /\ (c \notin before => before = rest)  OBVIOUS
<1>5. (c \in after => after = rest \cup {c}) /\ (c \notin after => after = rest)  OBVIOUS
<1>. HIDE DEF rest
<1>6. Cardinality(before) = Cardinality(rest) + In(c, before)
  <2>1. CASE c \in before  BY <1>2, <1>3, <1>4, <2>1 DEF In
  <2>2. CASE c \notin before  BY <1>2, <1>4, <2>2 DEF In
  <2>3. QED  BY <2>1, <2>2
<1>7. Cardinality(after) = Cardinality(rest) + In(c, after)
  <2>1. CASE c \in after  BY <1>2, <1>3, <1>5, <2>1 DEF In
  <2>2. CASE c \notin after  BY <1>2, <1>5, <2>2 DEF In
  <2>3. QED  BY <2>1, <2>2
<1>8. QED  BY <1>2, <1>6, <1>7 DEF In

(* Sets of pairs, and the sizes of disjoint sets.                          *)
LEMMA SamePairs ==
  \A A, B \in SUBSET (Threads \X (1..MaxEvents)) :
    (\A x \in Threads, k \in 1..MaxEvents : <<x, k>> \in A <=> <<x, k>> \in B) => A = B
<1>1. ASSUME NEW A \in SUBSET (Threads \X (1..MaxEvents)), NEW B \in SUBSET (Threads \X (1..MaxEvents)),
             \A x \in Threads, k \in 1..MaxEvents : <<x, k>> \in A <=> <<x, k>> \in B
      PROVE  A = B
  <2>1. \A z \in Threads \X (1..MaxEvents) : z = <<z[1], z[2]>> /\ z[1] \in Threads /\ z[2] \in 1..MaxEvents
    OBVIOUS
  <2>2. \A z \in Threads \X (1..MaxEvents) : z \in A <=> z \in B  BY <1>1, <2>1
  <2>3. QED  BY <2>2
<1>2. QED  BY <1>1

LEMMA DisjointSizes ==
  ASSUME NEW A, NEW B, IsFiniteSet(A), IsFiniteSet(B), A \cap B = {}
  PROVE  Cardinality(A \cup B) = Cardinality(A) + Cardinality(B)
<1>1. Cardinality(A) \in Nat /\ Cardinality(B) \in Nat  BY FS_CardinalityType
<1>2. Cardinality(A \cup B) = Cardinality(A) + Cardinality(B) - Cardinality(A \cap B)  BY FS_Union
<1>3. Cardinality(A \cap B) = 0  BY FS_EmptySet
<1>4. QED  BY <1>1, <1>2, <1>3

LEMMA ColumnSize ==
  ASSUME NEW A, NEW B, IsFiniteSet(A), IsFiniteSet(B), Cardinality(A) = 1
  PROVE  IsFiniteSet(A \X B) /\ Cardinality(A \X B) = Cardinality(B)
<1>1. Cardinality(B) \in Nat  BY FS_CardinalityType
<1>2. IsFiniteSet(A \X B) /\ Cardinality(A \X B) = Cardinality(A) * Cardinality(B)  BY FS_Product
<1>3. QED  BY <1>1, <1>2

(* How many events the threads have taken out, as their counters say.      *)
Taken(d) == {taken \in Threads \X (1..MaxEvents) : taken[2] <= d[taken[1]]}

LEMMA TakenIsFinite ==
  ASSUME NEW d
  PROVE  IsFiniteSet(Taken(d)) /\ Cardinality(Taken(d)) \in Nat
<1>1. IsFiniteSet(Threads)  BY CallersAssumption, FS_AddElement DEF Threads
<1>2. IsFiniteSet(1..MaxEvents)  BY SizeAssumption, FS_Interval
<1>3. IsFiniteSet(Threads \X (1..MaxEvents))  BY <1>1, <1>2, FS_Product
<1>4. Taken(d) \in SUBSET (Threads \X (1..MaxEvents))  BY DEF Taken
<1>5. QED  BY <1>3, <1>4, FS_Subset, FS_CardinalityType

(* What one thread has taken.                                              *)
LEMMA TakenByOne ==
  ASSUME NEW t, NEW n \in Nat
  PROVE  IsFiniteSet({t} \X (1..n)) /\ Cardinality({t} \X (1..n)) = n
<1>1. IsFiniteSet({t}) /\ Cardinality({t}) = 1  BY FS_Singleton
<1>2. IsFiniteSet(1..n) /\ Cardinality(1..n) = n  BY FS_Interval
<1>3. IsFiniteSet({t} \X (1..n)) /\ Cardinality({t} \X (1..n)) = Cardinality(1..n)
  BY <1>1, <1>2, ColumnSize
<1>4. QED  BY <1>2, <1>3

LEMMA TakenAtLeast ==
  ASSUME NEW d \in [Threads -> 0..MaxEvents], NEW t \in Threads
  PROVE  d[t] <= Cardinality(Taken(d))
<1>1. d[t] \in Nat /\ d[t] <= MaxEvents  BY SizeAssumption
<1>2. {t} \X (1..d[t]) \in SUBSET Taken(d)  BY <1>1, SizeAssumption DEF Taken
<1>3. Cardinality({t} \X (1..d[t])) = d[t]  BY <1>1, TakenByOne
<1>4. Cardinality({t} \X (1..d[t])) <= Cardinality(Taken(d))  BY <1>2, TakenIsFinite, FS_Subset
<1>5. QED  BY <1>3, <1>4

LEMMA TakeOne ==
  ASSUME NEW d \in [Threads -> 0..MaxEvents], NEW t \in Threads, d[t] < MaxEvents,
         NEW e, e = [d EXCEPT ![t] = @ + 1]
  PROVE  Cardinality(Taken(e)) = Cardinality(Taken(d)) + 1
<1>1. d[t] \in Nat /\ d[t] + 1 \in 1..MaxEvents  BY SizeAssumption
<1>2. \A x \in Threads, k \in 1..MaxEvents : k <= e[x] <=> (k <= d[x] \/ (x = t /\ k = d[t] + 1))
  <2>1. \A x \in Threads : e[x] = IF x = t THEN d[t] + 1 ELSE d[x]  OBVIOUS
  <2>2. QED  BY <1>1, <2>1
<1>3. Taken(e) = Taken(d) \cup {<<t, d[t] + 1>>} /\ <<t, d[t] + 1>> \notin Taken(d)
  <2>1. PICK k \in 1..MaxEvents : k = d[t] + 1  BY <1>1
  <2>2. \A x \in Threads, i \in 1..MaxEvents :
          /\ <<x, i>> \in Taken(d) <=> i <= d[x]
          /\ <<x, i>> \in Taken(e) <=> i <= e[x]
    BY DEF Taken
  <2>3. Taken(d) \subseteq Threads \X (1..MaxEvents) /\ Taken(e) \subseteq Threads \X (1..MaxEvents)
    BY DEF Taken
  <2>4. <<t, k>> \in Threads \X (1..MaxEvents) /\ ~(k <= d[t])  BY <1>1, <2>1
  <2>5. \A x \in Threads, i \in 1..MaxEvents : i <= e[x] <=> (i <= d[x] \/ <<x, i>> = <<t, k>>)
    BY <1>2, <2>1
  <2>. DEFINE more == Taken(d) \cup {<<t, k>>}
  <2>6. more \in SUBSET (Threads \X (1..MaxEvents)) /\ Taken(e) \in SUBSET (Threads \X (1..MaxEvents))
    BY <2>3, <2>4
  <2>7. \A x \in Threads, i \in 1..MaxEvents : <<x, i>> \in Taken(e) <=> <<x, i>> \in more
    BY <2>2, <2>5
  <2>. HIDE DEF more
  <2>8. Taken(e) = more  BY <2>6, <2>7, SamePairs
  <2>9. <<t, k>> \notin Taken(d)  BY <2>2, <2>4
  <2>10. QED  BY <2>1, <2>8, <2>9 DEF more
<1>4. QED  BY <1>3, TakenIsFinite, FS_AddElement

LEMMA TakeNone ==
  ASSUME NEW d \in [Threads -> 0..MaxEvents], NEW t \in Threads, NEW e, e = [d EXCEPT ![t] = 0]
  PROVE  Cardinality(Taken(e)) = Cardinality(Taken(d)) - d[t]
<1>. DEFINE mine == {t} \X (1..d[t])
<1>1. d[t] \in Nat /\ d[t] <= MaxEvents  BY SizeAssumption
<1>2. \A x \in Threads, k \in 1..MaxEvents : k <= e[x] <=> (k <= d[x] /\ x # t)
  BY SizeAssumption
<1>3. Taken(d) = Taken(e) \cup mine /\ Taken(e) \cap mine = {}
  <2>1. \A x \in Threads, k \in 1..MaxEvents :
          /\ <<x, k>> \in Taken(d) <=> k <= d[x]
          /\ <<x, k>> \in Taken(e) <=> k <= e[x]
          /\ <<x, k>> \in mine <=> x = t /\ k <= d[t]
    BY <1>1 DEF Taken
  <2>2. Taken(d) \subseteq Threads \X (1..MaxEvents) /\ Taken(e) \subseteq Threads \X (1..MaxEvents)
    BY DEF Taken
  <2>3. mine \subseteq Threads \X (1..MaxEvents)  BY <1>1, SizeAssumption
  <2>. HIDE DEF mine
  <2>. DEFINE both == Taken(e) \cup mine
  <2>4. both \in SUBSET (Threads \X (1..MaxEvents)) /\ Taken(d) \in SUBSET (Threads \X (1..MaxEvents))
    BY <2>2, <2>3
  <2>5. \A x \in Threads, k \in 1..MaxEvents : <<x, k>> \in Taken(d) <=> <<x, k>> \in both
    BY <1>2, <2>1
  <2>. HIDE DEF both
  <2>6. Taken(d) = both  BY <2>4, <2>5, SamePairs
  <2>. DEFINE shared == Taken(e) \cap mine
              none == {}
  <2>7. shared \in SUBSET (Threads \X (1..MaxEvents)) /\ none \in SUBSET (Threads \X (1..MaxEvents))
    BY <2>2
  <2>8. \A x \in Threads, k \in 1..MaxEvents : <<x, k>> \in shared <=> <<x, k>> \in none
    BY <1>2, <2>1
  <2>9. shared = none
    <3>. HIDE DEF shared, none
    <3>1. QED  BY <2>7, <2>8, SamePairs
  <2>10. QED  BY <2>6, <2>9 DEF both
<1>4. IsFiniteSet(mine) /\ Cardinality(mine) = d[t]  BY <1>1, TakenByOne
<1>. HIDE DEF mine
<1>5. Cardinality(Taken(d)) = Cardinality(Taken(e)) + d[t]
  BY <1>3, <1>4, TakenIsFinite, DisjointSizes
<1>6. QED  BY <1>1, <1>5, TakenIsFinite

-----------------------------------------------------------------------------
(* The steps of the transport.                                             *)

Uncounted == {"put", "release", "uncount"}
Handing == {"count", "put", "release", "uncount"}
Entering == {"count", "put"}

LEMMA TransportFacts ==
  ASSUME TransportIInv
  PROVE  /\ TransportTyped /\ counts \in Counters /\ summary \in Counters /\ pending \in Nat /\ queued \in Nat
         /\ counts.dropped \in Nat /\ counts.failed \in Nat /\ summary.dropped \in Nat /\ summary.failed \in Nat
         /\ total.offered \in Nat /\ total.offered <= MaxEvents /\ total.posted \in Nat /\ total.reported \in Nat
         /\ MaxEvents \in Nat /\ QueueMax \in Nat /\ queued <= QueueMax /\ Cardinality(Callers) \in Nat
         /\ CallersAt(Uncounted) \in Nat /\ CallersAt(Handing) \in Nat /\ CallersAt(Entering) \in Nat
         /\ CallersAt(Entering) <= Cardinality(Callers) /\ Unaccounted \in Nat /\ Unaccounted = Cardinality(Taken(drained))
         /\ \A t \in Threads : drained[t] \in Nat /\ drained[t] <= Unaccounted /\ drained[t] <= MaxEvents
         /\ pending = CallersAt(Uncounted) + queued + InHand + Unaccounted
         /\ total.offered = total.posted + total.reported + counts.dropped + counts.failed
                            + CallersAt(Handing) + queued + Undecided + Unaccounted
<1>1. /\ TransportTyped /\ counts \in Counters /\ summary \in Counters /\ pending \in Nat /\ queued \in 0..QueueMax
      /\ total \in [offered : 0..MaxEvents, posted : Nat, reported : Nat] /\ drained \in [Threads -> 0..MaxEvents]
  BY DEF TransportIInv, TransportTyped
<1>2. /\ counts.dropped \in Nat /\ counts.failed \in Nat /\ summary.dropped \in Nat /\ summary.failed \in Nat
      /\ total.offered \in 0..MaxEvents /\ total.posted \in Nat /\ total.reported \in Nat
  BY <1>1 DEF Counters
<1>3. /\ CallersAt(Uncounted) \in Nat /\ CallersAt(Handing) \in Nat /\ CallersAt(Entering) \in Nat
      /\ CallersAt(Entering) <= Cardinality(Callers)
  BY CountedCallers DEF CallersAt
<1>4. Cardinality(Callers) \in Nat  BY CallersAssumption, FS_CardinalityType
<1>5. Unaccounted = Cardinality(Taken(drained)) /\ Unaccounted \in Nat
  BY TakenIsFinite DEF Unaccounted, Taken
<1>6. \A t \in Threads : drained[t] \in Nat /\ drained[t] <= Unaccounted /\ drained[t] <= MaxEvents
  <2>1. \A t \in Threads : drained[t] <= Cardinality(Taken(drained))  BY <1>1, TakenAtLeast
  <2>2. \A t \in Threads : drained[t] \in 0..MaxEvents  BY <1>1
  <2>3. QED  BY <1>5, <2>1, <2>2, SizeAssumption
<1>7. /\ pending = CallersAt(Uncounted) + queued + InHand + Unaccounted
      /\ total.offered = total.posted + total.reported + counts.dropped + counts.failed
                         + CallersAt(Handing) + queued + Undecided + Unaccounted
  BY DEF TransportIInv, PendingIsExact, EveryEventIsAccounted, Uncounted, Handing
<1>8. QED  BY <1>1, <1>2, <1>3, <1>4, <1>5, <1>6, <1>7, SizeAssumption

(* The same numbers after a step.                                          *)
LEMMA TransportHolds ==
  ASSUME TransportTyped', OutageOpens', ReportedIsCounted', DealtWith',
         pending' = CallersAt(Uncounted)' + queued' + InHand' + Unaccounted',
         total'.offered = total'.posted + total'.reported + counts'.dropped + counts'.failed
                          + CallersAt(Handing)' + queued' + Undecided' + Unaccounted',
         Cooling' /\ pc'[Worker] # "drain" => CallersAt(Entering)' + queued' + Undecided' <= Cardinality(Callers)
  PROVE  TransportIInv'
BY DEF TransportIInv, PendingIsExact, EveryEventIsAccounted, OutageLimitsTraffic, Uncounted, Handing, Entering

(* A caller moves to another label; only the callers there are counted.    *)
LEMMA CallerMoves ==
  ASSUME NEW c \in Callers, NEW label \in CallerLabels, TransportTyped,
         \/ pc' = [pc EXCEPT ![c] = label]
         \/ pc' = [pc EXCEPT ![c] = label, ![Worker] = "get"]
  PROVE  /\ \A d \in Callers \ {c} : pc'[d] = pc[d] /\ pc[d] \in CallerLabels
         /\ pc'[c] = label /\ pc' \in [Threads -> WorkerLabels \cup CallerLabels]
         /\ pc'[Worker] = pc[Worker] \/ pc'[Worker] = "get"
         /\ pc' = [pc EXCEPT ![c] = label] => pc'[Worker] = pc[Worker]
         /\ pc'[Worker] \in WorkerLabels /\ \A d \in Callers : pc'[d] \in CallerLabels
         /\ CallersAt(Uncounted)' \in Nat /\ CallersAt(Handing)' \in Nat /\ CallersAt(Entering)' \in Nat
         /\ CallersAt(Uncounted)' + In(pc[c], Uncounted) = CallersAt(Uncounted) + In(label, Uncounted)
         /\ CallersAt(Handing)' + In(pc[c], Handing) = CallersAt(Handing) + In(label, Handing)
         /\ CallersAt(Entering)' + In(pc[c], Entering) = CallersAt(Entering) + In(label, Entering)
<1>1. /\ pc \in [Threads -> WorkerLabels \cup CallerLabels] /\ c \in Threads /\ Worker \in Threads /\ c # Worker
      /\ pc[Worker] \in WorkerLabels /\ \A d \in Callers : d \in Threads /\ d # Worker /\ pc[d] \in CallerLabels
  BY CallersAssumption DEF TransportTyped, Threads
<1>2. /\ \A d \in Callers \ {c} : pc'[d] = pc[d] /\ pc[d] \in CallerLabels
      /\ pc'[c] = label /\ pc' \in [Threads -> WorkerLabels \cup CallerLabels]
      /\ pc'[Worker] = pc[Worker] \/ pc'[Worker] = "get"
      /\ pc' = [pc EXCEPT ![c] = label] => pc'[Worker] = pc[Worker]
      /\ pc'[Worker] \in WorkerLabels /\ \A d \in Callers : pc'[d] \in CallerLabels
  <2>1. CASE pc' = [pc EXCEPT ![c] = label]  BY <1>1, <2>1
  <2>2. CASE pc' = [pc EXCEPT ![c] = label, ![Worker] = "get"]
    <3>1. "get" \in WorkerLabels  BY DEF WorkerLabels
    <3>2. QED  BY <1>1, <2>2, <3>1
  <2>3. QED  BY <2>1, <2>2
<1>3. ASSUME NEW L
      PROVE  Cardinality({d \in Callers : pc'[d] \in L}) + In(pc[c], L) = Cardinality({d \in Callers : pc[d] \in L}) + In(label, L)
  <2>. DEFINE before == {d \in Callers : pc[d] \in L}
              after == {d \in Callers : pc'[d] \in L}
  <2>1. before \in SUBSET Callers /\ after \in SUBSET Callers /\ after \ {c} = before \ {c}  BY <1>2
  <2>2. In(c, before) = In(pc[c], L) /\ In(c, after) = In(label, L)  BY <1>2 DEF In
  <2>. HIDE DEF before, after
  <2>3. Cardinality(after) + In(c, before) = Cardinality(before) + In(c, after)  BY <2>1, CountOneMove
  <2>4. QED  BY <2>2, <2>3 DEF before, after
<1>4. CallersAt(Uncounted)' \in Nat /\ CallersAt(Handing)' \in Nat /\ CallersAt(Entering)' \in Nat
  BY CountedCallers DEF CallersAt
<1>5. /\ CallersAt(Uncounted)' + In(pc[c], Uncounted) = CallersAt(Uncounted) + In(label, Uncounted)
      /\ CallersAt(Handing)' + In(pc[c], Handing) = CallersAt(Handing) + In(label, Handing)
      /\ CallersAt(Entering)' + In(pc[c], Entering) = CallersAt(Entering) + In(label, Entering)
  BY <1>3 DEF CallersAt, Uncounted, Handing, Entering
<1>6. QED  BY <1>2, <1>4, <1>5

LEMMA Weights ==
  /\ In("idle", Uncounted) = 0 /\ In("count", Uncounted) = 0 /\ In("put", Uncounted) = 1 /\ In("release", Uncounted) = 1
  /\ In("uncount", Uncounted) = 1 /\ In("ensure", Uncounted) = 0 /\ In("drain", Uncounted) = 0 /\ In("account", Uncounted) = 0
  /\ In("idle", Handing) = 0 /\ In("count", Handing) = 1 /\ In("put", Handing) = 1 /\ In("release", Handing) = 1
  /\ In("uncount", Handing) = 1 /\ In("ensure", Handing) = 0 /\ In("drain", Handing) = 0 /\ In("account", Handing) = 0
  /\ In("idle", Entering) = 0 /\ In("count", Entering) = 1 /\ In("put", Entering) = 1 /\ In("release", Entering) = 0
  /\ In("uncount", Entering) = 0 /\ In("ensure", Entering) = 0 /\ In("drain", Entering) = 0 /\ In("account", Entering) = 0
BY DEF In, Uncounted, Handing, Entering

(* The worker moves, or nobody: the callers stay where they are.           *)
LEMMA CallersRest ==
  ASSUME TransportTyped, NEW label \in WorkerLabels, pc' = [pc EXCEPT ![Worker] = label] \/ (UNCHANGED pc /\ label = pc[Worker])
  PROVE  /\ pc' \in [Threads -> WorkerLabels \cup CallerLabels] /\ pc'[Worker] = label
         /\ \A c \in Callers : pc'[c] = pc[c] /\ pc'[c] \in CallerLabels
         /\ CallersAt(Uncounted)' = CallersAt(Uncounted) /\ CallersAt(Handing)' = CallersAt(Handing)
         /\ CallersAt(Entering)' = CallersAt(Entering)
<1>1. /\ pc \in [Threads -> WorkerLabels \cup CallerLabels] /\ Worker \in Threads
      /\ \A c \in Callers : c \in Threads /\ c # Worker /\ pc[c] \in CallerLabels
  BY CallersAssumption DEF TransportTyped, Threads
<1>2. /\ pc' \in [Threads -> WorkerLabels \cup CallerLabels] /\ pc'[Worker] = label
      /\ \A c \in Callers : pc'[c] = pc[c] /\ pc'[c] \in CallerLabels
  BY <1>1
<1>3. \A L : {c \in Callers : pc'[c] \in L} = {c \in Callers : pc[c] \in L}  BY <1>2
<1>4. QED  BY <1>2, <1>3 DEF CallersAt, Uncounted, Handing, Entering

LEMMA ReserveStep ==
  ASSUME TransportIInv, NEW c \in Callers, Reserve(c)
  PROVE  TransportIInv'
<1>0. CallersAt(Uncounted) \in Nat /\ CallersAt(Handing) \in Nat /\ CallersAt(Entering) \in Nat  BY TransportFacts
<1>1. /\ TransportTyped /\ pc[c] = "idle" /\ total.offered < MaxEvents /\ c \in Threads /\ c # Worker
      /\ UNCHANGED <<cooled, consecutive, pending, queued, drained, summary>>
      /\ total' = [total EXCEPT !.offered = @ + 1]
      /\ ReportedIsCounted /\ DealtWith /\ OutageOpens /\ OutageLimitsTraffic
  BY TransportFacts, CallersAssumption DEF Reserve, breaker, Threads, TransportIInv
<1>2. /\ total' \in [offered : 0..MaxEvents, posted : Nat, reported : Nat]
      /\ total'.offered = total.offered + 1 /\ total'.posted = total.posted /\ total'.reported = total.reported
  BY <1>1, TransportFacts DEF TransportTyped
<1>3. CASE Refuses
  <2>1. /\ counts' = [counts EXCEPT !.dropped = @ + 1] /\ UNCHANGED <<breaker, pc>>
    BY <1>3 DEF Reserve
  <2>2. /\ counts' \in Counters /\ counts'.dropped = counts.dropped + 1 /\ counts'.failed = counts.failed
    BY <2>1, TransportFacts DEF Counters
  <2>3. /\ UNCHANGED <<state, cooled, consecutive, reserved, pc>>
        /\ CallersAt(Uncounted)' = CallersAt(Uncounted) /\ CallersAt(Handing)' = CallersAt(Handing)
        /\ CallersAt(Entering)' = CallersAt(Entering)
    BY <1>1, <2>1, CallersRest DEF breaker, TransportTyped
  <2>4. InHand' = InHand /\ Undecided' = Undecided /\ Unaccounted' = Unaccounted /\ Undecided \in Nat
    BY <1>1, <2>3 DEF InHand, Undecided, Unaccounted
  <2>5. TransportTyped'  BY <1>1, <1>2, <2>2, <2>3 DEF TransportTyped
  <2>6. OutageOpens' /\ DealtWith' /\ ReportedIsCounted'
    BY <1>1, <1>2, <2>2, <2>3, TransportFacts DEF OutageOpens, DealtWith, ReportedIsCounted
  <2>7. Cooling' /\ pc'[Worker] # "drain" => CallersAt(Entering)' + queued' + Undecided' <= Cardinality(Callers)
    BY <1>1, <2>3, <2>4 DEF OutageLimitsTraffic, Cooling, Entering
  <2>8. QED
    BY <1>1, <1>2, <2>2, <2>3, <2>4, <2>5, <2>6, <2>7, TransportFacts, TransportHolds
<1>4. CASE ~Refuses
  <2>1. /\ state' = IF Trial THEN "half_open" ELSE state
        /\ reserved' = (Trial \/ reserved) /\ UNCHANGED counts /\ pc' = [pc EXCEPT ![c] = "count"]
    BY <1>4 DEF Reserve, Goto
  <2>2. /\ pc'[Worker] = pc[Worker] /\ pc' \in [Threads -> WorkerLabels \cup CallerLabels]
        /\ pc'[Worker] \in WorkerLabels /\ \A d \in Callers : pc'[d] \in CallerLabels
        /\ CallersAt(Uncounted)' = CallersAt(Uncounted) /\ CallersAt(Handing)' = CallersAt(Handing) + 1
    <3>1. PICK label \in CallerLabels : label = "count"  BY DEF CallerLabels
    <3>2. pc' = [pc EXCEPT ![c] = label]  BY <2>1, <3>1
    <3>3. /\ pc'[Worker] = pc[Worker] /\ pc' \in [Threads -> WorkerLabels \cup CallerLabels]
          /\ pc'[Worker] \in WorkerLabels /\ \A d \in Callers : pc'[d] \in CallerLabels
          /\ CallersAt(Uncounted)' \in Nat /\ CallersAt(Handing)' \in Nat /\ CallersAt(Entering)' \in Nat
          /\ CallersAt(Uncounted)' + In(pc[c], Uncounted) = CallersAt(Uncounted) + In(label, Uncounted)
          /\ CallersAt(Handing)' + In(pc[c], Handing) = CallersAt(Handing) + In(label, Handing)
          /\ CallersAt(Entering)' + In(pc[c], Entering) = CallersAt(Entering) + In(label, Entering)
      BY <1>1, <3>2, CallerMoves
    <3>4. QED  BY <1>0, <1>1, <2>1, <3>1, <3>3, Weights
  <2>3. InHand' = InHand /\ Undecided' = Undecided /\ Unaccounted' = Unaccounted /\ Undecided \in Nat /\ InHand \in Nat
    BY <1>1, <2>2 DEF InHand, Undecided, Unaccounted
  <2>4. TransportTyped'  BY <1>1, <1>2, <2>1, <2>2 DEF TransportTyped, Trial
  <2>5. OutageOpens' /\ DealtWith' /\ ReportedIsCounted' /\ ~Cooling'
    BY <1>1, <1>2, <1>4, <2>1, <2>2 DEF OutageOpens, DealtWith, ReportedIsCounted, Cooling, Trial, Refuses
  <2>6. QED
    BY <1>1, <1>2, <2>1, <2>2, <2>3, <2>4, <2>5, TransportFacts, TransportHolds
<1>5. QED  BY <1>3, <1>4

(* A caller between its reservation and the queue.                         *)
LEMMA EnqueueStep ==
  ASSUME TransportIInv, NEW c \in Callers, Enqueue(c)
  PROVE  TransportIInv'
<1>0. CallersAt(Uncounted) \in Nat /\ CallersAt(Handing) \in Nat /\ CallersAt(Entering) \in Nat  BY TransportFacts
<1>1. /\ TransportTyped /\ c \in Threads /\ c # Worker /\ ReportedIsCounted /\ DealtWith /\ OutageOpens /\ OutageLimitsTraffic
      /\ UNCHANGED <<state, cooled, consecutive, drained, summary, total>>
  BY TransportFacts, CallersAssumption
  DEF Enqueue, Count, Put, Release, Uncount, EnsureWorker, breaker, Threads, TransportIInv
<1>2. CASE Count(c)
  <2>1. /\ pc[c] = "count" /\ pending' = pending + 1 /\ pc' = [pc EXCEPT ![c] = "put"] /\ UNCHANGED <<reserved, counts, queued>>
    BY <1>2 DEF Count, Goto, breaker
  <2>2. /\ pc'[Worker] = pc[Worker] /\ pc' \in [Threads -> WorkerLabels \cup CallerLabels]
        /\ pc'[Worker] \in WorkerLabels /\ \A d \in Callers : pc'[d] \in CallerLabels
        /\ CallersAt(Uncounted)' = CallersAt(Uncounted) + 1 /\ CallersAt(Handing)' = CallersAt(Handing)
        /\ CallersAt(Entering)' = CallersAt(Entering)
    <3>1. PICK label \in CallerLabels : label = "put"  BY DEF CallerLabels
    <3>2. pc' = [pc EXCEPT ![c] = label]  BY <2>1, <3>1
    <3>3. /\ pc'[Worker] = pc[Worker] /\ pc' \in [Threads -> WorkerLabels \cup CallerLabels]
          /\ pc'[Worker] \in WorkerLabels /\ \A d \in Callers : pc'[d] \in CallerLabels
          /\ CallersAt(Uncounted)' \in Nat /\ CallersAt(Handing)' \in Nat /\ CallersAt(Entering)' \in Nat
          /\ CallersAt(Uncounted)' + In(pc[c], Uncounted) = CallersAt(Uncounted) + In(label, Uncounted)
          /\ CallersAt(Handing)' + In(pc[c], Handing) = CallersAt(Handing) + In(label, Handing)
          /\ CallersAt(Entering)' + In(pc[c], Entering) = CallersAt(Entering) + In(label, Entering)
      BY <1>1, <3>2, CallerMoves
    <3>4. QED  BY <1>0, <2>1, <3>1, <3>3, Weights
  <2>3. InHand' = InHand /\ Undecided' = Undecided /\ Unaccounted' = Unaccounted /\ Undecided \in Nat /\ InHand \in Nat
    BY <1>1, <2>2 DEF InHand, Undecided, Unaccounted
  <2>4. TransportTyped'  BY <1>1, <2>1, <2>2, TransportFacts DEF TransportTyped
  <2>5. OutageOpens' /\ DealtWith' /\ ReportedIsCounted' /\ (Cooling' => Cooling)
    BY <1>1, <2>1, <2>2 DEF OutageOpens, DealtWith, ReportedIsCounted, Cooling
  <2>6. QED
    BY <1>1, <2>1, <2>2, <2>3, <2>4, <2>5, TransportFacts, TransportHolds DEF OutageLimitsTraffic, Entering
<1>3. CASE Put(c) /\ HasRoom
  <2>1. /\ pc[c] = "put" /\ queued' = queued + 1 /\ pc' = [pc EXCEPT ![c] = "ensure"] /\ UNCHANGED <<reserved, counts, pending>>
        /\ queued < QueueMax
    BY <1>3 DEF Put, Goto, breaker, HasRoom
  <2>2. /\ pc'[Worker] = pc[Worker] /\ pc' \in [Threads -> WorkerLabels \cup CallerLabels]
        /\ pc'[Worker] \in WorkerLabels /\ \A d \in Callers : pc'[d] \in CallerLabels
        /\ CallersAt(Uncounted)' + 1 = CallersAt(Uncounted) /\ CallersAt(Handing)' + 1 = CallersAt(Handing)
        /\ CallersAt(Entering)' + 1 = CallersAt(Entering)
        /\ CallersAt(Uncounted)' \in Nat /\ CallersAt(Handing)' \in Nat /\ CallersAt(Entering)' \in Nat
    <3>1. PICK label \in CallerLabels : label = "ensure"  BY DEF CallerLabels
    <3>2. pc' = [pc EXCEPT ![c] = label]  BY <2>1, <3>1
    <3>3. /\ pc'[Worker] = pc[Worker] /\ pc' \in [Threads -> WorkerLabels \cup CallerLabels]
          /\ pc'[Worker] \in WorkerLabels /\ \A d \in Callers : pc'[d] \in CallerLabels
          /\ CallersAt(Uncounted)' \in Nat /\ CallersAt(Handing)' \in Nat /\ CallersAt(Entering)' \in Nat
          /\ CallersAt(Uncounted)' + In(pc[c], Uncounted) = CallersAt(Uncounted) + In(label, Uncounted)
          /\ CallersAt(Handing)' + In(pc[c], Handing) = CallersAt(Handing) + In(label, Handing)
          /\ CallersAt(Entering)' + In(pc[c], Entering) = CallersAt(Entering) + In(label, Entering)
      BY <1>1, <3>2, CallerMoves
    <3>4. QED  BY <1>0, <2>1, <3>1, <3>3, Weights
  <2>3. InHand' = InHand /\ Undecided' = Undecided /\ Unaccounted' = Unaccounted /\ Undecided \in Nat /\ InHand \in Nat
    BY <1>1, <2>2 DEF InHand, Undecided, Unaccounted
  <2>4. TransportTyped'  BY <1>1, <2>1, <2>2, TransportFacts DEF TransportTyped
  <2>5. OutageOpens' /\ DealtWith' /\ ReportedIsCounted' /\ (Cooling' => Cooling)
    BY <1>1, <2>1, <2>2 DEF OutageOpens, DealtWith, ReportedIsCounted, Cooling
  <2>6. QED
    BY <1>1, <2>1, <2>2, <2>3, <2>4, <2>5, TransportFacts, TransportHolds DEF OutageLimitsTraffic, Entering
<1>4. CASE (Put(c) /\ ~HasRoom) \/ Release(c)
  <2>. DEFINE label == IF pc[c] = "put" THEN "release" ELSE "uncount"
  <2>1. /\ pc[c] \in {"put", "release"} /\ pc' = [pc EXCEPT ![c] = label] /\ UNCHANGED <<counts, pending, queued>>
        /\ reserved' \in BOOLEAN
    BY <1>1, <1>4 DEF Put, Release, Goto, breaker, ReleaseReservation, TransportTyped
  <2>2. label \in {"release", "uncount"}  OBVIOUS
  <2>. HIDE DEF label
  <2>3. /\ pc'[Worker] = pc[Worker] /\ pc' \in [Threads -> WorkerLabels \cup CallerLabels]
        /\ pc'[Worker] \in WorkerLabels /\ \A d \in Callers : pc'[d] \in CallerLabels
        /\ CallersAt(Uncounted)' = CallersAt(Uncounted) /\ CallersAt(Handing)' = CallersAt(Handing)
        /\ CallersAt(Entering)' <= CallersAt(Entering) /\ CallersAt(Entering)' \in Nat
    <3>1. label \in CallerLabels  BY <2>2 DEF CallerLabels
    <3>3. /\ pc'[Worker] = pc[Worker]
          /\ pc' \in [Threads -> WorkerLabels \cup CallerLabels]
          /\ pc'[Worker] \in WorkerLabels /\ \A d \in Callers : pc'[d] \in CallerLabels
          /\ CallersAt(Uncounted)' \in Nat /\ CallersAt(Handing)' \in Nat /\ CallersAt(Entering)' \in Nat
          /\ CallersAt(Uncounted)' + In(pc[c], Uncounted) = CallersAt(Uncounted) + In(label, Uncounted)
          /\ CallersAt(Handing)' + In(pc[c], Handing) = CallersAt(Handing) + In(label, Handing)
          /\ CallersAt(Entering)' + In(pc[c], Entering) = CallersAt(Entering) + In(label, Entering)
      BY <1>1, <2>1, <3>1, CallerMoves
    <3>4. QED  BY <1>0, <2>1, <2>2, <3>1, <3>3, Weights
  <2>4. InHand' = InHand /\ Undecided' = Undecided /\ Unaccounted' = Unaccounted /\ Undecided \in Nat /\ InHand \in Nat
    BY <1>1, <2>3 DEF InHand, Undecided, Unaccounted
  <2>5. TransportTyped'  BY <1>1, <2>1, <2>3, TransportFacts DEF TransportTyped
  <2>6. OutageOpens' /\ DealtWith' /\ ReportedIsCounted' /\ (Cooling' => Cooling)
    BY <1>1, <2>1, <2>3 DEF OutageOpens, DealtWith, ReportedIsCounted, Cooling
  <2>7. QED
    BY <1>1, <2>1, <2>3, <2>4, <2>5, <2>6, TransportFacts, TransportHolds DEF OutageLimitsTraffic, Entering
<1>5. CASE Uncount(c)
  <2>1. /\ pc[c] = "uncount" /\ pending' = Atmost0(pending - 1) /\ counts' = [counts EXCEPT !.dropped = @ + 1]
        /\ pc' = [pc EXCEPT ![c] = "idle"] /\ UNCHANGED <<reserved, queued>>
    BY <1>5 DEF Uncount, Goto, breaker
  <2>2. counts' \in Counters /\ counts'.dropped = counts.dropped + 1 /\ counts'.failed = counts.failed
    BY <2>1, TransportFacts DEF Counters
  <2>3. /\ pc'[Worker] = pc[Worker] /\ pc' \in [Threads -> WorkerLabels \cup CallerLabels]
        /\ pc'[Worker] \in WorkerLabels /\ \A d \in Callers : pc'[d] \in CallerLabels
        /\ CallersAt(Uncounted)' + 1 = CallersAt(Uncounted) /\ CallersAt(Handing)' + 1 = CallersAt(Handing)
        /\ CallersAt(Entering)' = CallersAt(Entering) /\ CallersAt(Uncounted)' \in Nat /\ CallersAt(Handing)' \in Nat
    <3>1. PICK label \in CallerLabels : label = "idle"  BY DEF CallerLabels
    <3>2. pc' = [pc EXCEPT ![c] = label]  BY <2>1, <3>1
    <3>3. /\ pc'[Worker] = pc[Worker] /\ pc' \in [Threads -> WorkerLabels \cup CallerLabels]
          /\ pc'[Worker] \in WorkerLabels /\ \A d \in Callers : pc'[d] \in CallerLabels
          /\ CallersAt(Uncounted)' \in Nat /\ CallersAt(Handing)' \in Nat /\ CallersAt(Entering)' \in Nat
          /\ CallersAt(Uncounted)' + In(pc[c], Uncounted) = CallersAt(Uncounted) + In(label, Uncounted)
          /\ CallersAt(Handing)' + In(pc[c], Handing) = CallersAt(Handing) + In(label, Handing)
          /\ CallersAt(Entering)' + In(pc[c], Entering) = CallersAt(Entering) + In(label, Entering)
      BY <1>1, <3>2, CallerMoves
    <3>4. QED  BY <1>0, <2>1, <3>1, <3>3, Weights
  <2>4. InHand' = InHand /\ Undecided' = Undecided /\ Unaccounted' = Unaccounted /\ Undecided \in Nat /\ InHand \in Nat
    BY <1>1, <2>3 DEF InHand, Undecided, Unaccounted
  <2>5. pending' = pending - 1 /\ pending' \in Nat
    BY <2>1, <2>3, <2>4, TransportFacts DEF Atmost0
  <2>6. TransportTyped'  BY <1>1, <2>1, <2>2, <2>3, <2>5 DEF TransportTyped
  <2>7. OutageOpens' /\ DealtWith' /\ ReportedIsCounted' /\ (Cooling' => Cooling)
    BY <1>1, <2>1, <2>2, <2>3, TransportFacts DEF OutageOpens, DealtWith, ReportedIsCounted, Cooling
  <2>8. QED
    BY <1>1, <2>1, <2>2, <2>3, <2>4, <2>5, <2>6, <2>7, TransportFacts, TransportHolds DEF OutageLimitsTraffic, Entering
<1>6. CASE EnsureWorker(c)
  <2>. DEFINE label == IF pc' = [pc EXCEPT ![c] = "drain"] THEN "drain" ELSE "idle"
  <2>1. /\ pc[c] = "ensure" /\ UNCHANGED <<reserved, counts, pending, queued>>
        /\ \/ pc' = [pc EXCEPT ![c] = label]
           \/ pc[Worker] = "none" /\ pc' = [pc EXCEPT ![c] = label, ![Worker] = "get"]
    BY <1>1, <1>6 DEF EnsureWorker, Goto, breaker, TransportTyped
  <2>2. label \in {"drain", "idle"}  OBVIOUS
  <2>. HIDE DEF label
  <2>3. /\ pc'[Worker] = pc[Worker] \/ (pc[Worker] = "none" /\ pc'[Worker] = "get")
        /\ pc' \in [Threads -> WorkerLabels \cup CallerLabels]
        /\ pc'[Worker] \in WorkerLabels /\ \A d \in Callers : pc'[d] \in CallerLabels
        /\ CallersAt(Uncounted)' = CallersAt(Uncounted) /\ CallersAt(Handing)' = CallersAt(Handing)
        /\ CallersAt(Entering)' = CallersAt(Entering)
    <3>1. label \in CallerLabels  BY <2>2 DEF CallerLabels
    <3>3. /\ pc'[Worker] = pc[Worker] \/ (pc[Worker] = "none" /\ pc'[Worker] = "get")
          /\ pc' \in [Threads -> WorkerLabels \cup CallerLabels]
          /\ pc'[Worker] \in WorkerLabels /\ \A d \in Callers : pc'[d] \in CallerLabels
          /\ CallersAt(Uncounted)' \in Nat /\ CallersAt(Handing)' \in Nat /\ CallersAt(Entering)' \in Nat
          /\ CallersAt(Uncounted)' + In(pc[c], Uncounted) = CallersAt(Uncounted) + In(label, Uncounted)
          /\ CallersAt(Handing)' + In(pc[c], Handing) = CallersAt(Handing) + In(label, Handing)
          /\ CallersAt(Entering)' + In(pc[c], Entering) = CallersAt(Entering) + In(label, Entering)
      BY <1>1, <2>1, <3>1, CallerMoves
    <3>4. QED  BY <1>0, <2>1, <2>2, <3>1, <3>3, Weights
  <2>4. InHand' = InHand /\ Undecided' = Undecided /\ Unaccounted' = Unaccounted /\ Undecided \in Nat /\ InHand \in Nat
    BY <1>1, <2>3 DEF InHand, Undecided, Unaccounted
  <2>5. TransportTyped'  BY <1>1, <2>1, <2>3, TransportFacts DEF TransportTyped
  <2>6. OutageOpens' /\ DealtWith' /\ ReportedIsCounted' /\ (Cooling' => Cooling)
    BY <1>1, <2>1, <2>3 DEF OutageOpens, DealtWith, ReportedIsCounted, Cooling
  <2>7. QED
    BY <1>1, <2>1, <2>3, <2>4, <2>5, <2>6, TransportFacts, TransportHolds DEF OutageLimitsTraffic, Entering
<1>7. QED  BY <1>2, <1>3, <1>4, <1>5, <1>6 DEF Enqueue

(* A caller leaves the queue it emptied: nobody counts it anywhere.        *)
LEMMA CallerLeaves ==
  ASSUME TransportIInv, NEW c \in Callers, NEW label \in {"idle", "account"}, pc[c] \in {"drain", "account"},
         pc' = [pc EXCEPT ![c] = label]
  PROVE  /\ pc' \in [Threads -> WorkerLabels \cup CallerLabels] /\ pc'[Worker] = pc[Worker]
         /\ \A d \in Callers : pc'[d] \in CallerLabels
         /\ CallersAt(Uncounted)' = CallersAt(Uncounted) /\ CallersAt(Handing)' = CallersAt(Handing)
         /\ CallersAt(Entering)' = CallersAt(Entering)
<1>0. CallersAt(Uncounted) \in Nat /\ CallersAt(Handing) \in Nat /\ CallersAt(Entering) \in Nat  BY TransportFacts
<1>1. TransportTyped /\ label \in CallerLabels  BY DEF TransportIInv, CallerLabels
<1>2. /\ pc'[Worker] = pc[Worker] /\ pc' \in [Threads -> WorkerLabels \cup CallerLabels]
      /\ \A d \in Callers : pc'[d] \in CallerLabels
      /\ CallersAt(Uncounted)' \in Nat /\ CallersAt(Handing)' \in Nat /\ CallersAt(Entering)' \in Nat
      /\ CallersAt(Uncounted)' + In(pc[c], Uncounted) = CallersAt(Uncounted) + In(label, Uncounted)
      /\ CallersAt(Handing)' + In(pc[c], Handing) = CallersAt(Handing) + In(label, Handing)
      /\ CallersAt(Entering)' + In(pc[c], Entering) = CallersAt(Entering) + In(label, Entering)
  BY <1>1, CallerMoves
<1>3. QED  BY <1>0, <1>2, Weights

(* What the callers' numbers are when thread t ends to empty the queue.    *)
LEMMA Leaves ==
  ASSUME TransportIInv, NEW t \in Threads, pc[t] \in {"drain", "account"},
         NEW label \in {"idle", "account", "settle"}, label = AfterDrain(t) \/ label = "account",
         pc' = [pc EXCEPT ![t] = label]
  PROVE  /\ pc' \in [Threads -> WorkerLabels \cup CallerLabels] /\ pc'[Worker] \in WorkerLabels
         /\ \A d \in Callers : pc'[d] \in CallerLabels
         /\ CallersAt(Uncounted)' = CallersAt(Uncounted) /\ CallersAt(Handing)' = CallersAt(Handing)
         /\ CallersAt(Entering)' = CallersAt(Entering) /\ InHand' = InHand /\ Undecided' = Undecided
         /\ InHand \in Nat /\ Undecided \in Nat
         /\ \/ pc'[Worker] = pc[Worker]
            \/ t = Worker /\ pc'[Worker] \in {"account", "settle"} /\ pc[Worker] \in {"drain", "account"}
<1>1. TransportTyped /\ pc[Worker] \in WorkerLabels  BY DEF TransportIInv, TransportTyped
<1>2. CASE t \in Callers
  <2>1. label \in {"idle", "account"} /\ t # Worker  BY <1>2, CallersAssumption DEF AfterDrain
  <2>2. /\ pc' \in [Threads -> WorkerLabels \cup CallerLabels] /\ pc'[Worker] = pc[Worker]
        /\ \A d \in Callers : pc'[d] \in CallerLabels
        /\ CallersAt(Uncounted)' = CallersAt(Uncounted) /\ CallersAt(Handing)' = CallersAt(Handing)
        /\ CallersAt(Entering)' = CallersAt(Entering)
    BY <1>2, <2>1, CallerLeaves
  <2>3. QED  BY <1>1, <2>2 DEF InHand, Undecided
<1>3. CASE t = Worker
  <2>1. label \in {"settle", "account"}  BY <1>3 DEF AfterDrain
  <2>2. label \in WorkerLabels  BY <2>1 DEF WorkerLabels
  <2>3. pc' = [pc EXCEPT ![Worker] = label]  BY <1>3
  <2>4. /\ pc' \in [Threads -> WorkerLabels \cup CallerLabels] /\ pc'[Worker] = label
        /\ \A d \in Callers : pc'[d] = pc[d] /\ pc'[d] \in CallerLabels
        /\ CallersAt(Uncounted)' = CallersAt(Uncounted) /\ CallersAt(Handing)' = CallersAt(Handing)
        /\ CallersAt(Entering)' = CallersAt(Entering)
    BY <1>1, <2>2, <2>3, CallersRest
  <2>5. QED  BY <1>3, <2>1, <2>2, <2>4 DEF InHand, Undecided
<1>4. QED  BY <1>2, <1>3 DEF Threads

(* Emptying the queue.                                                     *)
LEMMA DrainStep ==
  ASSUME TransportIInv, NEW t \in Threads, Drain(t)
  PROVE  TransportIInv'
<1>1. /\ TransportTyped /\ ReportedIsCounted /\ DealtWith /\ OutageOpens /\ OutageLimitsTraffic /\ pc[t] = "drain"
      /\ UNCHANGED <<state, cooled, consecutive, reserved, counts, pending, summary, total>>
      /\ pc[Worker] \in WorkerLabels
  BY TransportFacts DEF Drain, breaker, TransportIInv, TransportTyped
<1>2. CASE queued > 0
  <2>1. queued' = queued - 1 /\ drained' = [drained EXCEPT ![t] = @ + 1] /\ UNCHANGED pc
    BY <1>2 DEF Drain
  <2>2. /\ pc' \in [Threads -> WorkerLabels \cup CallerLabels] /\ pc'[Worker] = pc[Worker]
        /\ \A c \in Callers : pc'[c] = pc[c] /\ pc'[c] \in CallerLabels
        /\ CallersAt(Uncounted)' = CallersAt(Uncounted) /\ CallersAt(Handing)' = CallersAt(Handing)
        /\ CallersAt(Entering)' = CallersAt(Entering)
    BY <1>1, <2>1, CallersRest
  <2>3. InHand' = InHand /\ Undecided' = Undecided /\ Undecided \in Nat /\ InHand \in Nat
    BY <2>2 DEF InHand, Undecided
  <2>4. /\ drained \in [Threads -> 0..MaxEvents] /\ drained[t] < MaxEvents /\ drained[t] \in Nat
        /\ queued - 1 \in 0..QueueMax
    BY <1>1, <1>2, <2>3, TransportFacts DEF TransportTyped
  <2>5. Unaccounted' = Unaccounted + 1
    <3>1. Cardinality(Taken(drained')) = Cardinality(Taken(drained)) + 1  BY <2>1, <2>4, TakeOne
    <3>2. QED  BY <3>1 DEF Unaccounted, Taken
  <2>6. drained' \in [Threads -> 0..MaxEvents]
    <3>1. drained[t] + 1 \in 0..MaxEvents  BY <2>4, SizeAssumption
    <3>2. QED  BY <2>1, <2>4, <3>1
  <2>7. TransportTyped'  BY <1>1, <2>1, <2>2, <2>4, <2>6 DEF TransportTyped
  <2>8. OutageOpens' /\ DealtWith' /\ ReportedIsCounted' /\ (Cooling' => Cooling)
    BY <1>1, <2>1, <2>2 DEF OutageOpens, DealtWith, ReportedIsCounted, Cooling
  <2>9. Cooling' /\ pc'[Worker] # "drain" => CallersAt(Entering)' + queued' + Undecided' <= Cardinality(Callers)
    BY <1>1, <2>1, <2>2, <2>3, <2>8, TransportFacts DEF OutageLimitsTraffic, Entering
  <2>10. pending' = CallersAt(Uncounted)' + queued' + InHand' + Unaccounted'
    BY <1>1, <2>1, <2>2, <2>3, <2>5, TransportFacts
  <2>11. total'.offered = total'.posted + total'.reported + counts'.dropped + counts'.failed
                          + CallersAt(Handing)' + queued' + Undecided' + Unaccounted'
    BY <1>1, <2>1, <2>2, <2>3, <2>5, TransportFacts
  <2>12. QED
    BY <2>7, <2>8, <2>9, <2>10, <2>11, TransportHolds
<1>3. CASE ~(queued > 0)
  <2>. DEFINE label == IF drained[t] > 0 THEN "account" ELSE AfterDrain(t)
  <2>1. pc' = [pc EXCEPT ![t] = label] /\ UNCHANGED <<queued, drained>>
    BY <1>3 DEF Drain, Goto
  <2>2. label \in {"idle", "account", "settle"} /\ (label = AfterDrain(t) \/ label = "account")
    BY DEF AfterDrain
  <2>. HIDE DEF label
  <2>3. /\ pc' \in [Threads -> WorkerLabels \cup CallerLabels] /\ pc'[Worker] \in WorkerLabels
        /\ \A d \in Callers : pc'[d] \in CallerLabels
        /\ CallersAt(Uncounted)' = CallersAt(Uncounted) /\ CallersAt(Handing)' = CallersAt(Handing)
        /\ CallersAt(Entering)' = CallersAt(Entering) /\ InHand' = InHand /\ Undecided' = Undecided
        /\ InHand \in Nat /\ Undecided \in Nat
        /\ \/ pc'[Worker] = pc[Worker]
           \/ t = Worker /\ pc'[Worker] \in {"account", "settle"} /\ pc[Worker] \in {"drain", "account"}
    BY <1>1, <2>1, <2>2, Leaves
  <2>4. Unaccounted' = Unaccounted  BY <2>1 DEF Unaccounted
  <2>5. TransportTyped'  BY <1>1, <2>1, <2>3 DEF TransportTyped
  <2>6. OutageOpens' /\ DealtWith' /\ ReportedIsCounted' /\ (Cooling' => Cooling)
    BY <1>1, <2>1, <2>3 DEF OutageOpens, DealtWith, ReportedIsCounted, Cooling
  <2>7. Cooling' /\ pc'[Worker] # "drain" => CallersAt(Entering)' + queued' + Undecided' <= Cardinality(Callers)
    <3>1. CASE pc'[Worker] = pc[Worker]
      BY <1>1, <2>1, <2>3, <2>6, <3>1, TransportFacts DEF OutageLimitsTraffic, Entering
    <3>2. CASE pc'[Worker] \in {"account", "settle"} /\ pc[Worker] \in {"drain", "account"}
      <4>1. Undecided' = 0 /\ queued' = 0  BY <1>3, <2>1, <3>2, TransportFacts DEF Undecided
      <4>2. QED  BY <2>3, <4>1, TransportFacts
    <3>3. QED  BY <2>3, <3>1, <3>2
  <2>8. QED
    BY <1>1, <2>1, <2>3, <2>4, <2>5, <2>6, <2>7, TransportFacts, TransportHolds
<1>4. QED  BY <1>2, <1>3

LEMMA AccountStep ==
  ASSUME TransportIInv, NEW t \in Threads, Account(t)
  PROVE  TransportIInv'
<1>1. /\ TransportTyped /\ ReportedIsCounted /\ DealtWith /\ OutageOpens /\ OutageLimitsTraffic /\ pc[t] = "account"
      /\ UNCHANGED <<state, cooled, consecutive, reserved, queued, summary, total>>
      /\ drained \in [Threads -> 0..MaxEvents] /\ drained[t] \in Nat
      /\ counts' = [counts EXCEPT !.dropped = @ + drained[t]] /\ drained' = [drained EXCEPT ![t] = 0]
      /\ pending' = Atmost0(pending - drained[t])
  BY TransportFacts DEF Account, breaker, TransportIInv, TransportTyped, DrainedPending
<1>. DEFINE label == AfterDrain(t)
<1>2. pc' = [pc EXCEPT ![t] = label]  BY DEF Account, Goto
<1>3. label \in {"idle", "account", "settle"} /\ (label = AfterDrain(t) \/ label = "account")
  BY DEF AfterDrain
<1>. HIDE DEF label
<1>4. /\ pc' \in [Threads -> WorkerLabels \cup CallerLabels] /\ pc'[Worker] \in WorkerLabels
      /\ \A d \in Callers : pc'[d] \in CallerLabels
      /\ CallersAt(Uncounted)' = CallersAt(Uncounted) /\ CallersAt(Handing)' = CallersAt(Handing)
      /\ CallersAt(Entering)' = CallersAt(Entering) /\ InHand' = InHand /\ Undecided' = Undecided
      /\ InHand \in Nat /\ Undecided \in Nat
      /\ \/ pc'[Worker] = pc[Worker]
         \/ t = Worker /\ pc'[Worker] \in {"account", "settle"} /\ pc[Worker] \in {"drain", "account"}
  BY <1>1, <1>2, <1>3, Leaves
<1>5. Unaccounted' = Unaccounted - drained[t]
  <2>1. Cardinality(Taken(drained')) = Cardinality(Taken(drained)) - drained[t]  BY <1>1, TakeNone
  <2>2. QED  BY <2>1 DEF Unaccounted, Taken
<1>6. pending' = pending - drained[t] /\ pending' \in Nat
  BY <1>1, <1>4, TransportFacts DEF Atmost0
<1>7. /\ counts' \in Counters /\ counts'.dropped = counts.dropped + drained[t] /\ counts'.failed = counts.failed
  BY <1>1, TransportFacts DEF Counters
<1>8. drained' \in [Threads -> 0..MaxEvents]
  <2>1. 0 \in 0..MaxEvents  BY SizeAssumption
  <2>2. QED  BY <1>1, <2>1
<1>9. TransportTyped'  BY <1>1, <1>4, <1>6, <1>7, <1>8 DEF TransportTyped
<1>10. OutageOpens' /\ DealtWith' /\ ReportedIsCounted' /\ (Cooling' => Cooling)
  BY <1>1, <1>4, <1>7, TransportFacts DEF OutageOpens, DealtWith, ReportedIsCounted, Cooling
<1>11. Cooling' /\ pc'[Worker] # "drain" => CallersAt(Entering)' + queued' + Undecided' <= Cardinality(Callers)
  <2>1. CASE pc[Worker] # "drain"
    BY <1>1, <1>4, <1>10, <2>1, TransportFacts DEF OutageLimitsTraffic, Entering
  <2>2. CASE pc[Worker] = "drain"
    <3>1. pc'[Worker] = "drain"  BY <1>1, <1>4, <2>2
    <3>2. QED  BY <3>1
  <2>3. QED  BY <2>1, <2>2
<1>12. QED
  BY <1>1, <1>4, <1>5, <1>6, <1>7, <1>9, <1>10, <1>11, TransportFacts, TransportHolds

(* The worker delivers.                                                    *)
LEMMA DeliverMoves ==
  ASSUME TransportIInv, NEW label \in WorkerLabels, pc' = [pc EXCEPT ![Worker] = label], UNCHANGED drained
  PROVE  /\ TransportTyped /\ ReportedIsCounted /\ DealtWith /\ OutageOpens /\ OutageLimitsTraffic
         /\ pc' \in [Threads -> WorkerLabels \cup CallerLabels] /\ pc'[Worker] = label
         /\ pc'[Worker] \in WorkerLabels /\ \A c \in Callers : pc'[c] \in CallerLabels
         /\ CallersAt(Uncounted)' = CallersAt(Uncounted) /\ CallersAt(Handing)' = CallersAt(Handing)
         /\ CallersAt(Entering)' = CallersAt(Entering) /\ Unaccounted' = Unaccounted
<1>1. TransportTyped /\ ReportedIsCounted /\ DealtWith /\ OutageOpens /\ OutageLimitsTraffic  BY DEF TransportIInv
<1>2. /\ pc' \in [Threads -> WorkerLabels \cup CallerLabels] /\ pc'[Worker] = label
      /\ \A c \in Callers : pc'[c] = pc[c] /\ pc'[c] \in CallerLabels
      /\ CallersAt(Uncounted)' = CallersAt(Uncounted) /\ CallersAt(Handing)' = CallersAt(Handing)
      /\ CallersAt(Entering)' = CallersAt(Entering)
  BY <1>1, CallersRest
<1>3. Unaccounted' = Unaccounted  BY DEF Unaccounted
<1>4. QED  BY <1>1, <1>2, <1>3

LEMMA WorkerCounts ==
  /\ pc[Worker] \in {"none", "get"} => InHand = 0 /\ Undecided = 0
  /\ pc[Worker] \in {"snapshot", "post", "ack", "fail"} => InHand = 1 /\ Undecided = 1
  /\ pc[Worker] \in {"close", "drain", "account", "settle"} => InHand = 1 /\ Undecided = 0
BY DEF InHand, Undecided

LEMMA WorkerCountsThen ==
  /\ pc'[Worker] \in {"none", "get"} => InHand' = 0 /\ Undecided' = 0
  /\ pc'[Worker] \in {"snapshot", "post", "ack", "fail"} => InHand' = 1 /\ Undecided' = 1
  /\ pc'[Worker] \in {"close", "drain", "account", "settle"} => InHand' = 1 /\ Undecided' = 0
BY DEF InHand, Undecided

LEMMA GetStep ==
  ASSUME TransportIInv, Get
  PROVE  TransportIInv'
<1>. DEFINE label == "snapshot"
<1>1. /\ pc[Worker] = "get" /\ pc' = [pc EXCEPT ![Worker] = label] /\ UNCHANGED <<drained>>
      /\ UNCHANGED <<state, cooled, consecutive, reserved, counts, pending, summary, total>> /\ queued > 0 /\ queued' = queued - 1
  BY DEF Get, Goto, breaker
<1>2. label \in {"snapshot"} /\ label \in WorkerLabels  BY DEF WorkerLabels
<1>. HIDE DEF label
<1>3. /\ TransportTyped /\ ReportedIsCounted /\ DealtWith /\ OutageOpens /\ OutageLimitsTraffic
      /\ pc' \in [Threads -> WorkerLabels \cup CallerLabels] /\ pc'[Worker] = label
      /\ pc'[Worker] \in WorkerLabels /\ \A c \in Callers : pc'[c] \in CallerLabels
      /\ CallersAt(Uncounted)' = CallersAt(Uncounted) /\ CallersAt(Handing)' = CallersAt(Handing)
      /\ CallersAt(Entering)' = CallersAt(Entering) /\ Unaccounted' = Unaccounted
  BY <1>1, <1>2, DeliverMoves
<1>4. InHand = 0 /\ Undecided = 0 /\ InHand' = 1 /\ Undecided' = 1
  BY <1>1, <1>2, <1>3, WorkerCounts, WorkerCountsThen
<1>5. queued' \in 0..QueueMax  BY <1>1, TransportFacts
<1>6. TransportTyped'  BY <1>1, <1>3, <1>5, TransportFacts DEF TransportTyped
<1>7. OutageOpens' /\ DealtWith' /\ ReportedIsCounted'
  BY <1>1, <1>2, <1>3, <1>5, TransportFacts DEF OutageOpens, DealtWith, ReportedIsCounted, TransportTyped
<1>8. Cooling' /\ pc'[Worker] # "drain" => CallersAt(Entering)' + queued' + Undecided' <= Cardinality(Callers)
  BY <1>1, <1>2, <1>3, <1>4, <1>5, TransportFacts DEF OutageLimitsTraffic, Entering, Cooling
<1>9. pending' = CallersAt(Uncounted)' + queued' + InHand' + Unaccounted'
  BY <1>1, <1>3, <1>4, <1>5, TransportFacts
<1>10. total'.offered = total'.posted + total'.reported + counts'.dropped + counts'.failed
                    + CallersAt(Handing)' + queued' + Undecided' + Unaccounted'
  BY <1>1, <1>3, <1>4, <1>5, TransportFacts
<1>11. QED
  BY <1>6, <1>7, <1>8, <1>9, <1>10, TransportHolds

LEMMA SnapshotStep ==
  ASSUME TransportIInv, Snapshot
  PROVE  TransportIInv'
<1>. DEFINE label == "post"
<1>1. /\ pc[Worker] = "snapshot" /\ pc' = [pc EXCEPT ![Worker] = label] /\ UNCHANGED <<drained>>
      /\ UNCHANGED <<state, cooled, consecutive, reserved, counts, pending, queued, total>> /\ summary' = counts
  BY DEF Snapshot, Goto, breaker
<1>2. label \in {"post"} /\ label \in WorkerLabels  BY DEF WorkerLabels
<1>. HIDE DEF label
<1>3. /\ TransportTyped /\ ReportedIsCounted /\ DealtWith /\ OutageOpens /\ OutageLimitsTraffic
      /\ pc' \in [Threads -> WorkerLabels \cup CallerLabels] /\ pc'[Worker] = label
      /\ pc'[Worker] \in WorkerLabels /\ \A c \in Callers : pc'[c] \in CallerLabels
      /\ CallersAt(Uncounted)' = CallersAt(Uncounted) /\ CallersAt(Handing)' = CallersAt(Handing)
      /\ CallersAt(Entering)' = CallersAt(Entering) /\ Unaccounted' = Unaccounted
  BY <1>1, <1>2, DeliverMoves
<1>4. InHand = 1 /\ Undecided = 1 /\ InHand' = 1 /\ Undecided' = 1
  BY <1>1, <1>2, <1>3, WorkerCounts, WorkerCountsThen
<1>5. TransportTyped'  BY <1>1, <1>3, TransportFacts DEF TransportTyped
<1>6. OutageOpens' /\ DealtWith' /\ ReportedIsCounted'
  BY <1>1, <1>2, <1>3, TransportFacts DEF OutageOpens, DealtWith, ReportedIsCounted, TransportTyped
<1>7. Cooling' /\ pc'[Worker] # "drain" => CallersAt(Entering)' + queued' + Undecided' <= Cardinality(Callers)
  BY <1>1, <1>2, <1>3, <1>4, TransportFacts DEF OutageLimitsTraffic, Entering, Cooling
<1>8. pending' = CallersAt(Uncounted)' + queued' + InHand' + Unaccounted'
  BY <1>1, <1>3, <1>4, TransportFacts
<1>9. total'.offered = total'.posted + total'.reported + counts'.dropped + counts'.failed
                    + CallersAt(Handing)' + queued' + Undecided' + Unaccounted'
  BY <1>1, <1>3, <1>4, TransportFacts
<1>10. QED
  BY <1>5, <1>6, <1>7, <1>8, <1>9, TransportHolds

LEMMA PostStep ==
  ASSUME TransportIInv, Post
  PROVE  TransportIInv'
<1>. DEFINE label == IF pc' = [pc EXCEPT ![Worker] = "ack"] THEN "ack" ELSE "fail"
<1>1. /\ pc[Worker] = "post" /\ pc' = [pc EXCEPT ![Worker] = label] /\ UNCHANGED <<drained>>
      /\ UNCHANGED <<state, cooled, consecutive, reserved, counts, pending, queued, summary, total>>
  BY DEF Post, Goto, breaker
<1>2. label \in {"ack", "fail"} /\ label \in WorkerLabels  BY DEF WorkerLabels
<1>. HIDE DEF label
<1>3. /\ TransportTyped /\ ReportedIsCounted /\ DealtWith /\ OutageOpens /\ OutageLimitsTraffic
      /\ pc' \in [Threads -> WorkerLabels \cup CallerLabels] /\ pc'[Worker] = label
      /\ pc'[Worker] \in WorkerLabels /\ \A c \in Callers : pc'[c] \in CallerLabels
      /\ CallersAt(Uncounted)' = CallersAt(Uncounted) /\ CallersAt(Handing)' = CallersAt(Handing)
      /\ CallersAt(Entering)' = CallersAt(Entering) /\ Unaccounted' = Unaccounted
  BY <1>1, <1>2, DeliverMoves
<1>4. InHand = 1 /\ Undecided = 1 /\ InHand' = 1 /\ Undecided' = 1
  BY <1>1, <1>2, <1>3, WorkerCounts, WorkerCountsThen
<1>5. TransportTyped'  BY <1>1, <1>3, TransportFacts DEF TransportTyped
<1>6. OutageOpens' /\ DealtWith' /\ ReportedIsCounted'
  BY <1>1, <1>2, <1>3, TransportFacts DEF OutageOpens, DealtWith, ReportedIsCounted, TransportTyped
<1>7. Cooling' /\ pc'[Worker] # "drain" => CallersAt(Entering)' + queued' + Undecided' <= Cardinality(Callers)
  BY <1>1, <1>2, <1>3, <1>4, TransportFacts DEF OutageLimitsTraffic, Entering, Cooling
<1>8. pending' = CallersAt(Uncounted)' + queued' + InHand' + Unaccounted'
  BY <1>1, <1>3, <1>4, TransportFacts
<1>9. total'.offered = total'.posted + total'.reported + counts'.dropped + counts'.failed
                    + CallersAt(Handing)' + queued' + Undecided' + Unaccounted'
  BY <1>1, <1>3, <1>4, TransportFacts
<1>10. QED
  BY <1>5, <1>6, <1>7, <1>8, <1>9, TransportHolds

LEMMA AckStep ==
  ASSUME TransportIInv, Ack
  PROVE  TransportIInv'
<1>. DEFINE label == "close"
<1>1. /\ pc[Worker] = "ack" /\ pc' = [pc EXCEPT ![Worker] = label] /\ UNCHANGED <<drained>>
      /\ UNCHANGED <<state, cooled, consecutive, reserved, pending, queued>> /\ summary' = Zero /\ counts' = Acknowledged
      /\ total' = [total EXCEPT !.posted = @ + 1, !.reported = @ + summary.dropped + summary.failed]
  BY DEF Ack, Goto, breaker
<1>2. label \in {"close"} /\ label \in WorkerLabels  BY DEF WorkerLabels
<1>. HIDE DEF label
<1>3. /\ TransportTyped /\ ReportedIsCounted /\ DealtWith /\ OutageOpens /\ OutageLimitsTraffic
      /\ pc' \in [Threads -> WorkerLabels \cup CallerLabels] /\ pc'[Worker] = label
      /\ pc'[Worker] \in WorkerLabels /\ \A c \in Callers : pc'[c] \in CallerLabels
      /\ CallersAt(Uncounted)' = CallersAt(Uncounted) /\ CallersAt(Handing)' = CallersAt(Handing)
      /\ CallersAt(Entering)' = CallersAt(Entering) /\ Unaccounted' = Unaccounted
  BY <1>1, <1>2, DeliverMoves
<1>4. InHand = 1 /\ Undecided = 1 /\ InHand' = 1 /\ Undecided' = 0
  BY <1>1, <1>2, <1>3, WorkerCounts, WorkerCountsThen
<1>5. /\ counts' \in Counters /\ counts'.dropped = counts.dropped - summary.dropped
      /\ counts'.failed = counts.failed - summary.failed
  BY <1>1, <1>3, TransportFacts DEF Acknowledged, Atmost0, Counters, ReportedIsCounted
<1>6. /\ total' \in [offered : 0..MaxEvents, posted : Nat, reported : Nat]
      /\ total'.offered = total.offered /\ total'.posted = total.posted + 1
      /\ total'.reported = total.reported + summary.dropped + summary.failed
  <2>1. PICK n \in Nat : n = total.reported + summary.dropped + summary.failed  BY TransportFacts
  <2>2. PICK k \in Nat : k = total.posted + 1  BY TransportFacts
  <2>3. total' = [total EXCEPT !.posted = k, !.reported = n]  BY <1>1, <2>1, <2>2
  <2>4. QED  BY <1>3, <2>1, <2>2, <2>3 DEF TransportTyped
<1>7. summary' \in Counters /\ summary'.dropped = 0 /\ summary'.failed = 0  BY <1>1 DEF Zero, Counters
<1>8. TransportTyped'  BY <1>1, <1>3, <1>5, <1>6, <1>7, TransportFacts DEF TransportTyped
<1>9. OutageOpens' /\ DealtWith' /\ ReportedIsCounted'
  BY <1>1, <1>2, <1>3, <1>5, <1>6, <1>7, TransportFacts DEF OutageOpens, DealtWith, ReportedIsCounted, TransportTyped
<1>10. Cooling' /\ pc'[Worker] # "drain" => CallersAt(Entering)' + queued' + Undecided' <= Cardinality(Callers)
  BY <1>1, <1>2, <1>3, <1>4, <1>5, <1>6, <1>7, TransportFacts DEF OutageLimitsTraffic, Entering, Cooling
<1>11. pending' = CallersAt(Uncounted)' + queued' + InHand' + Unaccounted'
  BY <1>1, <1>3, <1>4, <1>5, <1>6, <1>7, TransportFacts
<1>12. total'.offered = total'.posted + total'.reported + counts'.dropped + counts'.failed
                    + CallersAt(Handing)' + queued' + Undecided' + Unaccounted'
  BY <1>1, <1>3, <1>4, <1>5, <1>6, <1>7, TransportFacts
<1>13. QED
  BY <1>8, <1>9, <1>10, <1>11, <1>12, TransportHolds

LEMMA CloseStep ==
  ASSUME TransportIInv, Close
  PROVE  TransportIInv'
<1>. DEFINE label == "settle"
<1>1. /\ pc[Worker] = "close" /\ pc' = [pc EXCEPT ![Worker] = label] /\ UNCHANGED <<drained>>
      /\ UNCHANGED <<counts, pending, queued, summary, total>> /\ state' = "closed" /\ consecutive' = 0 /\ reserved' = FALSE /\ cooled' = FALSE
  BY DEF Close, Goto, breaker
<1>2. label \in {"settle"} /\ label \in WorkerLabels  BY DEF WorkerLabels
<1>. HIDE DEF label
<1>3. /\ TransportTyped /\ ReportedIsCounted /\ DealtWith /\ OutageOpens /\ OutageLimitsTraffic
      /\ pc' \in [Threads -> WorkerLabels \cup CallerLabels] /\ pc'[Worker] = label
      /\ pc'[Worker] \in WorkerLabels /\ \A c \in Callers : pc'[c] \in CallerLabels
      /\ CallersAt(Uncounted)' = CallersAt(Uncounted) /\ CallersAt(Handing)' = CallersAt(Handing)
      /\ CallersAt(Entering)' = CallersAt(Entering) /\ Unaccounted' = Unaccounted
  BY <1>1, <1>2, DeliverMoves
<1>4. InHand = 1 /\ Undecided = 0 /\ InHand' = 1 /\ Undecided' = 0
  BY <1>1, <1>2, <1>3, WorkerCounts, WorkerCountsThen
<1>5. consecutive' \in 0..Threshold  BY <1>1, SizeAssumption
<1>6. TransportTyped'  BY <1>1, <1>3, <1>5, TransportFacts DEF TransportTyped
<1>7. OutageOpens' /\ DealtWith' /\ ReportedIsCounted'
  BY <1>1, <1>2, <1>3, <1>5, TransportFacts, SizeAssumption DEF OutageOpens, DealtWith, ReportedIsCounted, TransportTyped
<1>8. Cooling' /\ pc'[Worker] # "drain" => CallersAt(Entering)' + queued' + Undecided' <= Cardinality(Callers)
  BY <1>1, <1>2, <1>3, <1>4, <1>5, TransportFacts DEF OutageLimitsTraffic, Entering, Cooling
<1>9. pending' = CallersAt(Uncounted)' + queued' + InHand' + Unaccounted'
  BY <1>1, <1>3, <1>4, <1>5, TransportFacts
<1>10. total'.offered = total'.posted + total'.reported + counts'.dropped + counts'.failed
                    + CallersAt(Handing)' + queued' + Undecided' + Unaccounted'
  BY <1>1, <1>3, <1>4, <1>5, TransportFacts
<1>11. QED
  BY <1>6, <1>7, <1>8, <1>9, <1>10, TransportHolds

LEMMA FailureStep ==
  ASSUME TransportIInv, RecordFailure
  PROVE  TransportIInv'
<1>. DEFINE label == IF Opens THEN AfterOpening ELSE "settle"
<1>1. /\ pc[Worker] = "fail" /\ pc' = [pc EXCEPT ![Worker] = label] /\ UNCHANGED <<drained>>
      /\ UNCHANGED <<pending, queued, total>> /\ summary' = Zero /\ counts' = [counts EXCEPT !.failed = @ + 1]
      /\ consecutive' = IF consecutive < Threshold THEN consecutive + 1 ELSE consecutive
      /\ Opens => state' = "open" /\ cooled' = FALSE /\ reserved' = FALSE
      /\ ~Opens => UNCHANGED <<state, cooled, reserved>>
  BY DEF RecordFailure, Goto, breaker
<1>2. label \in {"drain", "settle"} /\ label \in WorkerLabels /\ (Opens => label = "drain")
  BY DEF WorkerLabels, AfterOpening
<1>. HIDE DEF label
<1>3. /\ TransportTyped /\ ReportedIsCounted /\ DealtWith /\ OutageOpens /\ OutageLimitsTraffic
      /\ pc' \in [Threads -> WorkerLabels \cup CallerLabels] /\ pc'[Worker] = label
      /\ pc'[Worker] \in WorkerLabels /\ \A c \in Callers : pc'[c] \in CallerLabels
      /\ CallersAt(Uncounted)' = CallersAt(Uncounted) /\ CallersAt(Handing)' = CallersAt(Handing)
      /\ CallersAt(Entering)' = CallersAt(Entering) /\ Unaccounted' = Unaccounted
  BY <1>1, <1>2, DeliverMoves
<1>4. InHand = 1 /\ Undecided = 1 /\ InHand' = 1 /\ Undecided' = 0
  BY <1>1, <1>2, <1>3, WorkerCounts, WorkerCountsThen
<1>5. counts' \in Counters /\ counts'.dropped = counts.dropped /\ counts'.failed = counts.failed + 1
  BY <1>1, TransportFacts DEF Counters
<1>6. summary' \in Counters /\ summary'.dropped = 0 /\ summary'.failed = 0  BY <1>1 DEF Zero, Counters
<1>7. consecutive' \in 0..Threshold /\ (~Opens => consecutive' # Threshold)
  BY <1>1, <1>3, SizeAssumption DEF TransportTyped, Opens
<1>8. TransportTyped'  BY <1>1, <1>3, <1>5, <1>6, <1>7, TransportFacts DEF TransportTyped
<1>9. OutageOpens' /\ DealtWith' /\ ReportedIsCounted'
  BY <1>1, <1>2, <1>3, <1>5, <1>6, <1>7, TransportFacts, SizeAssumption DEF OutageOpens, DealtWith, ReportedIsCounted, TransportTyped
<1>10. Cooling' /\ pc'[Worker] # "drain" => CallersAt(Entering)' + queued' + Undecided' <= Cardinality(Callers)
  BY <1>1, <1>2, <1>3, <1>4, <1>5, <1>6, <1>7, TransportFacts DEF OutageLimitsTraffic, Entering, Cooling
<1>11. pending' = CallersAt(Uncounted)' + queued' + InHand' + Unaccounted'
  BY <1>1, <1>3, <1>4, <1>5, <1>6, <1>7, TransportFacts
<1>12. total'.offered = total'.posted + total'.reported + counts'.dropped + counts'.failed
                    + CallersAt(Handing)' + queued' + Undecided' + Unaccounted'
  BY <1>1, <1>3, <1>4, <1>5, <1>6, <1>7, TransportFacts
<1>13. QED
  BY <1>8, <1>9, <1>10, <1>11, <1>12, TransportHolds

LEMMA SettleStep ==
  ASSUME TransportIInv, Settle
  PROVE  TransportIInv'
<1>. DEFINE label == "get"
<1>1. /\ pc[Worker] = "settle" /\ pc' = [pc EXCEPT ![Worker] = label] /\ UNCHANGED <<drained>>
      /\ UNCHANGED <<state, cooled, consecutive, reserved, counts, queued, summary, total>> /\ pending' = Atmost0(pending - 1)
  BY DEF Settle, Goto, breaker
<1>2. label \in {"get"} /\ label \in WorkerLabels  BY DEF WorkerLabels
<1>. HIDE DEF label
<1>3. /\ TransportTyped /\ ReportedIsCounted /\ DealtWith /\ OutageOpens /\ OutageLimitsTraffic
      /\ pc' \in [Threads -> WorkerLabels \cup CallerLabels] /\ pc'[Worker] = label
      /\ pc'[Worker] \in WorkerLabels /\ \A c \in Callers : pc'[c] \in CallerLabels
      /\ CallersAt(Uncounted)' = CallersAt(Uncounted) /\ CallersAt(Handing)' = CallersAt(Handing)
      /\ CallersAt(Entering)' = CallersAt(Entering) /\ Unaccounted' = Unaccounted
  BY <1>1, <1>2, DeliverMoves
<1>4. InHand = 1 /\ Undecided = 0 /\ InHand' = 0 /\ Undecided' = 0
  BY <1>1, <1>2, <1>3, WorkerCounts, WorkerCountsThen
<1>5. pending' = pending - 1 /\ pending' \in Nat  BY <1>1, <1>4, TransportFacts DEF Atmost0
<1>6. TransportTyped'  BY <1>1, <1>3, <1>5, TransportFacts DEF TransportTyped
<1>7. OutageOpens' /\ DealtWith' /\ ReportedIsCounted'
  BY <1>1, <1>2, <1>3, <1>5, TransportFacts DEF OutageOpens, DealtWith, ReportedIsCounted, TransportTyped
<1>8. Cooling' /\ pc'[Worker] # "drain" => CallersAt(Entering)' + queued' + Undecided' <= Cardinality(Callers)
  BY <1>1, <1>2, <1>3, <1>4, <1>5, TransportFacts DEF OutageLimitsTraffic, Entering, Cooling
<1>9. pending' = CallersAt(Uncounted)' + queued' + InHand' + Unaccounted'
  BY <1>1, <1>3, <1>4, <1>5, TransportFacts
<1>10. total'.offered = total'.posted + total'.reported + counts'.dropped + counts'.failed
                    + CallersAt(Handing)' + queued' + Undecided' + Unaccounted'
  BY <1>1, <1>3, <1>4, <1>5, TransportFacts
<1>11. QED
  BY <1>6, <1>7, <1>8, <1>9, <1>10, TransportHolds

LEMMA CooldownStep ==
  ASSUME TransportIInv, CooldownEnds
  PROVE  TransportIInv'
<1>1. cooled' = TRUE /\ UNCHANGED <<state, consecutive, reserved, counts, pending, queued, pc, drained, summary, total>>
  BY DEF CooldownEnds
<1>2. TransportTyped' /\ OutageOpens' /\ ReportedIsCounted' /\ DealtWith' /\ ~Cooling'
  BY <1>1 DEF TransportIInv, TransportTyped, OutageOpens, ReportedIsCounted, DealtWith, Cooling
<1>3. PendingIsExact' /\ EveryEventIsAccounted'
  BY <1>1 DEF TransportIInv, PendingIsExact, EveryEventIsAccounted, CallersAt, InHand, Undecided, Unaccounted
<1>4. QED  BY <1>2, <1>3 DEF TransportIInv, OutageLimitsTraffic

LEMMA TransportRests ==
  ASSUME TransportIInv, UNCHANGED vars
  PROVE  TransportIInv'
<1>1. UNCHANGED <<state, cooled, consecutive, reserved, counts, pending, queued, pc, drained, summary, total>>
  BY DEF vars
<1>2. TransportTyped' /\ OutageOpens' /\ ReportedIsCounted' /\ DealtWith'
  BY <1>1 DEF TransportIInv, TransportTyped, OutageOpens, ReportedIsCounted, DealtWith
<1>3. PendingIsExact' /\ EveryEventIsAccounted' /\ OutageLimitsTraffic'
  BY <1>1 DEF TransportIInv, PendingIsExact, EveryEventIsAccounted, OutageLimitsTraffic, Cooling, CallersAt, InHand,
              Undecided, Unaccounted
<1>4. QED  BY <1>2, <1>3 DEF TransportIInv

LEMMA TransportStep ==
  ASSUME TransportIInv, [Next]_vars
  PROVE  TransportIInv'
<1>1. ASSUME NEW c \in Callers, Reserve(c)  PROVE TransportIInv'  BY <1>1, ReserveStep
<1>2. ASSUME NEW c \in Callers, Enqueue(c)  PROVE TransportIInv'  BY <1>2, EnqueueStep
<1>3. ASSUME NEW t \in Threads, Empty(t)  PROVE TransportIInv'  BY <1>3, DrainStep, AccountStep DEF Empty
<1>4. CASE Deliver
  BY <1>4, GetStep, SnapshotStep, PostStep, AckStep, CloseStep, FailureStep, SettleStep DEF Deliver
<1>5. CASE CooldownEnds  BY <1>5, CooldownStep
<1>6. CASE Quiet \/ UNCHANGED vars  BY <1>6, TransportRests DEF Quiet
<1>7. QED  BY <1>1, <1>2, <1>3, <1>4, <1>5, <1>6 DEF Next

LEMMA TransportInit ==
  ASSUME Init
  PROVE  TransportIInv
<1>1. /\ state = "closed" /\ cooled = FALSE /\ consecutive = 0 /\ reserved = FALSE /\ counts = Zero /\ summary = Zero
      /\ pending = 0 /\ queued = 0 /\ pc = [t \in Threads |-> IF t = Worker THEN "none" ELSE "idle"]
      /\ drained = [t \in Threads |-> 0] /\ total = [offered |-> 0, posted |-> 0, reported |-> 0]
  BY DEF Init
<1>2. Worker \in Threads /\ pc[Worker] = "none" /\ \A c \in Callers : pc[c] = "idle"
  BY <1>1, CallersAssumption DEF Threads
<1>3. TransportTyped
  <2>1. 0 \in 0..MaxEvents /\ 0 \in 0..QueueMax /\ 0 \in 0..Threshold  BY SizeAssumption
  <2>2. Zero \in Counters  BY DEF Zero, Counters
  <2>3. total \in [offered : 0..MaxEvents, posted : Nat, reported : Nat]  BY <1>1, <2>1
  <2>4. pc \in [Threads -> WorkerLabels \cup CallerLabels]  BY <1>1 DEF WorkerLabels, CallerLabels
  <2>5. pc[Worker] \in WorkerLabels /\ \A c \in Callers : pc[c] \in CallerLabels  BY <1>2 DEF WorkerLabels, CallerLabels
  <2>6. drained \in [Threads -> 0..MaxEvents]  BY <1>1, <2>1
  <2>7. QED  BY <1>1, <2>1, <2>2, <2>3, <2>4, <2>5, <2>6 DEF TransportTyped
<1>4. Unaccounted = 0
  <2>1. \A z \in Threads \X (1..MaxEvents) : ~(z[2] <= drained[z[1]])
    <3>1. \A z \in Threads \X (1..MaxEvents) : z[1] \in Threads /\ z[2] \in 1..MaxEvents  OBVIOUS
    <3>2. QED  BY <1>1, <3>1, SizeAssumption
  <2>2. {taken \in Threads \X (1..MaxEvents) : taken[2] <= drained[taken[1]]} = {}  BY <2>1
  <2>3. QED  BY <2>2, FS_EmptySet DEF Unaccounted
<1>5. CallersAt({"put", "release", "uncount"}) = 0 /\ CallersAt({"count", "put", "release", "uncount"}) = 0
  <2>1. {c \in Callers : pc[c] \in {"put", "release", "uncount"}} = {}  BY <1>2
  <2>2. {c \in Callers : pc[c] \in {"count", "put", "release", "uncount"}} = {}  BY <1>2
  <2>3. QED  BY <2>1, <2>2, FS_EmptySet DEF CallersAt
<1>6. InHand = 0 /\ Undecided = 0  BY <1>2, WorkerCounts
<1>7. PendingIsExact  BY <1>1, <1>4, <1>5, <1>6 DEF PendingIsExact
<1>8. EveryEventIsAccounted  BY <1>1, <1>4, <1>5, <1>6 DEF EveryEventIsAccounted, Zero
<1>9. OutageLimitsTraffic /\ OutageOpens /\ ReportedIsCounted /\ DealtWith
  BY <1>1, <1>2, SizeAssumption DEF OutageLimitsTraffic, Cooling, OutageOpens, ReportedIsCounted, DealtWith, Zero
<1>10. QED  BY <1>3, <1>7, <1>8, <1>9 DEF TransportIInv

(* Every counter is at most the number of events: what it counts was       *)
(* handed over, and an event is in one place.                              *)
LEMMA TransportImplied ==
  ASSUME TransportIInv
  PROVE  TransportInv
<1>1. CallersAt(Uncounted) <= CallersAt(Handing)
  <2>. DEFINE fewer == {c \in Callers : pc[c] \in Uncounted}
              more == {c \in Callers : pc[c] \in Handing}
  <2>1. fewer \in SUBSET more  BY DEF Uncounted, Handing
  <2>2. IsFiniteSet(more)  BY CountedCallers
  <2>. HIDE DEF fewer, more
  <2>3. Cardinality(fewer) <= Cardinality(more)  BY <2>1, <2>2, FS_Subset
  <2>4. QED  BY <2>3 DEF CallersAt, fewer, more
<1>2. TransportTyped /\ DealtWith /\ ReportedIsCounted /\ pc[Worker] \in WorkerLabels
  BY DEF TransportIInv, TransportTyped
<1>3. InHand + CallersAt(Handing) + queued + Unaccounted <= MaxEvents
  <2>1. CASE pc[Worker] \in {"none", "get"}  BY <2>1, TransportFacts, WorkerCounts
  <2>2. CASE pc[Worker] \in {"snapshot", "post", "ack", "fail"}  BY <2>2, TransportFacts, WorkerCounts
  <2>3. CASE pc[Worker] \in {"close", "drain", "account", "settle"}
    BY <1>2, <2>3, TransportFacts, WorkerCounts DEF DealtWith
  <2>4. QED  BY <1>2, <2>1, <2>2, <2>3 DEF WorkerLabels
<1>4. InHand \in Nat /\ Undecided \in Nat  BY DEF InHand, Undecided
<1>5. pending \in 0..MaxEvents  BY <1>1, <1>3, <1>4, TransportFacts
<1>6. counts.dropped \in 0..MaxEvents /\ counts.failed \in 0..MaxEvents  BY <1>4, TransportFacts
<1>7. summary.dropped \in 0..MaxEvents /\ summary.failed \in 0..MaxEvents
  BY <1>2, <1>6, TransportFacts DEF ReportedIsCounted
<1>8. counts \in [dropped : 0..MaxEvents, failed : 0..MaxEvents] /\ summary \in [dropped : 0..MaxEvents, failed : 0..MaxEvents]
  BY <1>2, <1>6, <1>7 DEF TransportTyped, Counters
<1>9. TypeOK  BY <1>2, <1>5, <1>8 DEF TypeOK, TransportTyped, WorkerLabels, CallerLabels
<1>10. QED  BY <1>9 DEF TransportIInv, TransportInv

(* However many threads, events and failures: flush() waits for exactly    *)
(* what is under way, no event vanishes or is counted twice, an outage     *)
(* opens the breaker, and while it cools each caller passes one event at   *)
(* most (ControlClient's lock, queue and counters).                        *)
THEOREM TransportAccounts == Spec => []TransportInv
<1>1. Init => TransportIInv  BY TransportInit
<1>2. TransportIInv /\ [Next]_vars => TransportIInv'  BY TransportStep
<1>3. TransportIInv => TransportInv  BY TransportImplied
<1>4. QED  BY <1>1, <1>2, <1>3, PTL DEF Spec

-----------------------------------------------------------------------------
(* The steps of the calls.                                                 *)

LEMMA CallsFacts ==
  ASSUME CallsIInv
  PROVE  /\ CallsTyped /\ CacheOK /\ MaxClock \in Nat /\ MaxPolicy \in Nat /\ MaxPolicy >= 1
         /\ clock \in Nat /\ clock <= MaxClock /\ policy \in 1..MaxPolicy /\ replaced \in [1..MaxPolicy -> Nat]
         /\ replaced[policy] = MaxClock + 1 /\ call \in [Callers -> CallRows]
         /\ \A v \in 1..MaxPolicy : v >= policy => replaced[v] = MaxClock + 1
         /\ \A c \in Callers : CallOK(c) /\ call[c] \in CallRows /\ call[c].now <= clock
         /\ \A c \in flusher.owed : shadow[c] = "running"
         /\ flusher.pc = "waited" => flusher.owed = {}
<1>1. /\ CallsTyped /\ CacheOK /\ clock \in 0..MaxClock /\ policy \in 1..MaxPolicy
      /\ replaced \in [1..MaxPolicy -> Nat] /\ call \in [Callers -> CallRows]
  BY DEF CallsIInv, CallsTyped
<1>2. MaxClock \in Nat /\ MaxPolicy \in Nat /\ MaxPolicy >= 1  BY ClockAssumption
<1>3. \A c \in Callers : call[c] \in CallRows /\ call[c].now <= clock  BY <1>1 DEF CallsTyped
<1>4. /\ \A v \in 1..MaxPolicy : v >= policy => replaced[v] = MaxClock + 1
      /\ \A c \in Callers : CallOK(c)
      /\ \A c \in flusher.owed : shadow[c] = "running"
      /\ flusher.pc = "waited" => flusher.owed = {}
  BY DEF CallsIInv
<1>5. replaced[policy] = MaxClock + 1  BY <1>1, <1>2, <1>4
<1>6. QED  BY <1>1, <1>2, <1>3, <1>4, <1>5

LEMMA RowMoves ==
  ASSUME CallsIInv, NEW c \in Callers, NEW r \in CallRows, call' = [call EXCEPT ![c] = r]
  PROVE  /\ call' \in [Callers -> CallRows] /\ call'[c] = r
         /\ \A d \in Callers : d # c => call'[d] = call[d]
BY CallsFacts

(* A caller on its way through the wrapper, up to the shadow thread.       *)
LEMMA CallerPasses ==
  ASSUME CallsIInv, NEW c \in Callers, NEW r \in CallRows, call' = [call EXCEPT ![c] = r], r.now <= clock,
         r.pc = "store" /\ r.got # -1 => replaced[r.got] >= r.now,
         r.pc # "idle" => shadow[c] \in {"none", "done"}, r.pc # "start",
         calls' \in [Callers -> Nat], outcome' \in [Callers -> {"none", "returned", "raised", "telemetry_error"}],
         UNCHANGED <<clock, policy, replaced, cache, shadow, inflight, flusher>>, call[c].pc # "start"
  PROVE  CallsIInv'
<1>1. /\ call' \in [Callers -> CallRows] /\ call'[c] = r
      /\ \A d \in Callers : d # c => call'[d] = call[d]
  BY RowMoves
<1>2. CallsTyped'
  <2>1. \A d \in Callers : call'[d].now <= clock'  BY <1>1, CallsFacts
  <2>2. QED  BY <1>1, <2>1, CallsFacts DEF CallsTyped
<1>3. \A d \in Callers : CallOK(d)'
  <2>1. ASSUME NEW d \in Callers, d # c  PROVE CallOK(d)'
    <3>1. CallOK(d) /\ call'[d] = call[d]  BY <1>1, <2>1, CallsFacts
    <3>2. QED  BY <3>1 DEF CallOK
  <2>2. CallOK(c)'
    <3>1. CallOK(c)  BY CallsFacts
    <3>2. QED  BY <1>1, <3>1 DEF CallOK
  <2>3. QED  BY <2>1, <2>2
<1>4. CacheOK' /\ \A v \in 1..MaxPolicy : v >= policy' => replaced'[v] = MaxClock + 1
  BY CallsFacts DEF CacheOK
<1>5. (\A d \in flusher'.owed : shadow'[d] = "running") /\ (flusher'.pc = "waited" => flusher'.owed = {})
  BY CallsFacts
<1>6. QED  BY <1>2, <1>3, <1>4, <1>5 DEF CallsIInv

LEMMA PassingStep ==
  ASSUME CallsIInv, NEW c \in Callers,
         Calls!Begin(c) \/ Calls!Lookup(c) \/ Calls!Fetch(c) \/ Calls!ApplyMode(c) \/ Calls!Run(c) \/ Calls!Send(c)
  PROVE  CallsIInv'
<1>1. PICK r \in CallRows : r = call[c]  BY CallsFacts
<1>2. /\ CallOK(c) /\ r.now <= clock /\ clock \in Nat /\ call \in [Callers -> CallRows]
      /\ calls \in [Callers -> Nat] /\ outcome \in [Callers -> {"none", "returned", "raised", "telemetry_error"}]
  BY <1>1, CallsFacts DEF CallsTyped
<1>. DEFINE Labels == {"idle", "lookup", "fetch", "store", "apply", "run", "run_bare", "send", "spawn"}
<1>3. CASE Calls!Begin(c)
  <2>1. /\ call[c].pc = "idle" /\ shadow[c] \in {"none", "done"}
        /\ calls' = [calls EXCEPT ![c] = @ + 1] /\ outcome' = [outcome EXCEPT ![c] = "none"]
        /\ \/ call' = [call EXCEPT ![c].pc = "run_bare"]
           \/ call' = [call EXCEPT ![c].pc = "lookup", ![c].now = clock]
        /\ UNCHANGED <<clock, policy, replaced, cache, shadow, inflight, flusher>>
    BY <1>3 DEF Calls!Begin, Calls!At, Calls!Goto, Calls!server, Calls!waiting
  <2>2. /\ calls' \in [Callers -> Nat] /\ outcome' \in [Callers -> {"none", "returned", "raised", "telemetry_error"}]
    BY <1>2, <2>1
  <2>3. CASE call' = [call EXCEPT ![c].pc = "run_bare"]
    <3>. DEFINE q == [r EXCEPT !.pc = "run_bare"]
    <3>1. q \in CallRows /\ q.pc = "run_bare" /\ q.now = r.now
      BY DEF CallRows
    <3>2. call' = [call EXCEPT ![c] = q]  BY <1>1, <1>2, <2>3
    <3>. HIDE DEF q
    <3>3. QED  BY <1>2, <2>1, <2>2, <3>1, <3>2, CallerPasses
  <2>4. CASE call' = [call EXCEPT ![c].pc = "lookup", ![c].now = clock]
    <3>. DEFINE q == [r EXCEPT !.pc = "lookup", !.now = clock]
    <3>1. q \in CallRows /\ q.pc = "lookup" /\ q.now = clock  BY <1>2 DEF CallRows
    <3>2. call' = [call EXCEPT ![c] = q]  BY <1>1, <1>2, <2>4
    <3>. HIDE DEF q
    <3>3. q.now <= clock  BY <1>2, <3>1
    <3>4. QED  BY <2>1, <2>2, <3>1, <3>2, <3>3, CallerPasses
  <2>5. QED  BY <2>1, <2>3, <2>4
<1>4. CASE Calls!Lookup(c)
  <2>1. PICK label \in {"apply", "fetch"} :
           /\ call[c].pc = "lookup" /\ call' = [call EXCEPT ![c].pc = label]
           /\ UNCHANGED <<clock, policy, replaced, cache, calls, outcome, shadow, inflight, flusher>>
    BY <1>4 DEF Calls!Lookup, Calls!At, Calls!Goto, Calls!server, Calls!waiting
  <2>. DEFINE q == [r EXCEPT !.pc = label]
  <2>2. q \in CallRows /\ q.pc = label /\ q.now = r.now
    BY DEF CallRows
  <2>3. call' = [call EXCEPT ![c] = q]  BY <1>1, <1>2, <2>1
  <2>. HIDE DEF q
  <2>4. shadow[c] \in {"none", "done"}  BY <1>2, <2>1 DEF CallOK
  <2>5. QED  BY <1>2, <2>1, <2>2, <2>3, <2>4, CallerPasses
<1>5. CASE Calls!Fetch(c)
  <2>1. /\ call[c].pc = "fetch"
        /\ \/ /\ \E got \in {policy, -1} : call' = [call EXCEPT ![c].pc = "store", ![c].got = got]
              /\ UNCHANGED outcome
           \/ call' = [call EXCEPT ![c].pc = "idle"] /\ outcome' = [outcome EXCEPT ![c] = "telemetry_error"]
        /\ UNCHANGED <<clock, policy, replaced, cache, calls, shadow, inflight, flusher>>
    BY <1>5 DEF Calls!Fetch, Calls!At, Calls!Goto, Calls!Failed, Calls!server, Calls!waiting
  <2>2. shadow[c] \in {"none", "done"}  BY <1>2, <2>1 DEF CallOK
  <2>3. CASE (\E got \in {policy, -1} : call' = [call EXCEPT ![c].pc = "store", ![c].got = got]) /\ UNCHANGED outcome
    <3>1. PICK got \in {policy, -1} : call' = [call EXCEPT ![c].pc = "store", ![c].got = got]  BY <2>3
    <3>2. got \in {-1} \cup 1..MaxPolicy  BY CallsFacts
    <3>. DEFINE q == [r EXCEPT !.pc = "store", !.got = got]
    <3>3. q \in CallRows /\ q.pc = "store" /\ q.now = r.now /\ q.got = got
      BY <3>2 DEF CallRows
    <3>4. call' = [call EXCEPT ![c] = q]  BY <1>1, <1>2, <3>1
    <3>. HIDE DEF q
    <3>5. q.got # -1 => replaced[q.got] >= q.now
      <4>1. CASE got = policy  BY <1>2, <3>3, <4>1, CallsFacts DEF CallRows
      <4>2. CASE got = -1  BY <3>3, <4>2
      <4>3. QED  BY <4>1, <4>2
    <3>6. QED  BY <1>2, <2>1, <2>2, <2>3, <3>3, <3>4, <3>5, CallerPasses
  <2>4. CASE call' = [call EXCEPT ![c].pc = "idle"] /\ outcome' = [outcome EXCEPT ![c] = "telemetry_error"]
    <3>. DEFINE q == [r EXCEPT !.pc = "idle"]
    <3>1. q \in CallRows /\ q.pc = "idle" /\ q.now = r.now
      BY DEF CallRows
    <3>2. call' = [call EXCEPT ![c] = q]  BY <1>1, <1>2, <2>4
    <3>. HIDE DEF q
    <3>3. outcome' \in [Callers -> {"none", "returned", "raised", "telemetry_error"}]  BY <1>2, <2>4
    <3>4. QED  BY <1>2, <2>1, <3>1, <3>2, <3>3, CallerPasses
  <2>5. QED  BY <2>1, <2>3, <2>4
<1>6. CASE Calls!ApplyMode(c)
  <2>1. /\ call[c].pc = "apply"
        /\ \/ call' = [call EXCEPT ![c].pc = "run_bare"]
           \/ \E shadowed \in BOOLEAN : call' = [call EXCEPT ![c].pc = "run", ![c].shadowed = shadowed]
        /\ UNCHANGED <<clock, policy, replaced, cache, calls, outcome, shadow, inflight, flusher>>
    BY <1>6 DEF Calls!ApplyMode, Calls!At, Calls!Goto, Calls!server, Calls!waiting
  <2>2. shadow[c] \in {"none", "done"}  BY <1>2, <2>1 DEF CallOK
  <2>3. CASE call' = [call EXCEPT ![c].pc = "run_bare"]
    <3>. DEFINE q == [r EXCEPT !.pc = "run_bare"]
    <3>1. q \in CallRows /\ q.pc = "run_bare" /\ q.now = r.now
      BY DEF CallRows
    <3>2. call' = [call EXCEPT ![c] = q]  BY <1>1, <1>2, <2>3
    <3>. HIDE DEF q
    <3>3. QED  BY <1>2, <2>1, <2>2, <3>1, <3>2, CallerPasses
  <2>4. CASE \E shadowed \in BOOLEAN : call' = [call EXCEPT ![c].pc = "run", ![c].shadowed = shadowed]
    <3>1. PICK shadowed \in BOOLEAN : call' = [call EXCEPT ![c].pc = "run", ![c].shadowed = shadowed]  BY <2>4
    <3>. DEFINE q == [r EXCEPT !.pc = "run", !.shadowed = shadowed]
    <3>2. q \in CallRows /\ q.pc = "run" /\ q.now = r.now
      BY DEF CallRows
    <3>3. call' = [call EXCEPT ![c] = q]  BY <1>1, <1>2, <3>1
    <3>. HIDE DEF q
    <3>4. QED  BY <1>2, <2>1, <2>2, <3>2, <3>3, CallerPasses
  <2>5. QED  BY <2>1, <2>3, <2>4
<1>7. CASE Calls!Run(c) \/ Calls!Send(c)
  <2>1. PICK label \in {"idle", "send", "spawn"} :
           /\ call[c].pc \in {"run_bare", "run", "send"} /\ call' = [call EXCEPT ![c].pc = label]
           /\ UNCHANGED <<clock, policy, replaced, cache, calls, shadow, inflight, flusher>>
    BY <1>7 DEF Calls!Run, Calls!Send, Calls!At, Calls!Goto, Calls!server, Calls!waiting
  <2>2. outcome' \in [Callers -> {"none", "returned", "raised", "telemetry_error"}]
    BY <1>2, <1>7 DEF Calls!Run, Calls!Send
  <2>. DEFINE q == [r EXCEPT !.pc = label]
  <2>3. q \in CallRows /\ q.pc = label /\ q.now = r.now
    BY DEF CallRows
  <2>4. call' = [call EXCEPT ![c] = q]  BY <1>1, <1>2, <2>1
  <2>. HIDE DEF q
  <2>5. shadow[c] \in {"none", "done"}  BY <1>2, <2>1 DEF CallOK
  <2>6. QED  BY <1>2, <2>1, <2>2, <2>3, <2>4, <2>5, CallerPasses
<1>8. QED  BY <1>3, <1>4, <1>5, <1>6, <1>7

(* The rest of a call: the answer is stored, the candidate's thread is     *)
(* listed and started.                                                     *)
LEMMA StoreStep ==
  ASSUME CallsIInv, NEW c \in Callers, Calls!Store(c)
  PROVE  CallsIInv'
<1>1. PICK r \in CallRows : r = call[c]  BY CallsFacts
<1>2. /\ CallOK(c) /\ r.now <= clock /\ clock \in Nat /\ r.now \in Nat /\ call \in [Callers -> CallRows]
      /\ replaced \in [1..MaxPolicy -> Nat] /\ clock <= MaxClock /\ MaxClock \in Nat
      /\ cache \in [held : BOOLEAN, policy : 0..MaxPolicy, at : 0..MaxClock, kept : BOOLEAN]
      /\ r.got \in {-1} \cup 1..MaxPolicy
  BY <1>1, CallsFacts DEF CallsTyped, CallRows
<1>3. /\ r.pc = "store"
      /\ cache' = IF r.got # -1 THEN [held |-> TRUE, policy |-> r.got, at |-> r.now, kept |-> FALSE]
                  ELSE [held |-> TRUE, policy |-> cache.policy, at |-> r.now, kept |-> TRUE]
      /\ call' = [call EXCEPT ![c].pc = "apply", ![c].got = -1]
      /\ UNCHANGED <<clock, policy, replaced, calls, outcome, shadow, inflight, flusher>>
  BY <1>1 DEF Calls!Store, Calls!StoredAt, Calls!At, Calls!Failed, Calls!server, Calls!waiting
<1>. DEFINE q == [r EXCEPT !.pc = "apply", !.got = -1]
<1>4. q \in CallRows /\ q.pc = "apply" /\ q.now = r.now  BY DEF CallRows
<1>5. call' = [call EXCEPT ![c] = q]  BY <1>1, <1>2, <1>3
<1>. HIDE DEF q
<1>6. /\ call' \in [Callers -> CallRows] /\ call'[c] = q
      /\ \A d \in Callers : d # c => call'[d] = call[d]
  BY <1>4, <1>5, RowMoves
<1>7. /\ cache' \in [held : BOOLEAN, policy : 0..MaxPolicy, at : 0..MaxClock, kept : BOOLEAN]
      /\ cache'.at = r.now /\ (~cache'.kept => cache'.policy = r.got /\ r.got # -1)
  <2>1. CASE r.got # -1
    <3>1. cache' = [held |-> TRUE, policy |-> r.got, at |-> r.now, kept |-> FALSE]  BY <1>3, <2>1
    <3>2. r.got \in 0..MaxPolicy /\ r.now \in 0..MaxClock  BY <1>2, <2>1, ClockAssumption
    <3>3. QED  BY <2>1, <3>1, <3>2
  <2>2. CASE r.got = -1
    <3>1. cache' = [held |-> TRUE, policy |-> cache.policy, at |-> r.now, kept |-> TRUE]  BY <1>3, <2>2
    <3>2. r.now \in 0..MaxClock /\ cache.policy \in 0..MaxPolicy  BY <1>2
    <3>3. QED  BY <3>1, <3>2
  <2>3. QED  BY <2>1, <2>2
<1>8. CacheOK'
  <2>1. ~cache'.kept => cache'.policy # 0 /\ replaced[cache'.policy] >= r.now
    BY <1>1, <1>2, <1>3, <1>7, ClockAssumption DEF CallOK
  <2>2. QED  BY <1>2, <1>3, <1>7, <2>1 DEF CacheOK
<1>9. CallsTyped'
  <2>1. \A d \in Callers : call'[d].now <= clock'  BY <1>2, <1>3, <1>4, <1>6, CallsFacts
  <2>2. QED  BY <1>3, <1>6, <1>7, <2>1, CallsFacts DEF CallsTyped
<1>10. \A d \in Callers : CallOK(d)'
  <2>1. ASSUME NEW d \in Callers, d # c  PROVE CallOK(d)'
    <3>1. CallOK(d) /\ call'[d] = call[d]  BY <1>6, <2>1, CallsFacts
    <3>2. QED  BY <1>3, <3>1 DEF CallOK
  <2>2. CallOK(c)'  BY <1>1, <1>2, <1>3, <1>4, <1>6 DEF CallOK
  <2>3. QED  BY <2>1, <2>2
<1>11. /\ \A v \in 1..MaxPolicy : v >= policy' => replaced'[v] = MaxClock + 1
       /\ (\A d \in flusher'.owed : shadow'[d] = "running") /\ (flusher'.pc = "waited" => flusher'.owed = {})
  BY <1>3, CallsFacts
<1>12. QED  BY <1>8, <1>9, <1>10, <1>11 DEF CallsIInv

LEMMA SpawnStep ==
  ASSUME CallsIInv, NEW c \in Callers, Calls!List(c) \/ Calls!Start(c)
  PROVE  CallsIInv'
<1>1. PICK r \in CallRows : r = call[c]  BY CallsFacts
<1>2. /\ CallOK(c) /\ r.now <= clock /\ call \in [Callers -> CallRows] /\ shadow \in [Callers -> Shadows]
      /\ inflight \in SUBSET Callers /\ outcome \in [Callers -> {"none", "returned", "raised", "telemetry_error"}]
  BY <1>1, CallsFacts DEF CallsTyped
<1>3. /\ UNCHANGED <<clock, policy, replaced, cache, calls, flusher>>
      /\ \/ /\ r.pc = "spawn" /\ call' = [call EXCEPT ![c].pc = "start"] /\ UNCHANGED outcome
            /\ inflight' = inflight \cup {c} /\ shadow' = [shadow EXCEPT ![c] = "listed"]
         \/ /\ r.pc = "start" /\ call' = [call EXCEPT ![c].pc = "idle"] /\ UNCHANGED inflight
            /\ \/ shadow' = [shadow EXCEPT ![c] = "running"] /\ UNCHANGED outcome
               \/ outcome' = [outcome EXCEPT ![c] = "telemetry_error"] /\ UNCHANGED shadow
  BY <1>1 DEF Calls!List, Calls!Listed, Calls!Start, Calls!At, Calls!Goto, Calls!server
<1>. DEFINE label == IF r.pc = "spawn" THEN "start" ELSE "idle"
            q == [r EXCEPT !.pc = label]
<1>4. q \in CallRows /\ q.pc = label /\ q.now = r.now  BY DEF CallRows
<1>5. call' = [call EXCEPT ![c] = q]  BY <1>1, <1>2, <1>3
<1>. HIDE DEF q
<1>6. /\ call' \in [Callers -> CallRows] /\ call'[c] = q
      /\ \A d \in Callers : d # c => call'[d] = call[d]
  BY <1>4, <1>5, RowMoves
<1>7. /\ shadow' \in [Callers -> Shadows] /\ inflight' \in SUBSET Callers /\ inflight \subseteq inflight' /\ c \in inflight'
      /\ outcome' \in [Callers -> {"none", "returned", "raised", "telemetry_error"}]
      /\ \A d \in Callers : d # c => shadow'[d] = shadow[d]
      /\ shadow[c] # "running" /\ (label = "start" => shadow'[c] = "listed")
  BY <1>1, <1>2, <1>3 DEF Shadows, CallOK
<1>8. CallsTyped' /\ CacheOK'
  <2>1. \A d \in Callers : call'[d].now <= clock'  BY <1>2, <1>3, <1>4, <1>6, CallsFacts
  <2>2. QED  BY <1>3, <1>6, <1>7, <2>1, CallsFacts DEF CallsTyped, CacheOK
<1>9. \A d \in Callers : CallOK(d)'
  <2>1. ASSUME NEW d \in Callers, d # c  PROVE CallOK(d)'
    <3>1. CallOK(d) /\ call'[d] = call[d] /\ shadow'[d] = shadow[d]  BY <1>6, <1>7, <2>1, CallsFacts
    <3>2. QED  BY <1>3, <1>7, <3>1 DEF CallOK
  <2>2. CallOK(c)'  BY <1>4, <1>6, <1>7 DEF CallOK
  <2>3. QED  BY <2>1, <2>2
<1>10. /\ \A v \in 1..MaxPolicy : v >= policy' => replaced'[v] = MaxClock + 1
       /\ (\A d \in flusher'.owed : shadow'[d] = "running") /\ (flusher'.pc = "waited" => flusher'.owed = {})
  <2>1. flusher.owed \in SUBSET Callers  BY CallsFacts DEF CallsTyped
  <2>2. QED  BY <1>3, <1>7, <2>1, CallsFacts
<1>11. QED  BY <1>8, <1>9, <1>10 DEF CallsIInv

(* The candidate's thread hands over its result and ends.                  *)
LEMMA ShadowStep ==
  ASSUME CallsIInv, NEW c \in Callers, Calls!Shadow(c)
  PROVE  CallsIInv'
<1>1. /\ CallOK(c) /\ shadow \in [Callers -> Shadows] /\ inflight \in SUBSET Callers
      /\ flusher \in [pc : {"idle", "scan", "join", "waited", "raised", "timed_out"},
                      joins : SUBSET Callers, owed : SUBSET Callers]
  BY CallsFacts DEF CallsTyped
<1>2. UNCHANGED <<clock, policy, replaced, cache, call, calls, outcome>>
  BY DEF Calls!Shadow, Calls!Deliver, Calls!Finish, Calls!server
<1>3. /\ \/ shadow[c] = "running" /\ shadow' = [shadow EXCEPT ![c] = "sent"] /\ UNCHANGED inflight
            /\ flusher' = [flusher EXCEPT !.owed = @ \ {c}]
         \/ shadow[c] = "sent" /\ shadow' = [shadow EXCEPT ![c] = "done"] /\ inflight' = inflight \ {c}
            /\ flusher' = [flusher EXCEPT !.joins = @ \ {c}]
  BY DEF Calls!Shadow, Calls!Deliver, Calls!Finish
<1>4. /\ shadow' \in [Callers -> Shadows] /\ inflight' \in SUBSET Callers
      /\ \A d \in Callers : d # c => shadow'[d] = shadow[d] /\ (d \in inflight => d \in inflight')
      /\ shadow'[c] \in {"sent", "done"} /\ call[c].pc # "start"
      /\ (shadow[c] = "running" => shadow'[c] = "sent") /\ (shadow[c] = "sent" => shadow'[c] = "done")
  BY <1>1, <1>3 DEF Shadows, CallOK
<1>5. /\ flusher' \in [pc : {"idle", "scan", "join", "waited", "raised", "timed_out"},
                       joins : SUBSET Callers, owed : SUBSET Callers]
      /\ flusher'.pc = flusher.pc /\ flusher'.owed \subseteq flusher.owed \ {c}
  <2>1. CASE flusher' = [flusher EXCEPT !.owed = @ \ {c}]  BY <1>1, <2>1
  <2>2. CASE flusher' = [flusher EXCEPT !.joins = @ \ {c}] /\ shadow[c] = "sent"
    <3>1. c \notin flusher.owed  BY <2>2, CallsFacts
    <3>2. QED  BY <1>1, <2>2, <3>1
  <2>3. QED  BY <1>3, <2>1, <2>2
<1>6. CallsTyped' /\ CacheOK'
  <2>1. \A d \in Callers : call'[d].now <= clock'  BY <1>2, CallsFacts
  <2>2. QED  BY <1>2, <1>4, <1>5, <2>1, CallsFacts DEF CallsTyped, CacheOK
<1>7. \A d \in Callers : CallOK(d)'
  <2>1. ASSUME NEW d \in Callers, d # c  PROVE CallOK(d)'
    <3>1. CallOK(d) /\ call'[d] = call[d] /\ shadow'[d] = shadow[d]  BY <1>2, <1>4, <2>1, CallsFacts
    <3>2. QED  BY <1>2, <1>4, <2>1, <3>1 DEF CallOK
  <2>2. CallOK(c)'
    <3>1. call[c].pc = "idle"
      <4>1. call[c].pc \notin {"idle", "start"} => shadow[c] \in {"none", "done"}  BY <1>1 DEF CallOK
      <4>2. QED  BY <1>3, <1>4, <4>1
    <3>2. QED  BY <1>2, <1>4, <3>1 DEF CallOK
  <2>3. QED  BY <2>1, <2>2
<1>8. /\ \A v \in 1..MaxPolicy : v >= policy' => replaced'[v] = MaxClock + 1
      /\ (\A d \in flusher'.owed : shadow'[d] = "running") /\ (flusher'.pc = "waited" => flusher'.owed = {})
  <2>1. flusher.owed \in SUBSET Callers  BY <1>1
  <2>2. QED  BY <1>2, <1>4, <1>5, <2>1, CallsFacts
<1>9. QED  BY <1>6, <1>7, <1>8 DEF CallsIInv

LEMMA FlushStep ==
  ASSUME CallsIInv, Calls!Flush
  PROVE  CallsIInv'
<1>1. /\ inflight \in SUBSET Callers /\ \A c \in Callers : CallOK(c)
      /\ flusher \in [pc : {"idle", "scan", "join", "waited", "raised", "timed_out"},
                      joins : SUBSET Callers, owed : SUBSET Callers]
  BY CallsFacts DEF CallsTyped
<1>2. UNCHANGED <<clock, policy, replaced, cache, call, calls, outcome, shadow, inflight>>
  BY DEF Calls!Flush, Calls!FlushBegin, Calls!FlushScan, Calls!FlushJoin, Calls!server
<1>3. /\ flusher' \in [pc : {"idle", "scan", "join", "waited", "raised", "timed_out"},
                       joins : SUBSET Callers, owed : SUBSET Callers]
      /\ (\A d \in flusher'.owed : shadow[d] = "running") /\ (flusher'.pc = "waited" => flusher'.owed = {})
  <2>1. CASE Calls!FlushBegin
    <3>1. flusher' = [pc |-> "scan", joins |-> {}, owed |-> {c \in Callers : shadow[c] = "running"}]
      BY <2>1 DEF Calls!FlushBegin
    <3>2. QED  BY <3>1
  <2>2. CASE Calls!FlushScan
    <3>1. flusher' = [flusher EXCEPT !.pc = IF inflight = {} THEN "waited" ELSE "join", !.joins = inflight]
      BY <2>2 DEF Calls!FlushScan
    <3>2. inflight = {} => flusher.owed = {}
      <4>1. \A c \in flusher.owed : c \in Callers /\ shadow[c] = "running"  BY <1>1, CallsFacts
      <4>2. \A c \in flusher.owed : c \in inflight  BY <1>1, <4>1 DEF CallOK
      <4>3. QED  BY <4>2
    <3>3. QED  BY <1>1, <3>1, <3>2, CallsFacts
  <2>3. CASE Calls!FlushJoin
    <3>1. PICK label \in {"scan", "raised", "timed_out"} : flusher' = [flusher EXCEPT !.pc = label]
      BY <2>3 DEF Calls!FlushJoin
    <3>2. QED  BY <1>1, <3>1, CallsFacts
  <2>4. QED  BY <2>1, <2>2, <2>3 DEF Calls!Flush
<1>4. CallsTyped' /\ CacheOK'
  <2>1. \A d \in Callers : call'[d].now <= clock'  BY <1>2, CallsFacts
  <2>2. QED  BY <1>2, <1>3, <2>1, CallsFacts DEF CallsTyped, CacheOK
<1>5. \A d \in Callers : CallOK(d)'  BY <1>1, <1>2 DEF CallOK
<1>6. QED  BY <1>2, <1>3, <1>4, <1>5, CallsFacts DEF CallsIInv

(* Time, the server, and PolicyCache.invalidate.                           *)
LEMMA AroundStep ==
  ASSUME CallsIInv, Calls!Tick \/ Calls!ChangePolicy \/ Calls!Invalidate
  PROVE  CallsIInv'
<1>1. UNCHANGED <<call, calls, outcome, shadow, inflight, flusher>>
  BY DEF Calls!Tick, Calls!ChangePolicy, Calls!Invalidate, Calls!waiting
<1>2. /\ cache \in [held : BOOLEAN, policy : 0..MaxPolicy, at : 0..MaxClock, kept : BOOLEAN] /\ CacheOK
      /\ \A c \in Callers : CallOK(c) /\ call[c].now \in Nat /\ call[c].got \in {-1} \cup 1..MaxPolicy
  BY CallsFacts DEF CallsTyped, CallRows
<1>3. CASE Calls!Tick
  <2>1. clock < MaxClock /\ clock' = clock + 1 /\ UNCHANGED <<policy, replaced, cache>>
    BY <1>3 DEF Calls!Tick
  <2>2. clock' \in 0..MaxClock /\ \A c \in Callers : call'[c].now <= clock'
    BY <1>1, <1>2, <2>1, CallsFacts
  <2>3. CallsTyped'  BY <1>1, <2>1, <2>2, CallsFacts DEF CallsTyped
  <2>4. CacheOK'  BY <1>2, <2>1, CallsFacts DEF CacheOK
  <2>5. \A c \in Callers : CallOK(c)'  BY <1>1, <1>2, <2>1 DEF CallOK
  <2>6. QED  BY <1>1, <2>1, <2>3, <2>4, <2>5, CallsFacts DEF CallsIInv
<1>4. CASE Calls!ChangePolicy
  <2>1. policy < MaxPolicy /\ policy' = policy + 1 /\ replaced' = [replaced EXCEPT ![policy] = clock] /\ UNCHANGED <<clock, cache>>
    BY <1>4 DEF Calls!ChangePolicy
  <2>2. policy' \in 1..MaxPolicy /\ replaced' \in [1..MaxPolicy -> Nat]  BY <2>1, CallsFacts
  <2>3. CallsTyped'
    <3>1. \A c \in Callers : call'[c].now <= clock'  BY <1>1, <2>1, CallsFacts
    <3>2. QED  BY <1>1, <2>1, <2>2, <3>1, CallsFacts DEF CallsTyped
  <2>4. \A v \in 1..MaxPolicy : replaced'[v] = replaced[v] \/ replaced'[v] = clock
    BY <2>1, CallsFacts
  <2>5. CacheOK'
    <3>1. cache.policy # 0 => cache.policy \in 1..MaxPolicy  BY <1>2, CallsFacts
    <3>2. QED  BY <1>2, <2>1, <2>4, <3>1, CallsFacts DEF CacheOK
  <2>6. \A c \in Callers : CallOK(c)'
    <3>1. ASSUME NEW c \in Callers  PROVE CallOK(c)'
      <4>1. CallOK(c) /\ call[c].now <= clock /\ call[c].got \in {-1} \cup 1..MaxPolicy  BY <1>2, CallsFacts
      <4>2. QED  BY <1>1, <2>4, <4>1, CallsFacts DEF CallOK
    <3>2. QED  BY <3>1
  <2>7. \A v \in 1..MaxPolicy : v >= policy' => replaced'[v] = MaxClock + 1
    BY <2>1, CallsFacts
  <2>8. QED  BY <1>1, <2>3, <2>5, <2>6, <2>7, CallsFacts DEF CallsIInv
<1>5. CASE Calls!Invalidate
  <2>1. cache' = [held |-> FALSE, policy |-> 0, at |-> 0, kept |-> FALSE] /\ UNCHANGED <<clock, policy, replaced>>
    BY <1>5 DEF Calls!Invalidate, Calls!NoEntry, Calls!Default, Calls!server
  <2>2. cache' \in [held : BOOLEAN, policy : 0..MaxPolicy, at : 0..MaxClock, kept : BOOLEAN] /\ CacheOK'
    BY <2>1, CallsFacts DEF CacheOK
  <2>3. CallsTyped'
    <3>1. \A c \in Callers : call'[c].now <= clock'  BY <1>1, <2>1, CallsFacts
    <3>2. QED  BY <1>1, <2>1, <2>2, <3>1, CallsFacts DEF CallsTyped
  <2>4. \A c \in Callers : CallOK(c)'  BY <1>1, <1>2, <2>1 DEF CallOK
  <2>5. QED  BY <1>1, <2>1, <2>2, <2>3, <2>4, CallsFacts DEF CallsIInv
<1>6. QED  BY <1>3, <1>4, <1>5

LEMMA CallsRest ==
  ASSUME CallsIInv, UNCHANGED calling
  PROVE  CallsIInv'
<1>1. UNCHANGED <<clock, policy, replaced, cache, call, calls, outcome, shadow, inflight, flusher>>
  BY DEF calling
<1>2. CallsTyped' /\ CacheOK' /\ \A c \in Callers : CallOK(c)'
  BY <1>1, CallsFacts DEF CallsTyped, CacheOK, CallOK
<1>3. QED  BY <1>1, <1>2, CallsFacts DEF CallsIInv

LEMMA CallsStep ==
  ASSUME CallsIInv, [Calls!Next]_(Calls!vars)
  PROVE  CallsIInv'
<1>1. CASE Calls!Tick \/ Calls!ChangePolicy \/ Calls!Invalidate  BY <1>1, AroundStep
<1>2. ASSUME NEW c \in Callers, Calls!Begin(c) \/ Calls!Wrapper(c) \/ Calls!Shadow(c)
      PROVE  CallsIInv'
  <2>1. CASE Calls!Begin(c) \/ Calls!Lookup(c) \/ Calls!Fetch(c) \/ Calls!ApplyMode(c) \/ Calls!Run(c) \/ Calls!Send(c)
    BY <2>1, PassingStep
  <2>2. CASE Calls!Store(c)  BY <2>2, StoreStep
  <2>3. CASE Calls!List(c) \/ Calls!Start(c)  BY <2>3, SpawnStep
  <2>4. CASE Calls!Shadow(c)  BY <2>4, ShadowStep
  <2>5. QED  BY <1>2, <2>1, <2>2, <2>3, <2>4 DEF Calls!Wrapper
<1>3. CASE Calls!Flush  BY <1>3, FlushStep
<1>4. CASE UNCHANGED Calls!vars  BY <1>4, CallsRest DEF Calls!vars, calling
<1>5. QED  BY <1>1, <1>2, <1>3, <1>4 DEF Calls!Next

LEMMA CallsInit ==
  ASSUME Calls!Init
  PROVE  CallsIInv
<1>1. /\ clock = 0 /\ policy = 1 /\ replaced = [v \in 1..MaxPolicy |-> MaxClock + 1]
      /\ cache = [held |-> FALSE, policy |-> 0, at |-> 0, kept |-> FALSE]
      /\ call = [c \in Callers |-> [pc |-> "idle", now |-> 0, got |-> -1, shadowed |-> FALSE]]
      /\ calls = [c \in Callers |-> 0] /\ outcome = [c \in Callers |-> "none"]
      /\ shadow = [c \in Callers |-> "none"] /\ inflight = {}
      /\ flusher = [pc |-> "idle", joins |-> {}, owed |-> {}]
  BY DEF Calls!Init, Calls!NoEntry, Calls!Default, Calls!Failed
<1>2. MaxClock \in Nat /\ MaxPolicy \in Nat /\ MaxPolicy >= 1  BY ClockAssumption
<1>3. CallsTyped
  <2>1. clock \in 0..MaxClock /\ policy \in 1..MaxPolicy /\ replaced \in [1..MaxPolicy -> Nat]  BY <1>1, <1>2
  <2>2. cache \in [held : BOOLEAN, policy : 0..MaxPolicy, at : 0..MaxClock, kept : BOOLEAN]  BY <1>1, <1>2
  <2>3. call \in [Callers -> CallRows] /\ \A c \in Callers : call[c].now <= clock
    BY <1>1 DEF CallRows
  <2>4. /\ calls \in [Callers -> Nat] /\ outcome \in [Callers -> {"none", "returned", "raised", "telemetry_error"}]
        /\ shadow \in [Callers -> Shadows] /\ inflight \in SUBSET Callers
        /\ flusher \in [pc : {"idle", "scan", "join", "waited", "raised", "timed_out"},
                        joins : SUBSET Callers, owed : SUBSET Callers]
    BY <1>1 DEF Shadows
  <2>5. QED  BY <2>1, <2>2, <2>3, <2>4 DEF CallsTyped
<1>4. CacheOK /\ \A c \in Callers : CallOK(c)  BY <1>1 DEF CacheOK, CallOK
<1>5. (\A v \in 1..MaxPolicy : v >= policy => replaced[v] = MaxClock + 1) /\ flusher.owed = {}  BY <1>1
<1>6. QED  BY <1>3, <1>4, <1>5 DEF CallsIInv

LEMMA CallsImplied ==
  ASSUME CallsIInv
  PROVE  CallsInv
<1>1. CallsTyped /\ CacheOK  BY DEF CallsIInv
<1>2. \A c \in Callers : call[c].now \in 0..clock
  <2>1. \A c \in Callers : call[c].now \in Nat /\ call[c].now <= clock  BY CallsFacts DEF CallRows
  <2>2. QED  BY <2>1, CallsFacts
<1>3. Calls!TypeOK
  <2>1. \A c \in Callers :
          /\ call[c].pc \in {"idle", "lookup", "fetch", "store", "apply", "run", "run_bare", "send", "spawn", "start"}
          /\ call[c].got \in {-1} \cup 1..MaxPolicy
    BY CallsFacts DEF CallRows
  <2>2. QED  BY <1>1, <1>2, <2>1 DEF Calls!TypeOK, Calls!Failed, CallsTyped, Shadows
<1>4. Calls!AgeIsNotUnderestimated /\ Calls!FlushCoversShadows
  BY <1>1, CallsFacts DEF Calls!AgeIsNotUnderestimated, Calls!FlushCoversShadows, CacheOK
<1>5. QED  BY <1>3, <1>4 DEF CallsInv, Calls!CallsInv

(* However many callers, policies and flushes: a fresh cache entry is not  *)
(* older than the cache believes, in whatever order fetches come back, and *)
(* flush() goes on to the transport only when every candidate that ran     *)
(* when it was called has handed over its result (PolicyCache and the      *)
(* probe decorator's shadow threads).                                      *)
THEOREM CallsHold == Calls!Spec => []CallsInv
<1>1. Calls!Init => CallsIInv  BY CallsInit
<1>2. CallsIInv /\ [Calls!Next]_(Calls!vars) => CallsIInv'  BY CallsStep
<1>3. CallsIInv => CallsInv  BY CallsImplied
<1>4. QED  BY <1>1, <1>2, <1>3, PTL DEF Calls!Spec
=============================================================================

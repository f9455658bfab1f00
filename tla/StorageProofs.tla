---------------------------- MODULE StorageProofs ----------------------------
(***************************************************************************)
(* Proofs about the three parts of MCStorage, each for any values of its   *)
(* constants.                                                              *)
(*                                                                         *)
(* The limits (RequestLimits).  The bound on what a window admits is not   *)
(* inductive by itself: it says nothing of the counter, which is what      *)
(* admits or refuses.  Overrun says how far the counter of a key lags      *)
(* behind the calls that were admitted: each late call may have reset it   *)
(* once, and so may the end of the window it counts.                       *)
(*                                                                         *)
(* The spool (ExecutionSpool).  A job has one worker at most because its   *)
(* file "claimed" stays until the directory is unlinked, its worker is the *)
(* only one that writes in it, and what is read as an answer was renamed   *)
(* by a worker that had it whole.                                          *)
(*                                                                         *)
(* The files (DatabaseFiles).  After a loss of power each name shows what  *)
(* was seen or what was durable, so every main file that may be shown must *)
(* read, with every log that may be shown beside it, as something the      *)
(* database may contain (AllRead).  That needs what a restore knows of the *)
(* files at each of its steps (RestoreOK), and that it is alone while the  *)
(* server is down (LoneRestore).                                           *)
(***************************************************************************)
EXTENDS MCStorage, FiniteSetTheorems, TLAPS

(* The limits on posted traces.                                            *)

Windows == 0..MaxWindow
CallStates(now) == {Idle, [pc |-> "store"]} \cup [pc : {"lock"}, key : Tokens, number : 0..now]

Typed ==
  /\ clock \in Windows /\ late \in Nat
  /\ used \in [calls : Nat, rescans : Nat]
  /\ call \in [Threads -> CallStates(clock)]
  /\ admitted \in [Tokens -> [Windows -> Nat]]
  /\ windows = [k \in DOMAIN windows |-> windows[k]]
  /\ IsFiniteSet(DOMAIN windows)

Overrun == \A k \in Tokens, n \in Windows :
  /\ n > clock => admitted[k][n] = 0
  /\ Counts(k, n) => admitted[k][n] <= Limit * late + windows[k].count
  /\ ~Counts(k, n) /\ n = clock => admitted[k][n] <= Limit * late
  /\ ~Counts(k, n) /\ n < clock => admitted[k][n] <= Limit * late + Limit

IInv == Typed /\ TypeOK /\ KeysAreBounded /\ Overrun /\ RowsWithin

-----------------------------------------------------------------------------
(* The constants and the product with the limit, for the provers.          *)

LEMMA Numbers ==
  /\ Limit \in Nat \ {0} /\ MaxKeys \in Nat \ {0} /\ MaxRows \in Nat \ {0}
  /\ MaxWindow \in Nat /\ MaxBytes \in Nat /\ MaxCalls \in Nat /\ MaxRescans \in Nat
BY LimitsAssumption, QuotaAssumption

LEMMA Product ==
  ASSUME NEW l \in Nat
  PROVE  Limit * l \in Nat /\ Limit * (l + 1) = Limit * l + Limit /\ Limit * (1 + l) = Limit * l + Limit
BY Numbers

(* What the limiter keeps is a part of what it remembers.                  *)
LEMMA KeptIsPart ==
  ASSUME Typed, TypeOK, NEW k \in Tokens, NEW n \in Nat
  PROVE  /\ DOMAIN Kept(k, n) \subseteq DOMAIN windows
         /\ Kept(k, n) = [l \in DOMAIN Kept(k, n) |-> Kept(k, n)[l]]
         /\ \A l \in DOMAIN Kept(k, n) : Kept(k, n)[l] = windows[l]
         /\ IsFiniteSet(DOMAIN Kept(k, n))
         /\ Cardinality(DOMAIN Kept(k, n)) <= Cardinality(DOMAIN windows)
         /\ \A l \in DOMAIN windows : windows[l].number = n => l \in DOMAIN Kept(k, n)
         /\ k \in DOMAIN windows => Kept(k, n) = windows
<1>1. CASE k \notin DOMAIN windows /\ Full
  <2> DEFINE S == {l \in DOMAIN windows : windows[l].number = n}
  <2>1. Kept(k, n) = [l \in S |-> windows[l]]
    BY <1>1 DEF Kept
  <2>2. S \subseteq DOMAIN windows
    OBVIOUS
  <2>3. IsFiniteSet(S) /\ Cardinality(S) <= Cardinality(DOMAIN windows)
    BY <2>2, FS_Subset DEF Typed
  <2> HIDE DEF S
  <2>4. DOMAIN Kept(k, n) = S
    BY <2>1
  <2> QED
    BY <1>1, <2>1, <2>2, <2>3, <2>4 DEF S
<1>2. CASE ~(k \notin DOMAIN windows /\ Full)
  <2>1. Kept(k, n) = windows
    BY <1>2 DEF Kept
  <2>2. Cardinality(DOMAIN windows) \in Nat
    BY FS_CardinalityType DEF Typed
  <2> QED
    BY <2>1, <2>2 DEF Typed
<1> QED
  BY <1>1, <1>2

(* A refused call changes nothing: a limiter that could make room for its  *)
(* key admits it.                                                          *)
LEMMA RefusalKeepsAll ==
  ASSUME IInv, NEW k \in Tokens, NEW n \in Nat, ~Allows(k, n)
  PROVE  Kept(k, n) = windows
<1>1. CASE k \in DOMAIN windows
  BY <1>1 DEF Kept
<1>2. CASE k \notin DOMAIN windows
  <2>1. ~(Cardinality(DOMAIN Kept(k, n)) < MaxKeys)
    BY <1>2 DEF Allows, Counts
  <2>2. DOMAIN Kept(k, n) \subseteq DOMAIN windows /\ IsFiniteSet(DOMAIN Kept(k, n))
    BY KeptIsPart DEF IInv
  <2>3. Cardinality(DOMAIN windows) \in Nat /\ Cardinality(DOMAIN Kept(k, n)) \in Nat
    BY <2>2, FS_CardinalityType DEF IInv, Typed
  <2>4. Cardinality(DOMAIN Kept(k, n)) <= Cardinality(DOMAIN windows)
    BY KeptIsPart DEF IInv
  <2>5. Cardinality(DOMAIN windows) <= MaxKeys /\ MaxKeys \in Nat
    BY Numbers DEF IInv, KeysAreBounded
  <2>6. Cardinality(DOMAIN Kept(k, n)) = Cardinality(DOMAIN windows)
    BY <2>1, <2>3, <2>4, <2>5
  <2>7. DOMAIN Kept(k, n) = DOMAIN windows
    BY <2>2, <2>6, FS_Subset DEF IInv, Typed
  <2> QED
    BY <2>7, KeptIsPart DEF IInv, Typed
<1> QED
  BY <1>1, <1>2

-----------------------------------------------------------------------------
LEMMA Initially == Init => IInv
<1> SUFFICES ASSUME Init PROVE IInv
  OBVIOUS
<1>1. DOMAIN windows = {} /\ windows = [k \in DOMAIN windows |-> windows[k]]
  BY DEF Init
<1>2. IsFiniteSet(DOMAIN windows) /\ Cardinality(DOMAIN windows) = 0
  BY <1>1, FS_EmptySet
<1>3. Typed
  BY <1>1, <1>2, Numbers DEF Init, Typed, Windows, CallStates
<1>4. TypeOK
  BY <1>1, Numbers, QuotaAssumption DEF Init, TypeOK
<1>5. KeysAreBounded
  BY <1>2, Numbers DEF KeysAreBounded
<1>6. Overrun
  BY <1>1, Numbers, Product DEF Init, Overrun, Windows, Counts
<1>7. RowsWithin
  BY LegacyAssumption DEF Init, RowsWithin, Fits
<1> QED
  BY <1>3, <1>4, <1>5, <1>6, <1>7 DEF IInv

(* Time passes: the counters of the window that ends lag once more.        *)
LEMMA TickKeeps == IInv /\ Tick => IInv'
<1> SUFFICES ASSUME IInv, Tick PROVE IInv'
  OBVIOUS
<1>1. clock \in Nat /\ clock' = clock + 1 /\ clock' \in Windows
  BY Numbers DEF IInv, Typed, Tick, Windows
<1>2. UNCHANGED <<windows, admitted, late, call, stored, status, used>>
  BY DEF Tick, limiter
<1>3. CallStates(clock) \subseteq CallStates(clock')
  BY <1>1 DEF CallStates
<1>4. Typed'
  BY <1>1, <1>2, <1>3 DEF IInv, Typed
<1>5. TypeOK'
  BY <1>1, <1>2 DEF IInv, TypeOK, Windows
<1>6. KeysAreBounded' /\ RowsWithin'
  BY <1>2 DEF IInv, KeysAreBounded, RowsWithin
<1>7. Overrun'
  <2> SUFFICES ASSUME NEW k \in Tokens, NEW n \in Windows
               PROVE  /\ n > clock' => admitted[k][n] = 0
                      /\ Counts(k, n) => admitted[k][n] <= Limit * late + windows[k].count
                      /\ ~Counts(k, n) /\ n = clock' => admitted[k][n] <= Limit * late
                      /\ ~Counts(k, n) /\ n < clock' => admitted[k][n] <= Limit * late + Limit
    BY <1>2 DEF Overrun, Counts
  <2>1. n \in Nat /\ Limit \in Nat
    BY Numbers DEF Windows
  <2>2. admitted[k][n] \in Nat
    BY DEF IInv, Typed
  <2>3. Limit * late \in Nat
    BY Product DEF IInv, Typed
  <2> QED
    BY <2>1, <2>2, <2>3, <1>1 DEF IInv, Overrun
<1> QED
  BY <1>4, <1>5, <1>6, <1>7 DEF IInv

LEMMA ReadClockKeeps == ASSUME IInv, NEW t \in Threads, ReadClock(t) PROVE IInv'
<1>1. UNCHANGED <<clock, windows, admitted, late, stored, status>>
  BY DEF ReadClock, limiter
<1>2. used' \in [calls : Nat, rescans : Nat] /\ used'.rescans = used.rescans
  BY DEF ReadClock, Count, IInv, Typed
<1>3. call' \in [Threads -> CallStates(clock)]
  <2>1. PICK k \in Tokens : call' = [call EXCEPT ![t] = [pc |-> "lock", key |-> k, number |-> clock]]
    BY DEF ReadClock
  <2>2. [pc |-> "lock", key |-> k, number |-> clock] \in CallStates(clock)
    BY DEF CallStates, IInv, Typed, Windows
  <2> QED
    BY <2>1, <2>2 DEF IInv, Typed
<1>4. Typed'
  BY <1>1, <1>2, <1>3 DEF IInv, Typed
<1>5. TypeOK' /\ KeysAreBounded' /\ RowsWithin'
  BY <1>1, <1>2 DEF IInv, TypeOK, KeysAreBounded, RowsWithin
<1>6. Overrun'
  BY <1>1 DEF IInv, Overrun, Counts
<1> QED
  BY <1>4, <1>5, <1>6 DEF IInv

LEMMA RefuseKeeps == ASSUME IInv, NEW t \in Threads, Refuse(t) PROVE IInv'
<1> DEFINE k == call[t].key  n == call[t].number
<1>1. call[t] \in CallStates(clock) /\ call[t].pc = "lock"
  BY DEF IInv, Typed, Refuse
<1>2. k \in Tokens /\ n \in Nat
  BY <1>1 DEF CallStates, Idle
<1>3. windows' = windows
  BY <1>2, RefusalKeepsAll DEF Refuse
<1>4. UNCHANGED <<clock, admitted, late, stored, status, used>>
  BY DEF Refuse
<1>5. call' \in [Threads -> CallStates(clock)]
  BY DEF Refuse, IInv, Typed, CallStates
<1>6. Typed'
  BY <1>3, <1>4, <1>5 DEF IInv, Typed
<1>7. TypeOK' /\ KeysAreBounded' /\ RowsWithin'
  BY <1>3, <1>4 DEF IInv, TypeOK, KeysAreBounded, RowsWithin
<1>8. Overrun'
  BY <1>3, <1>4 DEF IInv, Overrun, Counts
<1> QED
  BY <1>6, <1>7, <1>8 DEF IInv

(* An admitted call counts in the window it read: a new counter starts     *)
(* from one, and where it takes the place of a counter, or drops others,   *)
(* it is late or those were of windows that have ended.                    *)
LEMMA AdmitKeepsCounters ==
  ASSUME IInv, NEW t \in Threads, Admit(t)
  PROVE  Overrun'
<1> DEFINE k == call[t].key  n == call[t].number
<1>1. call[t] \in CallStates(clock) /\ call[t].pc = "lock"
  BY DEF IInv, Typed, Admit
<1>2. k \in Tokens /\ n \in Windows /\ n <= clock /\ n \in Nat /\ clock \in Nat
  BY <1>1, Numbers DEF CallStates, Idle, Windows, IInv, Typed
<1>3. clock' = clock /\ windows' = Remember(k, n) /\ late' = IF n < clock THEN late + 1 ELSE late
  BY DEF Admit
<1>4. admitted' = [admitted EXCEPT ![k] = [admitted[k] EXCEPT ![n] = admitted[k][n] + 1]]
  BY DEF Admit, IInv, Typed
<1>5. DOMAIN windows' = DOMAIN Kept(k, n) \cup {k}
  BY <1>3 DEF Remember
<1>6. windows'[k] = [number |-> n, count |-> IF Counts(k, n) THEN windows[k].count + 1 ELSE 1]
  BY <1>3 DEF Remember
<1>7. \A l \in DOMAIN Kept(k, n) : l # k => windows'[l] = windows[l]
  BY <1>2, <1>3, KeptIsPart DEF Remember, IInv
<1>8. /\ DOMAIN Kept(k, n) \subseteq DOMAIN windows
      /\ \A l \in DOMAIN windows : windows[l].number = n => l \in DOMAIN Kept(k, n)
  BY <1>2, KeptIsPart DEF IInv
<1>9. late \in Nat /\ Limit \in Nat /\ Limit >= 1 /\ Limit * late \in Nat
      /\ Limit * (late + 1) = Limit * late + Limit
  BY Numbers, Product DEF IInv, Typed
<1> DEFINE lagging == Limit * late
<1>10. Limit * late' = IF n < clock THEN lagging + Limit ELSE lagging
  BY <1>3, <1>9
<1> SUFFICES ASSUME NEW key \in Tokens, NEW m \in Windows
             PROVE  /\ m > clock => admitted'[key][m] = 0
                    /\ Counts(key, m)' => admitted'[key][m] <= Limit * late' + windows'[key].count
                    /\ ~Counts(key, m)' /\ m = clock => admitted'[key][m] <= Limit * late'
                    /\ ~Counts(key, m)' /\ m < clock => admitted'[key][m] <= Limit * late' + Limit
  BY <1>3 DEF Overrun
<1>11. admitted[key][m] \in Nat /\ m \in Nat /\ lagging \in Nat
  BY <1>9, Numbers DEF IInv, Typed, Windows
<1>12. /\ m > clock => admitted[key][m] = 0
       /\ Counts(key, m) => admitted[key][m] <= lagging + windows[key].count
       /\ ~Counts(key, m) /\ m = clock => admitted[key][m] <= lagging
       /\ ~Counts(key, m) /\ m < clock => admitted[key][m] <= lagging + Limit
  BY DEF IInv, Overrun
<1>13. Counts(key, m) => windows[key].count \in Nat /\ windows[key].count <= Limit /\ m <= clock
  BY <1>2, Numbers DEF Counts, IInv, TypeOK
<1> HIDE DEF lagging
<1>14. CASE key = k /\ m = n
  <2>1. admitted'[key][m] = admitted[key][m] + 1
    BY <1>14, <1>2, <1>4 DEF IInv, Typed
  <2>2. Counts(key, m)'
    BY <1>5, <1>6, <1>14 DEF Counts
  <2>3. windows'[key].count = IF Counts(key, m) THEN windows[key].count + 1 ELSE 1
    BY <1>6, <1>14
  <2>4. CASE Counts(key, m)
    <3>1. admitted[key][m] <= lagging + windows[key].count /\ windows'[key].count = windows[key].count + 1
      BY <2>3, <2>4, <1>12
    <3>2. windows[key].count \in Nat
      BY <2>4, <1>13
    <3> QED
      BY <3>1, <3>2, <2>1, <2>2, <1>2, <1>9, <1>10, <1>11, <1>14
  <2>5. CASE ~Counts(key, m)
    <3>1. windows'[key].count = 1 /\ ~(m > clock)
      BY <2>3, <2>5, <1>2, <1>11, <1>14
    <3>2. CASE m = clock
      <4>1. Limit * late' = lagging /\ admitted[key][m] <= lagging
        BY <3>2, <2>5, <1>2, <1>10, <1>12, <1>14
      <4> QED
        BY <4>1, <3>1, <2>1, <2>2, <1>11
    <3>3. CASE m < clock
      <4>1. Limit * late' = lagging + Limit /\ admitted[key][m] <= lagging + Limit
        BY <3>3, <2>5, <1>10, <1>12, <1>14
      <4> QED
        BY <4>1, <3>1, <2>1, <2>2, <1>9, <1>11
    <3> QED
      BY <3>1, <3>2, <3>3, <1>2, <1>11
  <2> QED
    BY <2>4, <2>5
<1>15. CASE ~(key = k /\ m = n)
  <2>1. admitted'[key][m] = admitted[key][m]
    BY <1>15, <1>2, <1>4 DEF IInv, Typed
  <2>2. Counts(key, m)' => Counts(key, m) /\ windows'[key] = windows[key]
    BY <1>5, <1>6, <1>7, <1>8, <1>15 DEF Counts
  <2>3. Counts(key, m) /\ ~Counts(key, m)' => m # n
    BY <1>5, <1>6, <1>7, <1>8, <1>15 DEF Counts
  <2>4. CASE Counts(key, m)'
    BY <2>1, <2>2, <2>4, <1>2, <1>9, <1>10, <1>11, <1>12, <1>13
  <2>5. CASE ~Counts(key, m)' /\ Counts(key, m)
    <3>1. admitted[key][m] <= lagging + Limit
      BY <2>5, <1>9, <1>11, <1>12, <1>13
    <3>2. m = clock => n < clock
      BY <2>3, <2>5, <1>2
    <3> QED
      BY <3>1, <3>2, <2>1, <2>5, <1>2, <1>9, <1>10, <1>11, <1>13
  <2>6. CASE ~Counts(key, m)' /\ ~Counts(key, m)
    BY <2>1, <2>6, <1>2, <1>9, <1>10, <1>11, <1>12
  <2> QED
    BY <2>4, <2>5, <2>6
<1> QED
  BY <1>14, <1>15

LEMMA AdmitKeeps == ASSUME IInv, NEW t \in Threads, Admit(t) PROVE IInv'
<1> DEFINE k == call[t].key  n == call[t].number
<1>1. call[t] \in CallStates(clock) /\ call[t].pc = "lock"
  BY DEF IInv, Typed, Admit
<1>2. k \in Tokens /\ n \in Windows /\ n \in 0..clock /\ n \in Nat
  BY <1>1, Numbers DEF CallStates, Idle, Windows, IInv, Typed
<1>3. windows' = Remember(k, n) /\ Allows(k, n)
  BY DEF Admit
<1>4. UNCHANGED <<clock, stored, status, used>>
  BY DEF Admit
<1>5. DOMAIN windows' = DOMAIN Kept(k, n) \cup {k}
  BY <1>3 DEF Remember
<1>6. /\ DOMAIN Kept(k, n) \subseteq DOMAIN windows
      /\ \A l \in DOMAIN Kept(k, n) : Kept(k, n)[l] = windows[l]
      /\ IsFiniteSet(DOMAIN Kept(k, n))
      /\ k \in DOMAIN windows => Kept(k, n) = windows
  BY <1>2, KeptIsPart DEF IInv
<1>7. IsFiniteSet(DOMAIN windows')
  BY <1>5, <1>6, FS_AddElement
<1>8. late' \in Nat /\ call' \in [Threads -> CallStates(clock)] /\ admitted' \in [Tokens -> [Windows -> Nat]]
  BY <1>2 DEF Admit, IInv, Typed, CallStates
<1>9. windows' = [l \in DOMAIN windows' |-> windows'[l]]
  BY <1>3 DEF Remember
<1>10. Typed'
  BY <1>4, <1>7, <1>8, <1>9 DEF IInv, Typed
<1>11. TypeOK'
  <2>1. \A l \in DOMAIN windows' : windows'[l] \in [number : 0..clock, count : 1..Limit]
    <3> SUFFICES ASSUME NEW l \in DOMAIN windows'
                 PROVE  windows'[l] \in [number : 0..clock, count : 1..Limit]
      OBVIOUS
    <3>1. CASE l # k
      BY <3>1, <1>3, <1>5, <1>6 DEF Remember, IInv, TypeOK
    <3>2. CASE l = k
      <4>1. windows'[l] = [number |-> n, count |-> IF Counts(k, n) THEN windows[k].count + 1 ELSE 1]
        BY <3>2, <1>3 DEF Remember
      <4>2. Counts(k, n) => windows[k].count \in 1..Limit /\ windows[k].count < Limit
        BY <1>3 DEF Allows, Counts, IInv, TypeOK
      <4> QED
        BY <4>1, <4>2, <1>2, Numbers
    <3> QED
      BY <3>1, <3>2
  <2>2. DOMAIN windows' \subseteq Tokens
    BY <1>2, <1>5, <1>6 DEF IInv, TypeOK
  <2> QED
    BY <2>1, <2>2, <1>4, <1>8 DEF IInv, TypeOK
<1>12. KeysAreBounded'
  <2>1. CASE k \in DOMAIN windows
    <3>1. DOMAIN windows' = DOMAIN windows
      BY <2>1, <1>5, <1>6
    <3> QED
      BY <3>1 DEF IInv, KeysAreBounded
  <2>2. CASE k \notin DOMAIN windows
    <3>1. Cardinality(DOMAIN Kept(k, n)) < MaxKeys
      BY <2>2, <1>3 DEF Allows, Counts
    <3>2. Cardinality(DOMAIN windows') = Cardinality(DOMAIN Kept(k, n)) + 1
      BY <2>2, <1>5, <1>6, FS_AddElement
    <3>3. Cardinality(DOMAIN Kept(k, n)) \in Nat
      BY <1>6, FS_CardinalityType
    <3> QED
      BY <3>1, <3>2, <3>3, Numbers DEF KeysAreBounded
  <2> QED
    BY <2>1, <2>2
<1>13. RowsWithin'
  BY <1>4 DEF IInv, RowsWithin
<1> QED
  BY <1>10, <1>11, <1>12, <1>13, AdmitKeepsCounters DEF IInv

-----------------------------------------------------------------------------
(* Posting and rescanning: the quota.                                      *)

LEMMA StoreKeeps == ASSUME IInv, NEW t \in Threads, Store(t) PROVE IInv'
<1>1. UNCHANGED <<clock, windows, admitted, late, used>>
  BY DEF Store, limiter
<1>2. call' \in [Threads -> CallStates(clock)]
  BY DEF Store, IInv, Typed, CallStates
<1>3. Typed' /\ KeysAreBounded' /\ Overrun'
  BY <1>1, <1>2 DEF IInv, Typed, KeysAreBounded, Overrun, Counts
<1>4. PICK id \in Traces, size \in Sizes :
        IF Fits(With(id, size)) THEN stored' = With(id, size) /\ status' = "accepted"
        ELSE status' = "rejected" /\ UNCHANGED stored
  BY DEF Store
<1>5. CASE Fits(With(id, size))
  <2>1. stored' = With(id, size) /\ status' = "accepted"
    BY <1>4, <1>5
  <2>2. DOMAIN stored' \subseteq Traces
    BY <2>1 DEF With, IInv, TypeOK
  <2>3. RowsWithin'
    BY <2>1, <1>5 DEF Fits, RowsWithin
  <2> QED
    BY <2>1, <2>2, <2>3, <1>1, <1>3 DEF IInv, TypeOK
<1>6. CASE ~Fits(With(id, size))
  BY <1>1, <1>3, <1>4, <1>6 DEF IInv, TypeOK, RowsWithin
<1> QED
  BY <1>5, <1>6

LEMMA RescanKeeps == ASSUME IInv, Rescan PROVE IInv'
<1>1. UNCHANGED <<clock, windows, admitted, late, call, status>>
  BY DEF Rescan, limiter
<1>2. used' \in [calls : Nat, rescans : Nat] /\ used'.rescans = used.rescans + 1
  BY DEF Rescan, Count, IInv, Typed
<1>3. Typed' /\ KeysAreBounded' /\ Overrun'
  BY <1>1, <1>2 DEF IInv, Typed, KeysAreBounded, Overrun, Counts
<1>4. DOMAIN stored' = DOMAIN stored
  BY DEF Rescan
<1>5. used'.rescans # 0
  BY <1>2 DEF IInv, Typed
<1>6. RowsWithin' /\ TypeOK'
  BY <1>1, <1>4, <1>5 DEF IInv, RowsWithin, TypeOK
<1> QED
  BY <1>3, <1>6 DEF IInv

-----------------------------------------------------------------------------
LEMMA Inductive == IInv /\ [Next]_vars => IInv'
<1> SUFFICES ASSUME IInv, [Next]_vars PROVE IInv'
  OBVIOUS
<1>1. CASE Tick
  BY <1>1, TickKeeps
<1>2. CASE Rescan
  BY <1>2, RescanKeeps
<1>3. ASSUME NEW t \in Threads, ReadClock(t) PROVE IInv'
  BY <1>3, ReadClockKeeps
<1>4. ASSUME NEW t \in Threads, Admit(t) PROVE IInv'
  BY <1>4, AdmitKeeps
<1>5. ASSUME NEW t \in Threads, Refuse(t) PROVE IInv'
  BY <1>5, RefuseKeeps
<1>6. ASSUME NEW t \in Threads, Store(t) PROVE IInv'
  BY <1>6, StoreKeeps
<1>7. CASE UNCHANGED vars
  BY <1>7 DEF vars, IInv, Typed, TypeOK, KeysAreBounded, Overrun, RowsWithin, Counts
<1> QED
  BY <1>1, <1>2, <1>3, <1>4, <1>5, <1>6, <1>7 DEF Next

LEMMA BoundFollows == IInv => LimitsInv
<1> SUFFICES ASSUME IInv PROVE LimitsInv
  OBVIOUS
<1>1. ASSUME NEW k \in Tokens, NEW n \in 0..MaxWindow PROVE admitted[k][n] <= Limit * (1 + late)
  <2>1. admitted[k][n] \in Nat /\ n \in Nat /\ clock \in Nat
    BY Numbers DEF IInv, Typed, Windows
  <2>2. Limit * late \in Nat /\ Limit * (1 + late) = Limit * late + Limit /\ Limit \in Nat
    BY Numbers, Product DEF IInv, Typed
  <2>3. Counts(k, n) => windows[k].count \in 1..Limit
    BY DEF Counts, IInv, TypeOK
  <2>4. /\ n > clock => admitted[k][n] = 0
        /\ Counts(k, n) => admitted[k][n] <= Limit * late + windows[k].count
        /\ ~Counts(k, n) /\ n = clock => admitted[k][n] <= Limit * late
        /\ ~Counts(k, n) /\ n < clock => admitted[k][n] <= Limit * late + Limit
    BY DEF IInv, Overrun, Windows
  <2> QED
    BY <2>1, <2>2, <2>3, <2>4
<1> QED
  BY <1>1 DEF IInv, LimitsInv, OverrunIsBounded

(* However many tokens and threads there are and however late they come to *)
(* the lock of the limiter, a window admits a token at most its limit once *)
(* more for each late call, the limiter remembers no more keys than it may,*)
(* and a System stores no more than its quota (allow() and post_trace()).  *)
THEOREM LimitsHold == Spec => []LimitsInv
<1>1. Init => IInv
  BY Initially
<1>2. IInv /\ [Next]_vars => IInv'
  BY Inductive
<1> QED
  BY <1>1, <1>2, BoundFollows, PTL DEF Spec

-----------------------------------------------------------------------------
(* The spool of the sandboxed execution.                                   *)

(* A request is handed to one worker for as long as its directory is       *)
(* whole, that is from its publication until rmtree begins: "claimed"      *)
(* keeps every other worker away, and the result takes its place only when *)
(* the worker is done with it.                                             *)
Has(w, j) == worker[w].job = j
Unclaimed(j) == starts[j] = 0 /\ \A w \in Workers : ~Has(w, j)

DirTyped == spool \in [Jobs -> [name : {"none", "staged", "published"},
                                 files : SUBSET Spool!Files, content : {"run", "error"}]]
ClientTyped == client \in
  [Jobs -> [pc : {"idle", "publish", "wait", "remove", "unlink", "done", "dead"},
            answer : {"none", "run", "error", "gave_up"}, toRemove : SUBSET Spool!Files]]
WorkerTyped == worker \in
  [Workers -> [pc : {"idle", "read", "run", "check", "temp", "replace"},
               job : Jobs \cup {Nobody}, content : {"run", "error"}]]
SpoolTyped ==
  /\ DirTyped /\ ClientTyped /\ WorkerTyped /\ starts \in [Jobs -> Nat]
  /\ \A w \in Workers : worker[w].pc # "idle" => worker[w].job \in Jobs

Unpublished(j) == client[j].pc \in {"idle", "publish"} =>
  /\ spool[j].name = IF client[j].pc = "idle" THEN "none" ELSE "staged"
  /\ spool[j].files = IF client[j].pc = "idle" THEN {} ELSE {"request"}
  /\ Unclaimed(j)

Whole(j) == client[j].pc \in {"wait", "remove"} =>
  /\ spool[j].name = "published" /\ "request" \in spool[j].files
  /\ "claimed" \notin spool[j].files => Unclaimed(j) /\ "result" \notin spool[j].files
  /\ starts[j] <= 1
  /\ "result" \in spool[j].files =>
       /\ \A w \in Workers : ~Has(w, j)
       /\ spool[j].content = "run" => starts[j] = 1

OneWorker(j) == client[j].pc \in {"wait", "remove"} =>
  \A w \in Workers : Has(w, j) =>
    /\ \A u \in Workers : Has(u, j) => u = w
    /\ worker[w].pc = "read" => starts[j] = 0
    /\ worker[w].pc # "read" /\ worker[w].content = "run" => starts[j] = 1

Answered(j) ==
  /\ client[j].pc \in {"idle", "publish", "wait"} => client[j].answer = "none"
  /\ client[j].answer = "run" => starts[j] >= 1
  /\ client[j].answer = "run" /\ client[j].pc = "remove" => "result" \in spool[j].files
  /\ client[j].pc = "unlink" /\ "request" \in spool[j].files => "request" \in client[j].toRemove
  /\ client[j].pc = "done" => "request" \notin spool[j].files

SpoolJob(j) == Unpublished(j) /\ Whole(j) /\ OneWorker(j) /\ Answered(j)
SpoolIInv == SpoolTyped /\ \A j \in Jobs : SpoolJob(j)

LEMMA SpoolInit == Spool!Init => SpoolIInv
BY SpoolAssumption DEF Spool!Init, SpoolIInv, SpoolTyped, DirTyped, ClientTyped, WorkerTyped, SpoolJob, Unpublished, Whole, OneWorker,
  Answered, Has, Unclaimed, Spool!Idle, Spool!Files

LEMMA SpoolImplies == SpoolIInv => SpoolInv
BY DEF SpoolInv, Spool!SpoolInv, SpoolIInv, SpoolTyped, DirTyped, ClientTyped, WorkerTyped, SpoolJob, Unpublished, Whole, OneWorker,
  Answered, Has, Unclaimed, Spool!TypeOK, Spool!ExecutedAtMostOnce, Spool!Awaited,
  Spool!AnswerIsGenuine, Spool!LeftoverIsInert

LEMMA StageStep ==
  ASSUME SpoolIInv, NEW k \in Jobs, Spool!Stage(k)
  PROVE  SpoolIInv'
<1>. SpoolTyped BY DEF SpoolIInv
<1>1. SpoolTyped'
  <2>1. DirTyped' BY DEF SpoolTyped, DirTyped, Spool!Stage, Spool!ClientTo, Spool!Files
  <2>2. ClientTyped' BY DEF SpoolTyped, ClientTyped, DirTyped, Spool!Stage, Spool!ClientTo, Spool!Files
  <2>3. WorkerTyped' BY DEF SpoolTyped, WorkerTyped, Spool!Stage, Spool!ClientTo, Spool!Files
  <2>4. (starts \in [Jobs -> Nat])' BY DEF SpoolTyped, DirTyped, ClientTyped, WorkerTyped, Spool!Stage, Spool!ClientTo, Spool!Files
  <2>5. (\A u \in Workers : worker[u].pc # "idle" => worker[u].job \in Jobs)'
    BY SpoolAssumption DEF SpoolTyped, WorkerTyped, Spool!Stage, Spool!ClientTo, Spool!Files
  <2>6. QED BY <2>1, <2>2, <2>3, <2>4, <2>5 DEF SpoolTyped
<1>2. ASSUME NEW j \in Jobs PROVE SpoolJob(j)'
  <2>1. SpoolTyped /\ SpoolJob(j) BY <1>2 DEF SpoolIInv
  <2>2. Unpublished(j)' BY <1>2, <2>1, SpoolAssumption DEF SpoolTyped, DirTyped, ClientTyped, WorkerTyped, Spool!Stage, Spool!ClientTo, Spool!Files, SpoolJob, Unpublished, Whole, OneWorker, Answered,
    Has, Unclaimed
  <2>3. Whole(j)' BY <1>2, <2>1, SpoolAssumption DEF SpoolTyped, DirTyped, ClientTyped, WorkerTyped, Spool!Stage, Spool!ClientTo, Spool!Files, SpoolJob, Unpublished, Whole, OneWorker, Answered,
    Has, Unclaimed
  <2>4. OneWorker(j)' BY <1>2, <2>1, SpoolAssumption DEF SpoolTyped, DirTyped, ClientTyped, WorkerTyped, Spool!Stage, Spool!ClientTo, Spool!Files, SpoolJob, Unpublished, Whole, OneWorker, Answered,
    Has, Unclaimed
  <2>5. Answered(j)' BY <1>2, <2>1, SpoolAssumption DEF SpoolTyped, DirTyped, ClientTyped, WorkerTyped, Spool!Stage, Spool!ClientTo, Spool!Files, SpoolJob, Unpublished, Whole, OneWorker, Answered,
    Has, Unclaimed
  <2>6. QED BY <2>2, <2>3, <2>4, <2>5 DEF SpoolJob
<1>3. QED BY <1>1, <1>2 DEF SpoolIInv

LEMMA PublishStep ==
  ASSUME SpoolIInv, NEW k \in Jobs, Spool!Publish(k)
  PROVE  SpoolIInv'
<1>. SpoolTyped BY DEF SpoolIInv
<1>1. SpoolTyped'
  <2>1. DirTyped' BY DEF SpoolTyped, DirTyped, Spool!Publish, Spool!ClientTo
  <2>2. ClientTyped' BY DEF SpoolTyped, ClientTyped, DirTyped, Spool!Publish, Spool!ClientTo
  <2>3. WorkerTyped' BY DEF SpoolTyped, WorkerTyped, Spool!Publish, Spool!ClientTo
  <2>4. (starts \in [Jobs -> Nat])' BY DEF SpoolTyped, DirTyped, ClientTyped, WorkerTyped, Spool!Publish, Spool!ClientTo
  <2>5. (\A u \in Workers : worker[u].pc # "idle" => worker[u].job \in Jobs)'
    BY SpoolAssumption DEF SpoolTyped, WorkerTyped, Spool!Publish, Spool!ClientTo
  <2>6. QED BY <2>1, <2>2, <2>3, <2>4, <2>5 DEF SpoolTyped
<1>2. ASSUME NEW j \in Jobs PROVE SpoolJob(j)'
  <2>1. SpoolTyped /\ SpoolJob(j) BY <1>2 DEF SpoolIInv
  <2>2. Unpublished(j)' BY <1>2, <2>1, SpoolAssumption DEF SpoolTyped, DirTyped, ClientTyped, WorkerTyped, Spool!Publish, Spool!ClientTo, SpoolJob, Unpublished, Whole, OneWorker, Answered,
    Has, Unclaimed
  <2>3. Whole(j)' BY <1>2, <2>1, SpoolAssumption DEF SpoolTyped, DirTyped, ClientTyped, WorkerTyped, Spool!Publish, Spool!ClientTo, SpoolJob, Unpublished, Whole, OneWorker, Answered,
    Has, Unclaimed
  <2>4. OneWorker(j)' BY <1>2, <2>1, SpoolAssumption DEF SpoolTyped, DirTyped, ClientTyped, WorkerTyped, Spool!Publish, Spool!ClientTo, SpoolJob, Unpublished, Whole, OneWorker, Answered,
    Has, Unclaimed
  <2>5. Answered(j)' BY <1>2, <2>1, SpoolAssumption DEF SpoolTyped, DirTyped, ClientTyped, WorkerTyped, Spool!Publish, Spool!ClientTo, SpoolJob, Unpublished, Whole, OneWorker, Answered,
    Has, Unclaimed
  <2>6. QED BY <2>2, <2>3, <2>4, <2>5 DEF SpoolJob
<1>3. QED BY <1>1, <1>2 DEF SpoolIInv

LEMMA PollStep ==
  ASSUME SpoolIInv, NEW k \in Jobs, Spool!Poll(k)
  PROVE  SpoolIInv'
<1>. SpoolTyped BY DEF SpoolIInv
<1>1. SpoolTyped'
  <2>1. DirTyped' BY DEF SpoolTyped, DirTyped, Spool!Poll, Spool!Readable, Spool!InDir
  <2>2. ClientTyped'
    <3>1. "result" \in spool[k].files  BY DEF Spool!Poll, Spool!Readable, Spool!InDir
    <3>2. spool[k].content \in {"run", "error"}  BY DEF SpoolTyped, DirTyped
    <3>3. client' = [client EXCEPT ![k] = [client[k] EXCEPT !.pc = "remove", !.answer = spool[k].content]]
      BY <3>1 DEF Spool!Poll, Spool!ClientTo, SpoolTyped, ClientTyped
    <3>4. [client[k] EXCEPT !.pc = "remove", !.answer = spool[k].content] \in
             [pc : {"idle", "publish", "wait", "remove", "unlink", "done", "dead"},
              answer : {"none", "run", "error", "gave_up"}, toRemove : SUBSET Spool!Files]
      BY <3>2 DEF SpoolTyped, ClientTyped
    <3>5. QED BY <3>3, <3>4 DEF SpoolTyped, ClientTyped
  <2>3. WorkerTyped' BY DEF SpoolTyped, WorkerTyped, Spool!Poll, Spool!Readable, Spool!InDir
  <2>4. (starts \in [Jobs -> Nat])' BY DEF SpoolTyped, DirTyped, ClientTyped, WorkerTyped, Spool!Poll, Spool!Readable, Spool!InDir
  <2>5. (\A u \in Workers : worker[u].pc # "idle" => worker[u].job \in Jobs)'
    BY SpoolAssumption DEF SpoolTyped, WorkerTyped, Spool!Poll, Spool!Readable, Spool!InDir
  <2>6. QED BY <2>1, <2>2, <2>3, <2>4, <2>5 DEF SpoolTyped
<1>2. ASSUME NEW j \in Jobs PROVE SpoolJob(j)'
  <2>1. SpoolTyped /\ SpoolJob(j) BY <1>2 DEF SpoolIInv
  <2>2. Unpublished(j)' BY <1>2, <2>1, SpoolAssumption DEF SpoolTyped, DirTyped, ClientTyped, WorkerTyped, Spool!Poll, Spool!Readable, Spool!InDir, SpoolJob, Unpublished, Whole, OneWorker, Answered,
    Has, Unclaimed
  <2>3. Whole(j)' BY <1>2, <2>1, SpoolAssumption DEF SpoolTyped, DirTyped, ClientTyped, WorkerTyped, Spool!Poll, Spool!Readable, Spool!InDir, SpoolJob, Unpublished, Whole, OneWorker, Answered,
    Has, Unclaimed
  <2>4. OneWorker(j)' BY <1>2, <2>1, SpoolAssumption DEF SpoolTyped, DirTyped, ClientTyped, WorkerTyped, Spool!Poll, Spool!Readable, Spool!InDir, SpoolJob, Unpublished, Whole, OneWorker, Answered,
    Has, Unclaimed
  <2>5. Answered(j)' BY <1>2, <2>1, SpoolAssumption DEF SpoolTyped, DirTyped, ClientTyped, WorkerTyped, Spool!Poll, Spool!Readable, Spool!InDir, SpoolJob, Unpublished, Whole, OneWorker, Answered,
    Has, Unclaimed
  <2>6. QED BY <2>2, <2>3, <2>4, <2>5 DEF SpoolJob
<1>3. QED BY <1>1, <1>2 DEF SpoolIInv

LEMMA DeadlineStep ==
  ASSUME SpoolIInv, NEW k \in Jobs, Spool!Deadline(k)
  PROVE  SpoolIInv'
<1>. SpoolTyped BY DEF SpoolIInv
<1>1. SpoolTyped'
  <2>1. DirTyped' BY DEF SpoolTyped, DirTyped, Spool!Deadline
  <2>2. ClientTyped' BY DEF SpoolTyped, ClientTyped, DirTyped, Spool!Deadline
  <2>3. WorkerTyped' BY DEF SpoolTyped, WorkerTyped, Spool!Deadline
  <2>4. (starts \in [Jobs -> Nat])' BY DEF SpoolTyped, DirTyped, ClientTyped, WorkerTyped, Spool!Deadline
  <2>5. (\A u \in Workers : worker[u].pc # "idle" => worker[u].job \in Jobs)'
    BY SpoolAssumption DEF SpoolTyped, WorkerTyped, Spool!Deadline
  <2>6. QED BY <2>1, <2>2, <2>3, <2>4, <2>5 DEF SpoolTyped
<1>2. ASSUME NEW j \in Jobs PROVE SpoolJob(j)'
  <2>1. SpoolTyped /\ SpoolJob(j) BY <1>2 DEF SpoolIInv
  <2>2. Unpublished(j)' BY <1>2, <2>1, SpoolAssumption DEF SpoolTyped, DirTyped, ClientTyped, WorkerTyped, Spool!Deadline, SpoolJob, Unpublished, Whole, OneWorker, Answered,
    Has, Unclaimed
  <2>3. Whole(j)' BY <1>2, <2>1, SpoolAssumption DEF SpoolTyped, DirTyped, ClientTyped, WorkerTyped, Spool!Deadline, SpoolJob, Unpublished, Whole, OneWorker, Answered,
    Has, Unclaimed
  <2>4. OneWorker(j)' BY <1>2, <2>1, SpoolAssumption DEF SpoolTyped, DirTyped, ClientTyped, WorkerTyped, Spool!Deadline, SpoolJob, Unpublished, Whole, OneWorker, Answered,
    Has, Unclaimed
  <2>5. Answered(j)' BY <1>2, <2>1, SpoolAssumption DEF SpoolTyped, DirTyped, ClientTyped, WorkerTyped, Spool!Deadline, SpoolJob, Unpublished, Whole, OneWorker, Answered,
    Has, Unclaimed
  <2>6. QED BY <2>2, <2>3, <2>4, <2>5 DEF SpoolJob
<1>3. QED BY <1>1, <1>2 DEF SpoolIInv

LEMMA RmListStep ==
  ASSUME SpoolIInv, NEW k \in Jobs, Spool!RmList(k)
  PROVE  SpoolIInv'
<1>. SpoolTyped BY DEF SpoolIInv
<1>1. SpoolTyped'
  <2>1. DirTyped' BY DEF SpoolTyped, DirTyped, Spool!RmList, Spool!ToRemove
  <2>2. ClientTyped' BY DEF SpoolTyped, ClientTyped, DirTyped, Spool!RmList, Spool!ToRemove
  <2>3. WorkerTyped' BY DEF SpoolTyped, WorkerTyped, Spool!RmList, Spool!ToRemove
  <2>4. (starts \in [Jobs -> Nat])' BY DEF SpoolTyped, DirTyped, ClientTyped, WorkerTyped, Spool!RmList, Spool!ToRemove
  <2>5. (\A u \in Workers : worker[u].pc # "idle" => worker[u].job \in Jobs)'
    BY SpoolAssumption DEF SpoolTyped, WorkerTyped, Spool!RmList, Spool!ToRemove
  <2>6. QED BY <2>1, <2>2, <2>3, <2>4, <2>5 DEF SpoolTyped
<1>2. ASSUME NEW j \in Jobs PROVE SpoolJob(j)'
  <2>1. SpoolTyped /\ SpoolJob(j) BY <1>2 DEF SpoolIInv
  <2>2. Unpublished(j)' BY <1>2, <2>1, SpoolAssumption DEF SpoolTyped, DirTyped, ClientTyped, WorkerTyped, Spool!RmList, Spool!ToRemove, SpoolJob, Unpublished, Whole, OneWorker, Answered,
    Has, Unclaimed
  <2>3. Whole(j)' BY <1>2, <2>1, SpoolAssumption DEF SpoolTyped, DirTyped, ClientTyped, WorkerTyped, Spool!RmList, Spool!ToRemove, SpoolJob, Unpublished, Whole, OneWorker, Answered,
    Has, Unclaimed
  <2>4. OneWorker(j)' BY <1>2, <2>1, SpoolAssumption DEF SpoolTyped, DirTyped, ClientTyped, WorkerTyped, Spool!RmList, Spool!ToRemove, SpoolJob, Unpublished, Whole, OneWorker, Answered,
    Has, Unclaimed
  <2>5. Answered(j)' BY <1>2, <2>1, SpoolAssumption DEF SpoolTyped, DirTyped, ClientTyped, WorkerTyped, Spool!RmList, Spool!ToRemove, SpoolJob, Unpublished, Whole, OneWorker, Answered,
    Has, Unclaimed
  <2>6. QED BY <2>2, <2>3, <2>4, <2>5 DEF SpoolJob
<1>3. QED BY <1>1, <1>2 DEF SpoolIInv

LEMMA UnlinkStep ==
  ASSUME SpoolIInv, NEW k \in Jobs, Spool!Unlink(k)
  PROVE  SpoolIInv'
<1>. SpoolTyped BY DEF SpoolIInv
<1>1. SpoolTyped'
  <2>1. DirTyped' BY DEF SpoolTyped, DirTyped, Spool!Unlink
  <2>2. ClientTyped' BY DEF SpoolTyped, ClientTyped, DirTyped, Spool!Unlink
  <2>3. WorkerTyped' BY DEF SpoolTyped, WorkerTyped, Spool!Unlink
  <2>4. (starts \in [Jobs -> Nat])' BY DEF SpoolTyped, DirTyped, ClientTyped, WorkerTyped, Spool!Unlink
  <2>5. (\A u \in Workers : worker[u].pc # "idle" => worker[u].job \in Jobs)'
    BY SpoolAssumption DEF SpoolTyped, WorkerTyped, Spool!Unlink
  <2>6. QED BY <2>1, <2>2, <2>3, <2>4, <2>5 DEF SpoolTyped
<1>2. ASSUME NEW j \in Jobs PROVE SpoolJob(j)'
  <2>1. SpoolTyped /\ SpoolJob(j) BY <1>2 DEF SpoolIInv
  <2>2. Unpublished(j)' BY <1>2, <2>1, SpoolAssumption DEF SpoolTyped, DirTyped, ClientTyped, WorkerTyped, Spool!Unlink, SpoolJob, Unpublished, Whole, OneWorker, Answered,
    Has, Unclaimed
  <2>3. Whole(j)' BY <1>2, <2>1, SpoolAssumption DEF SpoolTyped, DirTyped, ClientTyped, WorkerTyped, Spool!Unlink, SpoolJob, Unpublished, Whole, OneWorker, Answered,
    Has, Unclaimed
  <2>4. OneWorker(j)' BY <1>2, <2>1, SpoolAssumption DEF SpoolTyped, DirTyped, ClientTyped, WorkerTyped, Spool!Unlink, SpoolJob, Unpublished, Whole, OneWorker, Answered,
    Has, Unclaimed
  <2>5. Answered(j)' BY <1>2, <2>1, SpoolAssumption DEF SpoolTyped, DirTyped, ClientTyped, WorkerTyped, Spool!Unlink, SpoolJob, Unpublished, Whole, OneWorker, Answered,
    Has, Unclaimed
  <2>6. QED BY <2>2, <2>3, <2>4, <2>5 DEF SpoolJob
<1>3. QED BY <1>1, <1>2 DEF SpoolIInv

LEMMA RmDirStep ==
  ASSUME SpoolIInv, NEW k \in Jobs, Spool!RmDir(k)
  PROVE  SpoolIInv'
<1>. SpoolTyped BY DEF SpoolIInv
<1>1. SpoolTyped'
  <2>1. DirTyped' BY DEF SpoolTyped, DirTyped, Spool!RmDir, Spool!ClientTo
  <2>2. ClientTyped' BY DEF SpoolTyped, ClientTyped, DirTyped, Spool!RmDir, Spool!ClientTo
  <2>3. WorkerTyped' BY DEF SpoolTyped, WorkerTyped, Spool!RmDir, Spool!ClientTo
  <2>4. (starts \in [Jobs -> Nat])' BY DEF SpoolTyped, DirTyped, ClientTyped, WorkerTyped, Spool!RmDir, Spool!ClientTo
  <2>5. (\A u \in Workers : worker[u].pc # "idle" => worker[u].job \in Jobs)'
    BY SpoolAssumption DEF SpoolTyped, WorkerTyped, Spool!RmDir, Spool!ClientTo
  <2>6. QED BY <2>1, <2>2, <2>3, <2>4, <2>5 DEF SpoolTyped
<1>2. ASSUME NEW j \in Jobs PROVE SpoolJob(j)'
  <2>1. SpoolTyped /\ SpoolJob(j) BY <1>2 DEF SpoolIInv
  <2>2. Unpublished(j)' BY <1>2, <2>1, SpoolAssumption DEF SpoolTyped, DirTyped, ClientTyped, WorkerTyped, Spool!RmDir, Spool!ClientTo, SpoolJob, Unpublished, Whole, OneWorker, Answered,
    Has, Unclaimed
  <2>3. Whole(j)' BY <1>2, <2>1, SpoolAssumption DEF SpoolTyped, DirTyped, ClientTyped, WorkerTyped, Spool!RmDir, Spool!ClientTo, SpoolJob, Unpublished, Whole, OneWorker, Answered,
    Has, Unclaimed
  <2>4. OneWorker(j)' BY <1>2, <2>1, SpoolAssumption DEF SpoolTyped, DirTyped, ClientTyped, WorkerTyped, Spool!RmDir, Spool!ClientTo, SpoolJob, Unpublished, Whole, OneWorker, Answered,
    Has, Unclaimed
  <2>5. Answered(j)' BY <1>2, <2>1, SpoolAssumption DEF SpoolTyped, DirTyped, ClientTyped, WorkerTyped, Spool!RmDir, Spool!ClientTo, SpoolJob, Unpublished, Whole, OneWorker, Answered,
    Has, Unclaimed
  <2>6. QED BY <2>2, <2>3, <2>4, <2>5 DEF SpoolJob
<1>3. QED BY <1>1, <1>2 DEF SpoolIInv

LEMMA ReadRequestStep ==
  ASSUME SpoolIInv, NEW w \in Workers, Spool!ReadRequest(w)
  PROVE  SpoolIInv'
<1>. SpoolTyped /\ UNCHANGED <<spool, client>> /\ worker[w].job \in Jobs /\ worker[w].pc = "read"
  BY DEF SpoolIInv, SpoolTyped, Spool!ReadRequest
<1>1. CASE Spool!InDir(worker[w].job, "request") /\ Spool!WorkerTo(w, "run")
           /\ starts' = [starts EXCEPT ![worker[w].job] = @ + 1]
  <2>1. worker' = [worker EXCEPT ![w].pc = "run"]  BY <1>1 DEF Spool!WorkerTo
  <2>2. SpoolTyped'
    <3>1. WorkerTyped'  BY <1>1, <2>1 DEF SpoolTyped, WorkerTyped
    <3>2. DirTyped' /\ ClientTyped' /\ (starts \in [Jobs -> Nat])'
      BY <1>1, <2>1 DEF SpoolTyped, DirTyped, ClientTyped, WorkerTyped
    <3>3. (\A u \in Workers : worker[u].pc # "idle" => worker[u].job \in Jobs)'
      BY <1>1, <2>1 DEF SpoolTyped, WorkerTyped
    <3>4. QED  BY <3>1, <3>2, <3>3 DEF SpoolTyped
  <2>3. ASSUME NEW j \in Jobs PROVE SpoolJob(j)'
    <3>1. SpoolJob(j)  BY DEF SpoolIInv
    <3>2. worker'[w].job = worker[w].job /\ worker'[w].content = worker[w].content /\ worker'[w].pc = "run"
      BY <2>1 DEF SpoolTyped, WorkerTyped
    <3>3. \A u \in Workers : u # w => worker'[u] = worker[u]  BY <2>1 DEF SpoolTyped, WorkerTyped
    <3>4. \A u \in Workers : Has(u, j)' <=> Has(u, j)  BY <3>2, <3>3 DEF Has
    <3>5. starts'[j] = IF Has(w, j) THEN starts[j] + 1 ELSE starts[j]
      BY <1>1 DEF SpoolTyped, Has
    <3>6. starts[j] \in Nat  BY DEF SpoolTyped
    <3>7. QED BY <3>1, <3>2, <3>3, <3>4, <3>5, <3>6 DEF SpoolJob, Unpublished, Whole, OneWorker, Answered, Unclaimed
  <2>4. QED BY <2>2, <2>3 DEF SpoolIInv
<1>2. CASE worker' = [worker EXCEPT ![w] = Spool!Unreadable(w)] /\ UNCHANGED starts
  <2>1. worker' = [worker EXCEPT ![w] = [worker[w] EXCEPT !.pc = "check", !.content = "error"]]
    BY <1>2 DEF Spool!Unreadable
  <2>2. SpoolTyped'
    <3>1. WorkerTyped'  BY <1>2, <2>1 DEF SpoolTyped, WorkerTyped
    <3>2. DirTyped' /\ ClientTyped' /\ (starts \in [Jobs -> Nat])'
      BY <1>2, <2>1 DEF SpoolTyped, DirTyped, ClientTyped, WorkerTyped
    <3>3. (\A u \in Workers : worker[u].pc # "idle" => worker[u].job \in Jobs)'
      BY <1>2, <2>1 DEF SpoolTyped, WorkerTyped
    <3>4. QED  BY <3>1, <3>2, <3>3 DEF SpoolTyped
  <2>3. ASSUME NEW j \in Jobs PROVE SpoolJob(j)'
    <3>1. SpoolJob(j)  BY DEF SpoolIInv
    <3>2. worker'[w].job = worker[w].job /\ worker'[w].content = "error" /\ worker'[w].pc = "check"
      BY <2>1 DEF SpoolTyped, WorkerTyped
    <3>3. \A u \in Workers : u # w => worker'[u] = worker[u]  BY <2>1 DEF SpoolTyped, WorkerTyped
    <3>4. \A u \in Workers : Has(u, j)' <=> Has(u, j)  BY <3>2, <3>3 DEF Has
    <3>5. QED BY <1>2, <3>1, <3>2, <3>3, <3>4 DEF SpoolJob, Unpublished, Whole, OneWorker, Answered, Unclaimed
  <2>4. QED BY <2>2, <2>3 DEF SpoolIInv
<1>3. QED BY <1>1, <1>2 DEF Spool!ReadRequest

LEMMA RunEndsStep ==
  ASSUME SpoolIInv, NEW w \in Workers, Spool!RunEnds(w)
  PROVE  SpoolIInv'
<1>. SpoolTyped BY DEF SpoolIInv
<1>1. SpoolTyped'
  <2>1. DirTyped' BY DEF SpoolTyped, DirTyped, Spool!RunEnds, Spool!WorkerTo
  <2>2. ClientTyped' BY DEF SpoolTyped, ClientTyped, DirTyped, Spool!RunEnds, Spool!WorkerTo
  <2>3. WorkerTyped' BY DEF SpoolTyped, WorkerTyped, Spool!RunEnds, Spool!WorkerTo
  <2>4. (starts \in [Jobs -> Nat])' BY DEF SpoolTyped, DirTyped, ClientTyped, WorkerTyped, Spool!RunEnds, Spool!WorkerTo
  <2>5. (\A u \in Workers : worker[u].pc # "idle" => worker[u].job \in Jobs)'
    BY SpoolAssumption DEF SpoolTyped, WorkerTyped, Spool!RunEnds, Spool!WorkerTo
  <2>6. QED BY <2>1, <2>2, <2>3, <2>4, <2>5 DEF SpoolTyped
<1>2. ASSUME NEW j \in Jobs PROVE SpoolJob(j)'
  <2>1. SpoolTyped /\ SpoolJob(j) BY <1>2 DEF SpoolIInv
  <2>2. Unpublished(j)' BY <1>2, <2>1, SpoolAssumption DEF SpoolTyped, DirTyped, ClientTyped, WorkerTyped, Spool!RunEnds, Spool!WorkerTo, SpoolJob, Unpublished, Whole, OneWorker, Answered,
    Has, Unclaimed
  <2>3. Whole(j)' BY <1>2, <2>1, SpoolAssumption DEF SpoolTyped, DirTyped, ClientTyped, WorkerTyped, Spool!RunEnds, Spool!WorkerTo, SpoolJob, Unpublished, Whole, OneWorker, Answered,
    Has, Unclaimed
  <2>4. OneWorker(j)' BY <1>2, <2>1, SpoolAssumption DEF SpoolTyped, DirTyped, ClientTyped, WorkerTyped, Spool!RunEnds, Spool!WorkerTo, SpoolJob, Unpublished, Whole, OneWorker, Answered,
    Has, Unclaimed
  <2>5. Answered(j)' BY <1>2, <2>1, SpoolAssumption DEF SpoolTyped, DirTyped, ClientTyped, WorkerTyped, Spool!RunEnds, Spool!WorkerTo, SpoolJob, Unpublished, Whole, OneWorker, Answered,
    Has, Unclaimed
  <2>6. QED BY <2>2, <2>3, <2>4, <2>5 DEF SpoolJob
<1>3. QED BY <1>1, <1>2 DEF SpoolIInv

LEMMA CheckStep ==
  ASSUME SpoolIInv, NEW w \in Workers, Spool!Check(w)
  PROVE  SpoolIInv'
<1>. SpoolTyped BY DEF SpoolIInv
<1>1. SpoolTyped'
  <2>1. DirTyped' BY DEF SpoolTyped, DirTyped, Spool!Check, Spool!Exists, Spool!Idle
  <2>2. ClientTyped' BY DEF SpoolTyped, ClientTyped, DirTyped, Spool!Check, Spool!Exists, Spool!Idle
  <2>3. WorkerTyped' BY DEF SpoolTyped, WorkerTyped, Spool!Check, Spool!Exists, Spool!Idle
  <2>4. (starts \in [Jobs -> Nat])' BY DEF SpoolTyped, DirTyped, ClientTyped, WorkerTyped, Spool!Check, Spool!Exists, Spool!Idle
  <2>5. (\A u \in Workers : worker[u].pc # "idle" => worker[u].job \in Jobs)'
    BY SpoolAssumption DEF SpoolTyped, WorkerTyped, Spool!Check, Spool!Exists, Spool!Idle
  <2>6. QED BY <2>1, <2>2, <2>3, <2>4, <2>5 DEF SpoolTyped
<1>2. ASSUME NEW j \in Jobs PROVE SpoolJob(j)'
  <2>1. SpoolTyped /\ SpoolJob(j) BY <1>2 DEF SpoolIInv
  <2>2. Unpublished(j)' BY <1>2, <2>1, SpoolAssumption DEF SpoolTyped, DirTyped, ClientTyped, WorkerTyped, Spool!Check, Spool!Exists, Spool!Idle, SpoolJob, Unpublished, Whole, OneWorker, Answered,
    Has, Unclaimed
  <2>3. Whole(j)' BY <1>2, <2>1, SpoolAssumption DEF SpoolTyped, DirTyped, ClientTyped, WorkerTyped, Spool!Check, Spool!Exists, Spool!Idle, SpoolJob, Unpublished, Whole, OneWorker, Answered,
    Has, Unclaimed
  <2>4. OneWorker(j)' BY <1>2, <2>1, SpoolAssumption DEF SpoolTyped, DirTyped, ClientTyped, WorkerTyped, Spool!Check, Spool!Exists, Spool!Idle, SpoolJob, Unpublished, Whole, OneWorker, Answered,
    Has, Unclaimed
  <2>5. Answered(j)' BY <1>2, <2>1, SpoolAssumption DEF SpoolTyped, DirTyped, ClientTyped, WorkerTyped, Spool!Check, Spool!Exists, Spool!Idle, SpoolJob, Unpublished, Whole, OneWorker, Answered,
    Has, Unclaimed
  <2>6. QED BY <2>2, <2>3, <2>4, <2>5 DEF SpoolJob
<1>3. QED BY <1>1, <1>2 DEF SpoolIInv

LEMMA WriteTempStep ==
  ASSUME SpoolIInv, NEW w \in Workers, Spool!WriteTemp(w)
  PROVE  SpoolIInv'
<1>. SpoolTyped /\ UNCHANGED <<client, starts>> /\ worker[w].job \in Jobs /\ worker[w].pc = "temp"
  BY DEF SpoolIInv, SpoolTyped, Spool!WriteTemp
<1>1. CASE spool[worker[w].job].name = "published"
  <2>1. /\ worker' = [worker EXCEPT ![w].pc = "replace"]
        /\ spool' = [spool EXCEPT ![worker[w].job].files = @ \cup {"temp"}]
    BY <1>1 DEF Spool!WriteTemp, Spool!WorkerTo, Spool!AddFile, Spool!Exists
  <2>2. SpoolTyped'
    <3>1. WorkerTyped'  BY <2>1 DEF SpoolTyped, WorkerTyped, Spool!Files
    <3>2. ClientTyped' /\ (starts \in [Jobs -> Nat])'  BY DEF SpoolTyped, ClientTyped
    <3>5. DirTyped'
      <4>1. spool[worker[w].job].files \cup {"temp"} \in SUBSET Spool!Files
        BY DEF SpoolTyped, DirTyped, Spool!Files
      <4>2. QED  BY <2>1, <4>1 DEF SpoolTyped, DirTyped
    <3>3. (\A u \in Workers : worker[u].pc # "idle" => worker[u].job \in Jobs)'
      BY <2>1 DEF SpoolTyped, WorkerTyped, Spool!Files
    <3>4. QED  BY <3>1, <3>2, <3>3, <3>5 DEF SpoolTyped
  <2>3. ASSUME NEW j \in Jobs PROVE SpoolJob(j)'
    <3>1. SpoolJob(j)  BY DEF SpoolIInv
    <3>2. worker'[w].job = worker[w].job /\ worker'[w].content = worker[w].content /\ worker'[w].pc = "replace"
      BY <2>1 DEF SpoolTyped, WorkerTyped
    <3>3. \A u \in Workers : u # w => worker'[u] = worker[u]  BY <2>1 DEF SpoolTyped, WorkerTyped
    <3>4. \A u \in Workers : Has(u, j)' <=> Has(u, j)  BY <3>2, <3>3 DEF Has
    <3>5. /\ spool'[j].name = spool[j].name /\ spool'[j].content = spool[j].content
          /\ spool'[j].files \in {spool[j].files, spool[j].files \cup {"temp"}}
          /\ ~Has(w, j) => spool'[j].files = spool[j].files
      BY <2>1 DEF SpoolTyped, DirTyped, Has
    <3>6. QED BY <3>1, <3>2, <3>3, <3>4, <3>5 DEF SpoolJob, Unpublished, Whole, OneWorker, Answered, Unclaimed
  <2>4. QED BY <2>2, <2>3 DEF SpoolIInv
<1>2. CASE spool[worker[w].job].name # "published"
  <2>1. worker' = [worker EXCEPT ![w] = Spool!Idle] /\ UNCHANGED spool
    BY <1>2 DEF Spool!WriteTemp, Spool!Exists
  <2>2. SpoolTyped'
    <3>1. WorkerTyped'  BY <2>1 DEF SpoolTyped, WorkerTyped, Spool!Idle
    <3>2. DirTyped' /\ ClientTyped' /\ (starts \in [Jobs -> Nat])'
      BY <2>1 DEF SpoolTyped, DirTyped, ClientTyped, WorkerTyped, Spool!Idle
    <3>3. (\A u \in Workers : worker[u].pc # "idle" => worker[u].job \in Jobs)'
      BY <2>1 DEF SpoolTyped, WorkerTyped, Spool!Idle
    <3>4. QED  BY <3>1, <3>2, <3>3 DEF SpoolTyped
  <2>3. ASSUME NEW j \in Jobs PROVE SpoolJob(j)'
    <3>1. SpoolJob(j)  BY DEF SpoolIInv
    <3>2. ~Has(w, j)'  BY <2>1, SpoolAssumption DEF SpoolTyped, WorkerTyped, Has, Spool!Idle
    <3>3. \A u \in Workers : u # w => worker'[u] = worker[u]  BY <2>1 DEF SpoolTyped, WorkerTyped
    <3>4. \A u \in Workers : Has(u, j)' => u # w /\ Has(u, j)  BY <3>2, <3>3 DEF Has
    <3>5. QED BY <2>1, <3>1, <3>3, <3>4 DEF SpoolJob, Unpublished, Whole, OneWorker, Answered, Unclaimed
  <2>4. QED BY <2>2, <2>3 DEF SpoolIInv
<1>3. QED BY <1>1, <1>2

LEMMA ReplaceStep ==
  ASSUME SpoolIInv, NEW w \in Workers, Spool!Replace(w)
  PROVE  SpoolIInv'
<1>. SpoolTyped BY DEF SpoolIInv
<1>1. SpoolTyped'
  <2>1. DirTyped' BY DEF SpoolTyped, DirTyped, Spool!Replace, Spool!InDir, Spool!Exists, Spool!Idle, Spool!Files
  <2>2. ClientTyped' BY DEF SpoolTyped, ClientTyped, DirTyped, Spool!Replace, Spool!InDir, Spool!Exists, Spool!Idle, Spool!Files
  <2>3. WorkerTyped' BY DEF SpoolTyped, WorkerTyped, Spool!Replace, Spool!InDir, Spool!Exists, Spool!Idle, Spool!Files
  <2>4. (starts \in [Jobs -> Nat])' BY DEF SpoolTyped, DirTyped, ClientTyped, WorkerTyped, Spool!Replace, Spool!InDir, Spool!Exists, Spool!Idle, Spool!Files
  <2>5. (\A u \in Workers : worker[u].pc # "idle" => worker[u].job \in Jobs)'
    BY SpoolAssumption DEF SpoolTyped, WorkerTyped, Spool!Replace, Spool!InDir, Spool!Exists, Spool!Idle, Spool!Files
  <2>6. QED BY <2>1, <2>2, <2>3, <2>4, <2>5 DEF SpoolTyped
<1>2. ASSUME NEW j \in Jobs PROVE SpoolJob(j)'
  <2>1. SpoolTyped /\ SpoolJob(j) BY <1>2 DEF SpoolIInv
  <2>2. Unpublished(j)' BY <1>2, <2>1, SpoolAssumption DEF SpoolTyped, DirTyped, ClientTyped, WorkerTyped, Spool!Replace, Spool!InDir, Spool!Exists, Spool!Idle, Spool!Files, SpoolJob, Unpublished, Whole, OneWorker, Answered,
    Has, Unclaimed
  <2>3. Whole(j)' BY <1>2, <2>1, SpoolAssumption DEF SpoolTyped, DirTyped, ClientTyped, WorkerTyped, Spool!Replace, Spool!InDir, Spool!Exists, Spool!Idle, Spool!Files, SpoolJob, Unpublished, Whole, OneWorker, Answered,
    Has, Unclaimed
  <2>4. OneWorker(j)' BY <1>2, <2>1, SpoolAssumption DEF SpoolTyped, DirTyped, ClientTyped, WorkerTyped, Spool!Replace, Spool!InDir, Spool!Exists, Spool!Idle, Spool!Files, SpoolJob, Unpublished, Whole, OneWorker, Answered,
    Has, Unclaimed
  <2>5. Answered(j)' BY <1>2, <2>1, SpoolAssumption DEF SpoolTyped, DirTyped, ClientTyped, WorkerTyped, Spool!Replace, Spool!InDir, Spool!Exists, Spool!Idle, Spool!Files, SpoolJob, Unpublished, Whole, OneWorker, Answered,
    Has, Unclaimed
  <2>6. QED BY <2>2, <2>3, <2>4, <2>5 DEF SpoolJob
<1>3. QED BY <1>1, <1>2 DEF SpoolIInv

LEMMA WorkerCrashStep ==
  ASSUME SpoolIInv, NEW w \in Workers, Spool!WorkerCrash(w)
  PROVE  SpoolIInv'
<1>. SpoolTyped BY DEF SpoolIInv
<1>1. SpoolTyped'
  <2>1. DirTyped' BY DEF SpoolTyped, DirTyped, Spool!WorkerCrash, Spool!Idle
  <2>2. ClientTyped' BY DEF SpoolTyped, ClientTyped, DirTyped, Spool!WorkerCrash, Spool!Idle
  <2>3. WorkerTyped' BY DEF SpoolTyped, WorkerTyped, Spool!WorkerCrash, Spool!Idle
  <2>4. (starts \in [Jobs -> Nat])' BY DEF SpoolTyped, DirTyped, ClientTyped, WorkerTyped, Spool!WorkerCrash, Spool!Idle
  <2>5. (\A u \in Workers : worker[u].pc # "idle" => worker[u].job \in Jobs)'
    BY SpoolAssumption DEF SpoolTyped, WorkerTyped, Spool!WorkerCrash, Spool!Idle
  <2>6. QED BY <2>1, <2>2, <2>3, <2>4, <2>5 DEF SpoolTyped
<1>2. ASSUME NEW j \in Jobs PROVE SpoolJob(j)'
  <2>1. SpoolTyped /\ SpoolJob(j) BY <1>2 DEF SpoolIInv
  <2>2. Unpublished(j)' BY <1>2, <2>1, SpoolAssumption DEF SpoolTyped, DirTyped, ClientTyped, WorkerTyped, Spool!WorkerCrash, Spool!Idle, SpoolJob, Unpublished, Whole, OneWorker, Answered,
    Has, Unclaimed
  <2>3. Whole(j)' BY <1>2, <2>1, SpoolAssumption DEF SpoolTyped, DirTyped, ClientTyped, WorkerTyped, Spool!WorkerCrash, Spool!Idle, SpoolJob, Unpublished, Whole, OneWorker, Answered,
    Has, Unclaimed
  <2>4. OneWorker(j)' BY <1>2, <2>1, SpoolAssumption DEF SpoolTyped, DirTyped, ClientTyped, WorkerTyped, Spool!WorkerCrash, Spool!Idle, SpoolJob, Unpublished, Whole, OneWorker, Answered,
    Has, Unclaimed
  <2>5. Answered(j)' BY <1>2, <2>1, SpoolAssumption DEF SpoolTyped, DirTyped, ClientTyped, WorkerTyped, Spool!WorkerCrash, Spool!Idle, SpoolJob, Unpublished, Whole, OneWorker, Answered,
    Has, Unclaimed
  <2>6. QED BY <2>2, <2>3, <2>4, <2>5 DEF SpoolJob
<1>3. QED BY <1>1, <1>2 DEF SpoolIInv

LEMMA ClaimStep ==
  ASSUME SpoolIInv, NEW w \in Workers, NEW k \in Jobs, Spool!Claim(w, k)
  PROVE  SpoolIInv'
<1>. SpoolTyped BY DEF SpoolIInv
<1>1. SpoolTyped'
  <2>1. DirTyped' BY DEF SpoolTyped, DirTyped, Spool!Claim, Spool!AddFile, Spool!Idle, Spool!Files
  <2>2. ClientTyped' BY DEF SpoolTyped, ClientTyped, DirTyped, Spool!Claim, Spool!AddFile, Spool!Idle, Spool!Files
  <2>3. WorkerTyped' BY DEF SpoolTyped, WorkerTyped, Spool!Claim, Spool!AddFile, Spool!Idle, Spool!Files
  <2>4. (starts \in [Jobs -> Nat])' BY DEF SpoolTyped, DirTyped, ClientTyped, WorkerTyped, Spool!Claim, Spool!AddFile, Spool!Idle, Spool!Files
  <2>5. (\A u \in Workers : worker[u].pc # "idle" => worker[u].job \in Jobs)'
    BY SpoolAssumption DEF SpoolTyped, WorkerTyped, Spool!Claim, Spool!AddFile, Spool!Idle, Spool!Files
  <2>6. QED BY <2>1, <2>2, <2>3, <2>4, <2>5 DEF SpoolTyped
<1>2. ASSUME NEW j \in Jobs PROVE SpoolJob(j)'
  <2>1. SpoolTyped /\ SpoolJob(j) BY <1>2 DEF SpoolIInv
  <2>2. QED
    BY <1>2, <2>1 DEF SpoolTyped, DirTyped, ClientTyped, WorkerTyped, Spool!Claim, Spool!AddFile, Spool!Idle, Spool!Claimable,
      Spool!Exists, SpoolJob, Unpublished, Whole, OneWorker, Answered,
    Has, Unclaimed
<1>3. QED BY <1>1, <1>2 DEF SpoolIInv

LEMMA ServerCrashStep ==
  ASSUME SpoolIInv, Spool!ServerCrash
  PROVE  SpoolIInv'
<1>. SpoolTyped /\ UNCHANGED <<spool, worker, starts>>
  BY DEF SpoolIInv, Spool!ServerCrash
<1>1. ASSUME NEW j \in Jobs
      PROVE  client'[j] \in {client[j], [client[j] EXCEPT !.pc = "dead", !.toRemove = {}]}
  BY DEF Spool!ServerCrash
<1>2. client' = [j \in Jobs |-> client'[j]]
  BY DEF Spool!ServerCrash
<1>3. ClientTyped'
  <2>1. ASSUME NEW j \in Jobs
        PROVE  client'[j] \in
                 [pc : {"idle", "publish", "wait", "remove", "unlink", "done", "dead"},
                  answer : {"none", "run", "error", "gave_up"}, toRemove : SUBSET Spool!Files]
    BY <1>1, <2>1 DEF SpoolTyped, ClientTyped
  <2>2. QED  BY <1>2, <2>1 DEF ClientTyped
<1>4. SpoolTyped'
  BY <1>3 DEF SpoolTyped, DirTyped, ClientTyped, WorkerTyped
<1>5. ASSUME NEW j \in Jobs PROVE SpoolJob(j)'
  <2>1. SpoolJob(j)  BY DEF SpoolIInv
  <2>2. \/ client[j] = client'[j]
        \/ client'[j].pc = "dead" /\ client'[j].answer = client[j].answer
    BY <1>1 DEF SpoolTyped, ClientTyped
  <2>3. QED BY <2>1, <2>2 DEF SpoolJob, Unpublished, Whole,
      OneWorker, Answered, Has, Unclaimed
<1>6. QED BY <1>4, <1>5 DEF SpoolIInv

LEMMA SpoolStep == SpoolIInv /\ [Spool!Next]_(Spool!vars) => SpoolIInv'
<1>1. ASSUME SpoolIInv, UNCHANGED Spool!vars PROVE SpoolIInv'
  BY <1>1 DEF Spool!vars, SpoolIInv, SpoolTyped, DirTyped, ClientTyped, WorkerTyped, SpoolJob, Unpublished, Whole, OneWorker, Answered,
    Has, Unclaimed
<1>2. QED
  BY <1>1, StageStep, PublishStep, PollStep, DeadlineStep, RmListStep, UnlinkStep, RmDirStep, ReadRequestStep, RunEndsStep, CheckStep, WriteTempStep, ReplaceStep, WorkerCrashStep,
    ClaimStep, ServerCrashStep DEF Spool!Next, Spool!Execute, Spool!Work, Spool!Quiet

(* For any calls and any number of workers, with crashes and deadlines:    *)
(* a command runs at most once while its caller waits, an answer is of a   *)
(* run that has ended, and what rmtree leaves cannot run.                  *)
THEOREM SpoolHolds == Spool!Spec => []SpoolInv
<1>1. Spool!Init => SpoolIInv BY SpoolInit
<1>2. SpoolIInv /\ [Spool!Next]_(Spool!vars) => SpoolIInv' BY SpoolStep
<1>3. SpoolIInv => SpoolInv BY SpoolImplies
<1>4. QED BY <1>1, <1>2, <1>3, PTL DEF Spool!Spec

-----------------------------------------------------------------------------
(* The files of the database.                                              *)

(* What the operating system may still show of a name: the file as seen or *)
(* the one that is durable.  Any main file with any log must read as       *)
(* something the database may contain.                                     *)
DBF == Files!db
WAL == Files!wal
NoFile == Files!None
Names == Files!Data \cup Files!Backups
Read(d, w) == IF w = NoFile THEN d.ver ELSE IF w.id = d.id THEN w.ver ELSE 0
Shown(name) == {dir[name], disk[name]}

DiskFile == [ver : Nat, id : Nat, synced : BOOLEAN]
Labels == {"idle", "copy", "safety", "link", "linksync", "sync", "publish", "publishsync",
           "checkpoint", "unlink", "unlinksync", "replace", "replacesync", "verify"}
Process == [pc : Labels, overwrite : BOOLEAN, tmp : Nat, synced : BOOLEAN, copy : Nat, n : Nat,
            floor : Nat, prior : Nat]
Counters == [commits : Nat, backups : Nat, restores : Nat, stops : Nat, losses : Nat, reports : Nat]

DirsTyped == dir \in [Names -> DiskFile] /\ disk \in [Names -> DiskFile]
RestTyped ==
  /\ spent \in Counters /\ server \in {"up", "down"} /\ last \in Nat /\ expect \subseteq 1..last
  /\ last = spent.commits + 1 /\ spent.commits <= MaxCommits /\ spent.restores <= MaxRestores
FilesTyped == DirsTyped /\ tool \in [Tools -> Process] /\ RestTyped

FileOK(f) ==
  /\ f.ver <= last /\ f.id <= MaxRestores + 1 /\ f.synced
  /\ f # NoFile => f.ver >= 1 /\ f.id >= 1
AllFilesOK == \A name \in Names : FileOK(dir[name]) /\ FileOK(disk[name])

AllRead ==
  /\ \A d \in Shown(DBF), w \in Shown(WAL) : d # NoFile => Read(d, w) \in expect
  /\ dir[WAL] # NoFile /\ dir[DBF] # NoFile => disk[DBF] = dir[DBF]
  /\ dir[DBF] = NoFile => disk[DBF] = NoFile

(* One restore at a time, while the server is down.                        *)
Restores(p) == tool[p].n > 0
LoneRestore == \A p \in Tools : Restores(p) =>
  /\ server = "down" /\ tool[p].n <= spent.restores
  /\ \A q \in Tools : Restores(q) => q = p

BeforeSafety == {"copy", "safety", "link"}
AfterSafety == {"checkpoint", "unlink", "unlinksync", "replace", "replacesync", "verify"}

(* A backup: the copy is current, complete and durable when it is given    *)
(* its name.                                                               *)
BackupOK(p) == ~Restores(p) =>
  /\ tool[p].pc \in {"idle", "copy", "sync", "publish", "publishsync"}
  /\ tool[p].pc \in {"sync", "publish", "publishsync"} => tool[p].tmp >= 1
  /\ tool[p].pc = "publish" => tool[p].synced
  /\ tool[p].floor <= last
  /\ spent.restores = 0 /\ tool[p].pc = "copy" /\ dir[DBF] # NoFile => Files!Content >= tool[p].floor
  /\ spent.restores = 0 /\ tool[p].pc \in {"sync", "publish", "publishsync"} => tool[p].tmp >= tool[p].floor

SafetyName(p) == Files!Safety(tool[p].n)
RestoreOK(p) == Restores(p) =>
  /\ tool[p].pc \notin {"idle", "publish", "publishsync"}
  /\ tool[p].pc # "copy" => tool[p].tmp >= 1
  /\ tool[p].pc \in AfterSafety => tool[p].synced
  /\ tool[p].pc = "copy" => tool[p].prior = IF dir[DBF] = NoFile THEN 0 ELSE Files!Content
  /\ tool[p].pc = "safety" => dir[DBF] # NoFile /\ tool[p].prior = Files!Content
  /\ tool[p].pc = "link" => tool[p].copy = tool[p].prior /\ tool[p].prior # 0
  /\ tool[p].pc = "linksync" => dir[SafetyName(p)].ver = tool[p].prior
  /\ tool[p].pc \in AfterSafety \cup {"sync"} /\ tool[p].prior # 0 =>
       dir[SafetyName(p)].ver = tool[p].prior /\ disk[SafetyName(p)].ver = tool[p].prior
  /\ tool[p].pc = "unlink" /\ dir[DBF] # NoFile => dir[WAL] = NoFile
  /\ tool[p].pc \in {"unlinksync", "replace", "replacesync"} => dir[WAL] = NoFile
  /\ tool[p].pc \in {"replace", "replacesync"} => disk[WAL] = NoFile
  /\ tool[p].pc = "replacesync" => dir[DBF] # NoFile /\ dir[DBF].ver = tool[p].tmp

ToolsOK == \A p \in Tools : tool[p].tmp <= last /\ tool[p].copy <= last /\ BackupOK(p) /\ RestoreOK(p)

FilesIInv == FilesTyped /\ AllFilesOK /\ AllRead /\ LoneRestore /\ ToolsOK

-----------------------------------------------------------------------------
LEMMA NameFacts ==
  /\ DBF = <<"db", 0>> /\ WAL = <<"wal", 0>> /\ Files!backup = <<"backup", 0>>
  /\ DBF \in Names /\ WAL \in Names /\ Files!backup \in Names /\ DBF # WAL
  /\ DBF \in Files!Data /\ WAL \in Files!Data /\ Files!backup \notin Files!Data
  /\ Files!backup # DBF /\ Files!backup # WAL
  /\ \A n \in Nat : Files!Safety(n) # DBF /\ Files!Safety(n) # WAL /\ Files!Safety(n) # Files!backup
  /\ \A n \in 1..MaxRestores : Files!Safety(n) \in Names /\ Files!Safety(n) \in Files!Data
  /\ Files!Backups = {Files!backup} /\ Names = Files!Data \cup Files!Backups
BY DEF DBF, WAL, Files!db, Files!wal, Files!backup, Names, Files!Data, Files!Backups, Files!Safety

LEMMA NoFileFacts == NoFile = [ver |-> 0, id |-> 0, synced |-> TRUE] /\ NoFile \in DiskFile
BY DEF NoFile, Files!None, DiskFile

LEMMA ContentIs == Files!Content = Read(dir[DBF], dir[WAL])
BY DEF Files!Content, Read, DBF, WAL, NoFile, Files!Torn

LEMMA FilesInit == Files!Init => FilesIInv
<1> SUFFICES ASSUME Files!Init PROVE FilesIInv OBVIOUS
<1>1. /\ dir[DBF] = [ver |-> 1, id |-> 1, synced |-> TRUE] /\ disk = dir
      /\ \A name \in Names : name # DBF => dir[name] = NoFile
      /\ last = 1 /\ expect = {1}
  BY NameFacts DEF Files!Init, DBF, NoFile, Names
<1>2. dir \in [Names -> DiskFile]
  BY NameFacts, NoFileFacts DEF Files!Init, NoFile, DBF, Names, DiskFile
<1>3. FilesTyped
  BY <1>1, <1>2, FilesAssumption DEF Files!Init, FilesTyped, DirsTyped, RestTyped, Files!Idle, Labels, Process, Counters
<1>4. AllFilesOK /\ AllRead
  <2>1. \A name \in Names : FileOK(dir[name])
    BY <1>1, NoFileFacts, FilesAssumption DEF FileOK
  <2>2. AllRead
    <3>1. dir[DBF] # NoFile  BY <1>1, NoFileFacts
    <3>2. dir[WAL] = NoFile /\ disk[WAL] = NoFile /\ disk[DBF] = dir[DBF]  BY <1>1, NameFacts
    <3>3. Read(dir[DBF], NoFile) = 1  BY <1>1 DEF Read
    <3>4. QED  BY <1>1, <3>1, <3>2, <3>3 DEF AllRead, Shown
  <2>3. QED  BY <1>1, <2>1, <2>2 DEF AllFilesOK
<1>5. LoneRestore /\ ToolsOK
  BY DEF Files!Init, LoneRestore, ToolsOK, Restores, BackupOK, RestoreOK, Files!Idle
<1>6. QED BY <1>3, <1>4, <1>5 DEF FilesIInv

(* A backup that has its name keeps one, and a reported one is durable.    *)
KeptInv ==
  /\ disk[Files!backup] # NoFile => dir[Files!backup] # NoFile
  /\ \A p \in Tools : tool[p].pc = "publishsync" => dir[Files!backup] # NoFile
  /\ spent.reports > 0 => disk[Files!backup] # NoFile

LEMMA FilesImplied == FilesIInv /\ KeptInv => FilesInv
<1> SUFFICES ASSUME FilesIInv, KeptInv PROVE FilesInv OBVIOUS
<1>1. Files!TypeOK
  <2>1. dir \in [Names -> Files!File] /\ disk \in [Names -> Files!File]
    <3>1. \A name \in Names : dir[name] \in Files!File /\ disk[name] \in Files!File
      BY FilesAssumption DEF FilesIInv, FilesTyped, DirsTyped, RestTyped, AllFilesOK, FileOK, DiskFile, Files!File, Counters
    <3>2. QED BY <3>1 DEF FilesIInv, FilesTyped, DirsTyped, RestTyped
  <2>2. dir[DBF] = NoFile \/ dir[DBF].ver \in 1..last
    BY NameFacts DEF FilesIInv, FilesTyped, DirsTyped, RestTyped, AllFilesOK, FileOK, DiskFile
  <2>3. \A p \in Tools : tool[p].tmp \in 0..last /\ tool[p].n \in 0..spent.restores
    BY DEF FilesIInv, FilesTyped, DirsTyped, RestTyped, ToolsOK, Process, LoneRestore, Restores, Counters
  <2>4. QED
    BY <2>1, <2>2, <2>3, FilesAssumption
    DEF Files!TypeOK, FilesIInv, FilesTyped, DirsTyped, RestTyped, DBF, NoFile, Names, Counters
<1>2. Files!ReadsBack
  BY NameFacts, ContentIs DEF Files!ReadsBack, FilesIInv, AllRead, Shown, DBF, NoFile
<1>3. Files!PublishedIsWhole
  BY DEF Files!PublishedIsWhole, FilesIInv, FilesTyped, DirsTyped, RestTyped, AllFilesOK, FileOK, NoFile, Files!Torn
<1>4. Files!SafetyIsKept
  BY DEF Files!SafetyIsKept, FilesIInv, ToolsOK, RestoreOK, BackupOK, AfterSafety, SafetyName
<1>5. Files!BackupIsCurrent
  <2>1. SUFFICES ASSUME spent.restores = 0, NEW p \in Tools, tool[p].pc \in {"publish", "publishsync"}
                 PROVE  tool[p].tmp >= tool[p].floor
    BY DEF Files!BackupIsCurrent
  <2>2. ~Restores(p)
    BY <2>1 DEF FilesIInv, ToolsOK, RestoreOK
  <2>3. QED BY <2>1, <2>2 DEF FilesIInv, ToolsOK, BackupOK
<1>6. Files!ReportedSurvives
  BY NameFacts DEF Files!ReportedSurvives, KeptInv, FilesIInv, FilesTyped, DirsTyped, DiskFile, AllFilesOK, FileOK, NoFile, Files!Torn
<1>7. QED BY <1>1, <1>2, <1>3, <1>4, <1>5, <1>6 DEF FilesInv, Files!FilesInv

LEMMA ContentFacts ==
  ASSUME FilesIInv
  PROVE  /\ Files!Content \in Nat /\ Files!Content <= last
         /\ dir[DBF] # NoFile => Files!Content \in expect /\ Files!Content >= 1
         /\ dir[DBF] = NoFile => Files!Content = 0
<1>1. dir[DBF] \in DiskFile /\ dir[WAL] \in DiskFile
  BY NameFacts DEF FilesIInv, FilesTyped, DirsTyped, RestTyped
<1>2. dir[DBF] # NoFile => Files!Content \in expect
  BY ContentIs DEF FilesIInv, AllRead, Shown
<1>3. dir[DBF] = NoFile => Files!Content = 0
  BY ContentIs, NameFacts, NoFileFacts, <1>1 DEF Read, FilesIInv, AllFilesOK, FileOK, DiskFile
<1>4. expect \subseteq 1..last /\ last \in Nat
  BY DEF FilesIInv, FilesTyped, DirsTyped, RestTyped
<1>5. Files!Content \in expect => Files!Content \in Nat /\ Files!Content <= last /\ Files!Content >= 1
  BY <1>4
<1>6. QED  BY <1>2, <1>3, <1>4, <1>5

LEMMA QuietFiles ==
  ASSUME FilesIInv, UNCHANGED <<dir, disk, last, expect>>
  PROVE  AllFilesOK' /\ AllRead' /\ Files!Content' = Files!Content
BY ContentIs DEF FilesIInv, AllFilesOK, FileOK, AllRead, Shown, Read, NoFile, Names, Files!Content

ToolOK(q) == tool[q].tmp <= last /\ tool[q].copy <= last /\ BackupOK(q) /\ RestoreOK(q)

(* A process that is at none of its steps notices nothing as long as the   *)
(* files of the database are what they were.                               *)
LEMMA SameData ==
  ASSUME FilesIInv, NEW q \in Tools, tool'[q] = tool[q], last' = last,
         spent'.restores = spent.restores \/ spent'.restores # 0,
         \A name \in Files!Data : dir'[name] = dir[name] /\ disk'[name] = disk[name]
  PROVE  ToolOK(q)'
<1>1. Files!Content' = Files!Content
  BY NameFacts DEF Files!Content, DBF, WAL
<1>2. ToolOK(q) BY DEF FilesIInv, ToolsOK, ToolOK
<1>3. BackupOK(q)'
  BY <1>1, <1>2, NameFacts DEF ToolOK, BackupOK, Restores, FilesIInv, FilesTyped, DirsTyped, RestTyped
<1>4. RestoreOK(q)'
  <2>1. Restores(q) => tool[q].n \in 1..MaxRestores
    BY FilesAssumption DEF FilesIInv, FilesTyped, DirsTyped, RestTyped, LoneRestore, Restores, Process, Counters
  <2>2. Restores(q) => SafetyName(q) \in Files!Data /\ SafetyName(q)' = SafetyName(q)
    BY <2>1, NameFacts DEF SafetyName
  <2>3. QED
    BY <1>1, <1>2, <2>2, NameFacts DEF ToolOK, RestoreOK, Restores
<1>5. QED BY <1>2, <1>3, <1>4 DEF ToolOK

(* A process that makes a backup minds what the database contains.         *)
LEMMA BackupKeeps ==
  ASSUME FilesIInv, NEW q \in Tools, tool'[q] = tool[q], ~Restores(q), last' \in Nat, last' >= last,
         spent'.restores = spent.restores,
         spent.restores = 0 /\ tool[q].pc # "idle" /\ dir'[DBF] # NoFile
           => dir[DBF] # NoFile /\ Files!Content' >= Files!Content /\ Files!Content' \in Nat
  PROVE  ToolOK(q)'
<1>1. ToolOK(q) /\ Files!Content \in Nat /\ tool[q] \in Process /\ last \in Nat
  BY ContentFacts DEF FilesIInv, ToolsOK, ToolOK, FilesTyped, DirsTyped, RestTyped
<1>2. RestoreOK(q)'
  BY DEF RestoreOK, Restores
<1>3. BackupOK(q)'
  BY <1>1 DEF ToolOK, BackupOK, Restores, Process
<1>4. QED  BY <1>1, <1>2, <1>3 DEF ToolOK, Process

LEMMA NobodyRestores ==
  ASSUME FilesIInv, server = "up", NEW q \in Tools
  PROVE  ~Restores(q)
BY DEF FilesIInv, LoneRestore

LEMMA StillTools ==
  ASSUME FilesIInv, tool' = tool, \A q \in Tools : ToolOK(q)'
  PROVE  ToolsOK'
BY DEF ToolsOK, ToolOK

LEMMA CommitStep ==
  ASSUME FilesIInv, Files!Commit
  PROVE  FilesIInv'
<1>. DEFINE new == [ver |-> last + 1, id |-> dir[DBF].id, synced |-> TRUE]
<1>1. /\ server = "up" /\ server' = "up" /\ dir[DBF] # NoFile /\ last' = last + 1 /\ expect' = {last + 1}
      /\ dir' = [dir EXCEPT ![WAL] = new] /\ tool' = tool
      /\ spent' = [spent EXCEPT !.commits = @ + 1] /\ spent.commits < MaxCommits
      /\ disk' = Files!Sync(IF dir[WAL] = NoFile THEN Files!Data ELSE {WAL})
  BY DEF Files!Commit, Files!Count, DBF, WAL, NoFile
<1>2. last \in Nat /\ dir[DBF] \in DiskFile /\ new \in DiskFile /\ DOMAIN dir = Names
  BY NameFacts DEF FilesIInv, FilesTyped, DirsTyped, RestTyped, DiskFile
<1>3. \A name \in Names :
        /\ dir'[name] = IF name = WAL THEN new ELSE dir[name]
        /\ disk'[name] = IF name = WAL THEN new
                         ELSE IF dir[WAL] = NoFile /\ name \in Files!Data THEN dir[name] ELSE disk[name]
  BY <1>1, <1>2, NameFacts DEF Files!Sync, FilesIInv, FilesTyped, DirsTyped, RestTyped
<1>4. dir' \in [Names -> DiskFile] /\ disk' \in [Names -> DiskFile]
  <2>1. disk' = [name \in Names |-> disk'[name]]
    BY <1>1, <1>2 DEF Files!Sync
  <2>2. QED  BY <1>1, <1>2, <1>3, <2>1 DEF FilesIInv, FilesTyped, DirsTyped, RestTyped
<1>5. FilesTyped'
  <2>1. spent' \in Counters /\ spent'.commits = spent.commits + 1 /\ spent'.restores = spent.restores
    BY <1>1 DEF FilesIInv, FilesTyped, RestTyped, Counters
  <2>2. RestTyped'
    BY <1>1, <1>2, <2>1, FilesAssumption DEF FilesIInv, FilesTyped, RestTyped, Counters
  <2>3. QED  BY <1>1, <1>4, <2>2 DEF FilesIInv, FilesTyped, DirsTyped
<1>6. AllFilesOK'
  <2>1. \A name \in Names : FileOK(dir[name]) /\ FileOK(disk[name]) /\ dir[name] \in DiskFile /\ disk[name] \in DiskFile
    BY DEF FilesIInv, AllFilesOK, FilesTyped, DirsTyped, RestTyped
  <2>2. \A name \in Names : FileOK(dir[name])' /\ FileOK(disk[name])'
    BY <1>1, <1>2, <1>3, <2>1, NameFacts, NoFileFacts DEF FileOK, DiskFile
  <2>3. QED BY <2>2 DEF AllFilesOK
<1>7. AllRead'
  <2>1. dir'[DBF] = dir[DBF] /\ disk'[DBF] = dir[DBF] /\ dir'[WAL] = new /\ disk'[WAL] = new
    BY <1>1, <1>3, NameFacts DEF FilesIInv, AllRead
  <2>2. new # NoFile
    BY <1>2, NoFileFacts
  <2>3. QED BY <1>1, <1>2, <2>1, <2>2 DEF AllRead, Shown, Read
<1>8. LoneRestore'
  BY <1>1 DEF FilesIInv, LoneRestore, Restores, FilesTyped, DirsTyped, RestTyped, Counters
<1>9. ASSUME NEW q \in Tools PROVE ToolOK(q)'
  <2>1. Files!Content' = last + 1
    BY <1>1, <1>2, <1>3, NameFacts, NoFileFacts DEF Files!Content, DBF, WAL, NoFile
  <2>2. QED
    BY <1>1, <1>2, <2>1, BackupKeeps, NobodyRestores, ContentFacts DEF FilesIInv, FilesTyped, DirsTyped, RestTyped, Counters
<1>10. QED  BY <1>1, <1>5, <1>6, <1>7, <1>8, <1>9, StillTools DEF FilesIInv


(* Stopping and starting the server changes no file.                       *)
LEMMA StopStartStep ==
  ASSUME FilesIInv, Files!Stop \/ Files!Start
  PROVE  FilesIInv'
<1>1. /\ UNCHANGED <<dir, disk, last, expect, tool>> /\ server' \in {"up", "down"}
      /\ spent' \in Counters /\ spent'.restores = spent.restores /\ spent'.commits = spent.commits
  BY DEF Files!Stop, Files!Start, Files!Count, Files!files, FilesIInv, FilesTyped, RestTyped, Counters
<1>2. FilesTyped'
  BY <1>1 DEF FilesIInv, FilesTyped, DirsTyped, RestTyped
<1>3. LoneRestore'
  <2>1. \A p \in Tools : Restores(p) => server' = "down"
    BY DEF Files!Stop, Files!Start, Files!Restoring, Restores, FilesIInv, LoneRestore, FilesTyped, Process
  <2>2. QED  BY <1>1, <2>1 DEF FilesIInv, LoneRestore, Restores
<1>4. \A q \in Tools : ToolOK(q)'
  BY <1>1, SameData
<1>5. QED  BY <1>1, <1>2, <1>3, <1>4, QuietFiles, StillTools DEF FilesIInv

(* What a checkpoint does to the files, in the server or in a restore.     *)
LEMMA CheckpointFiles ==
  ASSUME FilesIInv, dir[DBF] # NoFile, dir' = Files!Checkpointed, UNCHANGED <<last, expect>>,
         disk' = [disk EXCEPT ![DBF] = IF @.id = dir[DBF].id THEN dir'[DBF] ELSE @]
  PROVE  /\ DirsTyped' /\ AllFilesOK' /\ AllRead' /\ Files!Content' = Files!Content
         /\ dir'[DBF] # NoFile /\ dir'[WAL] = NoFile /\ disk'[WAL] = disk[WAL]
         /\ \A name \in Names \ {DBF, WAL} : dir'[name] = dir[name] /\ disk'[name] = disk[name]
<1>. DEFINE new == [dir[DBF] EXCEPT !.ver = Files!Content]
<1>1. /\ dir \in [Names -> DiskFile] /\ disk \in [Names -> DiskFile] /\ new \in DiskFile
      /\ Files!Content \in expect /\ Files!Content >= 1 /\ Files!Content <= last /\ Files!Content \in Nat
      /\ \A name \in Names : FileOK(dir[name]) /\ FileOK(disk[name])
  BY ContentFacts, NameFacts DEF FilesIInv, FilesTyped, DirsTyped, DiskFile, AllFilesOK
<1>2. dir' = [dir EXCEPT ![DBF] = new, ![WAL] = NoFile]
  BY <1>1, NameFacts DEF Files!Checkpointed, DBF, WAL, NoFile
<1>3. /\ dir'[DBF] = new /\ dir'[WAL] = NoFile
      /\ \A name \in Names \ {DBF, WAL} : dir'[name] = dir[name]
  BY <1>1, <1>2, NameFacts
<1>4. /\ disk'[DBF] = (IF disk[DBF].id = dir[DBF].id THEN new ELSE disk[DBF])
      /\ \A name \in Names \ {DBF} : disk'[name] = disk[name]
  BY <1>1, <1>3, NameFacts
<1>5. DirsTyped'
  <2>1. dir' \in [Names -> DiskFile]  BY <1>1, <1>2, NoFileFacts
  <2>2. disk' \in [Names -> DiskFile]  BY <1>1, <1>3, <1>4, NameFacts
  <2>3. QED  BY <2>1, <2>2 DEF DirsTyped
<1>6. new # NoFile /\ new.ver = Files!Content /\ new.id = dir[DBF].id /\ FileOK(new)
  <2>1. new.ver = Files!Content /\ new.id = dir[DBF].id /\ new.synced = dir[DBF].synced
    BY <1>1, NameFacts DEF DiskFile
  <2>2. dir[DBF].id >= 1 /\ dir[DBF].id <= MaxRestores + 1 /\ dir[DBF].synced
    BY <1>1, NameFacts DEF FileOK
  <2>3. new # NoFile  BY <1>1, <2>1, NoFileFacts
  <2>4. QED  BY <1>1, <2>1, <2>2, <2>3 DEF FileOK
<1>7. AllFilesOK'
  <2>1. FileOK(NoFile)  BY <1>1, NoFileFacts, FilesAssumption DEF FileOK, FilesIInv, FilesTyped, RestTyped
  <2>2. ASSUME NEW name \in Names PROVE FileOK(dir[name])' /\ FileOK(disk[name])'
    <3>1. dir'[name] \in {dir[name], new, NoFile} /\ disk'[name] \in {disk[name], new}
      BY <1>3, <1>4
    <3>2. \A f \in {dir[name], disk[name], new, NoFile} : FileOK(f)
      BY <1>1, <1>6, <2>1
    <3>3. QED  BY <3>1, <3>2 DEF FileOK
  <2>3. QED  BY <2>2 DEF AllFilesOK
<1>8. Files!Content' = Files!Content
  BY <1>3, <1>6, ContentIs DEF Files!Content, DBF, WAL, NoFile
<1>9. AllRead'
  <2>1. ASSUME NEW d \in Shown(DBF)', NEW w \in Shown(WAL)', d # NoFile PROVE Read(d, w) \in expect
    <3>1. CASE w = NoFile /\ d = new  BY <1>1, <1>6, <3>1 DEF Read
    <3>2. CASE d # new
      <4>1. d = disk[DBF]  BY <1>3, <1>4, <2>1, <3>2 DEF Shown
      <4>2. CASE w = NoFile
        \* the log may be durable still, or the database has been read without one
        <5>1. CASE dir[WAL] = NoFile
          BY <2>1, <4>1, <4>2, <5>1 DEF FilesIInv, AllRead, Shown
        <5>2. CASE dir[WAL] # NoFile
          <6>1. disk[DBF] = dir[DBF]  BY <5>2 DEF FilesIInv, AllRead
          <6>2. QED  BY <1>4, <1>3, <2>1, <3>2, <6>1 DEF Shown
        <5>3. QED  BY <5>1, <5>2
      <4>3. CASE w # NoFile
        BY <1>3, <1>4, <2>1, <4>1, <4>3, NameFacts DEF FilesIInv, AllRead, Shown
      <4>4. QED  BY <4>2, <4>3
    <3>3. CASE w # NoFile /\ d = new
      <4>1. w = disk[WAL]  BY <1>3, <1>4, <2>1, <3>3, NameFacts DEF Shown
      <4>2. Read(dir[DBF], w) \in expect  BY <4>1 DEF FilesIInv, AllRead, Shown
      <4>3. QED  BY <1>6, <3>3, <4>2 DEF Read
    <3>4. QED  BY <3>1, <3>2, <3>3
  <2>2. QED  BY <1>3, <1>6, <2>1 DEF AllRead
<1>10. QED  BY <1>3, <1>4, <1>5, <1>6, <1>7, <1>8, <1>9, NameFacts

LEMMA CheckpointStep ==
  ASSUME FilesIInv, Files!Checkpoint
  PROVE  FilesIInv'
<1>1. /\ server = "up" /\ dir[DBF] # NoFile /\ dir' = Files!Checkpointed
      /\ UNCHANGED <<server, tool, last, expect, spent>>
      /\ disk' = [disk EXCEPT ![DBF] = IF @.id = dir[DBF].id THEN dir'[DBF] ELSE @]
  BY ContentFacts DEF Files!Checkpoint, Files!Torn, DBF
<1>2. DirsTyped' /\ AllFilesOK' /\ AllRead' /\ Files!Content' = Files!Content
  BY <1>1, CheckpointFiles
<1>3. FilesTyped' /\ LoneRestore'
  BY <1>1, <1>2 DEF FilesIInv, FilesTyped, RestTyped, LoneRestore, Restores
<1>4. \A q \in Tools : ToolOK(q)'
  <2>1. last \in Nat /\ Files!Content \in Nat  BY ContentFacts DEF FilesIInv, FilesTyped, RestTyped
  <2>2. QED  BY <1>1, <1>2, <2>1, NobodyRestores, BackupKeeps
<1>5. QED  BY <1>1, <1>2, <1>3, <1>4, StillTools DEF FilesIInv

LEMMA LoseMainStep ==
  ASSUME FilesIInv, Files!LoseMain
  PROVE  FilesIInv'
<1>1. /\ UNCHANGED <<server, tool, last>> /\ expect' = {} /\ \A p \in Tools : tool[p].pc = "idle"
      /\ dir' = [dir EXCEPT ![DBF] = NoFile] /\ disk' = [disk EXCEPT ![DBF] = NoFile]
      /\ spent' \in Counters /\ spent'.restores = spent.restores /\ spent'.commits = spent.commits
  BY DEF Files!LoseMain, DBF, NoFile, Files!Count, Counters, FilesIInv, FilesTyped, RestTyped
<1>2. dir'[DBF] = NoFile /\ disk'[DBF] = NoFile
  BY <1>1, NameFacts DEF FilesIInv, FilesTyped, DirsTyped
<1>3. FilesTyped'
  BY <1>1, NoFileFacts DEF FilesIInv, FilesTyped, DirsTyped, RestTyped
<1>4. AllFilesOK'
  BY <1>1, NoFileFacts, FilesAssumption
  DEF AllFilesOK, FileOK, FilesIInv, FilesTyped, DirsTyped, RestTyped
<1>5. AllRead' /\ LoneRestore'
  BY <1>1, <1>2 DEF AllRead, Shown, FilesIInv, LoneRestore, Restores
<1>6. \A q \in Tools : ToolOK(q)'
  <2>1. \A q \in Tools : ~Restores(q)  BY <1>1 DEF FilesIInv, ToolsOK, RestoreOK
  <2>2. last \in Nat  BY DEF FilesIInv, FilesTyped, RestTyped
  <2>3. QED  BY <1>1, <1>2, <2>1, <2>2, BackupKeeps
<1>7. QED  BY <1>1, <1>3, <1>4, <1>5, <1>6, StillTools DEF FilesIInv

LEMMA PowerLossStep ==
  ASSUME FilesIInv, Files!PowerLoss
  PROVE  FilesIInv'
<1>1. PICK kept \in SUBSET {name \in DOMAIN dir : dir[name] # disk[name]} :
        dir' = [name \in DOMAIN dir |->
                 LET file == IF name \in kept THEN dir[name] ELSE disk[name]
                 IN  IF file.synced THEN file ELSE [file EXCEPT !.ver = Files!Torn, !.synced = TRUE]]
  BY DEF Files!PowerLoss
<1>2. /\ disk' = dir' /\ UNCHANGED <<last, expect>> /\ server' = "down"
      /\ tool' = [p \in Tools |-> Files!Idle]
      /\ spent' \in Counters /\ spent'.restores = spent.restores /\ spent'.commits = spent.commits
  <2>1. spent' = [spent EXCEPT !["losses"] = @ + 1]  BY DEF Files!PowerLoss, Files!Count
  <2>2. spent \in Counters  BY DEF FilesIInv, FilesTyped, RestTyped
  <2>3. spent' \in Counters /\ spent'.restores = spent.restores /\ spent'.commits = spent.commits
    BY <2>1, <2>2 DEF Counters
  <2>4. disk' = dir' /\ UNCHANGED <<last, expect>> /\ server' = "down" /\ tool' = [p \in Tools |-> Files!Idle]
    BY DEF Files!PowerLoss
  <2>5. QED  BY <2>3, <2>4
<1>3. DOMAIN dir = Names  BY DEF FilesIInv, FilesTyped, DirsTyped
<1>4. \A name \in Names : dir'[name] \in {dir[name], disk[name]}
  BY <1>1, <1>3 DEF FilesIInv, AllFilesOK, FileOK
<1>5. dir' \in [Names -> DiskFile]
  <2>1. dir' = [name \in Names |-> dir'[name]]  BY <1>1, <1>3
  <2>2. QED  BY <1>4, <2>1 DEF FilesIInv, FilesTyped, DirsTyped
<1>6. FilesTyped'
  <2>1. tool' \in [Tools -> Process]
    BY <1>2 DEF Files!Idle, Process, Labels
  <2>2. QED  BY <1>2, <1>5, <2>1 DEF FilesIInv, FilesTyped, DirsTyped, RestTyped
<1>7. AllFilesOK'
  BY <1>2, <1>4 DEF FilesIInv, AllFilesOK, FileOK
<1>8. AllRead'
  BY <1>2, <1>4, NameFacts DEF FilesIInv, AllRead, Shown
<1>9. LoneRestore' /\ ToolsOK'
  BY <1>2 DEF LoneRestore, ToolsOK, BackupOK, RestoreOK, Restores, Files!Idle, FilesIInv,
    FilesTyped, RestTyped
<1>10. QED  BY <1>6, <1>7, <1>8, <1>9 DEF FilesIInv


-----------------------------------------------------------------------------
(* The steps of a backup or restore.                                       *)

LEMMA OneTool ==
  ASSUME FilesIInv, NEW p \in Tools, UNCHANGED <<server, last>>, RestTyped',
         spent'.restores = spent.restores, DirsTyped', AllFilesOK', AllRead',
         tool' \in [Tools -> Process], \A q \in Tools \ {p} : tool'[q] = tool[q],
         tool'[p].n \in {tool[p].n, 0}, ToolOK(p)',
         Restores(p) \/ \A name \in Files!Data : dir'[name] = dir[name] /\ disk'[name] = disk[name]
  PROVE  FilesIInv'
<1>1. FilesTyped'  BY DEF FilesTyped
<1>2. LoneRestore'
  <2>1. \A q \in Tools : Restores(q)' => Restores(q) /\ tool'[q].n = tool[q].n
    BY DEF Restores
  <2>2. QED  BY <2>1 DEF FilesIInv, LoneRestore
<1>3. ASSUME NEW q \in Tools PROVE ToolOK(q)'
  <2>1. CASE q = p  BY <2>1
  <2>2. CASE q # p /\ ~Restores(p)  BY <2>2, SameData
  <2>3. CASE q # p /\ Restores(p)
    <3>1. ~Restores(q) /\ spent.restores # 0 /\ last \in Nat
      BY <2>3 DEF FilesIInv, LoneRestore, FilesTyped, RestTyped, Process, Restores
    <3>2. QED  BY <2>3, <3>1, BackupKeeps
  <2>4. QED  BY <2>1, <2>2, <2>3
<1>4. QED  BY <1>1, <1>2, <1>3 DEF FilesIInv, ToolsOK, ToolOK

(* The same for a step that touches no file.                               *)
LEMMA OneQuietTool ==
  ASSUME FilesIInv, NEW p \in Tools, UNCHANGED <<dir, disk, server, last, expect>>,
         spent'.restores = spent.restores, spent'.commits = spent.commits, spent' \in Counters,
         tool' \in [Tools -> Process], \A q \in Tools \ {p} : tool'[q] = tool[q],
         tool'[p].n \in {tool[p].n, 0}, ToolOK(p)'
  PROVE  FilesIInv'
<1>1. RestTyped' /\ DirsTyped'  BY DEF FilesIInv, FilesTyped, RestTyped, DirsTyped
<1>2. QED  BY <1>1, QuietFiles, OneTool

LEMMA BeginBackupStep ==
  ASSUME FilesIInv, NEW p \in Tools, Files!BeginBackup(p)
  PROVE  FilesIInv'
<1>1. PICK overwrite \in BOOLEAN :
        tool' = [tool EXCEPT ![p].pc = "copy", ![p].overwrite = overwrite,
                             ![p].floor = IF Files!Content = Files!Torn THEN 0 ELSE Files!Content]
  BY FilesAssumption DEF Files!BeginBackup
<1>2. /\ tool[p].pc = "idle" /\ dir[DBF] # NoFile /\ UNCHANGED <<dir, disk, server, last, expect>>
      /\ spent' = [spent EXCEPT !["backups"] = @ + 1]
  BY DEF Files!BeginBackup, Files!files, Files!Count, DBF, NoFile
<1>3. spent' \in Counters /\ spent'.restores = spent.restores /\ spent'.commits = spent.commits
  BY <1>2 DEF FilesIInv, FilesTyped, RestTyped, Counters
<1>4. tool[p] \in Process /\ ToolOK(p) /\ ~Restores(p)
  BY <1>2 DEF FilesIInv, FilesTyped, ToolsOK, ToolOK, RestoreOK
<1>5. /\ tool'[p].pc = "copy" /\ tool'[p].floor = Files!Content /\ tool'[p].n = tool[p].n
      /\ tool'[p].tmp = tool[p].tmp /\ tool'[p].copy = tool[p].copy
      /\ \A q \in Tools \ {p} : tool'[q] = tool[q]
      /\ tool' \in [Tools -> Process]
  <2>. DEFINE new == [tool[p] EXCEPT !.pc = "copy", !.overwrite = overwrite, !.floor = Files!Content]
  <2>1. (IF Files!Content = Files!Torn THEN 0 ELSE Files!Content) = Files!Content /\ Files!Content \in Nat
    BY ContentFacts DEF Files!Torn
  <2>2. tool \in [Tools -> Process]  BY DEF FilesIInv, FilesTyped
  <2>3. new \in Process  BY <1>4, <2>1 DEF Process, Labels
  <2>4. tool' = [tool EXCEPT ![p] = new]  BY <1>1, <1>4, <2>1, <2>2 DEF Process
  <2>. HIDE DEF new
  <2>5. tool'[p] = new /\ tool' \in [Tools -> Process] /\ \A q \in Tools \ {p} : tool'[q] = tool[q]
    BY <2>2, <2>3, <2>4
  <2>6. new.pc = "copy" /\ new.floor = Files!Content /\ new.n = tool[p].n /\ new.tmp = tool[p].tmp /\ new.copy = tool[p].copy
    BY <1>4 DEF new, Process
  <2>7. QED  BY <2>5, <2>6
<1>6. ToolOK(p)'
  <2>1. ~Restores(p)'  BY <1>4, <1>5 DEF Restores
  <2>2. Files!Content' = Files!Content /\ Files!Content \in Nat /\ Files!Content <= last
    BY <1>2, ContentFacts, QuietFiles
  <2>3. BackupOK(p)'  BY <1>2, <1>5, <2>2 DEF BackupOK
  <2>4. QED  BY <1>2, <1>4, <1>5, <2>1, <2>3 DEF ToolOK, RestoreOK
<1>7. QED  BY <1>2, <1>3, <1>5, <1>6, OneQuietTool

LEMMA CopyStep ==
  ASSUME FilesIInv, NEW p \in Tools, Files!Copy(p)
  PROVE  FilesIInv'
<1>1. /\ tool[p].pc = "copy" /\ Files!Source(p) # 0 /\ UNCHANGED <<dir, disk, server, last, expect, spent>>
      /\ tool' = [tool EXCEPT ![p].tmp = Files!Source(p), ![p].synced = FALSE,
                    ![p].pc = IF ~Restores(p) \/ dir[DBF] = NoFile THEN "sync" ELSE "safety"]
  BY DEF Files!Copy, Files!files, Files!Torn, Files!Restoring, Restores, DBF, NoFile
<1>2. tool[p] \in Process /\ ToolOK(p)
  BY DEF FilesIInv, FilesTyped, ToolsOK, ToolOK
<1>3. /\ Files!Source(p) \in Nat /\ Files!Source(p) >= 1 /\ Files!Source(p) <= last
      /\ ~Restores(p) => Files!Source(p) = Files!Content
  <2>1. dir[Files!backup].ver \in Nat /\ dir[Files!backup].ver <= last
    BY NameFacts DEF FilesIInv, FilesTyped, DirsTyped, DiskFile, AllFilesOK, FileOK
  <2>2. QED  BY <1>1, <2>1, ContentFacts DEF Files!Source, Files!Restoring, Restores
<1>4. /\ tool'[p].tmp = Files!Source(p) /\ tool'[p].n = tool[p].n /\ tool'[p].copy = tool[p].copy
      /\ tool'[p].floor = tool[p].floor /\ tool'[p].prior = tool[p].prior
      /\ tool'[p].pc = IF ~Restores(p) \/ dir[DBF] = NoFile THEN "sync" ELSE "safety"
      /\ \A q \in Tools \ {p} : tool'[q] = tool[q]
      /\ tool' \in [Tools -> Process]
  BY <1>1, <1>3 DEF FilesIInv, FilesTyped, Process, Labels
<1>5. BackupOK(p)'
  BY <1>1, <1>2, <1>3, <1>4, ContentFacts DEF ToolOK, BackupOK, Restores
<1>6. RestoreOK(p)'
  BY <1>1, <1>2, <1>3, <1>4, ContentFacts, QuietFiles DEF ToolOK, RestoreOK, Restores, AfterSafety
<1>7. QED
  <2>1. ToolOK(p)'  BY <1>1, <1>2, <1>3, <1>4, <1>5, <1>6 DEF ToolOK
  <2>2. QED  BY <1>1, <1>4, <2>1, OneQuietTool DEF FilesIInv, FilesTyped, RestTyped

LEMMA FsyncStep ==
  ASSUME FilesIInv, NEW p \in Tools, Files!FsyncFile(p)
  PROVE  FilesIInv'
<1>1. /\ tool[p].pc = "sync" /\ UNCHANGED <<dir, disk, server, last, expect, spent>>
      /\ tool' = [tool EXCEPT ![p].synced = TRUE, ![p].pc = IF Restores(p) THEN "checkpoint" ELSE "publish"]
  BY DEF Files!FsyncFile, Files!Fsync, Files!files, Files!Restoring, Restores
<1>2. tool[p] \in Process /\ ToolOK(p)
  BY DEF FilesIInv, FilesTyped, ToolsOK, ToolOK
<1>3. /\ tool'[p].tmp = tool[p].tmp /\ tool'[p].n = tool[p].n /\ tool'[p].copy = tool[p].copy
      /\ tool'[p].floor = tool[p].floor /\ tool'[p].prior = tool[p].prior /\ tool'[p].synced
      /\ tool'[p].pc = IF Restores(p) THEN "checkpoint" ELSE "publish"
      /\ \A q \in Tools \ {p} : tool'[q] = tool[q]
      /\ tool' \in [Tools -> Process]
  BY <1>1 DEF FilesIInv, FilesTyped, Process, Labels
<1>4. ToolOK(p)'
  BY <1>1, <1>2, <1>3 DEF ToolOK, BackupOK, RestoreOK, Restores, AfterSafety, SafetyName
<1>5. QED  BY <1>1, <1>3, <1>4, OneQuietTool DEF FilesIInv, FilesTyped, RestTyped

LEMMA EndStep ==
  ASSUME FilesIInv, NEW p \in Tools, Files!Verify(p) \/ Files!Abort(p)
  PROVE  FilesIInv'
<1>1. UNCHANGED <<dir, disk, server, last, expect, spent>> /\ tool' = [tool EXCEPT ![p] = Files!Idle]
  BY DEF Files!Verify, Files!Abort, Files!files
<1>2. tool' \in [Tools -> Process] /\ tool'[p] = Files!Idle /\ \A q \in Tools \ {p} : tool'[q] = tool[q]
  BY <1>1 DEF FilesIInv, FilesTyped, Process, Labels, Files!Idle
<1>3. ToolOK(p)'
  BY <1>1, <1>2 DEF ToolOK, BackupOK, RestoreOK, Restores, Files!Idle, FilesIInv, FilesTyped, RestTyped
<1>4. QED  BY <1>1, <1>2, <1>3, OneQuietTool DEF FilesIInv, FilesTyped, RestTyped, Files!Idle


LEMMA FilePublishStep ==
  ASSUME FilesIInv, NEW p \in Tools, Files!Publish(p)
  PROVE  FilesIInv'
<1>. DEFINE new == [ver |-> tool[p].tmp, id |-> 1, synced |-> tool[p].synced]
<1>1. /\ tool[p].pc = "publish" /\ UNCHANGED <<disk, server, last, expect, spent>>
      /\ dir' = [dir EXCEPT ![Files!backup] = new]
      /\ tool' = [tool EXCEPT ![p].pc = "publishsync"]
  BY DEF Files!Publish, Files!Go
<1>2. tool[p] \in Process /\ ToolOK(p) /\ ~Restores(p) /\ tool[p].synced /\ tool[p].tmp >= 1
  BY <1>1 DEF FilesIInv, FilesTyped, ToolsOK, ToolOK, RestoreOK, BackupOK
<1>3. \A name \in Names \ {Files!backup} : dir'[name] = dir[name]
  BY <1>1 DEF FilesIInv, FilesTyped, DirsTyped
<1>4. DirsTyped' /\ dir'[Files!backup] = new
  BY <1>1, <1>2, NameFacts DEF FilesIInv, FilesTyped, DirsTyped, DiskFile, Process
<1>5. AllFilesOK'
  <2>1. FileOK(new)
    BY <1>2, FilesAssumption DEF FileOK, ToolOK, Process
  <2>2. QED  BY <1>1, <1>3, <1>4, <2>1 DEF AllFilesOK, FileOK, FilesIInv
<1>6. AllRead'
  BY <1>1, <1>3, NameFacts DEF FilesIInv, AllRead, Shown
<1>7. /\ tool'[p] = [tool[p] EXCEPT !.pc = "publishsync"] /\ tool' \in [Tools -> Process]
      /\ \A q \in Tools \ {p} : tool'[q] = tool[q]
  BY <1>1 DEF FilesIInv, FilesTyped, Process, Labels
<1>8. ToolOK(p)'
  <2>1. ~Restores(p)'  BY <1>2, <1>7 DEF Restores, Process
  <2>2. BackupOK(p)'  BY <1>1, <1>2, <1>7 DEF BackupOK, Restores, ToolOK, Process
  <2>3. QED  BY <1>1, <1>2, <1>7, <2>1, <2>2 DEF ToolOK, RestoreOK, Process
<1>9. \A name \in Files!Data : dir'[name] = dir[name] /\ disk'[name] = disk[name]
  BY <1>1, <1>3, NameFacts
<1>10. QED
  BY <1>1, <1>4, <1>5, <1>6, <1>7, <1>8, <1>9, OneTool DEF FilesIInv, FilesTyped, RestTyped, Process

(* Syncing a directory makes what is seen of it durable.                   *)
LEMMA SyncFiles ==
  ASSUME FilesIInv, NEW names, names \in {Files!Data, Files!Backups},
         UNCHANGED <<dir, last, expect>>, disk' = Files!Sync(names)
  PROVE  /\ DirsTyped' /\ AllFilesOK' /\ AllRead' /\ Files!Content' = Files!Content
         /\ \A name \in Names : disk'[name] = IF name \in names THEN dir[name] ELSE disk[name]
<1>1. DOMAIN dir = Names /\ dir \in [Names -> DiskFile] /\ disk \in [Names -> DiskFile]
  BY DEF FilesIInv, FilesTyped, DirsTyped
<1>2. \A name \in Names : disk'[name] = IF name \in names THEN dir[name] ELSE disk[name]
  BY <1>1 DEF Files!Sync
<1>3. DirsTyped'
  <2>1. disk' = [name \in Names |-> disk'[name]]  BY <1>1 DEF Files!Sync
  <2>2. QED  BY <1>1, <1>2, <2>1 DEF DirsTyped
<1>4. AllFilesOK'
  BY <1>2 DEF FilesIInv, AllFilesOK, FileOK
<1>5. AllRead'
  <2>1. \/ disk'[DBF] = disk[DBF] /\ disk'[WAL] = disk[WAL]
        \/ disk'[DBF] = dir[DBF] /\ disk'[WAL] = dir[WAL]
    BY <1>2, NameFacts
  <2>2. QED  BY <2>1 DEF FilesIInv, AllRead, Shown
<1>6. Files!Content' = Files!Content  BY DEF Files!Content
<1>7. QED  BY <1>2, <1>3, <1>4, <1>5, <1>6

LEMMA BackupDoneStep ==
  ASSUME FilesIInv, NEW p \in Tools, Files!BackupDone(p)
  PROVE  FilesIInv'
<1>1. /\ tool[p].pc = "publishsync" /\ UNCHANGED <<dir, server, last, expect>>
      /\ disk' = Files!Sync(Files!Backups) /\ tool' = [tool EXCEPT ![p] = Files!Idle]
      /\ spent' = [spent EXCEPT !["reports"] = @ + 1]
  BY DEF Files!BackupDone, Files!Count
<1>0. spent' \in Counters /\ spent'.restores = spent.restores /\ spent'.commits = spent.commits
  BY <1>1 DEF FilesIInv, FilesTyped, RestTyped, Counters
<1>2. /\ DirsTyped' /\ AllFilesOK' /\ AllRead'
      /\ \A name \in Files!Data : dir'[name] = dir[name] /\ disk'[name] = disk[name]
  BY <1>1, SyncFiles, NameFacts
<1>3. tool' \in [Tools -> Process] /\ tool'[p] = Files!Idle /\ \A q \in Tools \ {p} : tool'[q] = tool[q]
  BY <1>1 DEF FilesIInv, FilesTyped, Process, Labels, Files!Idle
<1>4. ToolOK(p)'
  BY <1>1, <1>3 DEF ToolOK, BackupOK, RestoreOK, Restores, Files!Idle, FilesIInv, FilesTyped, RestTyped
<1>5. QED  BY <1>0, <1>1, <1>2, <1>3, <1>4, OneTool DEF FilesIInv, FilesTyped, RestTyped, Files!Idle

(* A restore begins with the server down and no other restore.             *)
LEMMA BeginRestoreStep ==
  ASSUME FilesIInv, NEW p \in Tools, Files!BeginRestore(p)
  PROVE  FilesIInv'
<1>. DEFINE prior == IF dir[DBF] = NoFile THEN 0 ELSE Files!Content
<1>1. /\ tool[p].pc = "idle" /\ server = "down" /\ spent.restores < MaxRestores
      /\ \A q \in Tools : ~Restores(q)
      /\ UNCHANGED <<dir, disk, server, last, expect>>
      /\ spent' = [spent EXCEPT !["restores"] = @ + 1]
      /\ tool' = [tool EXCEPT ![p].pc = "copy", ![p].n = spent.restores + 1, ![p].prior = prior]
  BY DEF Files!BeginRestore, Files!files, Files!Count, Files!Restoring, Restores, DBF, NoFile
<1>2. tool[p] \in Process /\ ToolOK(p) /\ prior \in Nat /\ spent \in Counters /\ last \in Nat
  BY ContentFacts DEF FilesIInv, FilesTyped, RestTyped, ToolsOK, ToolOK
<1>3. spent' \in Counters /\ spent'.restores = spent.restores + 1 /\ spent'.commits = spent.commits
  BY <1>1, <1>2 DEF Counters
<1>4. /\ tool'[p].pc = "copy" /\ tool'[p].n = spent.restores + 1 /\ tool'[p].prior = prior
      /\ tool'[p].tmp = tool[p].tmp /\ tool'[p].copy = tool[p].copy
      /\ \A q \in Tools \ {p} : tool'[q] = tool[q]
      /\ tool' \in [Tools -> Process]
  <2>. DEFINE new == [tool[p] EXCEPT !.pc = "copy", !.n = spent.restores + 1, !.prior = prior]
  <2>1. spent.restores + 1 \in Nat  BY <1>2 DEF Counters
  <2>2. tool \in [Tools -> Process]  BY DEF FilesIInv, FilesTyped
  <2>. HIDE DEF prior
  <2>3. new \in Process  BY <1>2, <2>1 DEF Process, Labels
  <2>4. tool' = [tool EXCEPT ![p] = new]  BY <1>1, <1>2, <2>2 DEF Process
  <2>6. /\ new.pc = "copy" /\ new.n = spent.restores + 1 /\ new.prior = prior
        /\ new.tmp = tool[p].tmp /\ new.copy = tool[p].copy
    BY <1>2 DEF Process
  <2>. HIDE DEF new
  <2>5. tool'[p] = new /\ tool' \in [Tools -> Process] /\ \A q \in Tools \ {p} : tool'[q] = tool[q]
    BY <2>2, <2>3, <2>4
  <2>7. QED  BY <2>5, <2>6
<1>5. FilesTyped'
  BY <1>1, <1>3, <1>4, FilesAssumption DEF FilesIInv, FilesTyped, DirsTyped, RestTyped, Counters
<1>6. LoneRestore'
  <2>1. \A q \in Tools : Restores(q)' => q = p  BY <1>1, <1>4 DEF Restores
  <2>2. QED  BY <1>1, <1>2, <1>3, <1>4, <2>1 DEF LoneRestore, Counters
<1>7. ASSUME NEW q \in Tools PROVE ToolOK(q)'
  <2>1. CASE q # p
    <3>1. spent'.restores # 0  BY <1>2, <1>3 DEF Counters
    <3>2. QED  BY <1>1, <1>4, <2>1, <3>1, SameData
  <2>2. CASE q = p
    <3>1. Restores(p)'  BY <1>2, <1>4 DEF Restores, Counters
    <3>2. RestoreOK(p)'  BY <1>1, <1>4, <3>1, QuietFiles DEF RestoreOK, AfterSafety
    <3>3. QED  BY <1>1, <1>2, <1>4, <2>2, <3>1, <3>2 DEF ToolOK, BackupOK
  <2>3. QED  BY <2>1, <2>2
<1>8. QED  BY <1>1, <1>5, <1>6, <1>7, QuietFiles DEF FilesIInv, ToolsOK, ToolOK

LEMMA CopySafetyStep ==
  ASSUME FilesIInv, NEW p \in Tools, Files!CopySafety(p)
  PROVE  FilesIInv'
<1>1. /\ tool[p].pc = "safety" /\ UNCHANGED <<dir, disk, server, last, expect, spent>>
      /\ tool' = [tool EXCEPT ![p].copy = Files!Content, ![p].pc = "link"]
  BY DEF Files!CopySafety, Files!files
<1>2. tool[p] \in Process /\ ToolOK(p) /\ Restores(p)
  BY <1>1 DEF FilesIInv, FilesTyped, ToolsOK, ToolOK, BackupOK
<1>3. /\ tool'[p].pc = "link" /\ tool'[p].n = tool[p].n /\ tool'[p].prior = tool[p].prior
      /\ tool'[p].tmp = tool[p].tmp /\ tool'[p].copy = Files!Content
      /\ \A q \in Tools \ {p} : tool'[q] = tool[q]
      /\ tool' \in [Tools -> Process]
  BY <1>1, ContentFacts DEF FilesIInv, FilesTyped, Process, Labels
<1>4. ToolOK(p)'
  <2>1. Restores(p)'  BY <1>2, <1>3 DEF Restores
  <2>2. tool[p].prior = Files!Content /\ tool[p].prior # 0 /\ tool[p].tmp >= 1
    BY <1>1, <1>2, ContentFacts DEF ToolOK, RestoreOK
  <2>3. QED
    BY <1>1, <1>2, <1>3, <2>1, <2>2, ContentFacts DEF ToolOK, RestoreOK, BackupOK, AfterSafety
<1>5. QED  BY <1>1, <1>3, <1>4, OneQuietTool DEF FilesIInv, FilesTyped, RestTyped

LEMMA RestoringName ==
  ASSUME FilesIInv, NEW p \in Tools, Restores(p)
  PROVE  SafetyName(p) \in Names /\ SafetyName(p) \in Files!Data /\ SafetyName(p) \notin {DBF, WAL, Files!backup}
<1>1. tool[p].n \in 1..MaxRestores /\ tool[p].n \in Nat
  BY FilesAssumption DEF FilesIInv, FilesTyped, RestTyped, LoneRestore, Restores, Process, Counters
<1>2. QED  BY <1>1, NameFacts DEF SafetyName

LEMMA LinkSafetyStep ==
  ASSUME FilesIInv, NEW p \in Tools, Files!LinkSafety(p)
  PROVE  FilesIInv'
<1>. DEFINE new == [ver |-> tool[p].copy, id |-> 1, synced |-> TRUE]
<1>1. /\ tool[p].pc = "link" /\ UNCHANGED <<disk, server, last, expect, spent>>
      /\ dir' = [dir EXCEPT ![SafetyName(p)] = new]
      /\ tool' = [tool EXCEPT ![p].pc = "linksync"]
  BY DEF Files!LinkSafety, Files!Go, SafetyName
<1>2. tool[p] \in Process /\ ToolOK(p) /\ Restores(p)
  BY <1>1 DEF FilesIInv, FilesTyped, ToolsOK, ToolOK, BackupOK
<1>3. tool[p].copy = tool[p].prior /\ tool[p].copy >= 1 /\ tool[p].copy <= last
  BY <1>1, <1>2 DEF ToolOK, RestoreOK, Process
<1>4. /\ \A name \in Names \ {SafetyName(p)} : dir'[name] = dir[name]
      /\ dir'[SafetyName(p)] = new /\ DirsTyped'
  BY <1>1, <1>2, RestoringName DEF FilesIInv, FilesTyped, DirsTyped, DiskFile, Process
<1>5. AllFilesOK'
  <2>1. FileOK(new)
    BY <1>3, FilesAssumption DEF FileOK
  <2>2. QED  BY <1>1, <1>4, <2>1 DEF AllFilesOK, FileOK, FilesIInv
<1>6. dir'[DBF] = dir[DBF] /\ dir'[WAL] = dir[WAL]
  BY <1>2, <1>4, RestoringName, NameFacts
<1>7. AllRead'
  BY <1>1, <1>6 DEF FilesIInv, AllRead, Shown
<1>8. /\ tool'[p] = [tool[p] EXCEPT !.pc = "linksync"] /\ tool' \in [Tools -> Process]
      /\ \A q \in Tools \ {p} : tool'[q] = tool[q]
  BY <1>1 DEF FilesIInv, FilesTyped, Process, Labels
<1>9. ToolOK(p)'
  <2>1. Restores(p)' /\ SafetyName(p)' = SafetyName(p)  BY <1>2, <1>8 DEF Restores, Process, SafetyName
  <2>2. RestoreOK(p)'
    BY <1>1, <1>2, <1>3, <1>4, <1>8, <2>1 DEF ToolOK, RestoreOK, Process, AfterSafety
  <2>3. QED  BY <1>1, <1>2, <1>8, <2>1, <2>2 DEF ToolOK, BackupOK, Process
<1>10. QED
  BY <1>1, <1>2, <1>4, <1>5, <1>7, <1>8, <1>9, OneTool DEF FilesIInv, FilesTyped, RestTyped, Process

LEMMA SyncDirStep ==
  ASSUME FilesIInv, NEW p \in Tools, Files!SafetyDone(p) \/ Files!SidecarsDone(p)
  PROVE  FilesIInv'
<1>. DEFINE next == IF tool[p].pc = "linksync" THEN "sync" ELSE "replace"
<1>1. /\ tool[p].pc \in {"linksync", "unlinksync"} /\ UNCHANGED <<dir, server, last, expect, spent>>
      /\ disk' = Files!Sync(Files!Data) /\ tool' = [tool EXCEPT ![p].pc = next]
  BY DEF Files!SafetyDone, Files!SidecarsDone, Files!SyncDir, Files!Go
<1>2. tool[p] \in Process /\ ToolOK(p) /\ Restores(p)
  BY <1>1 DEF FilesIInv, FilesTyped, ToolsOK, ToolOK, BackupOK
<1>3. /\ DirsTyped' /\ AllFilesOK' /\ AllRead' /\ Files!Content' = Files!Content
      /\ disk'[WAL] = dir[WAL] /\ disk'[SafetyName(p)] = dir[SafetyName(p)]
  BY <1>1, <1>2, SyncFiles, NameFacts, RestoringName
<1>4. /\ tool'[p] = [tool[p] EXCEPT !.pc = next] /\ tool' \in [Tools -> Process]
      /\ \A q \in Tools \ {p} : tool'[q] = tool[q]
  BY <1>1 DEF FilesIInv, FilesTyped, Process, Labels
<1>5. ToolOK(p)'
  <2>1. Restores(p)' /\ SafetyName(p)' = SafetyName(p)  BY <1>2, <1>4 DEF Restores, Process, SafetyName
  <2>2. RestoreOK(p)'
    BY <1>1, <1>2, <1>3, <1>4, <2>1 DEF ToolOK, RestoreOK, Process, AfterSafety
  <2>3. QED  BY <1>1, <1>2, <1>4, <2>1, <2>2 DEF ToolOK, BackupOK, Process
<1>6. QED
  BY <1>1, <1>2, <1>3, <1>4, <1>5, OneTool DEF FilesIInv, FilesTyped, RestTyped, Process

LEMMA CheckpointCurrentStep ==
  ASSUME FilesIInv, NEW p \in Tools, Files!CheckpointCurrent(p)
  PROVE  FilesIInv'
<1>1. /\ tool[p].pc = "checkpoint" /\ UNCHANGED <<server, last, expect, spent>>
      /\ tool' = [tool EXCEPT ![p].pc = "unlink"]
      /\ \/ dir[DBF] = NoFile /\ UNCHANGED <<dir, disk>>
         \/ /\ dir[DBF] # NoFile /\ dir' = Files!Checkpointed
            /\ disk' = [disk EXCEPT ![DBF] = IF @.id = dir[DBF].id THEN dir'[DBF] ELSE @]
  BY DEF Files!CheckpointCurrent, Files!Go, Files!files, DBF, NoFile
<1>2. tool[p] \in Process /\ ToolOK(p) /\ Restores(p)
  BY <1>1 DEF FilesIInv, FilesTyped, ToolsOK, ToolOK, BackupOK
<1>3. /\ DirsTyped' /\ AllFilesOK' /\ AllRead'
      /\ dir'[SafetyName(p)] = dir[SafetyName(p)] /\ disk'[SafetyName(p)] = disk[SafetyName(p)]
      /\ dir'[DBF] # NoFile => dir'[WAL] = NoFile
  <2>1. CASE dir[DBF] = NoFile
    <3>1. UNCHANGED <<dir, disk>>  BY <1>1, <2>1
    <3>2. QED  BY <1>1, <1>2, <2>1, <3>1, QuietFiles DEF FilesIInv, FilesTyped, DirsTyped
  <2>2. CASE dir[DBF] # NoFile
    BY <1>1, <1>2, <2>2, CheckpointFiles, RestoringName
  <2>3. QED  BY <2>1, <2>2
<1>4. /\ tool'[p] = [tool[p] EXCEPT !.pc = "unlink"] /\ tool' \in [Tools -> Process]
      /\ \A q \in Tools \ {p} : tool'[q] = tool[q]
  BY <1>1 DEF FilesIInv, FilesTyped, Process, Labels
<1>5. ToolOK(p)'
  <2>1. Restores(p)' /\ SafetyName(p)' = SafetyName(p)  BY <1>2, <1>4 DEF Restores, Process, SafetyName
  <2>2. RestoreOK(p)'
    BY <1>1, <1>2, <1>3, <1>4, <2>1 DEF ToolOK, RestoreOK, Process, AfterSafety
  <2>3. QED  BY <1>1, <1>2, <1>4, <2>1, <2>2 DEF ToolOK, BackupOK, Process
<1>6. QED
  BY <1>1, <1>2, <1>3, <1>4, <1>5, OneTool DEF FilesIInv, FilesTyped, RestTyped, Process

LEMMA RemoveSidecarsStep ==
  ASSUME FilesIInv, NEW p \in Tools, Files!RemoveSidecars(p)
  PROVE  FilesIInv'
<1>1. /\ tool[p].pc = "unlink" /\ UNCHANGED <<disk, server, last, expect, spent>>
      /\ dir' = [dir EXCEPT ![WAL] = NoFile] /\ tool' = [tool EXCEPT ![p].pc = "unlinksync"]
  BY DEF Files!RemoveSidecars, Files!Unlinked, Files!Go, WAL, NoFile
<1>2. tool[p] \in Process /\ ToolOK(p) /\ Restores(p)
  BY <1>1 DEF FilesIInv, FilesTyped, ToolsOK, ToolOK, BackupOK
<1>3. DirsTyped' /\ dir'[WAL] = NoFile /\ \A name \in Names \ {WAL} : dir'[name] = dir[name]
  BY <1>1, NameFacts, NoFileFacts DEF FilesIInv, FilesTyped, DirsTyped
<1>4. AllFilesOK'
  <2>1. FileOK(NoFile)
    BY NoFileFacts, FilesAssumption DEF FileOK, FilesIInv, FilesTyped, RestTyped
  <2>2. QED  BY <1>1, <1>3, <2>1 DEF AllFilesOK, FileOK, FilesIInv
<1>5. AllRead'
  <2>1. dir'[DBF] = dir[DBF]  BY <1>3, NameFacts
  <2>2. CASE dir[DBF] = NoFile
    BY <1>1, <1>3, <2>1, <2>2 DEF FilesIInv, AllRead, Shown
  <2>3. CASE dir[DBF] # NoFile
    <3>1. dir[WAL] = NoFile  BY <1>1, <1>2, <2>3 DEF ToolOK, RestoreOK
    <3>2. QED  BY <1>1, <1>3, <2>1, <3>1 DEF FilesIInv, AllRead, Shown
  <2>4. QED  BY <2>2, <2>3
<1>6. /\ tool'[p] = [tool[p] EXCEPT !.pc = "unlinksync"] /\ tool' \in [Tools -> Process]
      /\ \A q \in Tools \ {p} : tool'[q] = tool[q]
  BY <1>1 DEF FilesIInv, FilesTyped, Process, Labels
<1>7. ToolOK(p)'
  <2>1. Restores(p)' /\ SafetyName(p)' = SafetyName(p)  BY <1>2, <1>6 DEF Restores, Process, SafetyName
  <2>2. dir'[SafetyName(p)] = dir[SafetyName(p)]  BY <1>2, <1>3, RestoringName
  <2>3. RestoreOK(p)'
    BY <1>1, <1>2, <1>3, <1>6, <2>1, <2>2 DEF ToolOK, RestoreOK, Process, AfterSafety
  <2>4. QED  BY <1>1, <1>2, <1>6, <2>1, <2>3 DEF ToolOK, BackupOK, Process
<1>8. QED
  BY <1>1, <1>2, <1>3, <1>4, <1>5, <1>6, <1>7, OneTool DEF FilesIInv, FilesTyped, RestTyped, Process

LEMMA FileReplaceStep ==
  ASSUME FilesIInv, NEW p \in Tools, Files!Replace(p)
  PROVE  FilesIInv'
<1>. DEFINE new == [ver |-> tool[p].tmp, id |-> tool[p].n + 1, synced |-> tool[p].synced]
<1>1. /\ tool[p].pc = "replace" /\ UNCHANGED <<disk, server, last, spent>>
      /\ dir' = [dir EXCEPT ![DBF] = new] /\ tool' = [tool EXCEPT ![p].pc = "replacesync"]
      /\ expect' = expect \cup {tool[p].tmp}
  BY DEF Files!Replace, Files!Go, DBF
<1>2. tool[p] \in Process /\ ToolOK(p) /\ Restores(p) /\ tool[p].n <= MaxRestores
  BY <1>1, FilesAssumption
  DEF FilesIInv, FilesTyped, RestTyped, ToolsOK, ToolOK, BackupOK, LoneRestore, Counters, Process
<1>3. tool[p].tmp >= 1 /\ tool[p].tmp <= last /\ tool[p].synced /\ dir[WAL] = NoFile /\ disk[WAL] = NoFile
  BY <1>1, <1>2 DEF ToolOK, RestoreOK, AfterSafety
<1>4. DirsTyped' /\ dir'[DBF] = new /\ \A name \in Names \ {DBF} : dir'[name] = dir[name]
  BY <1>1, <1>2, NameFacts DEF FilesIInv, FilesTyped, DirsTyped, DiskFile, Process
<1>5. RestTyped'
  <2>1. last \in Nat /\ expect \subseteq 1..last  BY DEF FilesIInv, FilesTyped, RestTyped
  <2>2. expect' \subseteq 1..last'  BY <1>1, <1>2, <1>3, <2>1 DEF Process
  <2>3. QED  BY <1>1, <2>2 DEF FilesIInv, FilesTyped, RestTyped
<1>6. new # NoFile /\ FileOK(new)
  BY <1>2, <1>3, NoFileFacts, FilesAssumption DEF FileOK, Process
<1>7. AllFilesOK'
  BY <1>1, <1>4, <1>6 DEF AllFilesOK, FileOK, FilesIInv
<1>8. AllRead'
  <2>1. dir'[WAL] = NoFile /\ disk'[WAL] = NoFile  BY <1>1, <1>3, <1>4, NameFacts
  <2>2. disk[DBF] # NoFile => disk[DBF].ver \in expect
    BY <1>3 DEF FilesIInv, AllRead, Shown, Read
  <2>3. QED  BY <1>1, <1>4, <1>6, <2>1, <2>2 DEF AllRead, Shown, Read
<1>9. /\ tool'[p] = [tool[p] EXCEPT !.pc = "replacesync"] /\ tool' \in [Tools -> Process]
      /\ \A q \in Tools \ {p} : tool'[q] = tool[q]
  BY <1>1 DEF FilesIInv, FilesTyped, Process, Labels
<1>10. ToolOK(p)'
  <2>1. Restores(p)' /\ SafetyName(p)' = SafetyName(p)  BY <1>2, <1>9 DEF Restores, Process, SafetyName
  <2>2. dir'[SafetyName(p)] = dir[SafetyName(p)] /\ dir'[WAL] = NoFile
    BY <1>2, <1>3, <1>4, RestoringName, NameFacts
  <2>3. RestoreOK(p)'
    BY <1>1, <1>2, <1>3, <1>4, <1>6, <1>9, <2>1, <2>2 DEF ToolOK, RestoreOK, Process, AfterSafety
  <2>4. QED  BY <1>1, <1>2, <1>9, <2>1, <2>3 DEF ToolOK, BackupOK, Process
<1>11. QED
  BY <1>1, <1>2, <1>4, <1>5, <1>7, <1>8, <1>9, <1>10, OneTool DEF Process

LEMMA RestoreDoneStep ==
  ASSUME FilesIInv, NEW p \in Tools, Files!RestoreDone(p)
  PROVE  FilesIInv'
<1>1. /\ tool[p].pc = "replacesync" /\ UNCHANGED <<dir, server, last, spent>>
      /\ disk' = Files!Sync(Files!Data) /\ tool' = [tool EXCEPT ![p].pc = "verify"]
      /\ expect' = {tool[p].tmp}
  BY DEF Files!RestoreDone, Files!SyncDir, Files!Go
<1>2. tool[p] \in Process /\ ToolOK(p) /\ Restores(p)
  BY <1>1 DEF FilesIInv, FilesTyped, ToolsOK, ToolOK, BackupOK
<1>3. /\ tool[p].tmp >= 1 /\ tool[p].tmp <= last /\ dir[WAL] = NoFile /\ disk[WAL] = NoFile
      /\ dir[DBF] # NoFile /\ dir[DBF].ver = tool[p].tmp
  BY <1>1, <1>2 DEF ToolOK, RestoreOK, AfterSafety
<1>4. /\ \A name \in Names : disk'[name] = IF name \in Files!Data THEN dir[name] ELSE disk[name]
      /\ disk' = [name \in Names |-> disk'[name]]
  BY <1>1 DEF Files!Sync, FilesIInv, FilesTyped, DirsTyped
<1>5. DirsTyped' /\ AllFilesOK'
  BY <1>1, <1>4 DEF FilesIInv, FilesTyped, DirsTyped, AllFilesOK, FileOK
<1>6. RestTyped'
  <2>1. last \in Nat  BY DEF FilesIInv, FilesTyped, RestTyped
  <2>2. expect' \subseteq 1..last'  BY <1>1, <1>2, <1>3, <2>1 DEF Process
  <2>3. QED  BY <1>1, <2>2 DEF FilesIInv, FilesTyped, RestTyped
<1>7. AllRead'
  BY <1>1, <1>3, <1>4, NameFacts DEF AllRead, Shown, Read
<1>8. /\ tool'[p] = [tool[p] EXCEPT !.pc = "verify"] /\ tool' \in [Tools -> Process]
      /\ \A q \in Tools \ {p} : tool'[q] = tool[q]
  BY <1>1 DEF FilesIInv, FilesTyped, Process, Labels
<1>9. ToolOK(p)'
  <2>1. Restores(p)' /\ SafetyName(p)' = SafetyName(p)  BY <1>2, <1>8 DEF Restores, Process, SafetyName
  <2>2. disk'[SafetyName(p)] = dir[SafetyName(p)]  BY <1>2, <1>4, RestoringName
  <2>3. RestoreOK(p)'
    BY <1>1, <1>2, <1>3, <1>8, <2>1, <2>2 DEF ToolOK, RestoreOK, Process, AfterSafety
  <2>4. QED  BY <1>1, <1>2, <1>8, <2>1, <2>3 DEF ToolOK, BackupOK, Process
<1>10. QED
  BY <1>1, <1>2, <1>5, <1>6, <1>7, <1>8, <1>9, OneTool DEF Process

LEMMA FilesStep == FilesIInv /\ [Files!Next]_(Files!vars) => FilesIInv'
<1>1. ASSUME FilesIInv, UNCHANGED Files!vars PROVE FilesIInv'
  <2>1. UNCHANGED <<dir, disk, server, tool, last, expect, spent>>  BY <1>1 DEF Files!vars
  <2>2. AllFilesOK' /\ AllRead'  BY <1>1, <2>1, QuietFiles
  <2>3. \A q \in Tools : ToolOK(q)'  BY <1>1, <2>1, SameData
  <2>4. FilesTyped' /\ LoneRestore'
    BY <1>1, <2>1 DEF FilesIInv, FilesTyped, DirsTyped, RestTyped, LoneRestore, Restores
  <2>5. QED  BY <1>1, <2>1, <2>2, <2>3, <2>4, StillTools DEF FilesIInv
<1>2. ASSUME FilesIInv, NEW p \in Tools, Files!Step(p) PROVE FilesIInv'
  BY <1>2, BeginBackupStep, CopyStep, FsyncStep, FilePublishStep, BackupDoneStep, BeginRestoreStep,
    CopySafetyStep, LinkSafetyStep, SyncDirStep, CheckpointCurrentStep, RemoveSidecarsStep,
    FileReplaceStep, RestoreDoneStep, EndStep
  DEF Files!Step
<1>3. QED
  BY <1>1, <1>2, CommitStep, CheckpointStep, StopStartStep, LoseMainStep, PowerLossStep DEF Files!Next

(* No step takes a backup away, and only a publication leads to the sync   *)
(* of its directory.                                                       *)
LEMMA KeptStep == FilesIInv /\ KeptInv /\ [Files!Next]_(Files!vars) => KeptInv'
<1>. SUFFICES ASSUME FilesIInv, KeptInv, [Files!Next]_(Files!vars) PROVE KeptInv'  OBVIOUS
<1>. DEFINE b == Files!backup
<1>1. /\ DOMAIN dir = Names /\ b \in Names /\ b \notin Files!Data /\ b # DBF /\ b # WAL /\ b \in Files!Backups
      /\ tool \in [Tools -> Process] /\ spent \in Counters
  BY NameFacts DEF FilesIInv, FilesTyped, DirsTyped, RestTyped
<1>2. ASSUME dir'[b] = dir[b], disk'[b] = disk[b], spent'.reports = spent.reports,
             \A p \in Tools : tool'[p].pc = "publishsync" => tool[p].pc = "publishsync"
      PROVE  KeptInv'
  BY <1>2 DEF KeptInv
<1>3. CASE Files!Commit
  <2>1. dir'[b] = dir[b]  BY <1>1, <1>3 DEF Files!Commit, WAL, FilesIInv, FilesTyped, DirsTyped
  <2>2. disk'[b] = disk[b]
    <3>1. disk' = [name \in DOMAIN dir |->
                     IF name \in (IF dir[WAL] = NoFile THEN Files!Data ELSE {WAL}) THEN dir'[name] ELSE disk[name]]
      BY <1>3 DEF Files!Commit, Files!Sync, WAL, NoFile
    <3>. QED  BY <1>1, <3>1
  <2>3. tool' = tool /\ spent'.reports = spent.reports
    BY <1>1, <1>3 DEF Files!Commit, Files!Count, Counters
  <2>. QED  BY <1>2, <2>1, <2>2, <2>3
<1>4. ASSUME dir' = Files!Checkpointed \/ dir' = dir,
             \/ disk' = [disk EXCEPT ![DBF] = IF @.id = dir[DBF].id THEN dir'[DBF] ELSE @]
             \/ disk' = disk
      PROVE  dir'[b] = dir[b] /\ disk'[b] = disk[b]
  BY <1>1, <1>4 DEF Files!Checkpointed, DBF, WAL, FilesIInv, FilesTyped, DirsTyped
<1>5. CASE Files!Checkpoint
  <2>1. dir'[b] = dir[b] /\ disk'[b] = disk[b]  BY <1>4, <1>5 DEF Files!Checkpoint, DBF
  <2>. QED  BY <1>2, <1>5, <2>1 DEF Files!Checkpoint
<1>6. CASE Files!Stop \/ Files!Start
  <2>1. dir' = dir /\ disk' = disk /\ tool' = tool /\ spent'.reports = spent.reports
    BY <1>1, <1>6 DEF Files!Stop, Files!Start, Files!files, Files!Count, Counters
  <2>. QED  BY <1>2, <2>1
<1>7. CASE Files!LoseMain
  <2>1. dir'[b] = dir[b] /\ disk'[b] = disk[b] /\ tool' = tool /\ spent'.reports = spent.reports
    BY <1>1, <1>7 DEF Files!LoseMain, DBF, Files!Count, Counters, FilesIInv, FilesTyped, DirsTyped
  <2>. QED  BY <1>2, <2>1
<1>8. CASE Files!PowerLoss
  <2>1. PICK kept \in SUBSET {name \in DOMAIN dir : dir[name] # disk[name]} :
          dir' = [name \in DOMAIN dir |->
                   LET file == IF name \in kept THEN dir[name] ELSE disk[name]
                   IN  IF file.synced THEN file ELSE [file EXCEPT !.ver = Files!Torn, !.synced = TRUE]]
    BY <1>8 DEF Files!PowerLoss
  <2>2. dir'[b] \in {dir[b], disk[b]}
    BY <1>1, <2>1 DEF FilesIInv, AllFilesOK, FileOK
  <2>3. disk' = dir' /\ spent'.reports = spent.reports /\ \A p \in Tools : tool'[p].pc = "idle"
    BY <1>1, <1>8 DEF Files!PowerLoss, Files!Count, Counters, Files!Idle
  <2>. QED  BY <2>2, <2>3 DEF KeptInv
<1>9. ASSUME NEW p \in Tools, Files!Step(p) PROVE KeptInv'
  <2>1. CASE Files!BeginBackup(p) \/ Files!BeginRestore(p)
    <3>1. tool \in [Tools -> Process] /\ spent \in Counters
      BY <1>1 DEF FilesIInv, FilesTyped, RestTyped
    <3>2. dir' = dir /\ disk' = disk
      BY <2>1 DEF Files!BeginBackup, Files!BeginRestore, Files!files
    <3>3. spent'.reports = spent.reports
      BY <2>1, <3>1 DEF Files!BeginBackup, Files!BeginRestore, Files!Count, Counters
    <3>4. CASE Files!BeginBackup(p)
      <4>1. tool'[p].pc = "copy" /\ \A q \in Tools \ {p} : tool'[q] = tool[q]
        BY <3>1, <3>4 DEF Files!BeginBackup, Process
      <4>. QED  BY <1>2, <3>2, <3>3, <4>1
    <3>5. CASE Files!BeginRestore(p)
      <4>1. tool'[p].pc = "copy" /\ \A q \in Tools \ {p} : tool'[q] = tool[q]
        BY <3>1, <3>5 DEF Files!BeginRestore, Process
      <4>. QED  BY <1>2, <3>2, <3>3, <4>1
    <3>. QED  BY <2>1, <3>4, <3>5
  <2>2. CASE Files!Copy(p) \/ Files!FsyncFile(p) \/ Files!CopySafety(p) \/ Files!Verify(p) \/ Files!Abort(p)
    <3>1. /\ dir' = dir /\ disk' = disk /\ spent' = spent /\ tool'[p].pc # "publishsync"
          /\ \A q \in Tools \ {p} : tool'[q] = tool[q]
      BY <1>1, <2>2
      DEF Files!Copy, Files!FsyncFile, Files!Fsync, Files!CopySafety, Files!Verify, Files!Abort, Files!Idle,
          Files!files, Process
    <3>. QED  BY <1>2, <3>1
  <2>3. CASE Files!Publish(p)
    <3>1. dir'[b] = [ver |-> tool[p].tmp, id |-> 1, synced |-> tool[p].synced] /\ disk' = disk /\ spent' = spent
      BY <1>1, <2>3 DEF Files!Publish, FilesIInv, FilesTyped, DirsTyped
    <3>2. dir'[b] # NoFile
      <4>1. dir'[b].id = 1 /\ NoFile.id = 0  BY <3>1, NoFileFacts
      <4>. QED  BY <4>1
    <3>. QED  BY <3>1, <3>2 DEF KeptInv
  <2>4. CASE Files!BackupDone(p)
    <3>1. /\ dir' = dir /\ disk' = Files!Sync(Files!Backups) /\ dir[b] # NoFile
          /\ tool'[p].pc # "publishsync" /\ \A q \in Tools \ {p} : tool'[q] = tool[q]
      BY <1>1, <2>4 DEF Files!BackupDone, Files!Idle, KeptInv
    <3>2. disk'[b] = dir[b]  BY <1>1, <3>1 DEF Files!Sync
    <3>. QED  BY <3>1, <3>2 DEF KeptInv
  <2>5. CASE Files!LinkSafety(p) \/ Files!RemoveSidecars(p) \/ Files!Replace(p) \/ Files!CheckpointCurrent(p)
    <3>1. /\ spent' = spent /\ tool'[p].pc # "publishsync" /\ \A q \in Tools \ {p} : tool'[q] = tool[q]
      BY <1>1, <2>5 DEF Files!LinkSafety, Files!RemoveSidecars, Files!Replace, Files!CheckpointCurrent, Files!Go, Process
    <3>2. dir'[b] = dir[b] /\ disk'[b] = disk[b]
      <4>1. CASE Files!LinkSafety(p)
        <5>1. Files!Safety(tool[p].n) # b  BY <1>1, NameFacts DEF Process
        <5>. QED  BY <1>1, <4>1, <5>1 DEF Files!LinkSafety, FilesIInv, FilesTyped, DirsTyped
      <4>2. CASE Files!RemoveSidecars(p) \/ Files!Replace(p)
        BY <1>1, <4>2 DEF Files!RemoveSidecars, Files!Unlinked, Files!Replace, DBF, WAL, FilesIInv, FilesTyped, DirsTyped
      <4>3. CASE Files!CheckpointCurrent(p)
        BY <1>4, <4>3 DEF Files!CheckpointCurrent, Files!files, DBF
      <4>. QED  BY <2>5, <4>1, <4>2, <4>3
    <3>. QED  BY <1>2, <3>1, <3>2
  <2>6. CASE Files!SafetyDone(p) \/ Files!SidecarsDone(p) \/ Files!RestoreDone(p)
    <3>1. /\ spent' = spent /\ tool'[p].pc # "publishsync" /\ \A q \in Tools \ {p} : tool'[q] = tool[q]
          /\ dir' = dir /\ disk' = Files!Sync(Files!Data)
      BY <1>1, <2>6 DEF Files!SafetyDone, Files!SidecarsDone, Files!RestoreDone, Files!SyncDir, Files!Go, Process
    <3>2. disk'[b] = disk[b]  BY <1>1, <3>1 DEF Files!Sync
    <3>. QED  BY <1>2, <3>1, <3>2
  <2>. QED  BY <1>9, <2>1, <2>2, <2>3, <2>4, <2>5, <2>6 DEF Files!Step
<1>10. CASE UNCHANGED Files!vars
  BY <1>2, <1>10 DEF Files!vars
<1>. QED  BY <1>3, <1>5, <1>6, <1>7, <1>8, <1>9, <1>10 DEF Files!Next

(* For any number of commits, backups, restores, stops and losses of       *)
(* power: the database reads as its last commit or, once it is replaced,   *)
(* as the backup; what has a name is whole; a restore leaves a durable     *)
(* copy of what it replaced; and a backup that was reported survives.      *)
THEOREM FilesHold == Files!Spec => []FilesInv
<1>1. Files!Init => FilesIInv /\ KeptInv
  <2>1. Files!Init => KeptInv
    BY NameFacts DEF Files!Init, Files!Idle, KeptInv, DBF, NoFile, Files!None
  <2>. QED  BY <2>1, FilesInit
<1>2. (FilesIInv /\ KeptInv) /\ [Files!Next]_(Files!vars) => (FilesIInv /\ KeptInv)'  BY FilesStep, KeptStep
<1>3. FilesIInv /\ KeptInv => FilesInv BY FilesImplied
<1>4. QED  BY <1>1, <1>2, <1>3, PTL DEF Files!Spec
=============================================================================

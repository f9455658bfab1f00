--------------------------- MODULE DecisionProofs ---------------------------
(***************************************************************************)
(* Proofs about CanonicalPremise, for any requests, sessions and           *)
(* revisions, and about the instances of CellImprovement that MCDecisions  *)
(* puts next to each other.                                                *)
(*                                                                         *)
(* That the promoted revisions are one chain is no inductive fact: a       *)
(* promotion looks at the premise of its session and not at that of the    *)
(* revision.  It is one because every revision was reasoned on the premise *)
(* its session still has, or the session is on record for having adopted   *)
(* the premise it has (OnRecord), and so was what a run in flight carries  *)
(* (CallOK), whatever was promoted, pruned or adopted in between.          *)
(*                                                                         *)
(* What ImprovementProofs shows holds of every instance; Breaker and       *)
(* Shadow are instances of CellImprovement, which have to be identified    *)
(* with those of the proofs about it, action by action.                    *)
(***************************************************************************)
EXTENDS MCDecisions, ImprovementProofs

-----------------------------------------------------------------------------
(* CanonicalPremise                                                        *)

Linked == {"canonical", "superseded"}
Said == Values \cup {"none"}
RevRows ==
  [session : Nat, status : {"candidate", "canonical", "superseded", "pruned"}, parent : Int, ground : Int, statement : Said]
SessionRows ==
  [base : Int, disposition : {"active", "rebased", "branched"}, result : Int,
   intent : Said \cup {"not_applicable"}, content : Int, adopted : SUBSET Nat]

PremiseTyped ==
  /\ revs \in Seq(RevRows) /\ sessions \in Seq(SessionRows) /\ head \in [rev : Nat, version : Nat]
  /\ call = [t \in Threads |-> call[t]] /\ \A t \in Threads : call[t].pc \in {"idle", "token", "reason", "promote"}

(* What session s holds was reasoned on its premise, or it adopted that.   *)
OnRecord(s, ground) ==
  ground \in -1..Len(revs) /\ (ground = sessions[s].base \/ sessions[s].base \in sessions[s].adopted)
ContentOK(s, content) == content = -2 \/ OnRecord(s, content)

RevOK(r) ==
  /\ revs[r].session \in 1..Len(sessions)
  /\ OnRecord(revs[r].session, revs[r].ground)
  /\ revs[r].status = "canonical" <=> r = head.rev
  /\ r \notin Premise!Promoted => revs[r].parent = 0
  /\ r \in Premise!Promoted =>
       /\ revs[r].parent \in (Premise!Promoted \ {r}) \cup {0} /\ revs[r].parent # head.rev
       /\ revs[r].ground = revs[r].parent \/ revs[r].parent \in sessions[revs[r].session].adopted

HeadOK ==
  /\ head.rev \in Premise!Promoted \cup {0}
  /\ head.rev = 0 => Premise!Promoted = {}
  /\ Premise!Cardinality(Premise!Promoted) = head.version
  /\ \A q, r \in Premise!Promoted : revs[q].parent = revs[r].parent => q = r

SessionOK(s) ==
  /\ {sessions[s].base, sessions[s].result} \subseteq Premise!Promoted \cup {0, -1}
  /\ sessions[s].adopted \subseteq Premise!Promoted \cup {0}
  /\ ContentOK(s, sessions[s].content)

CallOK(t) ==
  /\ call[t].pc # "idle" => call[t].session \in 1..Len(sessions)
  /\ call[t].pc \in {"token", "reason"} => ContentOK(call[t].session, call[t].content)
  /\ call[t].pc = "promote" => call[t].rev \in 1..Len(revs) /\ revs[call[t].rev].session = call[t].session

(* Every revision was reasoned on the premise of its session or that was   *)
(* adopted on the record, and so it was when a revision was promoted; no   *)
(* link follows the head and a run in flight carries what its session had. *)
PremiseIInv ==
  /\ PremiseTyped /\ HeadOK
  /\ \A r \in 1..Len(revs) : RevOK(r)
  /\ \A s \in 1..Len(sessions) : SessionOK(s)
  /\ \A t \in Threads : CallOK(t)
-----------------------------------------------------------------------------
LEMMA PremiseLens ==
  ASSUME PremiseTyped
  PROVE  /\ Len(revs) \in Nat /\ DOMAIN revs = 1..Len(revs) /\ revs \in [1..Len(revs) -> RevRows]
         /\ Len(sessions) \in Nat /\ DOMAIN sessions = 1..Len(sessions) /\ sessions \in [1..Len(sessions) -> SessionRows]
         /\ head = [rev |-> head.rev, version |-> head.version] /\ head.rev \in Nat /\ head.version \in Nat
         /\ Premise!Promoted = {r \in 1..Len(revs) : revs[r].status \in Linked}
BY LenProperties DEF PremiseTyped, Premise!Promoted, Linked

LEMMA PremiseLensNext ==
  ASSUME PremiseTyped'
  PROVE  /\ Len(revs') \in Nat /\ DOMAIN revs' = 1..Len(revs') /\ revs' \in [1..Len(revs') -> RevRows]
         /\ Len(sessions') \in Nat /\ DOMAIN sessions' = 1..Len(sessions') /\ sessions' \in [1..Len(sessions') -> SessionRows]
         /\ head'.rev \in Nat /\ head'.version \in Nat
         /\ Premise!Promoted' = {r \in 1..Len(revs') : revs'[r].status \in Linked}
BY LenProperties DEF PremiseTyped, Premise!Promoted, Linked

(* A step that promotes nothing: revisions are added as candidates, some   *)
(* are pruned, sessions are added, and a session may adopt the head.       *)
SameRev(r) ==
  /\ revs'[r].session = revs[r].session /\ revs'[r].parent = revs[r].parent /\ revs'[r].ground = revs[r].ground
  /\ revs'[r].status \in {revs[r].status, "pruned"} /\ (revs[r].status \in Linked => revs'[r].status = revs[r].status)
NewRev(r) ==
  /\ revs'[r].status \in {"candidate", "pruned"} /\ revs'[r].parent = 0 /\ revs'[r].session \in 1..Len(sessions')
  /\ OnRecord(revs[r].session, revs[r].ground)'
SameSession(s) ==
  /\ sessions[s].adopted \subseteq sessions'[s].adopted /\ sessions'[s].adopted \subseteq sessions[s].adopted \cup {head.rev}
  /\ sessions'[s].base = sessions[s].base \/ (sessions'[s].base = head.rev /\ head.rev \in sessions'[s].adopted)
  /\ sessions'[s].result = sessions[s].result
  /\ ContentOK(s, sessions[s].content)'
NewSession(s) ==
  /\ sessions'[s].base = head.rev /\ sessions'[s].result = 0 /\ sessions'[s].adopted = {}
  /\ ContentOK(s, sessions[s].content)'
Grows ==
  /\ head' = head /\ PremiseTyped'
  /\ Len(revs) <= Len(revs') /\ Len(sessions) <= Len(sessions')
  /\ \A r \in 1..Len(revs) : SameRev(r)
  /\ \A r \in 1..Len(revs') : r > Len(revs) => NewRev(r)
  /\ \A s \in 1..Len(sessions) : SameSession(s)
  /\ \A s \in 1..Len(sessions') : s > Len(sessions) => NewSession(s)

(* What is on the record of a session stays there.                         *)
LEMMA RecordIsKept ==
  ASSUME NEW s, SameSession(s), Len(revs) \in Nat, Len(revs') \in Nat, Len(revs) <= Len(revs'),
         NEW ground, OnRecord(s, ground)
  PROVE  OnRecord(s, ground)'
BY DEF OnRecord, SameSession

LEMMA GrowsKeepsPromoted ==
  ASSUME PremiseIInv, Grows
  PROVE  Premise!Promoted' = Premise!Promoted
<1>1. PremiseTyped /\ PremiseTyped'  BY DEF PremiseIInv, Grows
<1>2. /\ Premise!Promoted = {r \in 1..Len(revs) : revs[r].status \in Linked}
      /\ Premise!Promoted' = {r \in 1..Len(revs') : revs'[r].status \in Linked}
      /\ Len(revs) \in Nat /\ Len(revs') \in Nat
  BY <1>1, PremiseLens, PremiseLensNext
<1>3. \A r \in 1..Len(revs) : revs'[r].status \in Linked <=> revs[r].status \in Linked
  BY DEF Grows, SameRev, Linked
<1>4. \A r \in 1..Len(revs') : r > Len(revs) => revs'[r].status \notin Linked
  BY DEF Grows, NewRev, Linked
<1>5. Len(revs) <= Len(revs')  BY DEF Grows
<1>. QED  BY <1>2, <1>3, <1>4, <1>5

LEMMA GrowsKeepsCalls ==
  ASSUME PremiseIInv, Grows, NEW t \in Threads, call'[t] = call[t]
  PROVE  CallOK(t)'
<1>1. PremiseTyped /\ PremiseTyped' /\ CallOK(t)  BY DEF PremiseIInv, Grows
<1>2. Len(revs) \in Nat /\ Len(revs') \in Nat /\ Len(sessions) \in Nat /\ Len(sessions') \in Nat
      /\ Len(revs) <= Len(revs') /\ Len(sessions) <= Len(sessions')
  BY <1>1, PremiseLens, PremiseLensNext DEF Grows
<1>3. call[t].pc # "idle" => call[t].session \in 1..Len(sessions) /\ SameSession(call[t].session)
  BY <1>1 DEF CallOK, Grows
<1>4. call[t].pc \in {"token", "reason"} => ContentOK(call[t].session, call[t].content)'
  <2>1. \A g : call[t].pc # "idle" /\ OnRecord(call[t].session, g) => OnRecord(call[t].session, g)'
    BY <1>2, <1>3, RecordIsKept
  <2>. QED  BY <1>1, <2>1 DEF CallOK, ContentOK
<1>5. call[t].pc = "promote" => call[t].rev \in 1..Len(revs) /\ revs'[call[t].rev].session = call[t].session
  BY <1>1 DEF CallOK, Grows, SameRev
<1>. QED  BY <1>2, <1>3, <1>4, <1>5 DEF CallOK

LEMMA GrowsIsOK ==
  ASSUME PremiseIInv, Grows, \A t \in Threads : CallOK(t)'
  PROVE  PremiseIInv'
<1>1. PremiseTyped /\ PremiseTyped' /\ HeadOK /\ head' = head  BY DEF PremiseIInv, Grows
<1>2. Premise!Promoted' = Premise!Promoted  BY GrowsKeepsPromoted
<1>3. Len(revs) \in Nat /\ Len(revs') \in Nat /\ Len(sessions) \in Nat /\ Len(sessions') \in Nat
      /\ Len(revs) <= Len(revs') /\ Len(sessions) <= Len(sessions') /\ head.rev \in Nat
  BY <1>1, PremiseLens, PremiseLensNext DEF Grows
<1>4. Premise!Promoted \subseteq 1..Len(revs)  BY <1>1, PremiseLens
<1>5. HeadOK'
  <2>1. \A q \in Premise!Promoted : revs'[q].parent = revs[q].parent
    BY <1>4 DEF Grows, SameRev
  <2>2. Premise!Cardinality(Premise!Promoted)' = Premise!Cardinality(Premise!Promoted)
    BY <1>2 DEF Premise!Cardinality
  <2>. QED  BY <1>1, <1>2, <2>1, <2>2 DEF HeadOK
<1>6. ASSUME NEW r \in 1..Len(revs') PROVE RevOK(r)'
  <2>1. CASE r <= Len(revs)
    <3>1. r \in 1..Len(revs) /\ RevOK(r) /\ SameRev(r)  BY <1>3, <2>1 DEF PremiseIInv, Grows
    <3>2. SameSession(revs[r].session) /\ revs[r].session \in 1..Len(sessions')  BY <1>3, <3>1 DEF RevOK, Grows
    <3>3. OnRecord(revs[r].session, revs[r].ground)'
      <4>1. OnRecord(revs[r].session, revs[r].ground)  BY <3>1 DEF RevOK
      <4>2. \A q, g : SameSession(q) /\ OnRecord(q, g) => OnRecord(q, g)'  BY <1>3, RecordIsKept
      <4>. QED  BY <3>1, <3>2, <4>1, <4>2 DEF SameRev, OnRecord
    <3>5. r \in Premise!Promoted =>
            revs'[r].ground = revs'[r].parent \/ revs'[r].parent \in sessions'[revs'[r].session].adopted
      BY <3>1, <3>2 DEF RevOK, SameRev, SameSession
    <3>4. revs'[r].status = "canonical" <=> revs[r].status = "canonical"  BY <3>1 DEF SameRev, Linked
    <3>. QED  BY <1>1, <1>2, <3>1, <3>2, <3>3, <3>4, <3>5 DEF RevOK, SameRev
  <2>2. CASE r > Len(revs)
    <3>1. NewRev(r)  BY <2>2 DEF Grows
    <3>2. r \notin Premise!Promoted /\ r # head.rev  BY <1>1, <1>3, <1>4, <2>2 DEF HeadOK
    <3>. QED  BY <1>1, <1>2, <3>1, <3>2 DEF RevOK, NewRev
  <2>. QED  BY <1>3, <2>1, <2>2
<1>7. ASSUME NEW s \in 1..Len(sessions') PROVE SessionOK(s)'
  <2>1. CASE s <= Len(sessions)
    <3>1. SessionOK(s) /\ SameSession(s)  BY <1>3, <2>1 DEF PremiseIInv, Grows
    <3>. QED  BY <1>1, <1>2, <3>1 DEF SessionOK, SameSession, HeadOK
  <2>2. CASE s > Len(sessions)
    <3>1. NewSession(s)  BY <2>2 DEF Grows
    <3>. QED  BY <1>1, <1>2, <3>1 DEF SessionOK, NewSession, HeadOK
  <2>. QED  BY <1>3, <2>1, <2>2
<1>. QED  BY <1>1, <1>5, <1>6, <1>7 DEF PremiseIInv
-----------------------------------------------------------------------------
LEMMA PremiseInit == Premise!Init => PremiseIInv
<1>. SUFFICES ASSUME Premise!Init PROVE PremiseIInv  OBVIOUS
<1>. USE DEF Premise!Init, Premise!None, Premise!Untracked, Premise!Idle
<1>1. CASE sessions = <<>> /\ revs = <<>>
  <2>1. PremiseTyped  BY <1>1 DEF PremiseTyped
  <2>2. Len(revs) = 0 /\ Len(sessions) = 0  BY <1>1
  <2>3. Premise!Promoted = {}  BY <1>1 DEF Premise!Promoted
  <2>4. Premise!Cardinality({}) = 0  BY FS_EmptySet DEF Premise!Cardinality, Cardinality
  <2>5. HeadOK  BY <2>3, <2>4 DEF HeadOK
  <2>6. \A t \in Threads : CallOK(t)  BY DEF CallOK
  <2>. QED  BY <2>1, <2>2, <2>5, <2>6 DEF PremiseIInv
<1>2. CASE sessions = <<Premise!Session(-1, -1)>> /\ revs = <<Premise!Candidate(1, -1)>>
  <2>1. Premise!Session(-1, -1) \in SessionRows  BY DEF SessionRows, Premise!Session, Said
  <2>2. Premise!Candidate(1, -1) \in RevRows  BY DEF RevRows, Premise!Candidate, Said
  <2>3. revs \in Seq(RevRows) /\ Len(revs) = 1 /\ revs[1] = Premise!Candidate(1, -1)
    BY <1>2, <2>2
  <2>4. sessions \in Seq(SessionRows) /\ Len(sessions) = 1 /\ sessions[1] = Premise!Session(-1, -1)
    BY <1>2, <2>1
  <2>5. PremiseTyped  BY <2>3, <2>4 DEF PremiseTyped
  <2>6. Premise!Promoted = {}  BY <2>3, <2>5, PremiseLens DEF Premise!Candidate, Linked
  <2>7. Premise!Cardinality({}) = 0  BY FS_EmptySet DEF Premise!Cardinality, Cardinality
  <2>8. HeadOK  BY <2>6, <2>7 DEF HeadOK
  <2>9. RevOK(1)  BY <2>3, <2>4, <2>6 DEF RevOK, OnRecord, Premise!Candidate, Premise!Session
  <2>10. SessionOK(1)  BY <2>3, <2>4 DEF SessionOK, ContentOK, OnRecord, Premise!Session
  <2>11. \A t \in Threads : CallOK(t)  BY DEF CallOK
  <2>12. 1..Len(revs) = {1} /\ 1..Len(sessions) = {1}  BY <2>3, <2>4
  <2>. QED  BY <2>5, <2>8, <2>9, <2>10, <2>11, <2>12 DEF PremiseIInv
<1>. QED  BY <1>1, <1>2

LEMMA PromotedIsFinite ==
  ASSUME PremiseTyped
  PROVE  /\ IsFiniteSet(Premise!Promoted)
         /\ Cardinality(Premise!Promoted) <= Len(revs)
<1>1. Len(revs) \in Nat /\ Premise!Promoted \in SUBSET (1..Len(revs))  BY PremiseLens
<1>2. IsFiniteSet(1..Len(revs)) /\ Cardinality(1..Len(revs)) = Len(revs)  BY <1>1, FS_Interval
<1>. QED  BY <1>1, <1>2, FS_Subset

LEMMA PremiseImplied == PremiseIInv => PremiseInv
<1>. SUFFICES ASSUME PremiseIInv PROVE PremiseInv  OBVIOUS
<1>1. PremiseTyped /\ HeadOK  BY DEF PremiseIInv
<1>2. /\ Len(revs) \in Nat /\ DOMAIN revs = 1..Len(revs) /\ revs \in [1..Len(revs) -> RevRows]
      /\ Len(sessions) \in Nat /\ Premise!Sessions = 1..Len(sessions) /\ sessions \in [1..Len(sessions) -> SessionRows]
      /\ head = [rev |-> head.rev, version |-> head.version] /\ head.rev \in Nat /\ head.version \in Nat
      /\ Premise!Promoted = {r \in 1..Len(revs) : revs[r].status \in Linked}
  BY <1>1, PremiseLens DEF Premise!Sessions
<1>3. /\ \A r \in 1..Len(revs) : RevOK(r)
      /\ \A s \in 1..Len(sessions) : SessionOK(s)
  BY DEF PremiseIInv
<1>. DEFINE Ids == {0, -1} \cup DOMAIN revs
<1>4. ASSUME NEW s \in 1..Len(sessions)
      PROVE  /\ sessions[s].base \in Ids /\ sessions[s].result \in Ids /\ sessions[s].content \in Ids \cup {-2}
             /\ sessions[s] \in [base : Ids, disposition : {"active", "rebased", "branched"}, result : Ids,
                     intent : Said \cup {"not_applicable"}, content : Ids \cup {-2}, adopted : SUBSET Ids]
  <2>1. sessions[s] \in SessionRows  BY <1>2
  <2>2. sessions[s].base \in Ids /\ sessions[s].result \in Ids  BY <1>2, <1>3 DEF SessionOK
  <2>3. sessions[s].content \in Ids \cup {-2}  BY <1>2, <1>3 DEF SessionOK, ContentOK, OnRecord
  <2>4. sessions[s].adopted \in SUBSET Ids  BY <1>2, <1>3 DEF SessionOK
  <2>. QED  BY <2>1, <2>2, <2>3, <2>4 DEF SessionRows
<1>5. ASSUME NEW r \in 1..Len(revs)
      PROVE  revs[r] \in [session : 1..Len(sessions), status : Premise!Kept \cup {"pruned"}, parent : Ids,
                          ground : Ids, statement : Said]
  <2>1. revs[r] \in RevRows /\ RevOK(r)  BY <1>2, <1>3
  <2>2. revs[r].session \in 1..Len(sessions) /\ revs[r].ground \in Ids  BY <1>2, <2>1 DEF RevOK, OnRecord
  <2>3. revs[r].parent \in Ids  BY <1>2, <2>1 DEF RevOK
  <2>. QED  BY <2>1, <2>2, <2>3 DEF RevRows, Premise!Kept
<1>6. head \in [rev : {0} \cup DOMAIN revs, version : 0..Len(revs)]
  <2>1. Premise!Cardinality(Premise!Promoted) <= Len(revs)
    BY <1>1, PromotedIsFinite DEF Premise!Cardinality, Cardinality
  <2>. QED  BY <1>1, <1>2, <2>1 DEF HeadOK
<1>7. Premise!TypeOK
  BY <1>1, <1>2, <1>4, <1>5, <1>6
  DEF Premise!TypeOK, Premise!None, Premise!Untracked, Premise!Nothing, Said, PremiseTyped
<1>8. Premise!LineageIsOneChain
  <2>1. {r \in Premise!Promoted : revs[r].status = "canonical"} = {head.rev} \ {0}
    BY <1>1, <1>2, <1>3 DEF HeadOK, RevOK
  <2>2. \A r \in Premise!Promoted : revs[r].parent \in (Premise!Promoted \ {r}) \cup {0}
    BY <1>2, <1>3 DEF RevOK
  <2>3. \A s \in 1..Len(sessions) : {sessions[s].base, sessions[s].result} \subseteq Premise!Promoted \cup {0, -1}
    BY <1>3 DEF SessionOK
  <2>. QED  BY <1>1, <1>2, <2>1, <2>2, <2>3 DEF Premise!LineageIsOneChain, HeadOK, Premise!None, Premise!Untracked
<1>9. Premise!PromotedOnRecord
  BY <1>2, <1>3 DEF Premise!PromotedOnRecord, RevOK
<1>. QED  BY <1>7, <1>8, <1>9 DEF PremiseInv, Premise!PremiseInv

LEMMA OneCall ==
  ASSUME PremiseTyped, NEW t \in Threads, NEW c, call' = [call EXCEPT ![t] = c],
         c.pc \in {"idle", "token", "reason", "promote"}
  PROVE  /\ call' = [u \in Threads |-> call'[u]]
         /\ \A u \in Threads : call'[u].pc \in {"idle", "token", "reason", "promote"}
         /\ call'[t] = c
         /\ \A u \in Threads : u # t => call'[u] = call[u]
<1>1. call = [u \in Threads |-> call[u]]  BY DEF PremiseTyped
<1>2. \A u \in Threads : call'[u] = IF u = t THEN c ELSE call[u]  BY <1>1
<1>3. call' = [u \in Threads |-> call'[u]]  BY <1>1
<1>. QED  BY <1>2, <1>3 DEF PremiseTyped

(* Only the calls change, and one of them for a sound one.                 *)
LEMMA CallStepIsOK ==
  ASSUME PremiseIInv, NEW t \in Threads, NEW c, call' = [call EXCEPT ![t] = c],
         c.pc \in {"idle", "token", "reason", "promote"}, CallOK(t)',
         head' = head, revs' = revs, sessions' = sessions
  PROVE  PremiseIInv'
<1>1. PremiseTyped  BY DEF PremiseIInv
<1>2. /\ call' = [u \in Threads |-> call'[u]]
      /\ \A u \in Threads : call'[u].pc \in {"idle", "token", "reason", "promote"}
      /\ \A u \in Threads : u # t => call'[u] = call[u]
  BY <1>1, OneCall
<1>3. PremiseTyped'  BY <1>1, <1>2 DEF PremiseTyped
<1>4. Premise!Promoted' = Premise!Promoted  BY DEF Premise!Promoted
<1>5. HeadOK'  BY <1>4 DEF PremiseIInv, HeadOK, Premise!Cardinality
<1>6. \A r \in 1..Len(revs') : RevOK(r)'  BY <1>4 DEF PremiseIInv, RevOK, OnRecord
<1>7. \A s \in 1..Len(sessions') : SessionOK(s)'  BY <1>4 DEF PremiseIInv, SessionOK, ContentOK, OnRecord
<1>8. \A u \in Threads : CallOK(u)'  BY <1>2 DEF PremiseIInv, CallOK, ContentOK, OnRecord
<1>. QED  BY <1>3, <1>5, <1>6, <1>7, <1>8 DEF PremiseIInv
-----------------------------------------------------------------------------
(* Only sessions change or are added, besides calls.                       *)
LEMMA SessionStepGrows ==
  ASSUME PremiseIInv, head' = head, revs' = revs, sessions' \in Seq(SessionRows),
         call' = [t \in Threads |-> call'[t]] /\ \A t \in Threads : call'[t].pc \in {"idle", "token", "reason", "promote"},
         Len(sessions) <= Len(sessions'),
         \A s \in 1..Len(sessions) : SameSession(s),
         \A s \in 1..Len(sessions') : s > Len(sessions) => NewSession(s)
  PROVE  Grows
<1>1. PremiseTyped  BY DEF PremiseIInv
<1>2. PremiseTyped'  BY <1>1 DEF PremiseTyped
<1>3. Len(revs) \in Nat  BY <1>1, PremiseLens
<1>4. \A r \in 1..Len(revs) : SameRev(r)  BY DEF SameRev
<1>. QED  BY <1>2, <1>3, <1>4 DEF Grows

LEMMA PinnedIsOK ==
  ASSUME PremiseTyped, NEW s, s = Premise!Pinned(Premise!Session(0, -2))
  PROVE  /\ s \in SessionRows
         /\ s.base = head.rev /\ s.result = 0 /\ s.content \in {-2, head.rev} /\ s.adopted = {}
<1>1. head.rev \in Nat  BY DEF PremiseTyped
<1>2. s = [base |-> head.rev, disposition |-> "active", result |-> 0, intent |-> "none",
           content |-> IF head.rev # 0 THEN head.rev ELSE -2, adopted |-> {}]
  BY DEF Premise!Pinned, Premise!Session, Premise!None, Premise!Nothing
<1>. QED  BY <1>1, <1>2 DEF SessionRows, Said

(* A session the step leaves alone.                                        *)
LEMMA SameSessionIs ==
  ASSUME PremiseIInv, NEW s \in 1..Len(sessions), sessions'[s] = sessions[s],
         Len(revs) \in Nat, Len(revs') \in Nat, Len(revs) <= Len(revs')
  PROVE  SameSession(s)
<1>1. ContentOK(s, sessions[s].content)  BY DEF PremiseIInv, SessionOK
<1>. QED  BY <1>1 DEF SameSession, ContentOK, OnRecord

(* The head is a revision there is, or there is none.                      *)
LEMMA HeadIsKnown ==
  ASSUME PremiseIInv
  PROVE  head.rev \in 0..Len(revs) /\ Len(revs) \in Nat
<1>1. PremiseTyped /\ HeadOK  BY DEF PremiseIInv
<1>2. Premise!Promoted \subseteq 1..Len(revs) /\ Len(revs) \in Nat  BY <1>1, PremiseLens
<1>3. PICK n : n = Len(revs)  OBVIOUS
<1>4. PICK h : h = head.rev  OBVIOUS
<1>5. Premise!Promoted \subseteq 1..n /\ n \in Nat  BY <1>2, <1>3
<1>6. h \in 1..n \/ h = 0  BY <1>1, <1>4, <1>5 DEF HeadOK
<1>7. h \in 0..n /\ n \in Nat  BY <1>5, <1>6
<1>. QED  BY <1>3, <1>4, <1>7

LEMMA AppendedRow ==
  ASSUME NEW S, NEW list \in Seq(S), NEW e \in S, NEW all, all = Append(list, e)
  PROVE  /\ all \in Seq(S) /\ Len(list) \in Nat /\ Len(all) = Len(list) + 1
         /\ all[Len(list) + 1] = e /\ \A q \in 1..Len(list) : all[q] = list[q]
         /\ \A q \in 1..Len(all) : q > Len(list) => q = Len(list) + 1
<1>2. /\ all \in Seq(S) /\ Len(all) = Len(list) + 1
      /\ all[Len(list) + 1] = e /\ \A q \in 1..Len(list) : all[q] = list[q]
  BY AppendProperties
<1>3. Len(list) \in Nat  BY LenProperties
<1>. QED  BY <1>2, <1>3

LEMMA CreateIsOK ==
  ASSUME PremiseIInv, NEW t \in Threads, Premise!Create(t)
  PROVE  PremiseIInv'
<1>. DEFINE s == Premise!Pinned(Premise!Session(0, -2))
            n == Len(sessions) + 1
            c == [pc |-> "token", session |-> n, content |-> s.content]
<1>0. PremiseTyped /\ sessions \in Seq(SessionRows)  BY DEF PremiseIInv, PremiseTyped
<1>1. /\ sessions' = Append(sessions, s) /\ call' = [call EXCEPT ![t] = c]
      /\ head' = head /\ revs' = revs
  BY DEF Premise!Create, Premise!None, Premise!Nothing
<1>2. /\ s \in SessionRows /\ s.base = head.rev /\ s.result = 0 /\ s.content \in {-2, head.rev} /\ s.adopted = {}
      /\ head.rev \in 0..Len(revs) /\ Len(revs) \in Nat
  BY <1>0, PinnedIsOK, HeadIsKnown
<1>3. c.pc = "token" /\ c.session = n /\ c.content = s.content  OBVIOUS
<1>. HIDE DEF s, c
<1>4. /\ sessions' \in Seq(SessionRows) /\ Len(sessions) \in Nat /\ Len(sessions') = n
      /\ sessions'[n] = s /\ \A q \in 1..Len(sessions) : sessions'[q] = sessions[q]
      /\ \A q \in 1..Len(sessions') : q > Len(sessions) => q = n
  BY <1>0, <1>1, <1>2, AppendedRow
<1>. HIDE DEF n
<1>5. /\ call' = [u \in Threads |-> call'[u]] /\ \A u \in Threads : call'[u].pc \in {"idle", "token", "reason", "promote"}
      /\ call'[t] = c /\ \A u \in Threads : u # t => call'[u] = call[u]
  BY <1>0, <1>1, <1>3, OneCall
<1>6. Len(sessions) <= Len(sessions') /\ n \in 1..Len(sessions')  BY <1>4 DEF n
<1>7. \A q \in 1..Len(sessions) : SameSession(q)  BY <1>1, <1>2, <1>4, SameSessionIs
<1>8. \A q \in 1..Len(sessions') : q > Len(sessions) => NewSession(q)
  BY <1>1, <1>2, <1>4 DEF NewSession, ContentOK, OnRecord
<1>9. Grows  BY <1>1, <1>4, <1>5, <1>6, <1>7, <1>8, SessionStepGrows
<1>10. CallOK(t)'  BY <1>1, <1>2, <1>3, <1>4, <1>5, <1>6 DEF CallOK, ContentOK, OnRecord
<1>11. \A u \in Threads : CallOK(u)'  BY <1>5, <1>9, <1>10, GrowsKeepsCalls
<1>. QED  BY <1>9, <1>11, GrowsIsOK

(* Session s is changed to `row', and `added' may follow.                  *)
LEMMA SessionChangeIsOK ==
  ASSUME PremiseIInv, head' = head, revs' = revs, call' = call,
         NEW s \in 1..Len(sessions), NEW row \in SessionRows,
         \/ row.base = sessions[s].base /\ row.adopted = sessions[s].adopted
         \/ row.base = head.rev /\ row.adopted = sessions[s].adopted \cup {head.rev},
         row.result = sessions[s].result,
         row.content = sessions[s].content \/ (row.content = head.rev /\ row.base = head.rev),
         \/ sessions' = [sessions EXCEPT ![s] = row]
         \/ sessions' = Append([sessions EXCEPT ![s] = row], Premise!Pinned(Premise!Session(0, -2)))
  PROVE  PremiseIInv'
<1>. DEFINE new == Premise!Pinned(Premise!Session(0, -2))
            list == [sessions EXCEPT ![s] = row]
<1>0. PremiseTyped /\ sessions \in Seq(SessionRows)  BY DEF PremiseIInv, PremiseTyped
<1>1. /\ new \in SessionRows /\ new.base = head.rev /\ new.result = 0 /\ new.content \in {-2, head.rev} /\ new.adopted = {}
      /\ head.rev \in 0..Len(revs) /\ Len(revs) \in Nat /\ ContentOK(s, sessions[s].content)
  BY <1>0, PinnedIsOK, HeadIsKnown DEF PremiseIInv, SessionOK
<1>2. /\ list \in Seq(SessionRows) /\ Len(list) = Len(sessions)
      /\ \A q \in 1..Len(sessions) : list[q] = IF q = s THEN row ELSE sessions[q]
  BY <1>0, ExceptSeq
<1>3. sessions' = list \/ sessions' = Append(list, new)  OBVIOUS
<1>. HIDE DEF new, list
<1>4. /\ sessions' \in Seq(SessionRows) /\ Len(sessions) \in Nat /\ Len(sessions) <= Len(sessions')
      /\ \A q \in 1..Len(sessions) : sessions'[q] = list[q]
      /\ \A q \in 1..Len(sessions') : q > Len(sessions) => sessions'[q] = new
  <2>1. CASE sessions' = list  BY <1>0, <1>2, <2>1, LenProperties
  <2>2. CASE sessions' = Append(list, new)  BY <1>1, <1>2, <2>2, AppendedRow
  <2>. QED  BY <1>3, <2>1, <2>2
<1>5. ASSUME NEW q \in 1..Len(sessions) PROVE SameSession(q)
  <2>1. CASE q = s
    <3>1. sessions'[s] = row  BY <1>2, <1>4, <2>1
    <3>2. ContentOK(s, sessions[s].content)'
      BY <1>1, <3>1 DEF ContentOK, OnRecord
    <3>. QED  BY <2>1, <3>1, <3>2 DEF SameSession
  <2>2. CASE q # s
    <3>1. sessions'[q] = sessions[q]  BY <1>2, <1>4, <2>2
    <3>. QED  BY <1>1, <3>1, SameSessionIs
  <2>. QED  BY <2>1, <2>2
<1>6. \A q \in 1..Len(sessions') : q > Len(sessions) => NewSession(q)
  BY <1>1, <1>4 DEF NewSession, ContentOK, OnRecord
<1>7. call' = [t \in Threads |-> call'[t]] /\ \A t \in Threads : call'[t].pc \in {"idle", "token", "reason", "promote"}
  BY <1>0 DEF PremiseTyped
<1>8. Grows  BY <1>4, <1>5, <1>6, <1>7, SessionStepGrows
<1>9. \A t \in Threads : CallOK(t)'  BY <1>8, GrowsKeepsCalls
<1>. QED  BY <1>8, <1>9, GrowsIsOK

LEMMA SessionActionsAreOK ==
  ASSUME PremiseIInv, NEW s \in Premise!Sessions,
         Premise!Rebase(s) \/ Premise!Branch(s) \/ Premise!Adopt(s) \/ Premise!Decide(s)
  PROVE  PremiseIInv'
<1>0. PremiseTyped  BY DEF PremiseIInv
<1>1. /\ s \in 1..Len(sessions) /\ sessions[s] \in SessionRows /\ SessionOK(s) /\ head.rev \in Nat
      /\ DOMAIN sessions = 1..Len(sessions)
  BY <1>0, PremiseLens DEF Premise!Sessions, PremiseIInv
<1>2. ASSUME NEW d \in {"active", "rebased", "branched"}, NEW row, row = [sessions[s] EXCEPT !.disposition = d]
      PROVE  /\ row \in SessionRows /\ row.base = sessions[s].base /\ row.result = sessions[s].result
             /\ row.content = sessions[s].content /\ row.adopted = sessions[s].adopted
  BY <1>1, <1>2 DEF SessionRows
<1>3. CASE Premise!Rebase(s)
  <2>. DEFINE row == [sessions[s] EXCEPT !.disposition = "rebased"]
  <2>1. /\ sessions' = Append([sessions EXCEPT ![s] = row], Premise!Pinned(Premise!Session(0, -2)))
        /\ head' = head /\ revs' = revs /\ call' = call
    BY <1>1, <1>3 DEF Premise!Rebase, Premise!None, Premise!Nothing
  <2>2. /\ row \in SessionRows /\ row.base = sessions[s].base /\ row.result = sessions[s].result
        /\ row.content = sessions[s].content /\ row.adopted = sessions[s].adopted
    BY <1>2
  <2>. HIDE DEF row
  <2>. QED  BY <1>1, <2>1, <2>2, SessionChangeIsOK
<1>4. CASE Premise!Branch(s)
  <2>. DEFINE row == [sessions[s] EXCEPT !.disposition = "branched"]
  <2>1. sessions' = [sessions EXCEPT ![s] = row] /\ head' = head /\ revs' = revs /\ call' = call
    BY <1>1, <1>4 DEF Premise!Branch
  <2>2. /\ row \in SessionRows /\ row.base = sessions[s].base /\ row.result = sessions[s].result
        /\ row.content = sessions[s].content /\ row.adopted = sessions[s].adopted
    BY <1>2
  <2>. HIDE DEF row
  <2>. QED  BY <1>1, <2>1, <2>2, SessionChangeIsOK
<1>5. CASE Premise!Adopt(s)
  <2>. DEFINE row == Premise!Adopted(sessions[s])
  <2>1. sessions' = [sessions EXCEPT ![s] = row] /\ head' = head /\ revs' = revs /\ call' = call
    BY <1>1, <1>5 DEF Premise!Adopt
  <2>2. PICK n \in {sessions[s].content, head.rev} :
          row = [base |-> head.rev, disposition |-> "active", result |-> sessions[s].result,
                 intent |-> sessions[s].intent, content |-> n, adopted |-> sessions[s].adopted \cup {head.rev}]
    <3>. DEFINE pinned == Premise!Pinned(sessions[s])
    <3>. DEFINE kept == IF sessions[s].content = Premise!Nothing /\ head.rev # Premise!None THEN head.rev ELSE sessions[s].content
    <3>0. sessions[s] = [base |-> sessions[s].base, disposition |-> sessions[s].disposition, result |-> sessions[s].result,
            intent |-> sessions[s].intent, content |-> sessions[s].content, adopted |-> sessions[s].adopted]
      BY <1>1 DEF SessionRows
    <3>1. pinned = [base |-> head.rev, disposition |-> "active", result |-> sessions[s].result,
                    intent |-> sessions[s].intent, content |-> kept, adopted |-> sessions[s].adopted]
      <4>. DEFINE a == [sessions[s] EXCEPT !.base = head.rev]
                  b == [a EXCEPT !.disposition = "active"]
      <4>1. a = [base |-> head.rev, disposition |-> sessions[s].disposition, result |-> sessions[s].result,
                 intent |-> sessions[s].intent, content |-> sessions[s].content, adopted |-> sessions[s].adopted]
        BY <3>0
      <4>2. pinned = [b EXCEPT !.content = kept]  BY <4>1 DEF Premise!Pinned
      <4>. HIDE DEF a, pinned, kept
      <4>3. b = [base |-> head.rev, disposition |-> "active", result |-> sessions[s].result,
                 intent |-> sessions[s].intent, content |-> sessions[s].content, adopted |-> sessions[s].adopted]
        BY <4>1
      <4>. HIDE DEF b
      <4>. QED  BY <4>2, <4>3
    <3>3. PICK n \in {sessions[s].content, head.rev} : n = kept  OBVIOUS
    <3>. HIDE DEF pinned
    <3>2. [pinned EXCEPT !.adopted = @ \cup {head.rev}] =
            [base |-> head.rev, disposition |-> "active", result |-> sessions[s].result,
             intent |-> sessions[s].intent, content |-> n, adopted |-> sessions[s].adopted \cup {head.rev}]
      BY <3>1, <3>3
    <3>. QED  BY <3>2 DEF pinned, Premise!Adopted
  <2>. HIDE DEF row
  <2>3. /\ row \in SessionRows /\ row.base = head.rev /\ row.result = sessions[s].result
        /\ row.content \in {sessions[s].content, head.rev} /\ row.adopted = sessions[s].adopted \cup {head.rev}
    BY <1>1, <2>2 DEF SessionRows
  <2>. QED  BY <1>1, <2>1, <2>3, SessionChangeIsOK
<1>6. CASE Premise!Decide(s)
  <2>1. PICK v \in Values \cup {"none", "not_applicable"} : sessions' = [sessions EXCEPT ![s].intent = v]
    BY <1>6 DEF Premise!Decide
  <2>. DEFINE row == [sessions[s] EXCEPT !.intent = v]
  <2>2. sessions' = [sessions EXCEPT ![s] = row] /\ head' = head /\ revs' = revs /\ call' = call
    BY <1>1, <1>6, <2>1 DEF Premise!Decide
  <2>3. /\ row \in SessionRows /\ row.base = sessions[s].base /\ row.result = sessions[s].result
        /\ row.content = sessions[s].content /\ row.adopted = sessions[s].adopted
    BY <1>1 DEF SessionRows, Said
  <2>. HIDE DEF row
  <2>. QED  BY <1>1, <2>2, <2>3, SessionChangeIsOK
<1>. QED  BY <1>3, <1>4, <1>5, <1>6
-----------------------------------------------------------------------------
LEMMA GreatestRevision ==
  ASSUME NEW n \in Nat, NEW S \in SUBSET (1..n), S # {}
  PROVE  Premise!Max(S) \in S /\ \A x \in S : x <= Premise!Max(S)
BY GreatestOf DEF Premise!Max, Max

LEMMA CallActionsAreOK ==
  ASSUME PremiseIInv, NEW t \in Threads,
         \/ Premise!TakeToken(t) \/ Premise!Fail(t) \/ Premise!Refuse(t)
         \/ \E s \in Premise!Sessions : Premise!Gate(t, s) \/ Premise!ReadPremise(t, s)
  PROVE  PremiseIInv'
<1>0. PremiseTyped /\ CallOK(t)  BY DEF PremiseIInv
<1>1. /\ Len(revs) \in Nat /\ DOMAIN revs = 1..Len(revs) /\ Premise!Sessions = 1..Len(sessions)
      /\ call = [u \in Threads |-> call[u]]
  BY <1>0, PremiseLens DEF PremiseTyped, Premise!Sessions
<1>2. CASE Premise!Fail(t) \/ Premise!Refuse(t)
  <2>1. /\ call' = [call EXCEPT ![t] = Premise!Idle] /\ Premise!Idle.pc = "idle"
        /\ head' = head /\ revs' = revs /\ sessions' = sessions
    BY <1>2 DEF Premise!Fail, Premise!Refuse, Premise!Idle
  <2>2. call'[t] = Premise!Idle  BY <1>1, <2>1
  <2>3. CallOK(t)'  BY <2>1, <2>2 DEF CallOK
  <2>. QED  BY <2>1, <2>3, CallStepIsOK
<1>3. CASE Premise!TakeToken(t)
  <2>. DEFINE s == call[t].session
              c == [pc |-> "reason", session |-> s, content |-> call[t].content, head |-> head,
                    base |-> sessions[s].base, disposition |-> sessions[s].disposition]
  <2>1. /\ call' = [call EXCEPT ![t] = c] /\ c.pc = "reason" /\ c.session = s /\ c.content = call[t].content
        /\ head' = head /\ revs' = revs /\ sessions' = sessions /\ call[t].pc = "token"
    BY <1>3 DEF Premise!TakeToken
  <2>. HIDE DEF c
  <2>2. call'[t] = c  BY <1>1, <2>1
  <2>3. CallOK(t)'  BY <1>0, <2>1, <2>2 DEF CallOK, ContentOK, OnRecord
  <2>. QED  BY <2>1, <2>3, CallStepIsOK
<1>4. ASSUME NEW s \in 1..Len(sessions), Premise!Gate(t, s) PROVE PremiseIInv'
  <2>. DEFINE c == [pc |-> "token", session |-> s, content |-> sessions[s].content]
  <2>1. /\ call' = [call EXCEPT ![t] = c] /\ c.pc = "token" /\ c.session = s /\ c.content = sessions[s].content
        /\ head' = head /\ revs' = revs /\ sessions' = sessions
    BY <1>4 DEF Premise!Gate
  <2>. HIDE DEF c
  <2>2. call'[t] = c /\ SessionOK(s)  BY <1>1, <2>1 DEF PremiseIInv
  <2>3. CallOK(t)'  BY <2>1, <2>2 DEF CallOK, SessionOK, ContentOK, OnRecord
  <2>. QED  BY <2>1, <2>3, CallStepIsOK
<1>5. ASSUME NEW s \in 1..Len(sessions), Premise!ReadPremise(t, s) PROVE PremiseIInv'
  <2>. DEFINE open == Premise!RevisionsOf(s, {"candidate"})
              r == Premise!Max(open)
              c == [pc |-> "promote", session |-> s, head |-> head, rev |-> r]
  <2>1. open \in SUBSET (1..Len(revs)) /\ open # {}
    BY <1>1, <1>5 DEF Premise!ReadPremise, Premise!RevisionsOf
  <2>2. r \in open
    <3>. HIDE DEF open
    <3>. QED  BY <1>1, <2>1, GreatestRevision
  <2>3. r \in 1..Len(revs) /\ revs[r].session = s  BY <1>1, <2>2 DEF Premise!RevisionsOf
  <2>4. /\ call' = [call EXCEPT ![t] = c] /\ c.pc = "promote" /\ c.session = s /\ c.rev = r
        /\ head' = head /\ revs' = revs /\ sessions' = sessions
    BY <1>5 DEF Premise!ReadPremise
  <2>. HIDE DEF open, c, r
  <2>5. call'[t] = c  BY <1>1, <2>4
  <2>6. CallOK(t)'  BY <2>3, <2>4, <2>5 DEF CallOK
  <2>. QED  BY <2>4, <2>6, CallStepIsOK
<1>. QED  BY <1>1, <1>2, <1>3, <1>4, <1>5
-----------------------------------------------------------------------------
LEMMA CandidateIsOK ==
  ASSUME NEW s \in Nat, NEW g \in Int, NEW row, row = Premise!Candidate(s, g)
  PROVE  /\ row \in RevRows /\ row.session = s /\ row.status = "candidate"
         /\ row.parent = 0 /\ row.ground = g
BY DEF Premise!Candidate, Premise!None, RevRows, Said

LEMMA EditIsOK ==
  ASSUME PremiseIInv, NEW s \in Premise!Sessions, Premise!Edit(s)
  PROVE  PremiseIInv'
<1>0. PremiseTyped  BY DEF PremiseIInv
<1>1. /\ Len(revs) \in Nat /\ DOMAIN revs = 1..Len(revs) /\ revs \in [1..Len(revs) -> RevRows]
      /\ Len(sessions) \in Nat /\ s \in 1..Len(sessions)
  BY <1>0, PremiseLens DEF Premise!Sessions
<1>. DEFINE kept == Premise!RevisionsOf(s, Premise!Kept)
            m == Premise!Max(kept)
            row == Premise!Candidate(s, revs[m].ground)
            n == Len(revs) + 1
<1>2. kept \in SUBSET (1..Len(revs)) /\ kept # {}
  BY <1>1 DEF Premise!Edit, Premise!RevisionsOf
<1>3. m \in kept
  <2>. HIDE DEF kept
  <2>. QED  BY <1>1, <1>2, GreatestRevision
<1>4. m \in 1..Len(revs) /\ revs[m].session = s /\ revs[m] \in RevRows
  BY <1>1, <1>3 DEF Premise!RevisionsOf
<1>5. revs' = Append(revs, row) /\ head' = head /\ sessions' = sessions /\ call' = call
  BY DEF Premise!Edit
<1>. HIDE DEF kept, m
<1>6. revs[m].ground \in Int /\ OnRecord(s, revs[m].ground)
  BY <1>4 DEF PremiseIInv, RevOK, RevRows
<1>7. row \in RevRows /\ row.session = s /\ row.status = "candidate" /\ row.parent = 0 /\ row.ground = revs[m].ground
  BY <1>1, <1>6, CandidateIsOK
<1>. HIDE DEF row
<1>8. revs \in Seq(RevRows)  BY <1>0 DEF PremiseTyped
<1>9. /\ revs' \in Seq(RevRows) /\ Len(revs') = n
      /\ revs'[n] = row /\ \A r \in 1..Len(revs) : revs'[r] = revs[r]
  BY <1>5, <1>7, <1>8, AppendProperties
<1>10. PremiseTyped'  BY <1>0, <1>5, <1>9 DEF PremiseTyped
<1>11. \A r \in 1..Len(revs) : SameRev(r)  BY <1>9 DEF SameRev
<1>12. ASSUME NEW r \in 1..Len(revs'), r > Len(revs) PROVE NewRev(r)
  <2>1. r = n  BY <1>1, <1>9, <1>12
  <2>2. revs'[r].session = s /\ revs'[r].ground = revs[m].ground  BY <1>7, <1>9, <2>1
  <2>3. OnRecord(revs[r].session, revs[r].ground)'  BY <1>1, <1>5, <1>6, <1>9, <2>2 DEF OnRecord
  <2>. QED  BY <1>1, <1>5, <1>7, <1>9, <2>1, <2>3 DEF NewRev
<1>13. \A q \in 1..Len(sessions) : SameSession(q)  BY <1>1, <1>5, <1>9, SameSessionIs
<1>14. \A q \in 1..Len(sessions') : q > Len(sessions) => NewSession(q)  BY <1>1, <1>5
<1>15. Grows  BY <1>1, <1>5, <1>9, <1>10, <1>11, <1>12, <1>13, <1>14 DEF Grows
<1>16. \A t \in Threads : CallOK(t)'  BY <1>5, <1>15, GrowsKeepsCalls
<1>. QED  BY <1>15, <1>16, GrowsIsOK

LEMMA OneMoreRow ==
  ASSUME NEW S, NEW list \in Seq(S), NEW e \in S
  PROVE  /\ list \o <<e>> \in Seq(S) /\ Len(list \o <<e>>) = Len(list) + 1
         /\ (list \o <<e>>)[Len(list) + 1] = e /\ \A q \in 1..Len(list) : (list \o <<e>>)[q] = list[q]
         /\ \A q \in 1..Len(list \o <<e>>) : q > Len(list) => q = Len(list) + 1
<1>1. Append(list, e) = list \o <<e>>  BY AppendIsConcat
<1>. QED  BY <1>1, AppendedRow

LEMMA TwoMoreRows ==
  ASSUME NEW S, NEW list \in Seq(S), NEW e \in S, NEW f \in S
  PROVE  LET all == (list \o <<e>>) \o <<f>> IN
         /\ all \in Seq(S) /\ Len(all) = Len(list) + 2
         /\ all[Len(list) + 1] = e /\ all[Len(list) + 2] = f /\ \A q \in 1..Len(list) : all[q] = list[q]
         /\ \A q \in 1..Len(all) : q > Len(list) => q \in {Len(list) + 1, Len(list) + 2}
<1>. DEFINE mid == list \o <<e>>
            all == mid \o <<f>>
<1>1. /\ mid \in Seq(S) /\ Len(mid) = Len(list) + 1
      /\ mid[Len(list) + 1] = e /\ \A q \in 1..Len(list) : mid[q] = list[q]
  BY OneMoreRow
<1>. HIDE DEF mid
<1>2. /\ all \in Seq(S) /\ Len(all) = Len(mid) + 1
      /\ all[Len(mid) + 1] = f /\ \A q \in 1..Len(mid) : all[q] = mid[q]
  BY <1>1, OneMoreRow
<1>. HIDE DEF all
<1>3. Len(list) \in Nat  BY LenProperties
<1>4. Len(all) = Len(list) + 2 /\ Len(mid) \in Nat /\ Len(mid) + 1 = Len(list) + 2  BY <1>1, <1>2, <1>3
<1>5. Len(list) + 1 \in 1..Len(mid) /\ \A q \in 1..Len(list) : q \in 1..Len(mid)  BY <1>1, <1>3
<1>6. all[Len(list) + 1] = e /\ \A q \in 1..Len(list) : all[q] = list[q]  BY <1>1, <1>2, <1>5
<1>7. all[Len(list) + 2] = f  BY <1>2, <1>4
<1>8. \A q \in 1..Len(all) : q > Len(list) => q \in {Len(list) + 1, Len(list) + 2}  BY <1>3, <1>4
<1>. QED  BY <1>2, <1>4, <1>6, <1>7, <1>8 DEF all, mid

(* What a run stores: the old rows, perhaps one for what the session had,  *)
(* and one that was reasoned on the premise the session has.               *)
LEMMA StoredRows ==
  ASSUME PremiseTyped, NEW c, NEW all, c.session \in 1..Len(sessions),
         c.base = sessions[c.session].base, c.content \in Int
  PROVE  all = revs \o Premise!Seed(c) \o <<Premise!Candidate(c.session, c.base)>> =>
           /\ all \in Seq(RevRows) /\ Len(all) \in Nat /\ Len(all) > Len(revs)
           /\ \A r \in 1..Len(revs) : all[r] = revs[r]
           /\ \A r \in 1..Len(all) : r > Len(revs) =>
                /\ all[r].session = c.session /\ all[r].status = "candidate" /\ all[r].parent = 0
                /\ all[r].ground = c.base \/ (all[r].ground = c.content /\ c.content # -2)
           /\ all[Len(all)].ground = c.base
<1>. DEFINE last == Premise!Candidate(c.session, c.base)
            first == Premise!Candidate(c.session, c.content)
<1>0. SUFFICES ASSUME all = revs \o Premise!Seed(c) \o <<last>>
      PROVE  /\ all \in Seq(RevRows) /\ Len(all) \in Nat /\ Len(all) > Len(revs)
             /\ \A r \in 1..Len(revs) : all[r] = revs[r]
             /\ \A r \in 1..Len(all) : r > Len(revs) =>
                  /\ all[r].session = c.session /\ all[r].status = "candidate" /\ all[r].parent = 0
                  /\ all[r].ground = c.base \/ (all[r].ground = c.content /\ c.content # -2)
             /\ all[Len(all)].ground = c.base
  OBVIOUS
<1>1. /\ Len(sessions) \in Nat /\ sessions \in [1..Len(sessions) -> SessionRows]
      /\ Len(revs) \in Nat
  BY PremiseLens DEF PremiseTyped
<1>2. c.session \in Nat /\ c.base \in Int  BY <1>1 DEF SessionRows
<1>3. last.session = c.session /\ last.status = "candidate" /\ last.parent = 0 /\ last.ground = c.base
  BY <1>2, CandidateIsOK
<1>4. c.content # -2 => /\ first.session = c.session /\ first.status = "candidate"
                        /\ first.parent = 0 /\ first.ground = c.content
  BY <1>2, CandidateIsOK
<1>5. Premise!Seed(c) = <<>> \/ (Premise!Seed(c) = <<first>> /\ c.content # -2)
  BY DEF Premise!Seed, Premise!Nothing
<1>6. revs \in Seq(RevRows) /\ last \in RevRows /\ (c.content # -2 => first \in RevRows)
  BY <1>2, CandidateIsOK DEF PremiseTyped
<1>. HIDE DEF last, first
<1>7. CASE Premise!Seed(c) = <<>>
  <2>1. all = revs \o <<last>>  BY <1>0, <1>6, <1>7, ConcatEmptySeq
  <2>2. /\ all \in Seq(RevRows) /\ Len(all) = Len(revs) + 1
        /\ all[Len(revs) + 1] = last /\ \A r \in 1..Len(revs) : all[r] = revs[r]
        /\ \A r \in 1..Len(all) : r > Len(revs) => r = Len(revs) + 1
    BY <1>6, <2>1, OneMoreRow
  <2>. QED  BY <1>1, <1>3, <2>2
<1>8. CASE Premise!Seed(c) = <<first>> /\ c.content # -2
  <2>1. all = (revs \o <<first>>) \o <<last>>  BY <1>0, <1>8
  <2>2. /\ all \in Seq(RevRows) /\ Len(all) = Len(revs) + 2
        /\ all[Len(revs) + 1] = first /\ all[Len(revs) + 2] = last /\ \A r \in 1..Len(revs) : all[r] = revs[r]
        /\ \A r \in 1..Len(all) : r > Len(revs) => r \in {Len(revs) + 1, Len(revs) + 2}
    <3>1. revs \in Seq(RevRows) /\ first \in RevRows /\ last \in RevRows  BY <1>6, <1>8
    <3>. DEFINE two == (revs \o <<first>>) \o <<last>>
    <3>2. /\ two \in Seq(RevRows) /\ Len(two) = Len(revs) + 2
          /\ two[Len(revs) + 1] = first /\ two[Len(revs) + 2] = last /\ \A r \in 1..Len(revs) : two[r] = revs[r]
          /\ \A r \in 1..Len(two) : r > Len(revs) => r \in {Len(revs) + 1, Len(revs) + 2}
      BY <3>1, TwoMoreRows
    <3>. HIDE DEF two
    <3>3. all = two  BY <2>1 DEF two
    <3>. QED  BY <3>2, <3>3
  <2>. QED  BY <1>1, <1>3, <1>4, <1>8, <2>2
<1>. QED  BY <1>5, <1>7, <1>8

(* The retention keeps the rows but for the status of some, and no row     *)
(* that was promoted.                                                      *)
LEMMA SweptRows ==
  ASSUME NEW all \in Seq(RevRows), NEW s, NEW list, list = Premise!Swept(s, all)
  PROVE  /\ list \in Seq(RevRows) /\ Len(list) = Len(all)
         /\ \A r \in 1..Len(all) :
              /\ list[r].session = all[r].session /\ list[r].parent = all[r].parent /\ list[r].ground = all[r].ground
              /\ list[r].status \in {all[r].status, "pruned"}
              /\ all[r].status \in Linked => list[r].status = all[r].status
<1>1. DOMAIN all = 1..Len(all) /\ Len(all) \in Nat /\ \A r \in 1..Len(all) : all[r] \in RevRows
  BY LenProperties
<1>2. ASSUME NEW r \in 1..Len(all)
      PROVE  /\ list[r] \in RevRows
             /\ list[r].session = all[r].session /\ list[r].parent = all[r].parent /\ list[r].ground = all[r].ground
             /\ list[r].status \in {all[r].status, "pruned"}
             /\ all[r].status \in Linked => list[r].status = all[r].status
  <2>1. all[r] \in RevRows  BY <1>1
  <2>2. list[r] = all[r] \/ list[r] = [all[r] EXCEPT !.status = "pruned"]
    BY <1>1 DEF Premise!Swept
  <2>3. all[r].status \in Linked => list[r] = all[r]
    BY <1>1 DEF Premise!Swept, Premise!Protected, Linked
  <2>. QED  BY <2>1, <2>2, <2>3 DEF RevRows
<1>3. list = [r \in 1..Len(all) |-> list[r]]  BY <1>1 DEF Premise!Swept
<1>4. list \in [1..Len(all) -> RevRows]  BY <1>2, <1>3
<1>. QED  BY <1>1, <1>2, <1>4

LEMMA StoreIsOK ==
  ASSUME PremiseIInv, NEW t \in Threads, Premise!Store(t)
  PROVE  /\ PremiseIInv'
         /\ Len(revs') > Len(revs) /\ revs'[Len(revs')].ground = sessions[call[t].session].base
<1>22. PICK c : c = call[t]  OBVIOUS
<1>. DEFINE s == c.session
            all == revs \o Premise!Seed(c) \o <<Premise!Candidate(c.session, c.base)>>
            row == [sessions[s] EXCEPT !.content = c.base]
<1>0. PremiseTyped /\ CallOK(t)  BY DEF PremiseIInv
<1>1. /\ Len(revs) \in Nat /\ Len(sessions) \in Nat /\ DOMAIN sessions = 1..Len(sessions)
      /\ sessions \in [1..Len(sessions) -> SessionRows] /\ sessions \in Seq(SessionRows) /\ revs \in Seq(RevRows)
  BY <1>0, PremiseLens DEF PremiseTyped
<1>2. /\ c.pc = "reason" /\ c.base = sessions[s].base
      /\ revs' = Premise!Swept(s, all) /\ call' = [call EXCEPT ![t] = Premise!Idle] /\ head' = head
      /\ sessions' = [sessions EXCEPT ![s].content = c.base]
  BY <1>22 DEF Premise!Store, Premise!Unmoved
<1>3. s \in 1..Len(sessions) /\ ContentOK(s, c.content) /\ SessionOK(s)
  BY <1>0, <1>2, <1>22 DEF CallOK, PremiseIInv
<1>21. c.content \in Int /\ c.base \in -1..Len(revs) /\ head.rev \in Nat
  <2>1. c.content \in Int  BY <1>1, <1>3 DEF ContentOK, OnRecord
  <2>2. Premise!Promoted \subseteq 1..Len(revs)  BY <1>0, PremiseLens
  <2>3. c.base \in -1..Len(revs)  BY <1>1, <1>2, <1>3, <2>2 DEF SessionOK
  <2>. QED  BY <1>0, <2>1, <2>3, PremiseLens
<1>4. /\ all \in Seq(RevRows) /\ Len(all) \in Nat /\ Len(all) > Len(revs)
      /\ \A r \in 1..Len(revs) : all[r] = revs[r]
      /\ \A r \in 1..Len(all) : r > Len(revs) =>
           /\ all[r].session = s /\ all[r].status = "candidate" /\ all[r].parent = 0
           /\ all[r].ground = c.base \/ (all[r].ground = c.content /\ c.content # -2)
      /\ all[Len(all)].ground = c.base
  BY <1>0, <1>2, <1>3, <1>21, StoredRows
<1>. HIDE DEF all
<1>5. /\ revs' \in Seq(RevRows) /\ Len(revs') = Len(all)
      /\ \A r \in 1..Len(all) :
           /\ revs'[r].session = all[r].session /\ revs'[r].parent = all[r].parent /\ revs'[r].ground = all[r].ground
           /\ revs'[r].status \in {all[r].status, "pruned"}
           /\ all[r].status \in Linked => revs'[r].status = all[r].status
  BY <1>2, <1>4, SweptRows
<1>6. sessions[s] \in SessionRows /\ sessions' = [sessions EXCEPT ![s] = row]  BY <1>1, <1>2, <1>3
<1>7. /\ row \in SessionRows /\ row.base = sessions[s].base /\ row.result = sessions[s].result /\ row.content = row.base
      /\ row.adopted = sessions[s].adopted
  BY <1>2, <1>6 DEF SessionRows
<1>. HIDE DEF row
<1>8. /\ sessions' \in Seq(SessionRows) /\ Len(sessions') = Len(sessions)
      /\ \A q \in 1..Len(sessions) : sessions'[q] = IF q = s THEN row ELSE sessions[q]
  BY <1>1, <1>3, <1>6, <1>7, ExceptSeq
<1>9. Premise!Idle.pc = "idle"  BY DEF Premise!Idle
<1>10. /\ call' = [u \in Threads |-> call'[u]]
       /\ \A u \in Threads : call'[u].pc \in {"idle", "token", "reason", "promote"}
       /\ call'[t] = Premise!Idle
       /\ \A u \in Threads : u # t => call'[u] = call[u]
  BY <1>0, <1>2, <1>9, OneCall
<1>11. PremiseTyped'  BY <1>0, <1>2, <1>5, <1>8, <1>10 DEF PremiseTyped
<1>12. ASSUME NEW r \in 1..Len(revs) PROVE SameRev(r)
  <2>1. r \in 1..Len(all) /\ all[r] = revs[r]  BY <1>1, <1>4
  <2>. QED  BY <1>5, <2>1 DEF SameRev
<1>13. ASSUME NEW r \in 1..Len(revs'), r > Len(revs) PROVE NewRev(r)
  <2>1. /\ r \in 1..Len(all) /\ all[r].session = s /\ all[r].status = "candidate" /\ all[r].parent = 0
        /\ all[r].ground = c.base \/ (all[r].ground = c.content /\ c.content # -2)
    BY <1>4, <1>5, <1>13
  <2>2. sessions'[s].base = c.base /\ sessions'[s].adopted = sessions[s].adopted /\ s \in 1..Len(sessions')
    BY <1>2, <1>3, <1>7, <1>8
  <2>3. OnRecord(s, c.content)' \/ c.content = -2
    BY <1>1, <1>2, <1>3, <1>4, <1>5, <2>2 DEF ContentOK, OnRecord
  <2>4. OnRecord(s, c.base)'  BY <1>1, <1>4, <1>5, <1>21, <2>2 DEF OnRecord
  <2>5. PICK ground : ground = all[r].ground  OBVIOUS
  <2>6. OnRecord(s, ground)'  BY <2>1, <2>3, <2>4, <2>5
  <2>7. revs'[r].session = s /\ revs'[r].ground = ground  BY <1>5, <2>1, <2>5
  <2>8. OnRecord(revs[r].session, revs[r].ground)'  BY <2>6, <2>7 DEF OnRecord
  <2>. QED  BY <1>5, <2>1, <2>2, <2>7, <2>8 DEF NewRev
<1>14. ASSUME NEW q \in 1..Len(sessions) PROVE SameSession(q)
  <2>1. CASE q = s
    <3>1. sessions'[s] = row  BY <1>8, <2>1
    <3>2. ContentOK(s, sessions[s].content)'
      BY <1>1, <1>2, <1>4, <1>5, <1>7, <1>21, <3>1 DEF ContentOK, OnRecord
    <3>. QED  BY <1>7, <2>1, <3>1, <3>2 DEF SameSession
  <2>2. CASE q # s
    <3>1. sessions'[q] = sessions[q]  BY <1>8, <2>2
    <3>. QED  BY <1>1, <1>4, <1>5, <3>1, SameSessionIs
  <2>. QED  BY <2>1, <2>2
<1>15. \A q \in 1..Len(sessions') : q > Len(sessions) => NewSession(q)  BY <1>1, <1>8
<1>16. Len(revs) <= Len(revs') /\ Len(sessions) <= Len(sessions')  BY <1>1, <1>4, <1>5, <1>8
<1>17. Grows  BY <1>2, <1>11, <1>12, <1>13, <1>14, <1>15, <1>16 DEF Grows
<1>18. CallOK(t)'  BY <1>9, <1>10 DEF CallOK
<1>19. \A u \in Threads : CallOK(u)'  BY <1>10, <1>17, <1>18, GrowsKeepsCalls
<1>20. revs'[Len(revs')].ground = sessions[s].base
  <2>1. Len(all) \in 1..Len(all)  BY <1>1, <1>4
  <2>. QED  BY <1>2, <1>4, <1>5, <2>1
<1>. QED  BY <1>4, <1>5, <1>17, <1>19, <1>20, <1>22, GrowsIsOK
-----------------------------------------------------------------------------
LEMMA LinkedRow ==
  ASSUME NEW row \in RevRows, NEW parent, NEW statement
  PROVE  [row EXCEPT !.status = "canonical", !.parent = parent, !.statement = statement] =
         [session |-> row.session, status |-> "canonical", parent |-> parent, ground |-> row.ground,
          statement |-> statement]
<1>1. row = [session |-> row.session, status |-> row.status, parent |-> row.parent, ground |-> row.ground,
             statement |-> row.statement]
  BY DEF RevRows
<1>. DEFINE a == [row EXCEPT !.status = "canonical"]
            b == [a EXCEPT !.parent = parent]
<1>2. a = [session |-> row.session, status |-> "canonical", parent |-> row.parent, ground |-> row.ground,
           statement |-> row.statement]
  BY <1>1
<1>. HIDE DEF a
<1>3. b = [session |-> row.session, status |-> "canonical", parent |-> parent, ground |-> row.ground,
           statement |-> row.statement]
  BY <1>2
<1>. HIDE DEF b
<1>4. [b EXCEPT !.statement = statement] =
        [session |-> row.session, status |-> "canonical", parent |-> parent, ground |-> row.ground,
         statement |-> statement]
  BY <1>3
<1>. QED  BY <1>4 DEF a, b

(* The premise of the promoting session is the head, so the new link names *)
(* as its parent what it was reasoned on, which no other link does.        *)
LEMMA PromoteIsOK ==
  ASSUME PremiseIInv, NEW t \in Threads, Premise!Promote(t)
  PROVE  /\ PremiseIInv'
         /\ Len(revs') = Len(revs)
         /\ revs'[head'.rev].statement = Premise!Shown(revs[head'.rev].session)
<1>. DEFINE c == call[t]
            s == call[t].session
            n == call[t].rev
            new == [revs[n] EXCEPT !.status = "canonical", !.parent = head.rev, !.statement = Premise!Merged(s)]
            row == [sessions[s] EXCEPT !.result = n]
<1>0. PremiseTyped /\ CallOK(t) /\ HeadOK  BY DEF PremiseIInv
<1>1. /\ Len(revs) \in Nat /\ DOMAIN revs = 1..Len(revs) /\ revs \in [1..Len(revs) -> RevRows]
      /\ DOMAIN sessions = 1..Len(sessions) /\ sessions \in [1..Len(sessions) -> SessionRows]
      /\ sessions \in Seq(SessionRows) /\ head.rev \in Nat /\ head.version \in Nat
      /\ Premise!Promoted = {r \in 1..Len(revs) : revs[r].status \in Linked}
  BY <1>0, PremiseLens DEF PremiseTyped
<1>2. /\ c.pc = "promote" /\ sessions[s].base = head.rev /\ revs[n].status = "candidate"
      /\ head' = [rev |-> n, version |-> head.version + 1]
      /\ call' = [call EXCEPT ![t] = Premise!Idle] /\ sessions' = [sessions EXCEPT ![s].result = n]
  BY DEF Premise!Promote, Premise!Promotable, Premise!Current
<1>3. n \in 1..Len(revs) /\ revs[n].session = s /\ s \in 1..Len(sessions) /\ RevOK(n)
  BY <1>0, <1>2 DEF CallOK, PremiseIInv
<1>4. /\ n \notin Premise!Promoted /\ n # head.rev /\ n # 0
      /\ OnRecord(s, revs[n].ground) /\ (revs[n].ground = head.rev \/ head.rev \in sessions[s].adopted)
  BY <1>1, <1>2, <1>3 DEF RevOK, Linked, OnRecord
<1>5. /\ revs' = [r \in 1..Len(revs) |-> revs'[r]]
      /\ revs'[n] = new
      /\ \A r \in 1..Len(revs) : r # n =>
           revs'[r] = IF r = head.rev THEN [revs[r] EXCEPT !.status = "superseded"] ELSE revs[r]
  <2>. DEFINE f(r) == CASE r = n -> [revs[r] EXCEPT !.status = "canonical", !.parent = head.rev, !.statement = Premise!Merged(s)] [] r = head.rev -> [revs[r] EXCEPT !.status = "superseded"] [] OTHER -> revs[r]
  <2>1. revs' = [r \in DOMAIN revs |-> f(r)]  BY Zenon DEF Premise!Promote
  <2>2. f(n) = new  BY <1>4
  <2>3. \A r : r # n => f(r) = IF r = head.rev THEN [revs[r] EXCEPT !.status = "superseded"] ELSE revs[r]
    OBVIOUS
  <2>. HIDE DEF f
  <2>. QED  BY <1>1, <1>3, <2>1, <2>2, <2>3
<1>6. Premise!Merged(s) \in Said
  <2>1. Premise!Statement(head.rev) \in Said  BY <1>1 DEF Premise!Statement, Said, RevRows
  <2>2. Premise!Decision(s) \in Said  BY DEF Premise!Decision, Said
  <2>. QED  BY <2>1, <2>2 DEF Premise!Merged
<1>7. /\ new.session = s /\ new.status = "canonical" /\ new.parent = head.rev /\ new.ground = revs[n].ground
      /\ new.statement = Premise!Merged(s) /\ new \in RevRows
  <2>1. revs[n] \in RevRows  BY <1>1, <1>3
  <2>2. revs[n].session = s  BY <1>3
  <2>3. new = [session |-> s, status |-> "canonical", parent |-> head.rev, ground |-> revs[n].ground,
               statement |-> Premise!Merged(s)]
    BY <2>1, <2>2, LinkedRow
  <2>. HIDE DEF new
  <2>4. s \in Nat /\ revs[n].ground \in Int /\ head.rev \in Int  BY <1>1, <1>3, <2>1 DEF RevRows
  <2>5. new \in RevRows  BY <1>6, <2>3, <2>4 DEF RevRows
  <2>. QED  BY <2>3, <2>5
<1>. HIDE DEF new
<1>8. revs'[n] = new  BY <1>5
<1>9. ASSUME NEW r \in 1..Len(revs), r # n
      PROVE  /\ revs'[r] \in RevRows
             /\ revs'[r].session = revs[r].session /\ revs'[r].parent = revs[r].parent /\ revs'[r].ground = revs[r].ground
             /\ revs'[r].status = IF r = head.rev THEN "superseded" ELSE revs[r].status
  <2>1. revs[r] \in RevRows  BY <1>1
  <2>2. CASE r = head.rev
    <3>1. revs'[r] = [revs[r] EXCEPT !.status = "superseded"]  BY <1>5, <1>9, <2>2
    <3>. QED  BY <2>1, <2>2, <3>1 DEF RevRows
  <2>3. CASE r # head.rev
    <3>1. revs'[r] = revs[r]  BY <1>5, <1>9, <2>3
    <3>. QED  BY <2>1, <2>3, <3>1
  <2>. QED  BY <2>2, <2>3
<1>10. revs' \in Seq(RevRows) /\ Len(revs') = Len(revs)
  <2>1. revs' = [r \in 1..Len(revs) |-> revs'[r]]  BY <1>5
  <2>2. revs' \in [1..Len(revs) -> RevRows]  BY <1>7, <1>8, <1>9, <2>1
  <2>. QED  BY <1>1, <2>2
<1>11. sessions[s] \in SessionRows /\ sessions' = [sessions EXCEPT ![s] = row]  BY <1>1, <1>2, <1>3
<1>12. row \in SessionRows /\ row.base = sessions[s].base /\ row.content = sessions[s].content /\ row.result = n
       /\ row.adopted = sessions[s].adopted
  <2>1. n \in Int  BY <1>1, <1>3
  <2>2. row = [base |-> sessions[s].base, disposition |-> sessions[s].disposition, result |-> n,
               intent |-> sessions[s].intent, content |-> sessions[s].content, adopted |-> sessions[s].adopted]
    BY <1>11 DEF SessionRows
  <2>. QED  BY <1>11, <2>1, <2>2 DEF SessionRows
<1>. HIDE DEF row
<1>13. /\ sessions' \in Seq(SessionRows) /\ Len(sessions') = Len(sessions)
       /\ \A q \in 1..Len(sessions) : sessions'[q] = IF q = s THEN row ELSE sessions[q]
  BY <1>1, <1>3, <1>11, <1>12, ExceptSeq
<1>14. Premise!Idle.pc = "idle"  BY DEF Premise!Idle
<1>15. /\ call' = [u \in Threads |-> call'[u]]
       /\ \A u \in Threads : call'[u].pc \in {"idle", "token", "reason", "promote"}
       /\ call'[t] = Premise!Idle
       /\ \A u \in Threads : u # t => call'[u] = call[u]
  BY <1>0, <1>2, <1>14, OneCall
<1>16. head'.rev = n /\ head'.version = head.version + 1  BY <1>2
<1>17. PremiseTyped'
  <2>1. head' \in [rev : Nat, version : Nat]  BY <1>1, <1>2, <1>3
  <2>. QED  BY <1>10, <1>13, <1>15, <2>1 DEF PremiseTyped
<1>18. Premise!Promoted' = Premise!Promoted \cup {n}
  <2>1. Premise!Promoted' = {r \in 1..Len(revs) : revs'[r].status \in Linked}  BY <1>10, <1>17, PremiseLensNext
  <2>2. n \in Premise!Promoted'  BY <1>3, <1>7, <1>8, <2>1 DEF Linked
  <2>3. \A r \in 1..Len(revs) : r # n => (revs'[r].status \in Linked <=> revs[r].status \in Linked)
    <3>1. \A r \in 1..Len(revs) : r = head.rev => r \in Premise!Promoted  BY <1>0, <1>3 DEF HeadOK
    <3>. QED  BY <1>1, <1>9, <3>1 DEF Linked
  <2>. QED  BY <1>1, <1>3, <2>1, <2>2, <2>3
<1>19. ASSUME NEW r \in Premise!Promoted
       PROVE  /\ revs'[r].parent = revs[r].parent /\ revs[r].parent # head.rev /\ revs[r].parent # n
              /\ revs[r].parent \in (Premise!Promoted \ {r}) \cup {0}
  <2>1. r \in 1..Len(revs) /\ r # n /\ RevOK(r)  BY <1>1, <1>4 DEF PremiseIInv
  <2>. QED  BY <1>4, <1>9, <2>1 DEF RevOK
<1>20. HeadOK'
  <2>1. Premise!Cardinality(Premise!Promoted)' = head'.version
    <3>1. IsFiniteSet(Premise!Promoted)  BY <1>0, PromotedIsFinite
    <3>2. Cardinality(Premise!Promoted \cup {n}) = Cardinality(Premise!Promoted) + 1
      BY <1>4, <3>1, FS_AddElement
    <3>3. Premise!Cardinality(Premise!Promoted)' = Cardinality(Premise!Promoted \cup {n})
      BY <1>18 DEF Premise!Cardinality, Cardinality
    <3>4. Cardinality(Premise!Promoted) = head.version  BY <1>0 DEF HeadOK, Premise!Cardinality, Cardinality
    <3>. QED  BY <1>16, <3>2, <3>3, <3>4
  <2>2. revs'[n].parent = head.rev  BY <1>7, <1>8
  <2>3. \A q, r \in Premise!Promoted : revs[q].parent = revs[r].parent => q = r  BY <1>0 DEF HeadOK
  <2>4. \A q, r \in Premise!Promoted \cup {n} : revs'[q].parent = revs'[r].parent => q = r
    BY <1>19, <2>2, <2>3
  <2>. QED  BY <1>4, <1>16, <1>18, <2>1, <2>4 DEF HeadOK
<1>25. \A q \in 1..Len(sessions) : sessions'[q].base = sessions[q].base /\ sessions'[q].adopted = sessions[q].adopted
  BY <1>12, <1>13
<1>26. \A q \in 1..Len(sessions) : \A g : OnRecord(q, g) => OnRecord(q, g)'  BY <1>10, <1>25 DEF OnRecord
<1>21. ASSUME NEW r \in 1..Len(revs') PROVE RevOK(r)'
  <2>0. r \in 1..Len(revs)  BY <1>10
  <2>1. CASE r = n
    <3>1. revs'[r].session = s /\ s \in 1..Len(sessions') /\ revs'[r].ground = revs[n].ground
      BY <1>3, <1>7, <1>8, <1>13, <2>1
    <3>2. head.rev \in Premise!Promoted \cup {0}  BY <1>0 DEF HeadOK
    <3>3. OnRecord(revs[r].session, revs[r].ground)'  BY <1>3, <1>4, <1>26, <3>1 DEF OnRecord
    <3>4. revs'[r].ground = revs'[r].parent \/ revs'[r].parent \in sessions'[revs'[r].session].adopted
      BY <1>3, <1>4, <1>7, <1>8, <1>25, <2>1, <3>1
    <3>. QED  BY <1>4, <1>7, <1>8, <1>16, <1>18, <2>1, <3>1, <3>2, <3>3, <3>4 DEF RevOK
  <2>2. CASE r # n
    <3>1. RevOK(r)  BY <2>0 DEF PremiseIInv
    <3>2. revs'[r].session \in 1..Len(sessions') /\ OnRecord(revs[r].session, revs[r].ground)'
      <4>1. revs[r].session \in 1..Len(sessions) /\ OnRecord(revs[r].session, revs[r].ground)  BY <3>1 DEF RevOK
      <4>2. revs'[r].session = revs[r].session /\ revs'[r].ground = revs[r].ground  BY <1>9, <2>0, <2>2
      <4>. QED  BY <1>13, <1>26, <4>1, <4>2 DEF OnRecord
    <3>3. revs'[r].status # "canonical"  BY <1>9, <2>0, <2>2, <3>1 DEF RevOK
    <3>4. r \notin Premise!Promoted => revs'[r].parent = 0  BY <1>9, <2>0, <2>2, <3>1 DEF RevOK
    <3>5. r \in Premise!Promoted =>
            revs'[r].ground = revs'[r].parent \/ revs'[r].parent \in sessions'[revs'[r].session].adopted
      BY <1>9, <1>25, <2>0, <2>2, <3>1 DEF RevOK
    <3>. QED  BY <1>16, <1>18, <1>19, <2>2, <3>2, <3>3, <3>4, <3>5 DEF RevOK
  <2>. QED  BY <2>1, <2>2
<1>22. ASSUME NEW q \in 1..Len(sessions') PROVE SessionOK(q)'
  <2>1. q \in 1..Len(sessions) /\ SessionOK(q)  BY <1>13 DEF PremiseIInv
  <2>2. sessions'[q].base = sessions[q].base /\ sessions'[q].content = sessions[q].content
        /\ sessions'[q].adopted = sessions[q].adopted /\ sessions'[q].result \in {sessions[q].result, n}
    BY <1>12, <1>13, <2>1
  <2>3. ContentOK(q, sessions[q].content)'  BY <1>10, <2>1, <2>2 DEF SessionOK, ContentOK, OnRecord
  <2>. QED  BY <1>18, <2>1, <2>2, <2>3 DEF SessionOK
<1>23. ASSUME NEW u \in Threads PROVE CallOK(u)'
  <2>1. CASE u = t  BY <1>14, <1>15, <2>1 DEF CallOK
  <2>2. CASE u # t
    <3>1. CallOK(u) /\ call'[u] = call[u]  BY <1>15, <2>2 DEF PremiseIInv
    <3>2. \A q \in 1..Len(sessions) : \A g : ContentOK(q, g) => ContentOK(q, g)'  BY <1>10, <1>25 DEF ContentOK, OnRecord
    <3>3. \A r \in 1..Len(revs) : revs'[r].session = revs[r].session  BY <1>3, <1>7, <1>8, <1>9
    <3>. QED  BY <1>10, <1>13, <3>1, <3>2, <3>3 DEF CallOK
  <2>. QED  BY <2>1, <2>2
<1>24. revs'[head'.rev].statement = Premise!Shown(revs[head'.rev].session)
  BY <1>2, <1>3, <1>7, <1>8, <1>16 DEF Premise!Shown, Premise!Merged
<1>. QED  BY <1>10, <1>17, <1>20, <1>21, <1>22, <1>23, <1>24 DEF PremiseIInv
-----------------------------------------------------------------------------
LEMMA PremiseNext ==
  ASSUME PremiseIInv, Premise!Next
  PROVE  PremiseIInv'
<1>1. ASSUME NEW t \in Threads,
             \/ Premise!Create(t) \/ Premise!TakeToken(t) \/ Premise!Store(t)
             \/ Premise!Fail(t) \/ Premise!Promote(t) \/ Premise!Refuse(t)
      PROVE  PremiseIInv'
  BY <1>1, CreateIsOK, CallActionsAreOK, StoreIsOK, PromoteIsOK
<1>2. ASSUME NEW t \in Threads, NEW s \in Premise!Sessions, Premise!Gate(t, s) \/ Premise!ReadPremise(t, s)
      PROVE  PremiseIInv'
  BY <1>2, CallActionsAreOK
<1>3. ASSUME NEW s \in Premise!Sessions,
             Premise!Rebase(s) \/ Premise!Branch(s) \/ Premise!Adopt(s) \/ Premise!Decide(s) \/ Premise!Edit(s)
      PROVE  PremiseIInv'
  BY <1>3, SessionActionsAreOK, EditIsOK
<1>. QED  BY <1>1, <1>2, <1>3 DEF Premise!Next

LEMMA PremiseStep == PremiseIInv /\ [Premise!Next]_Premise!vars => PremiseIInv'
<1>1. ASSUME PremiseIInv, UNCHANGED Premise!vars PROVE PremiseIInv'
  <2>1. head' = head /\ revs' = revs /\ sessions' = sessions /\ call' = call  BY <1>1 DEF Premise!vars
  <2>2. Premise!Promoted' = Premise!Promoted  BY <2>1 DEF Premise!Promoted
  <2>3. HeadOK'  BY <1>1, <2>1, <2>2 DEF PremiseIInv, HeadOK, Premise!Cardinality
  <2>4. PremiseTyped'  BY <1>1, <2>1 DEF PremiseIInv, PremiseTyped
  <2>5. /\ \A r \in 1..Len(revs') : RevOK(r)'
        /\ \A s \in 1..Len(sessions') : SessionOK(s)'
        /\ \A t \in Threads : CallOK(t)'
    BY <1>1, <2>1, <2>2 DEF PremiseIInv, RevOK, SessionOK, CallOK, ContentOK, OnRecord
  <2>. QED  BY <2>3, <2>4, <2>5 DEF PremiseIInv
<1>. QED  BY <1>1, PremiseNext

(* What was promoted is one chain that ends in the head, each link         *)
(* reasoned on the one before unless its session is on record for having   *)
(* adopted that one, and retention removes no link of it nor what a session*)
(* is pinned to (promote_session_understanding(), adopt_current_premise()).*)
THEOREM PromotedIsOneChain == Premise!Spec => []PremiseInv
BY PremiseInit, PremiseStep, PremiseImplied, PTL DEF Premise!Spec

(* A step that stores is a Store or an Edit, and one that moves the head a *)
(* Promote.                                                                *)
LEMMA WhatChanges ==
  ASSUME PremiseIInv, Premise!Next
  PROVE  /\ Len(revs') > Len(revs) => (call' = call \/ \E t \in Threads : Premise!Store(t))
         /\ head' # head => \E t \in Threads : Premise!Promote(t)
<1>1. \/ head' = head /\ revs' = revs
      \/ head' = head /\ call' = call
      \/ \E t \in Threads : Premise!Store(t) /\ head' = head
      \/ \E t \in Threads : Premise!Promote(t)
  BY DEF Premise!Next, Premise!Create, Premise!TakeToken, Premise!Store, Premise!Fail, Premise!Refuse,
         Premise!Gate, Premise!ReadPremise, Premise!Rebase, Premise!Branch, Premise!Adopt, Premise!Decide,
         Premise!Edit
<1>2. \A t \in Threads : Premise!Promote(t) => Len(revs') = Len(revs)  BY PromoteIsOK
<1>3. Len(revs) \in Nat  BY PremiseLens DEF PremiseIInv
<1>. QED  BY <1>1, <1>2, <1>3

LEMMA PremiseStepsHold ==
  ASSUME PremiseIInv, [Premise!Next]_Premise!vars
  PROVE  /\ [\A t \in Threads : call[t].pc = "reason" /\ Len(revs') > Len(revs) /\ call'[t] # call[t] =>
               LET new == revs'[Len(revs')] IN
               /\ new.ground = sessions[call[t].session].base
               /\ new.ground = call[t].head.rev => new.ground = head.rev]_Premise!vars
         /\ [head' # head =>
               revs'[head'.rev].statement = Premise!Shown(revs[head'.rev].session)]_Premise!vars
<1>1. CASE UNCHANGED Premise!vars  BY <1>1
<1>2. CASE Premise!Next
  <2>1. ASSUME NEW t \in Threads, call[t].pc = "reason", Len(revs') > Len(revs), call'[t] # call[t]
        PROVE  LET new == revs'[Len(revs')] IN
               /\ new.ground = sessions[call[t].session].base
               /\ new.ground = call[t].head.rev => new.ground = head.rev
    <3>1. PICK u \in Threads : Premise!Store(u)  BY <1>2, <2>1, WhatChanges
    <3>2. u = t
      <4>1. call = [v \in Threads |-> call[v]]  BY DEF PremiseIInv, PremiseTyped
      <4>2. call' = [call EXCEPT ![u] = Premise!Idle]  BY <3>1 DEF Premise!Store
      <4>. QED  BY <2>1, <4>1, <4>2
    <3>3. revs'[Len(revs')].ground = sessions[call[t].session].base  BY <3>1, <3>2, StoreIsOK
    <3>4. call[t].head = head  BY <3>1, <3>2 DEF Premise!Store, Premise!Unmoved
    <3>. QED  BY <3>3, <3>4
  <2>2. ASSUME head' # head
        PROVE  revs'[head'.rev].statement = Premise!Shown(revs[head'.rev].session)
    <3>1. PICK t \in Threads : Premise!Promote(t)  BY <1>2, <2>2, WhatChanges
    <3>. QED  BY <3>1, PromoteIsOK
  <2>. QED  BY <2>1, <2>2
<1>. QED  BY <1>1, <1>2

(* What a run stores was reasoned on the premise its session then has, and *)
(* on the head only while that is the head; what is published of the       *)
(* intent is what its session showed (save_understanding_revision(),       *)
(* promote_session_understanding()).                                       *)
THEOREM PremisesAreHeld == Premise!Spec => PremisesHold
<1>1. Premise!Spec => []PremiseIInv  BY PremiseInit, PremiseStep, PTL DEF Premise!Spec
<1>2. PremiseIInv /\ [Premise!Next]_Premise!vars =>
        /\ [\A t \in Threads : call[t].pc = "reason" /\ Len(revs') > Len(revs) /\ call'[t] # call[t] =>
               LET new == revs'[Len(revs')] IN
               /\ new.ground = sessions[call[t].session].base
               /\ new.ground = call[t].head.rev => new.ground = head.rev]_Premise!vars
        /\ [head' # head =>
               revs'[head'.rev].statement = Premise!Shown(revs[head'.rev].session)]_Premise!vars
  BY PremiseStepsHold
<1>. QED  BY <1>1, <1>2, PTL DEF Premise!Spec, PremisesHold, Premise!StoredOnItsPremise, Premise!PublishesWhatItShowed

-----------------------------------------------------------------------------
(* The improvements in the three instances.                                *)

OfBreaker == INSTANCE ImprovementProofs WITH
  Improvements <- Rejected, Drafts <- Requests, Cards <- {1}, Rubric <- OneRubric, Refs <- {}, Replays <- {},
  Kinds <- {"candidate_patch"}, MayDie <- FALSE
OfShadow == INSTANCE ImprovementProofs WITH
  Cards <- {1}, Rubric <- OneRubric, Replays <- Refs, Kinds <- {"candidate_patch"}, MayDie <- FALSE,
  MaxShadows <- 3

(* Breaker is the instance of the proofs: its steps are those, action by   *)
(* action.                                                                 *)
LEMMA BreakerIsImprovement == (Breaker!Init => OfBreaker!Init) /\ (Breaker!Next => OfBreaker!Next)
<1>1. /\ \A history : Breaker!Streak(history) = OfBreaker!Streak(history)
      /\ \A row : Breaker!Open(row) <=> OfBreaker!Open(row)
      /\ \A status : Breaker!Transitions(status) = OfBreaker!Transitions(status)
      /\ Breaker!None = OfBreaker!None /\ Breaker!Absent = OfBreaker!Absent /\ Breaker!Terminal = OfBreaker!Terminal
  BY DEF Breaker!Streak, OfBreaker!Streak, Breaker!Max, OfBreaker!Max, Breaker!Open, OfBreaker!Open,
      Breaker!Terminal, OfBreaker!Terminal, Breaker!Transitions, OfBreaker!Transitions, Breaker!None, OfBreaker!None,
      Breaker!Absent, OfBreaker!Absent
<1>2. /\ \A kind, complete, card, owned : Breaker!Row(kind, complete, card, owned) = OfBreaker!Row(kind, complete, card, owned)
      /\ \A all : Breaker!Suspended(all) = OfBreaker!Suspended(all)
  BY <1>1 DEF Breaker!Row, OfBreaker!Row, Breaker!Suspended, OfBreaker!Suspended
<1>3. /\ \A row, version : Breaker!RubricOwned(row, version) <=> OfBreaker!RubricOwned(row, version)
      /\ \A row, content : Breaker!Voids(row, content) <=> OfBreaker!Voids(row, content)
      /\ \A row : Breaker!Voided(row) = OfBreaker!Voided(row)
      /\ \A row, to, content : Breaker!Valid(row, to, content) <=> OfBreaker!Valid(row, to, content)
  BY DEF Breaker!RubricOwned, OfBreaker!RubricOwned, Breaker!Voids, OfBreaker!Voids, Breaker!Voided,
      OfBreaker!Voided, Breaker!Valid, OfBreaker!Valid
<1>4. /\ \A row, to, content : Breaker!Moved(row, to, content) = OfBreaker!Moved(row, to, content)
      /\ \A row, to, content : Breaker!Accepts(row, to, content) <=> OfBreaker!Accepts(row, to, content)
  BY <1>1, <1>3 DEF Breaker!Moved, OfBreaker!Moved, Breaker!Accepts, OfBreaker!Accepts, Breaker!Adoptable,
      OfBreaker!Adoptable
<1>5. /\ \A i, kind, complete, owned : Breaker!Create(i, kind, complete, owned) => OfBreaker!Create(i, kind, complete, owned)
      /\ \A t, kind, owned : Breaker!DraftRead(t, kind, owned) => OfBreaker!DraftRead(t, kind, owned)
      /\ \A t, i : Breaker!DraftWrite(t, i) => OfBreaker!DraftWrite(t, i)
      /\ \A t : Breaker!DraftFail(t) => OfBreaker!DraftFail(t)
  BY <1>1, <1>2 DEF Breaker!Create, OfBreaker!Create, Breaker!DraftRead, OfBreaker!DraftRead, Breaker!DraftWrite,
      OfBreaker!DraftWrite, Breaker!DraftFail, OfBreaker!DraftFail, Breaker!world, OfBreaker!world
<1>6. ASSUME NEW i, NEW to, NEW refs, NEW version, Breaker!Transition(i, to, refs, version)
      PROVE  OfBreaker!Transition(i, to, refs, version)
  <2>1. \A content : /\ Breaker!Refuse(i, content) => OfBreaker!Refuse(i, content)
                     /\ Breaker!Step(i, to, content) => OfBreaker!Step(i, to, content)
    BY <1>3, <1>4 DEF Breaker!Refuse, OfBreaker!Refuse, Breaker!Step, OfBreaker!Step
  <2>2. \A content : Breaker!Adopt(i, content) => OfBreaker!Adopt(i, content)
    BY <1>4 DEF Breaker!Adopt, OfBreaker!Adopt
  <2>3. \A content : Breaker!Reject(i, content) => OfBreaker!Reject(i, content)
    BY <1>1, <1>2, <1>4 DEF Breaker!Reject, OfBreaker!Reject
  <2>. QED  BY <1>1, <1>3, <1>4, <1>6, <2>1, <2>2, <2>3 DEF Breaker!Transition, OfBreaker!Transition, Breaker!world,
    OfBreaker!world
<1>7. /\ \A i : /\ Breaker!ParentApprove(i) => OfBreaker!ParentApprove(i)
                /\ Breaker!HumanApprove(i) => OfBreaker!HumanApprove(i)
                /\ Breaker!Rollback(i) => OfBreaker!Rollback(i)
      /\ (Breaker!Suspend => OfBreaker!Suspend) /\ (Breaker!Resume => OfBreaker!Resume)
  BY <1>1, <1>2 DEF Breaker!ParentApprove, OfBreaker!ParentApprove, Breaker!HumanApprove, OfBreaker!HumanApprove,
      Breaker!Approvable, OfBreaker!Approvable, Breaker!Rollback, OfBreaker!Rollback, Breaker!Suspend,
      OfBreaker!Suspend, Breaker!Resume, OfBreaker!Resume, Breaker!world, OfBreaker!world
<1>8. /\ \A i : /\ Breaker!ProposeShadow(i) => OfBreaker!ProposeShadow(i)
                /\ Breaker!RequestLiveShadow(i) => OfBreaker!RequestLiveShadow(i)
      /\ \A n, decision : Breaker!DecideShadow(n, decision) => OfBreaker!DecideShadow(n, decision)
  BY DEF Breaker!ProposeShadow, OfBreaker!ProposeShadow, Breaker!RequestLiveShadow, OfBreaker!RequestLiveShadow,
      Breaker!DecideShadow, OfBreaker!DecideShadow, Breaker!Grounded, OfBreaker!Grounded, Breaker!Decided,
      OfBreaker!Decided, Breaker!Ask, OfBreaker!Ask, Breaker!Max, OfBreaker!Max, Breaker!world, OfBreaker!world
<1>9. /\ \A e : Breaker!Revise(e) => OfBreaker!Revise(e)
      /\ \A c : Breaker!Deprecate(c) => OfBreaker!Deprecate(c)
      /\ Breaker!SetRoster => OfBreaker!SetRoster
  BY DEF Breaker!Revise, OfBreaker!Revise, Breaker!Deprecate, OfBreaker!Deprecate, Breaker!SetRoster,
      OfBreaker!SetRoster, Breaker!Elsewhere, OfBreaker!Elsewhere
<1>10. ASSUME Breaker!Next PROVE OfBreaker!Next
  <2>1. ASSUME NEW i \in Rejected,
               \/ \E kind \in {"candidate_patch"}, complete, owned \in BOOLEAN : Breaker!Create(i, kind, complete, owned)
               \/ Breaker!ParentApprove(i) \/ Breaker!HumanApprove(i) \/ Breaker!Rollback(i)
               \/ Breaker!ProposeShadow(i) \/ Breaker!RequestLiveShadow(i)
        PROVE  OfBreaker!Next
    BY <1>5, <1>7, <1>8, <2>1 DEF OfBreaker!Next
  <2>2. ASSUME NEW i \in Rejected, NEW to \in Breaker!Transitions(rows[i].status), NEW refs \in SUBSET {},
               NEW version \in {1} \cup {Breaker!None}, Breaker!Transition(i, to, refs, version)
        PROVE  OfBreaker!Next
    <3>1. OfBreaker!Transition(i, to, refs, version)  BY <1>6, <2>2
    <3>2. to \in OfBreaker!Transitions(rows[i].status) /\ version \in {1} \cup {OfBreaker!None}  BY <1>1
    <3>. QED  BY <3>1, <3>2 DEF OfBreaker!Next
  <2>3. ASSUME NEW t \in Requests,
               \/ \E kind \in {"candidate_patch"}, owned \in BOOLEAN : Breaker!DraftRead(t, kind, owned)
               \/ \E i \in Rejected : Breaker!DraftWrite(t, i)
               \/ Breaker!DraftFail(t)
        PROVE  OfBreaker!Next
    BY <1>5, <2>3 DEF OfBreaker!Next
  <2>4. ASSUME \/ Breaker!Suspend \/ Breaker!Resume
               \/ \E n \in DOMAIN shadows, decision \in {"approved", "rejected"} : Breaker!DecideShadow(n, decision)
               \/ (\E e \in {} : Breaker!Revise(e)) \/ (\E c \in {1} : Breaker!Deprecate(c)) \/ Breaker!SetRoster
        PROVE  OfBreaker!Next
    BY <1>7, <1>8, <1>9, <2>4 DEF OfBreaker!Next
  <2>. QED  BY <1>10, <2>1, <2>2, <2>3, <2>4 DEF Breaker!Next
<1>11. Breaker!Init => OfBreaker!Init  BY <1>1 DEF Breaker!Init, OfBreaker!Init
<1>. QED  BY <1>10, <1>11

(* And so is Shadow.                                                       *)
LEMMA ShadowIsImprovement == (Shadow!Init => OfShadow!Init) /\ (Shadow!Next => OfShadow!Next)
<1>1. /\ \A history : Shadow!Streak(history) = OfShadow!Streak(history)
      /\ \A row : Shadow!Open(row) <=> OfShadow!Open(row)
      /\ \A status : Shadow!Transitions(status) = OfShadow!Transitions(status)
      /\ Shadow!None = OfShadow!None /\ Shadow!Absent = OfShadow!Absent /\ Shadow!Terminal = OfShadow!Terminal
  BY DEF Shadow!Streak, OfShadow!Streak, Shadow!Max, OfShadow!Max, Shadow!Open, OfShadow!Open, Shadow!Terminal,
      OfShadow!Terminal, Shadow!Transitions, OfShadow!Transitions, Shadow!None, OfShadow!None, Shadow!Absent,
      OfShadow!Absent
<1>2. /\ \A kind, complete, card, owned : Shadow!Row(kind, complete, card, owned) = OfShadow!Row(kind, complete, card, owned)
      /\ \A all : Shadow!Suspended(all) = OfShadow!Suspended(all)
  BY <1>1 DEF Shadow!Row, OfShadow!Row, Shadow!Suspended, OfShadow!Suspended
<1>3. /\ \A row, version : Shadow!RubricOwned(row, version) <=> OfShadow!RubricOwned(row, version)
      /\ \A row, content : Shadow!Voids(row, content) <=> OfShadow!Voids(row, content)
      /\ \A row : Shadow!Voided(row) = OfShadow!Voided(row)
      /\ \A row, to, content : Shadow!Valid(row, to, content) <=> OfShadow!Valid(row, to, content)
  BY DEF Shadow!RubricOwned, OfShadow!RubricOwned, Shadow!Voids, OfShadow!Voids, Shadow!Voided, OfShadow!Voided,
      Shadow!Valid, OfShadow!Valid
<1>4. /\ \A row, to, content : Shadow!Moved(row, to, content) = OfShadow!Moved(row, to, content)
      /\ \A row, to, content : Shadow!Accepts(row, to, content) <=> OfShadow!Accepts(row, to, content)
  BY <1>1, <1>3 DEF Shadow!Moved, OfShadow!Moved, Shadow!Accepts, OfShadow!Accepts, Shadow!Adoptable,
      OfShadow!Adoptable
<1>5. /\ \A i, kind, complete, owned : Shadow!Create(i, kind, complete, owned) => OfShadow!Create(i, kind, complete, owned)
      /\ \A t, kind, owned : Shadow!DraftRead(t, kind, owned) => OfShadow!DraftRead(t, kind, owned)
      /\ \A t, i : Shadow!DraftWrite(t, i) => OfShadow!DraftWrite(t, i)
      /\ \A t : Shadow!DraftFail(t) => OfShadow!DraftFail(t)
  BY <1>1, <1>2 DEF Shadow!Create, OfShadow!Create, Shadow!DraftRead, OfShadow!DraftRead, Shadow!DraftWrite,
      OfShadow!DraftWrite, Shadow!DraftFail, OfShadow!DraftFail, Shadow!world, OfShadow!world
<1>6. ASSUME NEW i, NEW to, NEW refs, NEW version, Shadow!Transition(i, to, refs, version)
      PROVE  OfShadow!Transition(i, to, refs, version)
  <2>1. \A content : /\ Shadow!Refuse(i, content) => OfShadow!Refuse(i, content)
                     /\ Shadow!Step(i, to, content) => OfShadow!Step(i, to, content)
    BY <1>3, <1>4 DEF Shadow!Refuse, OfShadow!Refuse, Shadow!Step, OfShadow!Step
  <2>2. \A content : Shadow!Adopt(i, content) => OfShadow!Adopt(i, content)
    BY <1>4 DEF Shadow!Adopt, OfShadow!Adopt
  <2>3. \A content : Shadow!Reject(i, content) => OfShadow!Reject(i, content)
    BY <1>1, <1>2, <1>4 DEF Shadow!Reject, OfShadow!Reject
  <2>. QED  BY <1>1, <1>3, <1>4, <1>6, <2>1, <2>2, <2>3 DEF Shadow!Transition, OfShadow!Transition, Shadow!world,
    OfShadow!world
<1>7. /\ \A i : /\ Shadow!ParentApprove(i) => OfShadow!ParentApprove(i)
                /\ Shadow!HumanApprove(i) => OfShadow!HumanApprove(i)
                /\ Shadow!Rollback(i) => OfShadow!Rollback(i)
      /\ (Shadow!Suspend => OfShadow!Suspend) /\ (Shadow!Resume => OfShadow!Resume)
  BY <1>1, <1>2 DEF Shadow!ParentApprove, OfShadow!ParentApprove, Shadow!HumanApprove, OfShadow!HumanApprove,
      Shadow!Approvable, OfShadow!Approvable, Shadow!Rollback, OfShadow!Rollback, Shadow!Suspend, OfShadow!Suspend,
      Shadow!Resume, OfShadow!Resume, Shadow!world, OfShadow!world
<1>8. /\ \A i : /\ Shadow!ProposeShadow(i) => OfShadow!ProposeShadow(i)
                /\ Shadow!RequestLiveShadow(i) => OfShadow!RequestLiveShadow(i)
      /\ \A n, decision : Shadow!DecideShadow(n, decision) => OfShadow!DecideShadow(n, decision)
  BY DEF Shadow!ProposeShadow, OfShadow!ProposeShadow, Shadow!RequestLiveShadow, OfShadow!RequestLiveShadow,
      Shadow!DecideShadow, OfShadow!DecideShadow, Shadow!Grounded, OfShadow!Grounded, Shadow!Decided,
      OfShadow!Decided, Shadow!Ask, OfShadow!Ask, Shadow!Max, OfShadow!Max, Shadow!world, OfShadow!world
<1>9. /\ \A e : Shadow!Revise(e) => OfShadow!Revise(e)
      /\ \A c : Shadow!Deprecate(c) => OfShadow!Deprecate(c)
      /\ Shadow!SetRoster => OfShadow!SetRoster
  BY DEF Shadow!Revise, OfShadow!Revise, Shadow!Deprecate, OfShadow!Deprecate, Shadow!SetRoster, OfShadow!SetRoster,
      Shadow!Elsewhere, OfShadow!Elsewhere
<1>10. ASSUME Shadow!Next PROVE OfShadow!Next
  <2>1. ASSUME NEW i \in Improvements,
               \/ \E kind \in {"candidate_patch"}, complete, owned \in BOOLEAN : Shadow!Create(i, kind, complete, owned)
               \/ Shadow!ParentApprove(i) \/ Shadow!HumanApprove(i) \/ Shadow!Rollback(i)
               \/ Shadow!ProposeShadow(i) \/ Shadow!RequestLiveShadow(i)
        PROVE  OfShadow!Next
    BY <1>5, <1>7, <1>8, <2>1 DEF OfShadow!Next
  <2>2. ASSUME NEW i \in Improvements, NEW to \in Shadow!Transitions(rows[i].status), NEW refs \in SUBSET Refs,
               NEW version \in {1} \cup {Shadow!None}, Shadow!Transition(i, to, refs, version)
        PROVE  OfShadow!Next
    <3>1. OfShadow!Transition(i, to, refs, version)  BY <1>6, <2>2
    <3>2. to \in OfShadow!Transitions(rows[i].status) /\ version \in {1} \cup {OfShadow!None}  BY <1>1
    <3>. QED  BY <3>1, <3>2 DEF OfShadow!Next
  <2>3. ASSUME NEW t \in Drafts,
               \/ \E kind \in {"candidate_patch"}, owned \in BOOLEAN : Shadow!DraftRead(t, kind, owned)
               \/ \E i \in Improvements : Shadow!DraftWrite(t, i)
               \/ Shadow!DraftFail(t)
        PROVE  OfShadow!Next
    BY <1>5, <2>3 DEF OfShadow!Next
  <2>4. ASSUME \/ Shadow!Suspend \/ Shadow!Resume
               \/ \E n \in DOMAIN shadows, decision \in {"approved", "rejected"} : Shadow!DecideShadow(n, decision)
               \/ (\E e \in Refs : Shadow!Revise(e)) \/ (\E c \in {1} : Shadow!Deprecate(c)) \/ Shadow!SetRoster
        PROVE  OfShadow!Next
    BY <1>7, <1>8, <1>9, <2>4 DEF OfShadow!Next
  <2>. QED  BY <1>10, <2>1, <2>2, <2>3, <2>4 DEF Shadow!Next
<1>11. Shadow!Init => OfShadow!Init  BY <1>1 DEF Shadow!Init, OfShadow!Init
<1>. QED  BY <1>10, <1>11

(* Their constants are as CellImprovement assumes.                         *)
LEMMA InstancesAreAssumed ==
  /\ {1} \subseteq Nat \ {0} /\ OneRubric \in [{1} -> Nat]
  /\ {} \subseteq {} /\ Refs \subseteq Refs /\ {"candidate_patch"} \subseteq {"role_card", "candidate_patch"}
  /\ Threshold \in Nat \ {0} /\ FALSE \in BOOLEAN /\ MaxShadows \in Nat /\ 3 \in Nat
<1>1. OneRubric \in [{1} -> Nat]  BY DEF OneRubric
<1>. QED  BY <1>1, ConstantsAssumption

every == <<part, vars, premises>>
PartsInv ==
  /\ part = "adoption" => IInv /\ ShadowsTyped
  /\ part = "breaker" => OfBreaker!IInv /\ OfBreaker!ShadowsTyped
  /\ part = "shadow" => OfShadow!IInv /\ OfShadow!ShadowsTyped

PartsSound ==
  /\ Grounds /\ Frozen
  /\ OfShadow!ShadowGrounds
  /\ part = "breaker" => Breaker!Trips

LEMMA PartsInit == MCInit => PartsInv
<1>. SUFFICES ASSUME MCInit PROVE PartsInv  OBVIOUS
<1>1. CASE part = "adoption" /\ Init
  BY <1>1, Initially, NoShadows DEF PartsInv
<1>2. CASE part = "breaker" /\ Breaker!Init
  BY <1>2, BreakerIsImprovement, OfBreaker!Initially, OfBreaker!NoShadows, InstancesAreAssumed DEF PartsInv
<1>3. CASE part = "shadow" /\ Shadow!Init
  BY <1>3, ShadowIsImprovement, OfShadow!Initially, OfShadow!NoShadows, InstancesAreAssumed DEF PartsInv
<1>4. CASE part = "premise"  BY <1>4 DEF PartsInv
<1>. QED  BY <1>1, <1>2, <1>3, <1>4 DEF MCInit

LEMMA PartsNext ==
  ASSUME PartsInv, [Adoptions \/ Breakers \/ Shadows \/ Premises]_every
  PROVE  PartsInv' /\ (PartsSound \/ UNCHANGED vars)
<1>1. CASE Adoptions
  <2>1. Next /\ part = "adoption" /\ part' = part  BY <1>1 DEF Adoptions
  <2>2. Sound  BY <2>1, EveryStepIsSound DEF PartsInv
  <2>3. ShadowsTyped' /\ ShadowGrounds  BY <2>1, ShadowsStep DEF PartsInv
  <2>4. OfShadow!ShadowGrounds
    BY <2>3, ConstantsAssumption DEF ShadowGrounds, OfShadow!ShadowGrounds, Last, OfShadow!Last
  <2>. QED  BY <2>1, <2>2, <2>3, <2>4 DEF PartsInv, PartsSound, Sound
<1>2. CASE Breakers
  <2>1. OfBreaker!Next /\ part = "breaker" /\ part' = part  BY <1>2, BreakerIsImprovement DEF Breakers
  <2>2. OfBreaker!Sound  BY <2>1, OfBreaker!EveryStepIsSound, InstancesAreAssumed DEF PartsInv
  <2>3. OfBreaker!ShadowsTyped' /\ OfBreaker!ShadowGrounds  BY <2>1, OfBreaker!ShadowsStep, InstancesAreAssumed DEF PartsInv
  <2>4. OfShadow!ShadowGrounds
    BY <2>3, ConstantsAssumption
    DEF OfBreaker!ShadowGrounds, OfShadow!ShadowGrounds, OfBreaker!Last, OfShadow!Last
  <2>5. Breaker!Trips
    BY <2>2
    DEF OfBreaker!Sound, OfBreaker!Trips, Breaker!Trips, OfBreaker!Enters, Breaker!Enters, OfBreaker!Streak,
        Breaker!Streak, OfBreaker!Max, Breaker!Max, OfBreaker!Open, Breaker!Open, OfBreaker!Terminal,
        Breaker!Terminal
  <2>6. Frozen /\ Grounds
    BY <2>2, RejectedAssumption
    DEF OfBreaker!Sound, OfBreaker!Frozen, OfBreaker!Grounds, OfBreaker!Enters, Frozen, Grounds, Enters
  <2>. QED  BY <2>1, <2>2, <2>3, <2>4, <2>5, <2>6 DEF PartsInv, PartsSound, OfBreaker!Sound
<1>3. CASE Shadows
  <2>1. OfShadow!Next /\ part = "shadow" /\ part' = part  BY <1>3, ShadowIsImprovement DEF Shadows
  <2>2. OfShadow!Sound  BY <2>1, OfShadow!EveryStepIsSound, InstancesAreAssumed DEF PartsInv
  <2>3. OfShadow!ShadowsTyped' /\ OfShadow!ShadowGrounds  BY <2>1, OfShadow!ShadowsStep, InstancesAreAssumed DEF PartsInv
  <2>4. Frozen /\ Grounds
    BY <2>2 DEF OfShadow!Sound, OfShadow!Frozen, OfShadow!Grounds, OfShadow!Enters, Frozen, Grounds, Enters
  <2>. QED  BY <2>1, <2>2, <2>3, <2>4 DEF PartsInv, PartsSound, OfShadow!Sound
<1>4. CASE UNCHANGED <<part, vars>>
  <2>1. /\ UNCHANGED vars /\ UNCHANGED OfBreaker!vars /\ UNCHANGED OfShadow!vars /\ part' = part
    BY <1>4 DEF vars, OfBreaker!vars, OfShadow!vars
  <2>2. part = "adoption" => IInv' /\ ShadowsTyped'
    BY <2>1, EveryStepIsSound, ShadowsStep DEF PartsInv, Sound
  <2>3. part = "breaker" => OfBreaker!IInv' /\ OfBreaker!ShadowsTyped'
    BY <2>1, OfBreaker!EveryStepIsSound, OfBreaker!ShadowsStep, InstancesAreAssumed DEF PartsInv, OfBreaker!Sound
  <2>4. part = "shadow" => OfShadow!IInv' /\ OfShadow!ShadowsTyped'
    BY <2>1, OfShadow!EveryStepIsSound, OfShadow!ShadowsStep, InstancesAreAssumed DEF PartsInv, OfShadow!Sound
  <2>. QED  BY <2>1, <2>2, <2>3, <2>4 DEF PartsInv
<1>. QED  BY <1>1, <1>2, <1>3, <1>4 DEF Premises, every

(* Whichever of the three a behaviour is of: a canary starts and a         *)
(* proposal is adopted on evidence that holds, nothing suspended changes,  *)
(* a live shadow is asked for after an approved proposal, and, where no    *)
(* process dies, the breaker leaves nothing that can move.                 *)
THEOREM DecisionsAreSound == MCSpec => StepsAreSound
<1>1. PartsInv /\ [Adoptions \/ Breakers \/ Shadows \/ Premises]_every => PartsInv'  BY PartsNext
<1>2. PartsInv /\ [Adoptions \/ Breakers \/ Shadows \/ Premises]_every =>
        [Grounds]_vars /\ [Frozen]_vars /\ [part = "breaker" => Breaker!Trips]_vars
  BY PartsNext DEF PartsSound
<1>3. PartsInv /\ [Adoptions \/ Breakers \/ Shadows \/ Premises]_every => [OfShadow!ShadowGrounds]_(Shadow!vars)
  <2>1. UNCHANGED vars => UNCHANGED Shadow!vars  BY DEF vars, Shadow!vars
  <2>. QED  BY <2>1, PartsNext DEF PartsSound
<1>4. OfShadow!ShadowGrounds =>
        ((Len(shadows') > Len(shadows) /\ Shadow!Last(shadows').kind = "live_shadow_execution_approval") =>
          LET i == Shadow!Last(shadows').of
              mine == {n \in DOMAIN shadows : shadows[n].of = i /\ shadows[n].kind = "shadow_proposal"} IN
          /\ \E n \in mine : shadows[n].status = "approved" /\ \A m \in mine : m <= n
          /\ \E e \in rows[i].content.evidence : e \in good \cap Refs)
  BY DEF OfShadow!ShadowGrounds, OfShadow!Last, Shadow!Last
<1>. QED
  BY PartsInit, <1>1, <1>2, <1>3, <1>4, PTL
  DEF MCSpec, every, StepsAreSound, EvidenceHolds, SuspendedIsFrozen, BreakerTrips, Shadow!LiveShadowIsGrounded,
      Grounds, Frozen
=============================================================================

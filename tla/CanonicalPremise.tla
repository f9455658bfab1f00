--------------------------- MODULE CanonicalPremise ---------------------------
(***************************************************************************)
(* The canonical understanding of one System and the premises of the       *)
(* interview sessions that argue about it.                                 *)
(*                                                                         *)
(* A session is pinned to the head it was created on.  A request that      *)
(* reasons passes a gate in one connection, takes a token of the premise   *)
(* in a second, calls the model with no connection, and stores a candidate *)
(* revision in one transaction that compares the token.  A developer reads *)
(* the head and a candidate from the dashboard and promotes it later.      *)
(*                                                                         *)
(* `ground' is what the code does not store: the premise a revision was    *)
(* reasoned on; `adopted' is what its audit events say a session adopted.  *)
(* Of the confirmed intent one field is modelled.                          *)
(***************************************************************************)
EXTENDS Integers, Sequences, FiniteSets, FiniteSetsExt

CONSTANTS
  Threads,        \* requests
  Values,         \* values of the intent field
  RevisionLimit,  \* UNDERSTANDING_REVISION_LIMIT, per session
  MaxSessions, MaxRevisions, MaxEdits, MaxIntents, MaxAdoptions   \* bounds

VARIABLES
  head,      \* system_understanding_head: revision (0: none) and version
  revs,      \* understanding_revision, in order of id
  sessions,  \* interview_session, in order of id
  call,      \* what each request does
  used       \* how often each bounded action happened

vars == <<head, revs, sessions, call, used>>

None == 0        \* no revision
Untracked == -1  \* no premise was recorded
Nothing == -2    \* the session has no understanding yet

Idle == [pc |-> "idle"]

Candidate(s, ground) == [session |-> s, status |-> "candidate", parent |-> None, ground |-> ground, statement |-> "none"]
Session(base, content) == [base |-> base, disposition |-> "active", result |-> None, intent |-> "none", content |-> content, adopted |-> {}]

(* There may be a session from before premises were tracked.               *)
Init ==
  /\ head = [rev |-> None, version |-> 0]
  /\ \/ sessions = <<>> /\ revs = <<>>
     \/ sessions = <<Session(Untracked, Untracked)>> /\ revs = <<Candidate(1, Untracked)>>
  /\ call = [t \in Threads |-> Idle]
  /\ used = [edits |-> 0, intents |-> 0, adoptions |-> 0]

Sessions == DOMAIN sessions
RevisionsOf(s, status) == {r \in DOMAIN revs : revs[r].session = s /\ revs[r].status \in status}
Kept == {"candidate", "canonical", "superseded"}

(* evaluate_session_premise(): the pinned revision is the head.            *)
Bug_Current(s) == sessions[s].base # Untracked
Current(s) == sessions[s].base = head.rev
Continuable(s) == Current(s) \/ sessions[s].disposition = "branched"

-----------------------------------------------------------------------------
(* Sessions                                                                *)

(* capture_session_premise(): the head is pinned, and a session without an *)
(* understanding starts from it.                                           *)
Pinned(session) == [session EXCEPT
  !.base = head.rev, !.disposition = "active",
  !.content = IF @ = Nothing /\ head.rev # None THEN head.rev ELSE @]

(* A new session has its first understanding built by a thread that passes *)
(* no gate.                                                                *)
Create(t) ==
  LET s == Pinned(Session(None, Nothing)) IN
  /\ call[t].pc = "idle" /\ Len(sessions) < MaxSessions
  /\ sessions' = Append(sessions, s)
  /\ call' = [call EXCEPT ![t] = [pc |-> "token", session |-> Len(sessions) + 1, content |-> s.content]]
  /\ UNCHANGED <<head, revs, used>>

Rebase(s) ==
  /\ Len(sessions) < MaxSessions
  /\ sessions' = Append([sessions EXCEPT ![s].disposition = "rebased"], Pinned(Session(None, Nothing)))
  /\ UNCHANGED <<head, revs, call, used>>

Branch(s) ==
  /\ sessions' = [sessions EXCEPT ![s].disposition = "branched"]
  /\ UNCHANGED <<head, revs, call, used>>

(* adopt_current_premise() looks at nothing of the session it pins again,  *)
(* and records the event session_rebased with the revision it pinned.      *)
Adopted(session) == [Pinned(session) EXCEPT !.adopted = @ \cup {head.rev}]
Adopt(s) ==
  /\ used.adoptions < MaxAdoptions /\ used' = [used EXCEPT !.adoptions = @ + 1]
  /\ sessions' = [sessions EXCEPT ![s] = Adopted(@)]
  /\ UNCHANGED <<head, revs, call>>

Decide(s) ==
  /\ used.intents < MaxIntents /\ used' = [used EXCEPT !.intents = @ + 1]
  /\ \E v \in Values \cup {"none", "not_applicable"} : sessions' = [sessions EXCEPT ![s].intent = v]
  /\ UNCHANGED <<head, revs, call>>

-----------------------------------------------------------------------------
(* Reasoning                                                               *)

Gate(t, s) ==
  /\ call[t].pc = "idle" /\ Continuable(s)
  /\ call' = [call EXCEPT ![t] = [pc |-> "token", session |-> s, content |-> sessions[s].content]]
  /\ UNCHANGED <<head, revs, sessions, used>>

TakeToken(t) ==
  /\ call[t].pc = "token"
  /\ LET s == call[t].session IN
     call' = [call EXCEPT ![t] = [pc |-> "reason", session |-> s, content |-> @.content, head |-> head,
                                  base |-> sessions[s].base, disposition |-> sessions[s].disposition]]
  /\ UNCHANGED <<head, revs, sessions, used>>

Bug_Unmoved(c) == c.disposition = sessions[c.session].disposition
Unmoved(c) ==
  /\ c.base = sessions[c.session].base /\ c.disposition = sessions[c.session].disposition
  /\ c.head = head

(* PROTECTED_REVISION_SQL and the retention of the newest of a session.    *)
Bug_Protected(r, all) == r = head.rev
Protected(r, all) ==
  \/ r = head.rev
  \/ all[r].status \in {"canonical", "superseded"}
  \/ \E s \in Sessions : r \in {sessions[s].base, sessions[s].result}
Newest(s, all) == {r \in DOMAIN all : all[r].session = s /\ all[r].status \in Kept
                     /\ Cardinality({q \in r + 1..Len(all) : all[q].session = s /\ all[q].status \in Kept}) < RevisionLimit}
Swept(s, all) == [r \in DOMAIN all |->
  IF all[r].session = s /\ r \notin Newest(s, all) /\ ~Protected(r, all)
  THEN [all[r] EXCEPT !.status = "pruned"] ELSE all[r]]

(* The understanding the session had before its first revision becomes a   *)
(* revision of its own, then the new one follows.                          *)
Seed(c) == IF RevisionsOf(c.session, Kept) = {} /\ c.content # Nothing
           THEN <<Candidate(c.session, c.content)>> ELSE <<>>

Store(t) ==
  LET c == call[t]
      all == revs \o Seed(c) \o <<Candidate(c.session, c.base)>> IN
  /\ c.pc = "reason" /\ Unmoved(c) /\ Len(all) <= MaxRevisions
  /\ revs' = Swept(c.session, all)
  /\ sessions' = [sessions EXCEPT ![c.session].content = c.base]
  /\ call' = [call EXCEPT ![t] = Idle]
  /\ UNCHANGED <<head, used>>

(* The model failed, or the premise moved: nothing is stored.              *)
Fail(t) ==
  /\ call[t].pc = "reason"
  /\ call' = [call EXCEPT ![t] = Idle]
  /\ UNCHANGED <<head, revs, sessions, used>>

(* _apply_claim_edits(): a correction of the newest revision, whatever the *)
(* premise.                                                                *)
Edit(s) ==
  /\ RevisionsOf(s, Kept) # {} /\ Len(revs) < MaxRevisions
  /\ used.edits < MaxEdits /\ used' = [used EXCEPT !.edits = @ + 1]
  /\ revs' = Append(revs, Candidate(s, revs[Max(RevisionsOf(s, Kept))].ground))
  /\ UNCHANGED <<head, sessions, call>>

-----------------------------------------------------------------------------
(* Promotion                                                               *)

ReadPremise(t, s) ==
  /\ call[t].pc = "idle" /\ RevisionsOf(s, {"candidate"}) # {}
  /\ call' = [call EXCEPT ![t] = [pc |-> "promote", session |-> s, head |-> head, rev |-> Max(RevisionsOf(s, {"candidate"}))]]
  /\ UNCHANGED <<head, revs, sessions, used>>

(* merge_intent_items(): only a confirmed value and a retraction of the    *)
(* promoting session change what is inherited from the head.               *)
Decided(s) == sessions[s].intent \in Values \cup {"not_applicable"}
Bug_Decision(s) == sessions[s].intent
Decision(s) == IF sessions[s].intent \in Values THEN sessions[s].intent ELSE "none"
Statement(r) == IF r \in DOMAIN revs THEN revs[r].statement ELSE "none"
Bug_Merged(s) == Decision(s)
Merged(s) == IF Decided(s) THEN Decision(s) ELSE Statement(head.rev)

Promotable(c) == Current(c.session) /\ revs[c.rev].status = "candidate" /\ c.head = head

Promote(t) ==
  LET c == call[t] IN
  /\ c.pc = "promote" /\ Promotable(c)
  /\ revs' = [r \in DOMAIN revs |->
       CASE r = c.rev -> [revs[r] EXCEPT !.status = "canonical", !.parent = head.rev, !.statement = Merged(c.session)]
         [] r = head.rev -> [revs[r] EXCEPT !.status = "superseded"]
         [] OTHER -> revs[r]]
  /\ head' = [rev |-> c.rev, version |-> head.version + 1]
  /\ sessions' = [sessions EXCEPT ![c.session].result = c.rev]
  /\ call' = [call EXCEPT ![t] = Idle]
  /\ UNCHANGED used

(* PromotionConflict: rolled back.                                         *)
Refuse(t) ==
  /\ call[t].pc = "promote" /\ ~Promotable(call[t])
  /\ call' = [call EXCEPT ![t] = Idle]
  /\ UNCHANGED <<head, revs, sessions, used>>

Next ==
  \/ \E t \in Threads : Create(t) \/ TakeToken(t) \/ Store(t) \/ Fail(t) \/ Promote(t) \/ Refuse(t)
  \/ \E t \in Threads, s \in Sessions : Gate(t, s) \/ ReadPremise(t, s)
  \/ \E s \in Sessions : Rebase(s) \/ Branch(s) \/ Adopt(s) \/ Decide(s) \/ Edit(s)

Spec == Init /\ [][Next]_vars

-----------------------------------------------------------------------------
Promoted == {r \in DOMAIN revs : revs[r].status \in {"canonical", "superseded"}}

(* Every variable has its type.                                            *)
TypeOK ==
  LET Ids == {None, Untracked} \cup DOMAIN revs
      Statements == Values \cup {"none"} IN
  /\ head \in [rev : {None} \cup DOMAIN revs, version : 0..Len(revs)]
  /\ \A r \in DOMAIN revs : revs[r] \in [session : Sessions, status : Kept \cup {"pruned"}, parent : Ids, ground : Ids, statement : Statements]
  /\ \A s \in Sessions : sessions[s] \in
       [base : Ids, disposition : {"active", "rebased", "branched"}, result : Ids,
        intent : Statements \cup {"not_applicable"}, content : Ids \cup {Nothing}, adopted : SUBSET Ids]
  /\ \A t \in Threads : call[t].pc \in {"idle", "token", "reason", "promote"}

(* What was promoted is one chain that ends in the head and has as many    *)
(* links as its version; retention removes no link of it, nor anything a   *)
(* session is pinned to.                                                   *)
LineageIsOneChain ==
  /\ {r \in Promoted : revs[r].status = "canonical"} = {head.rev} \ {None}
  /\ Cardinality(Promoted) = head.version
  /\ \A r \in Promoted : revs[r].parent \in (Promoted \ {r}) \cup {None}
  /\ \A q, r \in Promoted : revs[q].parent = revs[r].parent => q = r
  /\ \A s \in Sessions : {sessions[s].base, sessions[s].result} \subseteq Promoted \cup {None, Untracked}

(* "Its candidate can still never be promoted": what was promoted had been *)
(* reasoned on the revision it replaces, but for what a legacy session     *)
(* brought with it.  False of the code, where any session can adopt the    *)
(* head.                                                                   *)
PromotedOnHead == \A r \in Promoted : revs[r].ground \in {revs[r].parent, Untracked}

(* What was promoted had been reasoned on the revision it replaces, or its *)
(* session is on record for having adopted that revision.                  *)
PromotedOnRecord == \A r \in Promoted :
  revs[r].ground = revs[r].parent \/ revs[r].parent \in sessions[revs[r].session].adopted

(* What the runs check of the above in every state.                        *)
PremiseInv == TypeOK /\ LineageIsOneChain /\ PromotedOnRecord

(* What a promotion publishes about the intent is what its session showed: *)
(* its own decision, else that of the premise it stands on.                *)
Shown(s) == IF Decided(s) THEN Decision(s) ELSE Statement(sessions[s].base)
PublishesWhatItShowed ==
  [][head' # head => revs'[head'.rev].statement = Shown(revs[head'.rev].session)]_vars

(* What a run stores was reasoned on the premise its session has then; and *)
(* a run that reasoned on the head stores only while it is the head.       *)
StoredOnItsPremise ==
  [][\A t \in Threads : call[t].pc = "reason" /\ Len(revs') > Len(revs) /\ call'[t] # call[t] =>
       LET new == revs'[Len(revs')] IN
       /\ new.ground = sessions[call[t].session].base
       /\ new.ground = call[t].head.rev => new.ground = head.rev]_vars

=============================================================================

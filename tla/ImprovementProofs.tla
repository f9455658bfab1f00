-------------------------- MODULE ImprovementProofs --------------------------
(***************************************************************************)
(* Proofs about CellImprovement, for any improvements, cards, evidence and *)
(* threshold.                                                              *)
(*                                                                         *)
(* That an adopted improvement is the approved one is no inductive fact:   *)
(* adoption looks at the approvals and not at what they were given to.  It *)
(* is one because every approval an improvement has is of its present      *)
(* content (RowOK), also of those that are not adopted and of suspended    *)
(* ones.                                                                   *)
(***************************************************************************)
EXTENDS CellImprovement, SequenceTheorems, FiniteSetTheorems, WellFoundedInduction, TLAPS

Statuses == Terminal \cup {"none", "observed", "proposed", "canary_ready", "canary_running", "blocked"}
OnEvidence == {"canary_ready", "canary_running", "blocked", "adopted"}
CardChanges == [previous : Cards, new : Cards]
Rows ==
  [status : Statuses, kind : Kinds \cup {"none"}, complete : BOOLEAN, card : Cards \cup {None}, owned : BOOLEAN,
   content : Contents, parent : SUBSET Contents, human : SUBSET Contents, suspended : BOOLEAN,
   event : SUBSET CardChanges]

RowOK(row) ==
  /\ row \in Rows
  /\ row.kind = "role_card" => row.card \in Cards
  /\ row.parent \cup row.human \subseteq {row.content}
  /\ row.event # {} => row.status = "adopted"
  /\ row.status = "adopted" => row.parent # {} /\ row.human # {}
  /\ row.status \in {"none", "adopted"} => ~row.suspended
  /\ row.status \in OnEvidence => row.content.evidence # {}

Typed ==
  /\ pin \in Cards /\ good \subseteq Refs /\ inactive \subseteq Cards /\ rostered \in BOOLEAN
  /\ outcomes \in Seq(Terminal)
  /\ rows = [i \in Improvements |-> rows[i]]
  /\ draft = [t \in Drafts |-> draft[t]]

IInv ==
  /\ Typed
  /\ \A i \in Improvements : RowOK(rows[i])
  /\ \A t \in Drafts : \A row \in draft[t] : RowOK(row) /\ row.status = "observed"

-----------------------------------------------------------------------------
(* What the handlers make of a row.                                        *)

LEMMA RowIsFunction ==
  ASSUME NEW row \in Rows
  PROVE  row = [status |-> row.status, kind |-> row.kind, complete |-> row.complete, card |-> row.card,
                owned |-> row.owned, content |-> row.content, parent |-> row.parent,
                human |-> row.human, suspended |-> row.suspended, event |-> row.event]
BY DEF Rows

LEMMA AbsentIsOK == RowOK(Absent)
<1>1. [version |-> None, evidence |-> {}] \in Contents  BY DEF Contents
<1>2. Absent \in Rows  BY <1>1 DEF Rows, Absent, Statuses
<1>. QED  BY <1>2 DEF RowOK, Absent, OnEvidence

LEMMA CreatedIsOK ==
  ASSUME NEW kind \in Kinds, NEW complete \in BOOLEAN, NEW card \in Cards, NEW owned \in BOOLEAN
  PROVE  RowOK(Row(kind, complete, card, owned)) /\ Row(kind, complete, card, owned).status = "observed"
<1>1. [version |-> None, evidence |-> {}] \in Contents  BY DEF Contents
<1>2. Row(kind, complete, card, owned) \in Rows  BY <1>1 DEF Rows, Row, Absent, Statuses
<1>3. Row(kind, complete, card, owned).kind = "role_card" => Row(kind, complete, card, owned).card = card
  BY DEF Row, Absent
<1>. QED  BY <1>2, <1>3 DEF RowOK, Row, Absent, OnEvidence

LEMMA VoidedIsOK ==
  ASSUME NEW row, RowOK(row), row.status # "adopted"
  PROVE  RowOK(Voided(row)) /\ Voided(row).status = row.status /\ Voided(row).suspended = row.suspended
BY DEF RowOK, Rows, Voided

LEMMA ApprovedIsOK ==
  ASSUME NEW row, RowOK(row)
  PROVE  RowOK([row EXCEPT !.parent = {row.content}]) /\ RowOK([row EXCEPT !.human = {row.content}])
BY DEF RowOK, Rows

LEMMA HaltedIsOK ==
  ASSUME NEW row, RowOK(row), NEW new, new = [row EXCEPT !.suspended = TRUE]
  PROVE  /\ Open(row) => RowOK(new)
         /\ row.suspended => new = row
         /\ new.suspended /\ new.status = row.status
<1>1. Open(row) => RowOK(new)  BY DEF RowOK, Rows, Open, Terminal
<1>2. row.suspended => new = row  BY RowIsFunction DEF RowOK, Rows
<1>3. new.suspended /\ new.status = row.status  BY DEF RowOK, Rows
<1>. QED  BY <1>1, <1>2, <1>3

LEMMA ResumedIsOK ==
  ASSUME NEW row, RowOK(row), NEW new, new = [row EXCEPT !.suspended = FALSE]
  PROVE  RowOK(new) /\ new.status = row.status
BY DEF RowOK, Rows

(* Where the transitions lead, and where from.                             *)
LEMMA Ways ==
  ASSUME NEW status, NEW to \in Transitions(status)
  PROVE  /\ status # "adopted" /\ status # "none" /\ to \in Statuses \ {"none", "observed"}
         /\ to \in {"canary_running", "blocked", "adopted"} => status \in OnEvidence
BY DEF Transitions, Statuses, Terminal, OnEvidence

(* A transition that is not an adoption, to content with evidence where    *)
(* the status needs it.                                                    *)
LEMMA MovedIsOK ==
  ASSUME NEW row, RowOK(row), NEW to \in Transitions(row.status), ~row.suspended, NEW content \in Contents,
         to \in OnEvidence => content.evidence # {},
         to = "adopted" => row.parent # {} /\ row.human # {} /\ ~Voids(row, content)
  PROVE  /\ RowOK(Moved(row, to, content))
         /\ Moved(row, to, content).status = to /\ Moved(row, to, content).content = content
         /\ Moved(row, to, content).card = row.card /\ Moved(row, to, content).kind = row.kind
         /\ ~Moved(row, to, content).suspended
<1>1. row.status # "adopted" /\ to \in Statuses \ {"none"}  BY Ways
<1>2. CASE Voids(row, content)
  BY <1>1, <1>2 DEF Moved, Voided, RowOK, Rows
<1>3. CASE ~Voids(row, content)
  <2>1. row.parent \cup row.human \subseteq {content}  BY <1>3 DEF Voids, RowOK
  <2>. QED  BY <1>1, <1>3, <2>1 DEF Moved, RowOK, Rows
<1>. QED  BY <1>2, <1>3

LEMMA ContentIsTyped ==
  ASSUME NEW row, RowOK(row), NEW refs \in SUBSET Refs, NEW version \in Cards \cup {None}
  PROVE  [version |-> IF version = None THEN row.content.version ELSE version,
          evidence |-> row.content.evidence \cup refs] \in Contents
BY DEF RowOK, Rows, Contents

-----------------------------------------------------------------------------
(* What every step keeps, and what it may do to a row.                     *)

Frozen == \A i \in Improvements :
  rows[i].suspended => rows'[i] \in {rows[i], [rows[i] EXCEPT !.suspended = FALSE]}
Grounds == \A i \in Improvements :
  Enters(i, "canary_running") \/ Enters(i, "adopted")
    => rows'[i].content.evidence # {} /\ rows'[i].content.evidence \subseteq good
Sound == IInv' /\ Frozen /\ Grounds /\ (~MayDie => Trips)

LEMMA Initially == Init => IInv
<1>1. <<>> \in Seq(Terminal)  OBVIOUS
<1>. QED  BY <1>1, AbsentIsOK DEF Init, IInv, Typed

(* A step that leaves the rows alone.                                      *)
LEMMA NoRowIsSound ==
  ASSUME IInv, Typed', UNCHANGED rows, \A t \in Drafts : \A row \in draft'[t] : RowOK(row) /\ row.status = "observed"
  PROVE  Sound
BY DEF Sound, IInv, Frozen, Grounds, Trips, Enters

(* A step that changes one row, which is not rejected by it.               *)
LEMMA OneRowIsSound ==
  ASSUME IInv, Typed', NEW i \in Improvements, NEW row, RowOK(row), rows' = [rows EXCEPT ![i] = row],
         \A t \in Drafts : draft'[t] \subseteq draft[t],
         rows[i].suspended => row = rows[i],
         row.status # rows[i].status => row.status # "rejected",
         row.status # rows[i].status /\ row.status \in {"canary_running", "adopted"}
           => row.content.evidence \subseteq good
  PROVE  Sound
<1>1. rows'[i] = row /\ \A j \in Improvements : j # i => rows'[j] = rows[j]  BY DEF IInv, Typed
<1>2. IInv'  BY <1>1 DEF IInv
<1>3. Frozen  BY <1>1 DEF Frozen
<1>4. Grounds  BY <1>1 DEF Grounds, Enters, RowOK, OnEvidence
<1>5. Trips  BY <1>1 DEF Trips, Enters
<1>. QED  BY <1>2, <1>3, <1>4, <1>5 DEF Sound

(* A suspension or a resumption: no status changes.                        *)
LEMMA HaltIsSound ==
  ASSUME IInv, Suspend \/ Resume
  PROVE  Sound
<1>1. Typed'  BY DEF IInv, Typed, Suspend, Suspended, Resume, world
<1>2. ASSUME NEW i \in Improvements
      PROVE  /\ RowOK(rows'[i]) /\ rows'[i].status = rows[i].status
             /\ rows[i].suspended => rows'[i] \in {rows[i], [rows[i] EXCEPT !.suspended = FALSE]}
  <2>. RowOK(rows[i])  BY DEF IInv
  <2>1. CASE rows'[i] = [rows[i] EXCEPT !.suspended = FALSE]  BY <2>1, ResumedIsOK
  <2>2. CASE rows'[i] = rows[i]  BY <2>2
  <2>3. CASE Open(rows[i]) /\ rows'[i] = [rows[i] EXCEPT !.suspended = TRUE]
    BY <2>3, HaltedIsOK
  <2>. QED  BY <2>1, <2>2, <2>3 DEF Suspend, Suspended, Resume
<1>3. draft' = draft  BY DEF Suspend, Resume
<1>4. IInv'  BY <1>1, <1>2, <1>3 DEF IInv
<1>. QED  BY <1>2, <1>4 DEF Sound, Frozen, Grounds, Trips, Enters

LEMMA CreateIsSound ==
  ASSUME IInv, NEW i \in Improvements, NEW kind \in Kinds, NEW complete \in BOOLEAN, NEW owned \in BOOLEAN,
         Create(i, kind, complete, owned)
  PROVE  Sound
<1>1. Typed'  BY DEF IInv, Typed, Create, world
<1>2. RowOK(Row(kind, complete, pin, owned)) /\ Row(kind, complete, pin, owned).status = "observed"
  BY CreatedIsOK DEF IInv, Typed
<1>3. ~rows[i].suspended  BY DEF Create, IInv, RowOK
<1>. QED  BY <1>1, <1>2, <1>3, OneRowIsSound DEF Create

LEMMA DraftIsSound ==
  ASSUME IInv, NEW t \in Drafts, DraftFail(t) \/ \E kind \in Kinds, owned \in BOOLEAN : DraftRead(t, kind, owned)
  PROVE  Sound
<1>1. Typed'  BY DEF IInv, Typed, DraftFail, DraftRead, world
<1>2. ASSUME NEW kind \in Kinds, NEW owned \in BOOLEAN
      PROVE  RowOK(Row(kind, TRUE, pin, owned)) /\ Row(kind, TRUE, pin, owned).status = "observed"
  BY CreatedIsOK DEF IInv, Typed
<1>3. UNCHANGED rows  BY DEF DraftFail, DraftRead
<1>4. \A u \in Drafts : \A row \in draft'[u] : RowOK(row) /\ row.status = "observed"
  <2>1. CASE DraftFail(t)  BY <2>1 DEF DraftFail, IInv, Typed
  <2>2. ASSUME NEW kind \in Kinds, NEW owned \in BOOLEAN, DraftRead(t, kind, owned)
        PROVE  \A u \in Drafts : \A row \in draft'[u] : RowOK(row) /\ row.status = "observed"
    <3>1. \A u \in Drafts : \A row \in draft'[u] : row \in draft[u] \/ row = Row(kind, TRUE, pin, owned)
      BY <2>2 DEF DraftRead, IInv, Typed
    <3>. QED  BY <1>2, <3>1 DEF IInv
  <2>. QED  BY <2>1, <2>2
<1>. QED  BY <1>1, <1>3, <1>4, NoRowIsSound

LEMMA DraftWriteIsSound ==
  ASSUME IInv, NEW t \in Drafts, NEW i \in Improvements, DraftWrite(t, i)
  PROVE  Sound
<1>1. Typed'  BY DEF IInv, Typed, DraftWrite, world
<1>2. PICK row \in draft[t] : rows' = [rows EXCEPT ![i] = row]  BY DEF DraftWrite
<1>3. RowOK(row) /\ row.status = "observed"  BY DEF IInv
<1>4. ~rows[i].suspended  BY DEF DraftWrite, IInv, RowOK
<1>5. \A u \in Drafts : draft'[u] \subseteq draft[u]  BY DEF DraftWrite, IInv, Typed
<1>. QED  BY <1>1, <1>2, <1>3, <1>4, <1>5, OneRowIsSound

LEMMA ApproveIsSound ==
  ASSUME IInv, NEW i \in Improvements, ParentApprove(i) \/ HumanApprove(i)
  PROVE  Sound
<1>1. Typed'  BY DEF IInv, Typed, ParentApprove, HumanApprove, world
<1>2. RowOK(rows[i]) /\ ~rows[i].suspended  BY DEF IInv, ParentApprove, HumanApprove, Approvable
<1>3. CASE ParentApprove(i)
  <2>. DEFINE row == [rows[i] EXCEPT !.parent = {rows[i].content}]
  <2>1. RowOK(row) /\ row.status = rows[i].status  BY <1>2, ApprovedIsOK DEF RowOK, Rows
  <2>2. rows' = [rows EXCEPT ![i] = row] /\ draft' = draft  BY <1>3 DEF ParentApprove
  <2>. HIDE DEF row
  <2>. QED  BY <1>1, <1>2, <2>1, <2>2, OneRowIsSound
<1>4. CASE HumanApprove(i)
  <2>. DEFINE row == [rows[i] EXCEPT !.human = {rows[i].content}]
  <2>1. RowOK(row) /\ row.status = rows[i].status  BY <1>2, ApprovedIsOK DEF RowOK, Rows
  <2>2. rows' = [rows EXCEPT ![i] = row] /\ draft' = draft  BY <1>4 DEF HumanApprove
  <2>. HIDE DEF row
  <2>. QED  BY <1>1, <1>2, <2>1, <2>2, OneRowIsSound
<1>. QED  BY <1>3, <1>4

(* A rejection, and the suspension that follows when it completes a streak.*)
LEMMA RejectIsSound ==
  ASSUME IInv, NEW i \in Improvements, NEW content \in Contents, ~rows[i].suspended,
         "rejected" \in Transitions(rows[i].status), Reject(i, content), UNCHANGED <<shadows, draft, world>>
  PROVE  Sound
<1>. DEFINE row == Moved(rows[i], "rejected", content)
            all == [rows EXCEPT ![i] = row]
<1>1. RowOK(row) /\ row.status = "rejected" /\ ~row.suspended
  BY MovedIsOK DEF IInv, OnEvidence
<1>2. rows' = all \/ rows' = Suspended(all)  BY DEF Reject
<1>3. ~MayDie /\ Streak(outcomes') >= Threshold => rows' = Suspended(all)  BY DEF Reject
<1>. HIDE DEF row
<1>4. all[i] = row /\ \A j \in Improvements : (j # i => all[j] = rows[j]) /\ RowOK(all[j])
  BY <1>1 DEF IInv, Typed
<1>5. all = [j \in Improvements |-> all[j]]  BY DEF IInv, Typed
<1>. HIDE DEF all
<1>6. ASSUME NEW j \in Improvements
      PROVE  /\ RowOK(rows'[j]) /\ rows'[j].status = all[j].status
             /\ all[j].suspended => rows'[j] = all[j]
             /\ rows' = Suspended(all) => (Open(rows'[j]) => rows'[j].suspended)
  <2>. RowOK(all[j])  BY <1>4
  <2>1. CASE rows'[j] = all[j] /\ rows' # Suspended(all)  BY <2>1
  <2>2. CASE Open(all[j]) /\ rows'[j] = [all[j] EXCEPT !.suspended = TRUE]
    BY <2>2, HaltedIsOK
  <2>3. CASE ~Open(all[j]) /\ rows'[j] = all[j]  BY <2>3
  <2>. QED  BY <1>2, <2>1, <2>2, <2>3 DEF Suspended
<1>7. Typed'
  <2>1. outcomes' \in Seq(Terminal)  BY DEF Reject, IInv, Typed, Terminal
  <2>2. rows' = [j \in Improvements |-> rows'[j]]  BY <1>2, <1>5 DEF Suspended
  <2>. QED  BY <2>1, <2>2 DEF Reject, IInv, Typed, world
<1>8. IInv'  BY <1>6, <1>7 DEF IInv
<1>9. Frozen  BY <1>4, <1>6 DEF Frozen
<1>10. Grounds  BY <1>1, <1>4, <1>6 DEF Grounds, Enters
<1>11. ~MayDie => Trips
  BY <1>1, <1>3, <1>4, <1>6 DEF Trips, Enters
<1>. QED  BY <1>8, <1>9, <1>10, <1>11 DEF Sound

LEMMA TransitionIsSound ==
  ASSUME IInv, NEW i \in Improvements, NEW to \in Transitions(rows[i].status), NEW refs \in SUBSET Refs,
         NEW version \in Cards \cup {None}, Transition(i, to, refs, version)
  PROVE  Sound
<1>. DEFINE row == rows[i]
            content == [version |-> IF version = None THEN row.content.version ELSE version,
                        evidence |-> row.content.evidence \cup refs]
<1>1. RowOK(row) /\ ~row.suspended /\ content \in Contents
  BY ContentIsTyped DEF IInv, Transition
<1>2. to \in OnEvidence => row.status \in OnEvidence \/ to = "canary_ready"  BY Ways DEF OnEvidence
<1>3. row.status \in OnEvidence => content.evidence # {}  BY <1>1 DEF RowOK
<1>4. row.status # "adopted"  BY Ways
<1>5. Accepts(row, to, content) => (to \in OnEvidence => content.evidence # {})
  BY <1>2, <1>3 DEF Accepts, Valid
<1>6. Accepts(row, to, content) /\ to \in {"canary_running", "adopted"} => content.evidence \subseteq good
  BY DEF Accepts, Valid
<1>. DEFINE new == Moved(row, to, content)
<1>7. CASE ~Accepts(row, to, content) /\ Voids(row, content) /\ Refuse(i, content) /\ UNCHANGED <<shadows, draft, world>>
  <2>1. Typed'  BY <1>7 DEF Refuse, IInv, Typed, world
  <2>2. RowOK(Voided(row)) /\ Voided(row).status = row.status  BY <1>1, <1>4, VoidedIsOK
  <2>3. rows' = [rows EXCEPT ![i] = Voided(row)]  BY <1>7 DEF Refuse
  <2>. QED  BY <1>1, <1>7, <2>1, <2>2, <2>3, OneRowIsSound
<1>8. CASE Accepts(row, to, content) /\ to \notin Terminal /\ Step(i, to, content) /\ UNCHANGED <<shadows, draft, world>>
  <2>1. Typed'  BY <1>8 DEF Step, IInv, Typed, world
  <2>2. to # "adopted" /\ to # "rejected"  BY <1>8 DEF Terminal
  <2>3. RowOK(new) /\ new.status = to /\ new.content = content  BY <1>1, <1>5, <1>8, <2>2, MovedIsOK
  <2>4. rows' = [rows EXCEPT ![i] = new]  BY <1>8 DEF Step
  <2>. HIDE DEF new, content
  <2>. QED  BY <1>1, <1>6, <1>8, <2>1, <2>2, <2>3, <2>4, OneRowIsSound
<1>9. CASE Accepts(row, to, content) /\ to = "adopted" /\ Adopt(i, content) /\ UNCHANGED <<shadows, draft, world>>
  <2>. DEFINE event == IF new.kind = "role_card" THEN {[previous |-> new.card, new |-> content.version]} ELSE {}
              adopted == [new EXCEPT !.event = event]
  <2>1. Adoptable(row, content)  BY <1>9 DEF Accepts
  <2>2. RowOK(new) /\ new.status = to /\ new.content = content /\ new.kind = row.kind /\ new.card = row.card
    BY <1>1, <1>5, <1>9, <2>1, MovedIsOK DEF Adoptable
  <2>3. row.kind = "role_card" => content.version \in Cards /\ row.card \in Cards
    BY <1>1, <2>1 DEF Adoptable, Contents, RowOK
  <2>4. event \subseteq CardChanges  BY <2>2, <2>3 DEF CardChanges
  <2>. HIDE DEF event, content
  <2>5. RowOK(adopted) /\ adopted.status = "adopted" /\ adopted.content = content
    <3>. HIDE DEF new
    <3>. QED  BY <1>9, <2>2, <2>4 DEF RowOK, Rows
  <2>6. rows' = [rows EXCEPT ![i] = adopted] /\ outcomes' = Append(outcomes, "adopted")
    BY <1>9 DEF Adopt, event
  <2>7. pin' = IF new.kind = "role_card" THEN content.version ELSE pin
    BY <1>9 DEF Adopt
  <2>8. pin' \in Cards  BY <2>2, <2>3, <2>7 DEF IInv, Typed
  <2>9. Typed'
    <3>1. outcomes' \in Seq(Terminal)  BY <2>6 DEF IInv, Typed, Terminal
    <3>2. rows' = [j \in Improvements |-> rows'[j]]  BY <2>6 DEF IInv, Typed
    <3>. QED  BY <1>9, <2>8, <3>1, <3>2 DEF IInv, Typed, world
  <2>. HIDE DEF adopted
  <2>. QED  BY <1>1, <1>6, <1>9, <2>5, <2>6, <2>9, OneRowIsSound
<1>10. CASE to = "rejected" /\ Reject(i, content) /\ UNCHANGED <<shadows, draft, world>>
  BY <1>1, <1>10, RejectIsSound
<1>. QED  BY <1>7, <1>8, <1>9, <1>10 DEF Transition

LEMMA RollbackIsSound ==
  ASSUME IInv, NEW i \in Improvements, Rollback(i)
  PROVE  Sound
<1>1. \A e \in rows[i].event : e.previous \in Cards  BY DEF IInv, RowOK, Rows, CardChanges
<1>2. Typed'  BY <1>1 DEF Rollback, IInv, Typed, world
<1>. QED  BY <1>2, NoRowIsSound DEF Rollback, IInv

LEMMA ElsewhereIsSound ==
  ASSUME IInv,
         \/ \E i \in Improvements : ProposeShadow(i) \/ RequestLiveShadow(i)
         \/ \E n \in DOMAIN shadows, d \in {"approved", "rejected"} : DecideShadow(n, d)
         \/ (\E e \in Refs : Revise(e)) \/ (\E c \in Cards : Deprecate(c)) \/ SetRoster
         \/ UNCHANGED vars
  PROVE  Sound
<1>1. Typed'
  BY DEF IInv, Typed, ProposeShadow, RequestLiveShadow, DecideShadow, Revise, Deprecate, SetRoster, Elsewhere,
         world, vars
<1>2. UNCHANGED <<rows, draft>>
  BY DEF ProposeShadow, RequestLiveShadow, DecideShadow, Revise, Deprecate, SetRoster, Elsewhere, vars, world
<1>. QED  BY <1>1, <1>2, NoRowIsSound DEF IInv

LEMMA EveryStepIsSound == IInv /\ [Next]_vars => Sound
<1>. SUFFICES ASSUME IInv, [Next]_vars PROVE Sound  OBVIOUS
<1>1. ASSUME NEW i \in Improvements,
             \/ \E kind \in Kinds, complete, owned \in BOOLEAN : Create(i, kind, complete, owned)
             \/ \E to \in Transitions(rows[i].status), refs \in SUBSET Refs, version \in Cards \cup {None} :
                  Transition(i, to, refs, version)
             \/ ParentApprove(i) \/ HumanApprove(i) \/ Rollback(i)
             \/ ProposeShadow(i) \/ RequestLiveShadow(i)
      PROVE  Sound
  BY <1>1, CreateIsSound, TransitionIsSound, ApproveIsSound, RollbackIsSound, ElsewhereIsSound
<1>2. ASSUME NEW t \in Drafts,
             \/ \E kind \in Kinds, owned \in BOOLEAN : DraftRead(t, kind, owned)
             \/ \E i \in Improvements : DraftWrite(t, i)
             \/ DraftFail(t)
      PROVE  Sound
  BY <1>2, DraftIsSound, DraftWriteIsSound
<1>3. CASE Suspend \/ Resume  BY <1>3, HaltIsSound
<1>. QED  BY <1>1, <1>2, <1>3, ElsewhereIsSound DEF Next

(* What the invariant of the runs says follows.                            *)
LEMMA InvariantFollows == IInv => ImprovementInv
<1>. SUFFICES ASSUME IInv PROVE TypeOK /\ AdoptedAsApproved  BY DEF ImprovementInv
<1>1. TypeOK
  <2>. SUFFICES ASSUME NEW i \in Improvements
                PROVE  LET row == rows[i] IN
                       /\ row.status \in Statuses
                       /\ row.content \in Contents /\ row.parent \cup row.human \subseteq Contents
                       /\ row.card \in Cards \cup {None} /\ (row.kind = "role_card" => row.card \in Cards)
                       /\ row.event # {} => row.status = "adopted"
                       /\ row.status = "adopted" => ~row.suspended
    BY DEF TypeOK, IInv, Typed, Statuses
  <2>. QED  BY DEF IInv, RowOK, Rows
<1>2. AdoptedAsApproved  BY DEF AdoptedAsApproved, IInv, RowOK
<1>. QED  BY <1>1, <1>2

(* What a Cell adopts is what the parent and a human approved: the same    *)
(* version and the same evidence, whatever was proposed, refused, suspended*)
(* or drafted in between.                                                  *)
THEOREM AdoptsWhatWasApproved == Spec => []ImprovementInv
<1>1. IInv /\ [Next]_vars => IInv'  BY EveryStepIsSound DEF Sound
<1>. QED  BY Initially, <1>1, InvariantFollows, PTL DEF Spec

-----------------------------------------------------------------------------
(* Shadows                                                                 *)

ShadowRows ==
  [kind : {"shadow_proposal", "live_shadow_execution_approval"}, of : Improvements,
   status : {"proposed", "approved", "rejected"}]
ShadowsTyped == shadows \in Seq(ShadowRows)

ShadowGrounds ==
  (Len(shadows') > Len(shadows) /\ Last(shadows').kind = "live_shadow_execution_approval") =>
    LET i == Last(shadows').of
        mine == {n \in DOMAIN shadows : shadows[n].of = i /\ shadows[n].kind = "shadow_proposal"} IN
    /\ \E n \in mine : shadows[n].status = "approved" /\ \A m \in mine : m <= n
    /\ \E e \in rows[i].content.evidence : e \in good \cap Replays

LEMMA NoShadows == Init => ShadowsTyped
BY EmptySeq DEF Init, ShadowsTyped

LEMMA GreatestOf ==
  ASSUME NEW n \in Nat, NEW S \in SUBSET (1..n), S # {}
  PROVE  Max(S) \in S /\ \A x \in S : x <= Max(S)
<1>. DEFINE T == {n - x : x \in S}
<1>1. T \in SUBSET Nat /\ T # {}
  <2>1. \A x \in S : n - x \in Nat  OBVIOUS
  <2>2. QED  BY <2>1, Zenon
<1>2. PICK y \in T : \A z \in T : ~(<<z, y>> \in OpToRel(<, Nat))
  <2>. HIDE DEF T
  <2>. QED  BY <1>1, NatLessThanWellFounded, WFMin
<1>3. PICK m \in S : y = n - m  BY <1>2, Zenon
<1>4. ASSUME NEW x \in S PROVE m >= x
  <2>1. n - x \in T /\ n - x \in Nat /\ y \in Nat  BY <1>3
  <2>2. n - x < y => <<n - x, y>> \in {ss \in Nat \X Nat : ss[1] < ss[2]}
    <3>1. <<n - x, y>> \in Nat \X Nat /\ <<n - x, y>>[1] = n - x /\ <<n - x, y>>[2] = y  BY <2>1
    <3>2. QED  BY <3>1
  <2>3. ~(n - x < y)  BY <1>2, <2>1, <2>2 DEF OpToRel
  <2>4. QED  BY <1>3, <2>3
<1>5. QED  BY <1>3, <1>4 DEF Max

LEMMA AskedIsLast ==
  ASSUME ShadowsTyped, NEW i \in Improvements,
         NEW kind \in {"shadow_proposal", "live_shadow_execution_approval"}, Ask(kind, i)
  PROVE  ShadowsTyped' /\ Last(shadows').kind = kind /\ Last(shadows').of = i
<1>. DEFINE row == [kind |-> kind, of |-> i, status |-> "proposed"]
<1>1. row \in ShadowRows /\ row.kind = kind /\ row.of = i /\ shadows' = Append(shadows, row)
  BY DEF ShadowRows, Ask
<1>. HIDE DEF row
<1>2. shadows' \in Seq(ShadowRows) /\ Len(shadows') = Len(shadows) + 1 /\ shadows'[Len(shadows) + 1] = row
  BY <1>1, AppendProperties DEF ShadowsTyped
<1>. QED  BY <1>1, <1>2 DEF ShadowsTyped, Last

LEMMA ShadowsStep ==
  ASSUME ShadowsTyped, [Next]_vars
  PROVE  ShadowsTyped' /\ ShadowGrounds
<1>1. \/ shadows' = shadows
      \/ \E i \in Improvements : ProposeShadow(i) \/ RequestLiveShadow(i)
      \/ \E n \in DOMAIN shadows, d \in {"approved", "rejected"} : DecideShadow(n, d)
  <2>1. ASSUME NEW i \in Improvements,
               \/ \E kind \in Kinds, complete, owned \in BOOLEAN : Create(i, kind, complete, owned)
               \/ \E to \in Transitions(rows[i].status), refs \in SUBSET Refs, version \in Cards \cup {None} :
                    Transition(i, to, refs, version)
               \/ ParentApprove(i) \/ HumanApprove(i) \/ Rollback(i)
        PROVE  shadows' = shadows
    BY <2>1 DEF Create, Transition, ParentApprove, HumanApprove, Rollback
  <2>2. ASSUME NEW t \in Drafts,
               \/ \E kind \in Kinds, owned \in BOOLEAN : DraftRead(t, kind, owned)
               \/ \E i \in Improvements : DraftWrite(t, i)
               \/ DraftFail(t)
        PROVE  shadows' = shadows
    BY <2>2 DEF DraftRead, DraftWrite, DraftFail
  <2>3. CASE \/ Suspend \/ Resume \/ (\E e \in Refs : Revise(e)) \/ (\E c \in Cards : Deprecate(c)) \/ SetRoster
             \/ UNCHANGED vars
    BY <2>3 DEF Suspend, Resume, Revise, Deprecate, SetRoster, Elsewhere, vars
  <2>. QED  BY <2>1, <2>2, <2>3, Zenon DEF Next
<1>2. Len(shadows) \in Nat /\ DOMAIN shadows = 1..Len(shadows)  BY LenProperties DEF ShadowsTyped
<1>3. CASE shadows' = shadows  BY <1>2, <1>3 DEF ShadowsTyped, ShadowGrounds
<1>4. ASSUME NEW i \in Improvements, ProposeShadow(i) PROVE ShadowsTyped' /\ ShadowGrounds
  <2>1. Ask("shadow_proposal", i)  BY <1>4 DEF ProposeShadow
  <2>2. ShadowsTyped' /\ Last(shadows').kind = "shadow_proposal"  BY <2>1, AskedIsLast
  <2>. QED  BY <2>2 DEF ShadowGrounds
<1>5. ASSUME NEW i \in Improvements, RequestLiveShadow(i) PROVE ShadowsTyped' /\ ShadowGrounds
  <2>1. Ask("live_shadow_execution_approval", i) /\ Grounded(i)  BY <1>5 DEF RequestLiveShadow
  <2>2. ShadowsTyped' /\ Last(shadows').of = i  BY <2>1, AskedIsLast
  <2>. DEFINE mine == Decided("shadow_proposal", i)
  <2>3. mine \in SUBSET (1..Len(shadows)) /\ mine # {}  BY <1>2, <2>1 DEF Decided, Grounded
  <2>4. Max(mine) \in mine /\ \A m \in mine : m <= Max(mine)
    <3>. HIDE DEF mine
    <3>. QED  BY <1>2, <2>3, GreatestOf
  <2>5. shadows[Max(mine)].status = "approved" /\ \E e \in rows[i].content.evidence : e \in good \cap Replays
    BY <2>1 DEF Grounded
  <2>6. mine = {n \in DOMAIN shadows : shadows[n].of = i /\ shadows[n].kind = "shadow_proposal"}
    BY DEF Decided
  <2>. HIDE DEF mine
  <2>. QED  BY <2>2, <2>4, <2>5, <2>6 DEF ShadowGrounds
<1>6. ASSUME NEW n \in DOMAIN shadows, NEW d \in {"approved", "rejected"}, DecideShadow(n, d)
      PROVE  ShadowsTyped' /\ ShadowGrounds
  <2>. DEFINE row == [shadows[n] EXCEPT !.status = d]
  <2>1. shadows[n] \in ShadowRows /\ n \in 1..Len(shadows)  BY <1>2 DEF ShadowsTyped
  <2>2. row \in ShadowRows  BY <2>1 DEF ShadowRows
  <2>3. shadows' = [shadows EXCEPT ![n] = row]  BY <1>6 DEF DecideShadow
  <2>. HIDE DEF row
  <2>4. shadows' \in Seq(ShadowRows) /\ Len(shadows') = Len(shadows)
    BY <2>1, <2>2, <2>3, ExceptSeq DEF ShadowsTyped
  <2>. QED  BY <1>2, <2>4 DEF ShadowsTyped, ShadowGrounds
<1>. QED  BY <1>1, <1>3, <1>4, <1>5, <1>6

(* A canary starts, and a proposal is adopted, on evidence that holds;     *)
(* nothing of a suspended improvement changes until it is resumed; and a   *)
(* live shadow is asked for only after an approved proposal and while a    *)
(* replay succeeds.                                                        *)
THEOREM TransitionsAreSound == Spec => EvidenceHolds /\ SuspendedIsFrozen /\ LiveShadowIsGrounded
<1>1. IInv /\ [Next]_vars => IInv'  BY EveryStepIsSound DEF Sound
<1>2. IInv /\ [Next]_vars => Grounds /\ Frozen  BY EveryStepIsSound DEF Sound
<1>3. Spec => [][Grounds]_vars /\ [][Frozen]_vars  BY Initially, <1>1, <1>2, PTL DEF Spec
<1>4. ShadowsTyped /\ [Next]_vars => ShadowsTyped' /\ ShadowGrounds  BY ShadowsStep
<1>5. Spec => [][ShadowGrounds]_vars  BY NoShadows, <1>4, PTL DEF Spec
<1>. QED  BY <1>3, <1>5, PTL DEF EvidenceHolds, SuspendedIsFrozen, LiveShadowIsGrounded, Grounds, Frozen, ShadowGrounds

(* Where no process dies, the rejection that completes the streak leaves   *)
(* no improvement that can move.                                           *)
THEOREM RejectionsTripTheBreaker == ~MayDie => (Spec => [][Trips]_vars)
<1>. SUFFICES ASSUME ~MayDie PROVE Spec => [][Trips]_vars  OBVIOUS
<1>1. IInv /\ [Next]_vars => IInv' /\ Trips  BY EveryStepIsSound DEF Sound
<1>. QED  BY Initially, <1>1, PTL DEF Spec
=============================================================================

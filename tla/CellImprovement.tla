--------------------------- MODULE CellImprovement ---------------------------
(***************************************************************************)
(* The improvements of one Probe Cell: hypotheses that go through a canary *)
(* and two approvals before they are adopted, the role card the Cell is    *)
(* pinned to, the breaker on rejections and the decisions about shadows.   *)
(*                                                                         *)
(* A handler holds the one connection to its end, so it is a step; a draft *)
(* reads in one connection, calls the model with none and writes in        *)
(* another.  A rejection and the suspension it causes are two transactions *)
(* and the process may die between them.                                   *)
(*                                                                         *)
(* An approval is the content it was given to; the code stores its author. *)
(* Cards are numbered and of one role; whoever acts may be an              *)
(* administrator, whose override makes any version compatible.             *)
(***************************************************************************)
EXTENDS Integers, Sequences, FiniteSets, SequencesExt

CONSTANTS
  Improvements, Drafts,   \* ids of improvements, and requests for a draft
  Cards, Rubric,          \* active role cards, and the rubric of each
  Refs, Replays,          \* results that evidence may refer to; those of replays
  Kinds,                  \* target kinds that are created
  Threshold,              \* _CONSECUTIVE_REJECTION_THRESHOLD
  MayDie,                 \* whether the process may die
  MaxShadows              \* bound on decisions about shadows

ASSUME ConstantsAssumption ==
  /\ Cards \subseteq Nat \ {0} /\ Rubric \in [Cards -> Nat]
  /\ Replays \subseteq Refs /\ Kinds \subseteq {"role_card", "candidate_patch"}
  /\ Threshold \in Nat \ {0} /\ MayDie \in BOOLEAN /\ MaxShadows \in Nat

VARIABLES
  rows,      \* cell_improvements
  pin,       \* the role card the Cell is pinned to
  outcomes,  \* the rejections and adoptions among its events, in order
  shadows,   \* cell_shadow_decisions, in order of id
  draft,     \* what each request for a draft has read
  good,      \* results that are successful and the Cell's own
  inactive,  \* cards that were deprecated
  rostered   \* whether the declared parent has the Cell on its roster

vars == <<rows, pin, outcomes, shadows, draft, good, inactive, rostered>>
world == <<good, inactive, rostered>>

None == 0
Terminal == {"adopted", "rejected"}

Transitions(status) == CASE
  status = "observed" -> {"proposed"}
  [] status = "proposed" -> {"canary_ready", "rejected"}
  [] status = "canary_ready" -> {"canary_running", "rejected", "blocked"}
  [] status = "canary_running" -> {"adopted", "rejected", "blocked"}
  [] status = "blocked" -> {"canary_ready", "rejected"}
  [] OTHER -> {}

(* `event' is what the adoption event of an improvement says of the card.  *)
Absent == [status |-> "none", kind |-> "none", complete |-> FALSE, card |-> None, owned |-> FALSE,
           content |-> [version |-> None, evidence |-> {}], parent |-> {}, human |-> {},
           suspended |-> FALSE, event |-> {}]

Row(kind, complete, card, owned) ==
  [Absent EXCEPT !.status = "observed", !.kind = kind, !.complete = complete, !.owned = owned,
                 !.card = IF kind = "role_card" THEN card ELSE None]

Init ==
  /\ rows = [i \in Improvements |-> Absent]
  /\ pin \in Cards
  /\ outcomes = <<>> /\ shadows = <<>>
  /\ draft = [t \in Drafts |-> {}]
  /\ good \in SUBSET Refs /\ inactive = {} /\ rostered \in BOOLEAN

(* _consecutive_rejection_count()                                          *)
Streak(history) == Len(history) - Max({0} \cup {n \in DOMAIN history : history[n] = "adopted"})

Open(row) == row.status \notin Terminal \cup {"none"}

-----------------------------------------------------------------------------
(* Creation                                                                *)

Create(i, kind, complete, owned) ==
  /\ rows[i].status = "none" /\ Streak(outcomes) < Threshold
  /\ rows' = [rows EXCEPT ![i] = Row(kind, complete, pin, owned)]
  /\ UNCHANGED <<pin, outcomes, shadows, draft, world>>

DraftRead(t, kind, owned) ==
  /\ draft[t] = {} /\ Streak(outcomes) < Threshold
  /\ draft' = [draft EXCEPT ![t] = {Row(kind, TRUE, pin, owned)}]
  /\ UNCHANGED <<rows, pin, outcomes, shadows, world>>

DraftWrite(t, i) ==
  /\ rows[i].status = "none"
  /\ \E row \in draft[t] : rows' = [rows EXCEPT ![i] = row]
  /\ draft' = [draft EXCEPT ![t] = {}]
  /\ UNCHANGED <<pin, outcomes, shadows, world>>

DraftFail(t) ==
  /\ draft[t] # {} /\ draft' = [draft EXCEPT ![t] = {}]
  /\ UNCHANGED <<rows, pin, outcomes, shadows, world>>

-----------------------------------------------------------------------------
(* Transitions                                                             *)

(* _check_rubric_ownership(), against the card pinned at creation          *)
RubricOwned(row, version) ==
  (row.kind = "role_card" /\ Rubric[version] # Rubric[row.card]) => row.owned

Bug_Voids(row, content) == row.human # {} /\ content.version # row.content.version
Voids(row, content) == content # row.content /\ row.parent \cup row.human # {}
Voided(row) == [row EXCEPT !.parent = {}, !.human = {}]

Bug_Valid(row, to, content) == to = "adopted" => content.evidence \subseteq good
Valid(row, to, content) ==
  /\ to = "proposed" => row.complete
  /\ to = "canary_ready" => content.evidence # {}
  /\ to \in {"canary_running", "adopted"} => content.evidence \subseteq good

Adoptable(row, content) ==
  /\ row.parent # {} /\ row.human # {} /\ ~Voids(row, content)
  /\ row.kind = "role_card" => content.version # None /\ content.version \notin inactive

Accepts(row, to, content) == Valid(row, to, content) /\ (to = "adopted" => Adoptable(row, content))

(* The approvals are taken back in a transaction of their own, before what *)
(* may still refuse the transition.                                        *)
Refuse(i, content) ==
  /\ rows' = [rows EXCEPT ![i] = Voided(@)]
  /\ UNCHANGED <<pin, outcomes>>

Moved(row, to, content) ==
  [(IF Voids(row, content) THEN Voided(row) ELSE row) EXCEPT !.status = to, !.content = content]

Step(i, to, content) ==
  /\ rows' = [rows EXCEPT ![i] = Moved(@, to, content)]
  /\ UNCHANGED <<pin, outcomes>>

Adopt(i, content) ==
  LET row == Moved(rows[i], "adopted", content)
      ofCard == row.kind = "role_card" IN
  /\ rows' = [rows EXCEPT ![i] = [row EXCEPT !.event =
                IF ofCard THEN {[previous |-> row.card, new |-> content.version]} ELSE {}]]
  /\ pin' = IF ofCard THEN content.version ELSE pin
  /\ outcomes' = Append(outcomes, "adopted")

(* suspend_improvements()                                                  *)
Bug_Suspended(all) ==
  [i \in Improvements |-> IF Open(all[i]) /\ all[i].parent = {} THEN [all[i] EXCEPT !.suspended = TRUE] ELSE all[i]]
Suspended(all) == [i \in Improvements |-> IF Open(all[i]) THEN [all[i] EXCEPT !.suspended = TRUE] ELSE all[i]]

(* record_failure_and_maybe_suspend() follows, unless the process dies.    *)
Reject(i, content) ==
  /\ outcomes' = Append(outcomes, "rejected")
  /\ LET all == [rows EXCEPT ![i] = Moved(@, "rejected", content)] IN
     \/ rows' = IF Streak(outcomes') >= Threshold THEN Suspended(all) ELSE all
     \/ MayDie /\ rows' = all
  /\ UNCHANGED pin

Transition(i, to, refs, version) ==
  LET row == rows[i]
      content == [version |-> IF version = None THEN row.content.version ELSE version,
                  evidence |-> row.content.evidence \cup refs] IN
  /\ ~row.suspended /\ to \in Transitions(row.status) /\ refs \subseteq good
  /\ version # None => RubricOwned(row, version)
  /\ \/ ~Accepts(row, to, content) /\ Voids(row, content) /\ Refuse(i, content)
     \/ Accepts(row, to, content) /\ to \notin Terminal /\ Step(i, to, content)
     \/ Accepts(row, to, content) /\ to = "adopted" /\ Adopt(i, content)
     \/ to = "rejected" /\ Reject(i, content)
  /\ UNCHANGED <<shadows, draft, world>>

-----------------------------------------------------------------------------
(* Approvals, suspension and rollback                                      *)

Bug_Approvable(row) == Open(row)
Approvable(row) == ~row.suspended /\ Open(row)

ParentApprove(i) ==
  /\ Approvable(rows[i]) /\ (rows[i].owned => rostered)
  /\ rows' = [rows EXCEPT ![i].parent = {rows[i].content}]
  /\ UNCHANGED <<pin, outcomes, shadows, draft, world>>

HumanApprove(i) ==
  /\ Approvable(rows[i])
  /\ rows' = [rows EXCEPT ![i].human = {rows[i].content}]
  /\ UNCHANGED <<pin, outcomes, shadows, draft, world>>

Suspend ==
  /\ rows' = Suspended(rows)
  /\ UNCHANGED <<pin, outcomes, shadows, draft, world>>

Resume ==
  /\ rows' = [i \in Improvements |-> [rows[i] EXCEPT !.suspended = FALSE]]
  /\ UNCHANGED <<pin, outcomes, shadows, draft, world>>

(* rollback_role_card() compares cards; it does not look at its own event. *)
Rollback(i) ==
  /\ \E e \in rows[i].event : pin = e.new /\ pin' = e.previous
  /\ UNCHANGED <<rows, outcomes, shadows, draft, world>>

-----------------------------------------------------------------------------
(* Shadows                                                                 *)

Decided(kind, i) == {n \in DOMAIN shadows : shadows[n].kind = kind /\ shadows[n].of = i}
Ask(kind, i) == shadows' = Append(shadows, [kind |-> kind, of |-> i, status |-> "proposed"])

ProposeShadow(i) ==
  /\ Len(shadows) < MaxShadows
  /\ ~rows[i].suspended /\ rows[i].status \in {"proposed", "canary_ready", "canary_running"}
  /\ Ask("shadow_proposal", i)
  /\ UNCHANGED <<rows, pin, outcomes, draft, world>>

(* The latest proposal is approved and a replay is still successful.       *)
Bug_Grounded(i) == Decided("shadow_proposal", i) # {} /\ rows[i].content.evidence \cap Replays # {}
Grounded(i) ==
  /\ Decided("shadow_proposal", i) # {}
  /\ shadows[Max(Decided("shadow_proposal", i))].status = "approved"
  /\ rows[i].content.evidence \cap Replays \cap good # {}

RequestLiveShadow(i) ==
  /\ Len(shadows) < MaxShadows
  /\ ~rows[i].suspended /\ Grounded(i)
  /\ Ask("live_shadow_execution_approval", i)
  /\ UNCHANGED <<rows, pin, outcomes, draft, world>>

DecideShadow(n, decision) ==
  /\ shadows[n].status = "proposed"
  /\ shadows' = [shadows EXCEPT ![n].status = decision]
  /\ UNCHANGED <<rows, pin, outcomes, draft, world>>

-----------------------------------------------------------------------------
(* Other parts of the system                                               *)

Elsewhere(action) == action /\ UNCHANGED <<rows, pin, outcomes, shadows, draft>>

(* A result turns out otherwise: an experiment is decided anew, say.       *)
Revise(e) == Elsewhere(/\ good' = IF e \in good THEN good \ {e} ELSE good \cup {e}
                       /\ UNCHANGED <<inactive, rostered>>)
Deprecate(c) == Elsewhere(c \notin inactive /\ inactive' = inactive \cup {c} /\ UNCHANGED <<good, rostered>>)
SetRoster == Elsewhere(rostered' = ~rostered /\ UNCHANGED <<good, inactive>>)

Next ==
  \/ \E i \in Improvements :
       \/ \E kind \in Kinds, complete, owned \in BOOLEAN : Create(i, kind, complete, owned)
       \/ \E to \in Transitions(rows[i].status), refs \in SUBSET Refs, version \in Cards \cup {None} :
            Transition(i, to, refs, version)
       \/ ParentApprove(i) \/ HumanApprove(i) \/ Rollback(i)
       \/ ProposeShadow(i) \/ RequestLiveShadow(i)
  \/ \E t \in Drafts :
       \/ \E kind \in Kinds, owned \in BOOLEAN : DraftRead(t, kind, owned)
       \/ \E i \in Improvements : DraftWrite(t, i)
       \/ DraftFail(t)
  \/ Suspend \/ Resume
  \/ \E n \in DOMAIN shadows, d \in {"approved", "rejected"} : DecideShadow(n, d)
  \/ (\E e \in Refs : Revise(e)) \/ (\E c \in Cards : Deprecate(c)) \/ SetRoster

Spec == Init /\ [][Next]_vars

-----------------------------------------------------------------------------
Contents == [version : Cards \cup {None}, evidence : SUBSET Refs]

(* Every row is one the schema knows; a proposal for a patch has no card,  *)
(* and only an adopted one records an adoption.                            *)
TypeOK ==
  /\ pin \in Cards /\ good \subseteq Refs /\ inactive \subseteq Cards /\ rostered \in BOOLEAN
  /\ outcomes \in Seq(Terminal)
  /\ \A i \in Improvements : LET row == rows[i] IN
     /\ row.status \in Terminal \cup {"none", "observed", "proposed", "canary_ready", "canary_running", "blocked"}
     /\ row.content \in Contents /\ row.parent \cup row.human \subseteq Contents
     /\ row.card \in Cards \cup {None} /\ (row.kind = "role_card" => row.card \in Cards)
     /\ row.event # {} => row.status = "adopted"
     /\ row.status = "adopted" => ~row.suspended

(* What is adopted is what both the parent and a human approved: the same  *)
(* version and the same evidence, whatever was proposed in between         *)
(* (transition_improvement() takes back approvals of other content).       *)
AdoptedAsApproved == \A i \in Improvements :
  rows[i].status = "adopted" => rows[i].parent = {rows[i].content} /\ rows[i].human = {rows[i].content}

(* What the runs check in every state.                                     *)
ImprovementInv == TypeOK /\ AdoptedAsApproved

(* A canary starts, and a proposal is adopted, on evidence that holds at   *)
(* that moment, whenever it was attached.                                  *)
Enters(i, status) == rows[i].status # status /\ rows'[i].status = status
EvidenceHolds == [][\A i \in Improvements :
  Enters(i, "canary_running") \/ Enters(i, "adopted")
    => rows'[i].content.evidence # {} /\ rows'[i].content.evidence \subseteq good]_vars

(* The rejection that completes the streak leaves no improvement that can  *)
(* move, unless the process dies before (record_failure_and_maybe_suspend()).*)
Trips == \A i \in Improvements :
  Enters(i, "rejected") /\ Streak(outcomes') >= Threshold
    => \A j \in Improvements : Open(rows'[j]) => rows'[j].suspended

(* Of a suspended improvement nothing changes until it is resumed, not its *)
(* approvals and not its proposal.                                         *)
SuspendedIsFrozen == [][\A i \in Improvements : rows[i].suspended =>
  rows'[i] \in {rows[i], [rows[i] EXCEPT !.suspended = FALSE]}]_vars

(* Execution of a live shadow is put to a decision only after a proposal   *)
(* of this improvement was approved, not since replaced, and while a       *)
(* replay of it succeeds (request_live_shadow_approval()).                 *)
LiveShadowIsGrounded == [][
  (Len(shadows') > Len(shadows) /\ Last(shadows').kind = "live_shadow_execution_approval") =>
    LET i == Last(shadows').of
        mine == {n \in DOMAIN shadows : shadows[n].of = i /\ shadows[n].kind = "shadow_proposal"} IN
    /\ \E n \in mine : shadows[n].status = "approved" /\ \A m \in mine : m <= n
    /\ \E e \in rows[i].content.evidence : e \in good \cap Replays]_vars

=============================================================================

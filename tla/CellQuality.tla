----------------------------- MODULE CellQuality -----------------------------
(***************************************************************************)
(* The quality of one Probe Cell: audits of its samples, the rolling rate  *)
(* over them, and the suspension of its intake when the rate is too low.   *)
(*                                                                         *)
(* An audit reads the sample and the criteria and spends a unit of the     *)
(* day's budget in one connection, lets a model explain a failure with no  *)
(* connection, and stores its verdict in another.  Evaluating the floor    *)
(* suspends, reports and notes the report in three transactions, and the   *)
(* process may die between them.                                           *)
(*                                                                         *)
(* What the criteria say of each sample is a variable that changes when    *)
(* they are edited.  The audits of the day are counted for the System,     *)
(* whose other Cells spend them too, each up to a budget of its own.       *)
(***************************************************************************)
EXTENDS Integers, Sequences, FiniteSets, FiniteSetsExt

CONSTANTS
  Samples, Auditors,       \* samples that were selected, requests for an audit
  FloorWindow, MinCount,   \* floor_window, MIN_FLOOR_SAMPLE_COUNT
  FloorPart, FloorWhole,   \* quality_floor is FloorPart / FloorWhole
  Budgets,                 \* values of daily_audit_budget, of this Cell and of others
  MayDie,                  \* whether the process may die
  MaxAudits, MaxEdits, MaxEscalations   \* bounds

VARIABLES
  verdict,      \* what the enabled criteria say of each sample
  edits,        \* how often they or the budget were edited
  audits,       \* cell_quality_audits, in order of id
  audit,        \* what each request has found
  used,         \* cell_quality_usage of the day
  own,          \* how many of these were audits of this Cell
  budget,       \* its daily_audit_budget
  granted,      \* the largest it was on this day
  intake,       \* cell_intake_states
  escalations   \* sev1 escalations of the Cell, by the number of audits they are about

vars == <<verdict, edits, audits, audit, used, own, budget, granted, intake, escalations>>
days == <<own, budget, granted>>

Verdicts == {"pass", "fail", "no_criteria"}
None == 0
Accepting == [status |-> "accepting", escalation |-> None]

Init ==
  /\ verdict \in [Samples -> Verdicts] /\ edits = 0
  /\ audits = <<>> /\ audit = [a \in Auditors |-> {}]
  /\ used = 0 /\ own = 0 /\ budget \in Budgets /\ granted = budget
  /\ intake = Accepting /\ escalations = <<>>

-----------------------------------------------------------------------------
(* Audits                                                                  *)

(* _consume_quality_audit_budget()                                         *)
Bug_HasBudget(limit) == used <= limit
HasBudget(limit) == used < limit

(* run_audit() up to the verdict                                           *)
Read(a, s) ==
  /\ audit[a] = {} /\ HasBudget(budget)
  /\ used' = used + 1 /\ own' = own + 1
  /\ audit' = [audit EXCEPT ![a] = {[sample |-> s, verdict |-> verdict[s]]}]
  /\ UNCHANGED <<verdict, edits, audits, budget, granted, intake, escalations>>

(* A failure is explained before it is stored, another verdict at once.    *)
Store(a) ==
  /\ Len(audits) < MaxAudits
  /\ \E found \in audit[a] : audits' = Append(audits, found)
  /\ audit' = [audit EXCEPT ![a] = {}]
  /\ UNCHANGED <<verdict, edits, used, days, intake, escalations>>

(* The trace of the sample is gone, or the process dies.                   *)
GiveUp(a) ==
  /\ audit[a] # {} /\ audit' = [audit EXCEPT ![a] = {}]
  /\ UNCHANGED <<verdict, edits, audits, used, days, intake, escalations>>

OtherCell ==
  /\ \E limit \in Budgets : HasBudget(limit)
  /\ used' = used + 1
  /\ UNCHANGED <<verdict, edits, audits, audit, days, intake, escalations>>

NextDay ==
  /\ used' = 0 /\ own' = 0 /\ granted' = budget
  /\ UNCHANGED <<verdict, edits, audits, audit, budget, intake, escalations>>

(* upsert_quality_config(), of the budget                                  *)
EditBudget(limit) ==
  /\ edits < MaxEdits /\ edits' = edits + 1
  /\ budget' = limit /\ granted' = IF limit > granted THEN limit ELSE granted
  /\ UNCHANGED <<verdict, audits, audit, used, own, intake, escalations>>

EditCriteria(s, v) ==
  /\ edits < MaxEdits /\ edits' = edits + 1
  /\ verdict' = [verdict EXCEPT ![s] = v]
  /\ UNCHANGED <<audits, audit, used, days, intake, escalations>>

-----------------------------------------------------------------------------
(* The rolling rate: audits newest first, one per sample, up to the window *)

Bug_Later(n) == {}
Later(n) == {m \in DOMAIN audits : m > n /\ audits[m].sample = audits[n].sample}
LatestOfSample == {n \in DOMAIN audits : Later(n) = {}}
Window == {n \in LatestOfSample : Cardinality({m \in LatestOfSample : m > n}) < FloorWindow}
Considered == {n \in Window : audits[n].verdict # "no_criteria"}
Passed == {n \in Considered : audits[n].verdict = "pass"}

BelowFloor == Cardinality(Passed) * FloorWhole < FloorPart * Cardinality(Considered)

-----------------------------------------------------------------------------
(* The floor                                                               *)

Bug_Breached == BelowFloor
Breached == Considered # {} /\ Cardinality(Considered) >= MinCount /\ BelowFloor

Suspended(escalation) == [status |-> "suspended", escalation |-> escalation]

(* evaluate_quality_floor(): each of the later transactions may be missing.*)
Evaluate ==
  /\ Breached /\ Len(escalations) < MaxEscalations
  /\ \/ /\ escalations' = Append(escalations, Len(audits))
        /\ intake' = Suspended(Len(escalations) + 1)
     \/ MayDie /\ UNCHANGED escalations /\ intake' = Suspended(None)
     \/ MayDie /\ escalations' = Append(escalations, Len(audits)) /\ intake' = Suspended(None)
  /\ UNCHANGED <<verdict, edits, audits, audit, used, days>>

Bug_Resumable == ~Breached
Resumable == Considered # {} /\ ~BelowFloor

Resume ==
  /\ Resumable /\ intake' = Accepting
  /\ UNCHANGED <<verdict, edits, audits, audit, used, days, escalations>>

Next ==
  \/ \E a \in Auditors : (\E s \in Samples : Read(a, s)) \/ Store(a) \/ GiveUp(a)
  \/ OtherCell \/ NextDay
  \/ \E s \in Samples, v \in Verdicts : EditCriteria(s, v)
  \/ \E limit \in Budgets : EditBudget(limit)
  \/ Evaluate \/ Resume

Spec == Init /\ [][Next]_vars

-----------------------------------------------------------------------------
(* The intake points at an escalation that exists.                         *)
TypeOK ==
  /\ intake.status \in {"accepting", "suspended"}
  /\ intake.escalation \in {None} \cup DOMAIN escalations
  /\ intake.escalation # None => intake.status = "suspended"
  /\ {used, own} \subseteq Nat /\ {budget, granted} \subseteq Budgets
  /\ \A n \in DOMAIN audits : audits[n].sample \in Samples /\ audits[n].verdict \in Verdicts

(* Whatever other Cells spend of the count they share, no more audits of   *)
(* this Cell are accepted on a day than its own budget on that day allows, *)
(* the largest it had if it was edited (_consume_quality_audit_budget()).  *)
BudgetHolds == own <= used /\ own <= granted

(* Suspension needs failures of different samples: however often one       *)
(* sample is audited it counts once, and so it does for the way back       *)
(* (_rolling_pass_rate()).                                                 *)
DistinctFailures == {audits[n].sample : n \in {m \in DOMAIN audits : audits[m].verdict = "fail"}}
SuspensionIsEarned == [][
  (intake.status = "accepting" /\ intake'.status = "suspended") =>
    (FloorWhole - FloorPart) * MinCount < FloorWhole * Cardinality(DistinctFailures)]_vars

(* A suspended intake opens only while the samples that were audited last, *)
(* as many as the window holds, are by their last verdicts good enough: a  *)
(* sample that failed last is no pass.                                     *)
LastAudit(s) == Max({n \in DOMAIN audits : audits[n].sample = s})
LastVerdict(s) == audits[LastAudit(s)].verdict
Audited == {audits[n].sample : n \in DOMAIN audits}
Recent == {s \in Audited : Cardinality({t \in Audited : LastAudit(t) > LastAudit(s)}) < FloorWindow}
ResumeIsEarned == [][
  (intake.status = "suspended" /\ intake'.status = "accepting") =>
    LET passing == {s \in Recent : LastVerdict(s) = "pass"}
        judged == {s \in Recent : LastVerdict(s) # "no_criteria"} IN
    judged # {} /\ Cardinality(passing) * FloorWhole >= FloorPart * Cardinality(judged)]_vars

=============================================================================

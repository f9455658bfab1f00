------------------------------- MODULE MCCells -------------------------------
(***************************************************************************)
(* Small instances of three parts of the Cell fabric that share nothing:   *)
(* the ledger of tasks and escalations, the rosters of orchestrators and   *)
(* the quality floor.  A behaviour is one of a single instance; `one' is   *)
(* the ledger in one process, `two' that of two requests at a time.        *)
(***************************************************************************)
EXTENDS CellTasks, TLC

CONSTANTS
  TwoProcesses, OneKey,        \* the ledger of two requests
  Cells, MaxRoster, MaxDepth,  \* CellRoster
  Samples, Auditors, FloorWindow, MinCount, FloorPart, FloorWhole, Budgets, MayDie,
  MaxAudits, MaxEdits, MaxReports   \* CellQuality

ASSUME RosterAssumption == MaxDepth \in Nat /\ MaxRoster \in Nat

(* quality_floor is between 0 and 1.                                       *)
ASSUME QualityAssumption ==
  /\ IsFiniteSet(Samples)
  /\ {FloorWindow, MinCount, FloorPart, FloorWhole, MaxAudits, MaxEdits, MaxReports} \subseteq Nat /\ Budgets \subseteq Nat
  /\ FloorPart <= FloorWhole /\ FloorWhole > 0

VARIABLES part, workers, roster, verdict, edits, audits, audit, used, own, budget, granted, intake, reports

Two == INSTANCE CellTasks WITH
  Processes <- TwoProcesses, Keys <- OneKey, RetryLimit <- 1, MaxTasks <- 1, MaxEscalations <- 1
Roster == INSTANCE CellRoster
Quality == INSTANCE CellQuality WITH MaxEscalations <- MaxReports, escalations <- reports

rosters == <<workers, roster>>
quality == <<verdict, edits, audits, audit, used, own, budget, granted, intake, reports>>

Symmetry == Permutations(Samples)

MCInit ==
  /\ part \in {"one", "two", "roster", "quality"} /\ Roster!Init /\ Quality!Init
  /\ IF part = "two" THEN Two!Init ELSE Init
  /\ part # "quality" => verdict = [s \in Samples |-> "pass"] /\ budget = Quality!Max(Budgets)

Ledger ==
  /\ \/ part = "one" /\ Next
     \/ part = "two" /\ Two!Next
  /\ UNCHANGED <<part, rosters, quality>>
Rosters == part = "roster" /\ Roster!Next /\ UNCHANGED <<part, vars, quality>>
Qualities == part = "quality" /\ Quality!Next /\ UNCHANGED <<part, vars, rosters>>

MCNext == Ledger \/ Rosters \/ Qualities

MCSpec == MCInit /\ [][MCNext]_<<part, vars, rosters, quality>>

(* Rosters have no circle, no chain longer than the limit, and a digest    *)
(* leaves out nobody (CellRoster); the audits of a Cell keep to its budget *)
(* and an intake points at an escalation that exists (CellQuality); in one *)
(* process no task is retried more often than its limit and the event of a *)
(* return names the status the task had (CellTasks).                       *)
CellsInv ==
  /\ Roster!RosterInv /\ Quality!TypeOK /\ Quality!BudgetHolds
  /\ part = "one" => RetriesAreBounded /\ ReturnsFit

(* In one process an escalation only advances (CellTasks); suspension and  *)
(* resumption are earned by the last verdicts of different samples         *)
(* (CellQuality).                                                          *)
EscalationsAdvance == [][part = "one" => Advance]_vars
StatusIsEarned ==
  EscalationsAdvance /\ Quality!SuspensionIsEarned /\ Quality!ResumeIsEarned
=============================================================================

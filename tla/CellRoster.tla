------------------------------ MODULE CellRoster ------------------------------
(***************************************************************************)
(* The rosters of the Probe Cells of one System: creation of Cells and     *)
(* changes of their rosters, with the checks of validate_roster().         *)
(*                                                                         *)
(* A Cell with a roster is an orchestrator, one without is a worker.  Each *)
(* handler holds the connection from the check to the end of the write,    *)
(* which within one process, as the server is deployed, keeps others out.  *)
(***************************************************************************)
EXTENDS CellChains

CONSTANT MaxRoster  \* MAX_ROSTER_SIZE

VARIABLES
  workers,  \* Cells without a roster
  roster    \* the roster of each orchestrator

vars == <<workers, roster>>

Init == workers = {} /\ roster = <<>>

Orchestrators == DOMAIN roster
Existing == workers \cup Orchestrators

(* _proposed_depth()                                                       *)
ProposedDepth(members) == 1 + MaxOf({Depth(roster, d) : d \in members})

(* validate_roster(); the bug is to measure what is below alone.           *)
Bug_Valid(c, members) ==
  /\ Cardinality(members) <= MaxRoster /\ members \subseteq Existing
  /\ c \notin Below(roster, members)
  /\ ProposedDepth(members) <= MaxDepth
Valid(c, members) ==
  /\ Cardinality(members) <= MaxRoster
  /\ members \subseteq Existing
  /\ c \notin Below(roster, members)
  /\ Height(roster, c) + ProposedDepth(members) <= MaxDepth

SetRoster(c, members) == roster' = [o \in Orchestrators \cup {c} |-> IF o = c THEN members ELSE roster[o]]

CreateWorker(c) == c \notin Existing /\ workers' = workers \cup {c} /\ UNCHANGED roster

CreateOrchestrator(c, members) ==
  /\ c \notin Existing /\ Valid(c, members)
  /\ SetRoster(c, members) /\ UNCHANGED workers

(* A worker that is given a roster is an orchestrator from then on.        *)
UpdateRoster(c, members) ==
  /\ c \in Existing /\ Valid(c, members)
  /\ SetRoster(c, members) /\ workers' = workers \ {c}

Next == \E c \in Cells :
  \/ CreateWorker(c)
  \/ \E members \in SUBSET Cells : CreateOrchestrator(c, members) \/ UpdateRoster(c, members)

Spec == Init /\ [][Next]_vars

-----------------------------------------------------------------------------
(* Rosters name Cells that exist, no more than an orchestrator can watch.  *)
TypeOK ==
  /\ workers \subseteq Cells /\ Orchestrators \subseteq Cells /\ workers \cap Orchestrators = {}
  /\ \A c \in Orchestrators : roster[c] \subseteq Existing /\ Cardinality(roster[c]) <= MaxRoster

(* Nobody is below itself, by whatever sequence of creations and updates   *)
(* the rosters came about (validate_roster()).                             *)
RosterIsAcyclic == \A c \in Existing : c \notin Below(roster, RosterOf(roster, c))

(* No orchestrator stands at the top of a chain longer than the limit,     *)
(* although an update lengthens chains that begin above the updated Cell.  *)
DepthIsBounded == Chains(roster, MaxDepth + 1) = {}

(* The limit of the rollup leaves out nobody: a digest counts the tasks of *)
(* every Cell below the orchestrator.                                      *)
RollupIsComplete == \A c \in Orchestrators : \A of \in Below(roster, roster[c]) : Counted(roster, of, c)

(* What the runs check in every state.                                     *)
RosterInv == TypeOK /\ RosterIsAcyclic /\ DepthIsBounded /\ RollupIsComplete
=============================================================================

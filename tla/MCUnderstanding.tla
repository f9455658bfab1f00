--------------------------- MODULE MCUnderstanding ---------------------------
(***************************************************************************)
(* Small instances of two parts of the System's understanding: the build   *)
(* jobs and the refresh of an interview session.  A behaviour is one of    *)
(* the builds or one of the refreshes; the other part stays as it begins.  *)
(***************************************************************************)
EXTENDS BuildJobs, TLC

CONSTANTS
  MaxTogether, MaxApart,                                          \* bounds
  Answers, Threads, Manual, None, Kinds, MaxManual, MaxConfirms   \* InterviewRefresh

VARIABLES part, answer, jobs, doing, lock, session, clock, happened

Refresh == INSTANCE InterviewRefresh WITH run <- doing, used <- happened

ASSUME TriggersAssumption == Kinds \subseteq {"intent_update", "qa_answer", "alignment_answer"}
ASSUME NobodyAssumption == Manual \notin Threads /\ None \notin Threads

refreshing == <<answer, jobs, doing, lock, session, clock, happened>>

(* The part of the pipeline around the scan.                               *)
ScanOrder == <<"symbol_index", "claim_scan", "understanding_graph">>
ScanDepends == [symbol_index |-> {}, claim_scan |-> {}, understanding_graph |-> {"claim_scan"}]
ScanStored == {"symbol_index", "understanding_graph"}

Symmetry == Permutations(Workers) \cup Permutations(Threads) \cup Permutations(Answers)

(* Few of the bounded events happen in one behaviour.                      *)
Few == used.retries + used.cancels + used.crashes + used.failures + used.history <= MaxTogether
FewHappen == happened.manual + happened.confirms + happened.retries + happened.crashes <= MaxApart

MCInit ==
  /\ part \in {"build", "refresh"} /\ Init /\ Refresh!Init
  /\ part = "build" => session.stage = "purpose"

Builds == part = "build" /\ Next /\ Few' /\ UNCHANGED <<part, refreshing>>
Refreshes == part = "refresh" /\ Refresh!Next /\ FewHappen' /\ UNCHANGED <<part, vars>>

MCSpec == MCInit /\ [][Builds \/ Refreshes]_<<part, vars, refreshing>>

(* A session has one pending and one running refresh at most, and merging  *)
(* requests loses no answer (InterviewRefresh).                            *)
RefreshInv == Refresh!RefreshInv

(* A settled or superseded job does not run or complete again, and a step  *)
(* that a job completed is not run again by it (BuildJobs).                *)
BuildKeeps == SettledStays /\ NeverReExecuted

(* A refresh loses no answer that was understood, and one that finds       *)
(* nothing new is right (InterviewRefresh).                                *)
RefreshKeeps == Refresh!NeverRegresses /\ Refresh!SkippedIsConfirmed
=============================================================================

----------------------------- MODULE MCDecisions -----------------------------
(***************************************************************************)
(* Small instances of the two places where a proposal of a model is        *)
(* decided on: the improvements of a Cell and the canonical understanding. *)
(*                                                                         *)
(* CellImprovement has three instances over the same variables, each for   *)
(* some of what it describes: the adoption of role cards, the breaker on   *)
(* rejections of any proposals, and the decisions about shadows.  A        *)
(* behaviour is one of a single instance.                                  *)
(***************************************************************************)
EXTENDS CellImprovement, TLC

CONSTANTS
  Parts,                \* the instances of a run: "adoption", "breaker", "shadow", "premise"
  Rejected, Requests,   \* improvements and requests for a draft while they are rejected
  Threads, Values, RevisionLimit, MaxSessions, MaxRevisions, MaxEdits, MaxIntents, MaxAdoptions   \* CanonicalPremise

ASSUME RejectedAssumption == Improvements \subseteq Rejected

VARIABLES part, head, revs, sessions, call, used

OneRubric == <<1>>
TwoRubrics == <<1, 2>>

Breaker == INSTANCE CellImprovement WITH
  Improvements <- Rejected, Drafts <- Requests, Cards <- {1}, Rubric <- OneRubric, Refs <- {}, Replays <- {},
  Kinds <- {"candidate_patch"}, MayDie <- FALSE
Shadow == INSTANCE CellImprovement WITH
  Cards <- {1}, Rubric <- OneRubric, Replays <- Refs, Kinds <- {"candidate_patch"}, MayDie <- FALSE,
  MaxShadows <- 3

Premise == INSTANCE CanonicalPremise
premises == <<head, revs, sessions, call, used>>

Symmetry == Permutations(Improvements) \cup Permutations(Threads)

MCInit ==
  /\ \/ part = "adoption" /\ Init /\ pin = 1
     \/ part = "breaker" /\ Breaker!Init /\ rostered
     \/ part = "shadow" /\ Shadow!Init
     \/ part = "premise" /\ Init /\ good = {} /\ pin = 1 /\ rostered
  /\ part \in Parts
  /\ Premise!Init /\ (part # "premise" => sessions = <<>>)

(* Proposals that lack what they need go nowhere; they are tried next to   *)
(* shadows, and so are changes of the roster.                              *)
Complete == \A i \in DOMAIN rows : rows[i].status = "none" \/ rows[i].complete
Unowned == \A i \in DOMAIN rows : ~rows[i].owned

OnlyOne == Cardinality({i \in Improvements : rows[i].status # "none"}) <= 1
FewEdits == used.edits + used.intents + used.adoptions <= 1

Adoptions ==
  /\ part = "adoption" /\ Next /\ Complete' /\ inactive' # Cards
  /\ UNCHANGED <<part, rostered, premises>>
Breakers ==
  /\ part = "breaker" /\ Breaker!Next /\ Complete' /\ Unowned'
  /\ UNCHANGED <<part, rostered, inactive, premises>>
Shadows == part = "shadow" /\ Shadow!Next /\ OnlyOne' /\ UNCHANGED <<part, premises>>
Premises == part = "premise" /\ Premise!Next /\ FewEdits' /\ UNCHANGED <<part, vars>>

MCSpec == MCInit /\ [][Adoptions \/ Breakers \/ Shadows \/ Premises]_<<part, vars, premises>>

(* A live shadow is asked for only after an approved proposal and while a  *)
(* replay succeeds; nothing suspended changes; what starts or is adopted   *)
(* has evidence that holds; and, where no process dies, the rejection that *)
(* completes the streak leaves nothing that can move (CellImprovement).    *)
BreakerTrips == [][part = "breaker" => Breaker!Trips]_vars
StepsAreSound ==
  EvidenceHolds /\ SuspendedIsFrozen /\ Shadow!LiveShadowIsGrounded /\ BreakerTrips

(* What was promoted is one chain that ends in the head, each link         *)
(* reasoned on the one before, but for a session on record for having      *)
(* adopted that one (CanonicalPremise).                                    *)
PremiseInv == Premise!PremiseInv

(* "Its candidate can still never be promoted": what is promoted was       *)
(* reasoned on the head it replaces (CanonicalPremise).  MCPremiseAdopt    *)
(* shows a session that adopts the head and promotes what it reasoned on   *)
(* an older one.                                                           *)
PromotedOnHead == Premise!PromotedOnHead

(* Reasoning is stored on the premise it was made on, and a promotion      *)
(* publishes what its session showed (CanonicalPremise).                   *)
PremisesHold == Premise!StoredOnItsPremise /\ Premise!PublishesWhatItShowed
=============================================================================

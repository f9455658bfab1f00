------------------------------ MODULE CellChains ------------------------------
(***************************************************************************)
(* What the checks of a roster and the digest of an orchestrator find on   *)
(* their walks over rosters, by the chains of orchestrators there are.     *)
(* `rosters' is a function from the Cells that have a roster to it.  The   *)
(* walks themselves are in CellWalks.                                      *)
(***************************************************************************)
EXTENDS Naturals, FiniteSets, FiniteSetsExt

CONSTANTS
  Cells,
  MaxDepth    \* MAX_ORCHESTRATOR_DEPTH

RosterOf(rosters, c) == IF c \in DOMAIN rosters THEN rosters[c] ELSE {}

(* _would_create_cycle(): what the walk down from some Cells comes past,   *)
(* the least set that contains them and the rosters of its members         *)
Closed(rosters, seen) == \A c \in seen : RosterOf(rosters, c) \subseteq seen
Below(rosters, members) == {d \in Cells : \A seen \in SUBSET Cells :
  members \subseteq seen /\ Closed(rosters, seen) => d \in seen}

(* Chains of n orchestrators, each on the roster of the one before: beyond *)
(* the limit the checks do not tell the lengths apart.                     *)
Chains(rosters, n) ==
  {chain \in [1..n -> DOMAIN rosters] : \A i \in 1..n - 1 : chain[i + 1] \in rosters[chain[i]]}
Lengths == 1..MaxDepth + 1
MaxOf(numbers) == Max(numbers \cup {0})

(* _cell_row_depth(): the longest chain that begins with a Cell            *)
Depth(rosters, c) == MaxOf({n \in Lengths : \E chain \in Chains(rosters, n) : chain[1] = c})

(* _max_ancestor_height(): the longest chain that ends above a Cell        *)
Height(rosters, c) == MaxOf({n \in Lengths : \E chain \in Chains(rosters, n) : c \in rosters[chain[n]]})

(* The digest of c counts the tasks of a Cell for each chain from c that   *)
(* has the Cell on its last roster, but not below a Cell it has visited    *)
(* nor deeper than the limit (_rollup_task_counts()).                      *)
Levels == MaxDepth
Counted(rosters, of, c) == \E n \in 1..Levels + 1 : \E chain \in Chains(rosters, n) :
  /\ chain[1] = c /\ of \in rosters[chain[n]]
  /\ \A i, j \in 2..n : chain[i] = chain[j] => i = j
=============================================================================

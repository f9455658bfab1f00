------------------------------- MODULE CellWalks -------------------------------
(***************************************************************************)
(* The walks over rosters step by step as the code takes them, with what   *)
(* it does where it meets a Cell again.                                    *)
(***************************************************************************)
EXTENDS CellChains

(* _would_create_cycle()                                                   *)
RECURSIVE WalkDown(_, _, _)
WalkDown(rosters, stack, seen) ==
  LET new == stack \ seen IN
  IF new = {} THEN seen
  ELSE WalkDown(rosters, UNION {RosterOf(rosters, c) : c \in new}, seen \cup new)

(* _cell_row_depth()                                                       *)
RECURSIVE WalkedDepth(_, _, _)
WalkedDepth(rosters, c, visited) ==
  CASE c \notin DOMAIN rosters -> 0
    [] c \in visited -> MaxDepth + 1
    [] OTHER -> 1 + MaxOf({WalkedDepth(rosters, d, visited \cup {c}) : d \in rosters[c]})

(* _max_ancestor_height()                                                  *)
RECURSIVE WalkedHeight(_, _, _)
WalkedHeight(rosters, c, visited) ==
  IF c \in visited THEN MaxDepth + 1
  ELSE MaxOf({1 + WalkedHeight(rosters, o, visited \cup {c}) : o \in {p \in DOMAIN rosters : c \in rosters[p]}})

(* _rollup_task_counts(), where each Cell owns one task                    *)
RECURSIVE Rollup(_, _, _, _, _)
Rollup(rosters, of, c, left, visited) ==
  (IF of = c THEN 1 ELSE 0) +
  (IF left = 0 \/ c \in visited THEN 0
   ELSE MapThenSumSet(LAMBDA d : Rollup(rosters, of, d, left - 1, visited \cup {c}), RosterOf(rosters, c)))

InTotal(rosters, of, c) == MapThenSumSet(LAMBDA d : Rollup(rosters, of, d, Levels, {}), rosters[c])

UpTo(n) == IF n > MaxDepth THEN MaxDepth + 1 ELSE n

(* What the walks find is what CellChains says they find, also where there *)
(* is a circle, which no sequence of requests brings about.                *)
WalksAgree(rosters) ==
  /\ \A members \in SUBSET Cells : WalkDown(rosters, members, {}) = Below(rosters, members)
  /\ \A c \in Cells : /\ UpTo(WalkedDepth(rosters, c, {})) = Depth(rosters, c)
                      /\ UpTo(WalkedHeight(rosters, c, {})) = Height(rosters, c)
  /\ \A c \in DOMAIN rosters, of \in Cells : InTotal(rosters, of, c) > 0 <=> Counted(rosters, of, c)
=============================================================================

----------------------------- MODULE MCCellWalks -----------------------------
(***************************************************************************)
(* MCCells, where the walks of the code over rosters are compared with     *)
(* what CellChains says they find, on all rosters of a few Cells, also     *)
(* those with a circle, for the limit and for one that cuts chains short.  *)
(***************************************************************************)
EXTENDS MCCells

CONSTANT FewCells

Walks == INSTANCE CellWalks WITH Cells <- FewCells
Short == INSTANCE CellWalks WITH Cells <- FewCells, MaxDepth <- 1

ASSUME WalksAssumption ==
  \A names \in SUBSET FewCells : \A rostered \in [names -> SUBSET FewCells] :
    Walks!WalksAgree(rostered) /\ Short!WalksAgree(rostered)
=============================================================================

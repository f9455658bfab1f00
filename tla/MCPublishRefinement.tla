------------------------ MODULE MCPublishRefinement ------------------------
(* Instances of PublishRefinement for TLC.                                 *)
EXTENDS PublishRefinement, TLC

(* Jobs and request threads are interchangeable.                           *)
Symmetry == Permutations(Jobs) \cup Permutations(Workers)
=============================================================================

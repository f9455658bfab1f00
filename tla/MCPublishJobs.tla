--------------------------- MODULE MCPublishJobs ---------------------------
(* Instances of PublishJobs for TLC.                                       *)
EXTENDS PublishJobs, TLC

(* Jobs and request threads are interchangeable.                           *)
Symmetry == Permutations(Jobs) \cup Permutations(Workers)
=============================================================================

--------------------------- MODULE MCReviewService ---------------------------
(***************************************************************************)
(* Instances of ReviewService for TLC.  Run ids and threads are alike.      *)
(***************************************************************************)
EXTENDS ReviewService, TLC

Symmetry == Permutations(Runs) \cup Permutations(Threads)
=============================================================================

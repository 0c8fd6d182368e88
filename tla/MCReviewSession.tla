-------------------------- MODULE MCReviewSession --------------------------
(* Instances of ReviewSession for TLC.  Requests, editors and details are  *)
(* only compared with each other.                                          *)
EXTENDS ReviewSession, TLC

Symmetry == Permutations(Requests) \cup Permutations(Editors) \cup Permutations(Details)

=============================================================================

---------------------------- MODULE MCPolicyLoop ----------------------------
(* Instances of PolicyLoop for TLC. *)
EXTENDS PolicyLoop, TLC

(* A change that publishes the thresholds, and one of the subject rules. *)
TierOnly == {[impact |-> {"D1c"}, p3 |-> "on"]}
SubjectOnly == {[impact |-> {"D1b"}, p3 |-> "keep"]}

LoopSymmetry == Permutations(Runs) \cup Permutations(Threads) \cup Permutations(Texts)

=============================================================================

-------------------------- MODULE MCDurableStores --------------------------
(* Instances of DurableStores for TLC.  The threads share one connection.  *)
EXTENDS DurableStores, TLC

OneConnection == [p \in Threads |-> 1]

Symmetry == Permutations(Threads) \cup Permutations(Forms) \cup Permutations(Institutions)

=============================================================================

------------------------- MODULE MCProjectWorkflow -------------------------
(* Instances of ProjectWorkflow for TLC.  Each configuration opens some    *)
(* dimensions of a project and leaves the others empty.                    *)
EXTENDS ProjectLiveness, TLC

CONSTANTS k1, c1, c2

(* The second snapshot asks for a key, and drops one card for a new one,   *)
(* as a published policy does.                                             *)
NothingRequired == [v \in Versions |-> {}]
LateForm == [v \in Versions |-> IF v = 1 THEN {} ELSE {k1}]
NoCardsDefined == [v \in Versions |-> {}]
ChangingCards == [v \in Versions |-> IF v = 1 THEN {c1} ELSE {c2}]
NoCardKind == << >>
FindingSymmetry == Permutations(FindingIds)
ScriptCards == [c \in Cards |-> "script"]

=============================================================================

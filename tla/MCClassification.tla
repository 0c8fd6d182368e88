-------------------------- MODULE MCClassification --------------------------
(* Instances of ClassificationChain for TLC: lines at 2 and 3 as the wizard *)
(* asks about them, budgets on and around them.                             *)
EXTENDS ClassificationChain, TLC

Keywords == [c \in {"police"} |-> {"police", "station"}]
Asked == [t1 |-> 3, t2 |-> 2]

Agreed == [t1 |-> 3, t2 |-> 2, disputed |-> {}]
Disputed == [t1 |-> 3, t2 |-> 2, disputed |-> {"t1"}]
Moved == [t1 |-> 4, t2 |-> 2, disputed |-> {}]

Police(triggers, edge, pending) ==
    [category |-> "police", triggers |-> triggers, edge |-> edge, pending |-> pending]

Snapshot(rules, subjects, published, lines, routes) ==
    [max |-> 20, min |-> 3, rules |-> rules, subjects |-> subjects,
     published |-> published, lines |-> lines, routes |-> routes]

(* The seed lists a subject and publishes no thresholds.                   *)
Seed == Snapshot({}, {"police"}, FALSE, None, {})

Published ==
    {Snapshot({Police({"police"}, FALSE, FALSE)}, {}, TRUE, Agreed, Tiers),
     Snapshot({Police({"police"}, FALSE, TRUE)}, {}, TRUE, Disputed, Tiers),
     Snapshot({Police({"police"}, TRUE, TRUE)}, {}, TRUE, Moved, {"T1", "T2"}),
     Snapshot({}, {}, TRUE, None, Tiers)}

=============================================================================

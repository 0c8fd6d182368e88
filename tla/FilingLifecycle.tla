-------------------------- MODULE FilingLifecycle --------------------------
(***************************************************************************)
(* What the product promises about a filing, whatever happens inside the   *)
(* preparation: a form is locked only after the gate, a locked form is     *)
(* never changed or withdrawn, the institution's answer sends it on to the *)
(* filing or back to preparation, and each round ends in one locked form.  *)
(* ProjectWorkflow is shown to implement it.                               *)
(***************************************************************************)
EXTENDS Naturals, Sequences

CONSTANT Forms      \* the contents a form can have

VARIABLES
    phase,      \* where the filing stands
    locked      \* the forms locked so far, oldest first

lvars == <<phase, locked>>

Phases == {"preparing", "gated", "sent", "returned", "accepted", "filed", "closed"}

LifecycleTypeOK == phase \in Phases /\ locked \in Seq(Forms)

LifecycleInit == phase = "preparing" /\ locked = << >>

Become(from, to) == phase = from /\ phase' = to /\ UNCHANGED locked

(* A reanalysed review starts the filing over, before anything is sent.    *)
StartOver == phase \in {"gated", "closed"} /\ phase' = "preparing" /\ UNCHANGED locked

Lock(form) ==
    /\ phase = "gated"
    /\ phase' = "sent"
    /\ locked' = Append(locked, form)

LifecycleNext ==
    \/ Become("preparing", "gated")
    \/ Become("preparing", "closed")
    \/ StartOver
    \/ \E form \in Forms : Lock(form)
    \/ Become("sent", "returned")
    \/ Become("sent", "accepted")
    \/ Become("returned", "preparing")
    \/ Become("accepted", "filed")

LifecycleSpec == LifecycleInit /\ [][LifecycleNext]_lvars

(* OutsideHoldsAForm.  Whoever is outside holds a form: from the moment a  *)
(* filing is sent there is a newest locked form to hold.                   *)
OutsideHoldsAForm ==
    phase \in {"sent", "returned", "accepted", "filed"} => locked # << >>

(* LockedFormsAreKept.  The locked forms only ever grow at the end.        *)
LockedFormsAreKept ==
    [][\A i \in 1..Len(locked) : i <= Len(locked') /\ locked'[i] = locked[i]]_lvars

=============================================================================

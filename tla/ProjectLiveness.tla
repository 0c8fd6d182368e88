-------------------------- MODULE ProjectLiveness --------------------------
(***************************************************************************)
(* What the people on a project can always bring about: the liveness of    *)
(* the revision loop of ProjectWorkflow.                                   *)
(***************************************************************************)
EXTENDS ProjectWorkflow

(***************************************************************************)
(* Nothing in the code schedules a creator: fairness here says only that   *)
(* the people on a project keep doing what is open to them.  It separates  *)
(* a project that waits for somebody from one nobody can move.             *)
(***************************************************************************)

CreatorKeepsAnswering ==
    /\ \A k \in Keys : WF_vars(DeferFormField(k))
    /\ \A k \in Keys, v \in Values : WF_vars(ConfirmFormField(k, v))
    /\ WF_vars(ActOnAlert("released"))
    /\ \A s \in Scenes :
         WF_vars(\E f \in findings : f.scene = s /\ ActOnFinding(f, "released"))

CreatorKeepsFiling ==
    /\ WF_vars(ResumeAfterReturn)
    /\ SF_vars(PassGate)
    /\ SF_vars(FreezeForm)

FairSpec == Spec /\ CreatorKeepsAnswering /\ CreatorKeepsFiling

(* ReturnedIsRefrozen.  docs/decisions.md D-048: coming back round the     *)
(* loop is no dead end.  A returned form is corrected and locked again,    *)
(* whatever the policy loop and the reviews do meanwhile, unless somebody  *)
(* runs the classification again and moves the project back to CLASSIFIED, *)
(* or has the review analysed again, which takes it back to DRAFT, or the  *)
(* facts come into conflict, which no operation ever resolves.             *)
ReturnedIsRefrozen ==
    project.state = "INSTITUTION_RETURNED" /\ Len(drafts) < MaxDrafts
        ~> \/ project.state \in {"FORM_FROZEN", "CLASSIFIED", "DRAFT"}
           \/ \E k \in Keys : facts[k].conflict

=============================================================================

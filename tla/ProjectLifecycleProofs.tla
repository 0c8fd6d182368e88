----------------------- MODULE ProjectLifecycleProofs -----------------------
(***************************************************************************)
(* ProjectWorkflow implements FilingLifecycle: the drafts that were ever   *)
(* frozen, oldest first, are the locked forms, and the state gives the     *)
(* phase.  The invariants of the filing say which forms those are.         *)
(***************************************************************************)
EXTENDS ProjectWorkflowProofs

(* ---------------------------------------------------------- locked forms *)

LEMMA LockedFormsType ==
    ASSUME TypeOK
    PROVE  /\ LockedCount \in 0..Len(drafts) /\ Len(drafts) \in Nat
           /\ LockedForms \in Seq(Draft) /\ Len(LockedForms) = LockedCount
           /\ \A i \in 1..LockedCount : LockedForms[i] = drafts[i]
<1>1. LockedCount \in 0..Len(drafts) /\ Len(drafts) \in Nat
  BY EmptySeq, LenProperties DEF LockedCount, TypeOK
<1>2. \A i \in 1..LockedCount : drafts[i] \in Draft
  BY <1>1, ElementOfSeq DEF TypeOK
<1> QED
  BY <1>1, <1>2 DEF LockedForms

(* The locked forms only depend on how many there are and on the drafts    *)
(* up to there.                                                            *)
LEMMA LockedFormsSame ==
    ASSUME TypeOK, TypeOK', LockedCount' = LockedCount,
           \A i \in 1..LockedCount : drafts'[i] = drafts[i]
    PROVE  LockedForms' = LockedForms
BY LockedFormsType DEF LockedForms

LEMMA PreparationKeepsLocked ==
    ASSUME TypeOK, TypeOK', Preparation
    PROVE  LockedForms' = LockedForms
<1>1. CASE drafts' = drafts
  BY <1>1 DEF LockedForms, LockedCount, Locked
<1>2. CASE /\ ~Locked /\ ~Locked'
           /\ Len(drafts') = IF drafts = << >> THEN 1 ELSE Len(drafts)
           /\ \A i \in 1..Len(drafts) : i # Len(drafts) => drafts'[i] = drafts[i]
  <2>1. Len(drafts) \in Nat /\ (drafts # << >> => Len(drafts) # 0)
        /\ (drafts = << >> => Len(drafts) = 0)
    BY EmptySeq, LenProperties DEF TypeOK
  <2>2. drafts' # << >>
    BY <1>2, <2>1, EmptySeq
  <2>3. LockedCount = (IF drafts = << >> THEN 0 ELSE Len(drafts) - 1)
        /\ LockedCount' = Len(drafts') - 1
    BY <1>2, <2>1, <2>2 DEF LockedCount
  <2> QED
    BY <1>2, <2>1, <2>3, LockedFormsSame
<1> QED
  BY <1>1, <1>2, PreparationDrafts

LEMMA FreezeAppends ==
    ASSUME TypeOK, TypeOK', FreezeForm
    PROVE  \E form \in Draft : LockedForms' = Append(LockedForms, form)
<1> DEFINE n == Len(drafts')
           form == drafts'[n]
<1>1. Len(drafts) \in Nat /\ (drafts # << >> => Len(drafts) # 0)
      /\ (drafts = << >> => Len(drafts) = 0)
  BY EmptySeq, LenProperties DEF TypeOK
<1>2. LockedCount' = n /\ n = LockedCount + 1 /\ n \in 1..n
  BY <1>1, FreezeLocks DEF LockedCount
<1>3. form \in Draft
  BY <1>2, ElementOfSeq DEF TypeOK
<1>4. \A i \in 1..LockedCount : drafts'[i] = drafts[i]
  BY <1>1, FreezeLocks DEF LockedCount
<1>5. /\ LockedForms \in Seq(Draft) /\ Len(LockedForms) = LockedCount
      /\ LockedForms' \in Seq(Draft) /\ Len(LockedForms') = n
      /\ \A i \in 1..LockedCount : LockedForms[i] = drafts[i]
      /\ \A i \in 1..n : LockedForms'[i] = drafts'[i]
      /\ LockedCount \in Nat
  <2>1. \A i \in 1..n : drafts'[i] \in Draft
    BY ElementOfSeq DEF TypeOK
  <2>2. LockedForms' = [i \in 1..n |-> drafts'[i]] /\ n \in Nat
    BY <1>1, <1>2, FreezeLocks DEF LockedForms
  <2> QED
    BY <1>2, <2>1, <2>2, LockedFormsType
<1>6. /\ Append(LockedForms, form) \in Seq(Draft)
      /\ Len(Append(LockedForms, form)) = n
      /\ \A i \in 1..LockedCount : Append(LockedForms, form)[i] = LockedForms[i]
      /\ Append(LockedForms, form)[n] = form
  BY <1>2, <1>3, <1>5, AppendProperties
<1>7. \A i \in 1..n : LockedForms'[i] = Append(LockedForms, form)[i]
  BY <1>2, <1>4, <1>5, <1>6
<1>8. LockedForms' = Append(LockedForms, form)
  BY <1>5, <1>6, <1>7, SeqEqual
<1> QED
  BY <1>3, <1>8

LEMMA ResumeKeepsLocked ==
    ASSUME TypeOK, TypeOK', ResumeAfterReturn
    PROVE  LockedForms' = LockedForms
<1>1. CASE Locked
  <2>1. Len(drafts) \in Nat /\ Len(drafts') = Len(drafts) + 1 /\ ~Locked'
        /\ \A i \in 1..Len(drafts) : drafts'[i] = drafts[i]
    BY <1>1, ResumeUnlocks, LenProperties DEF TypeOK
  <2>2. drafts' # << >>
    BY <2>1, EmptySeq
  <2>3. LockedCount = Len(drafts) /\ LockedCount' = Len(drafts)
    BY <1>1, <2>1, <2>2 DEF LockedCount
  <2> QED
    BY <2>1, <2>3, LockedFormsSame
<1>2. CASE ~Locked
  BY <1>2, ResumeUnlocks DEF LockedForms, LockedCount, Locked
<1> QED
  BY <1>1, <1>2

(* ------------------------------------------------------------ the phases *)

LEMMA Phases ==
    /\ \A s \in ProjectState \ SettledStates : PhaseOf(s) = "preparing"
    /\ \A s \in EarlyStates : PhaseOf(s) \in {"preparing", "closed"}
    /\ \A s \in {"COLLECTING_MATERIALS", "REVIEW_RUNNING", "REVISION_LOOP"} :
            PhaseOf(s) = "preparing"
    /\ PhaseOf("GATE_D3_PASSED") = "gated"
    /\ PhaseOf("FORM_FROZEN") = "sent" /\ PhaseOf("INSTITUTION_REVIEW") = "sent"
    /\ PhaseOf("INSTITUTION_RETURNED") = "returned"
    /\ PhaseOf("READY_FOR_EXTERNAL_FILING") = "accepted"
    /\ PhaseOf("FILED") = "filed"
    /\ \A s \in ProjectState :
            PhaseOf(s) \in {"sent", "returned", "accepted", "filed"} =>
                s \in RecalcFrozenStates
BY DEF PhaseOf, ProjectState, SettledStates, EarlyStates, RecalcFrozenStates,
       NeedsHumanStates, ExitStates

(* Only a filing that has not been sent is ever started over.              *)
LEMMA Reanalyzed ==
    /\ \A s \in ReanalyzableStates : PhaseOf(s) \in {"preparing", "gated", "closed"}
    /\ PhaseOf("DRAFT") = "preparing"
BY DEF PhaseOf, ReanalyzableStates, ReclassifiableStates, NeedsHumanStates, ExitStates

LEMMA LifecycleStep ==
    ASSUME TypeOK, TypeOK', Next
    PROVE  Lifecycle!LifecycleNext
           \/ UNCHANGED <<PhaseOf(project.state), LockedForms>>
<1> DEFINE phase == PhaseOf(project.state)
           Becomes(from, to) == phase = from /\ phase' = to /\ LockedForms' = LockedForms
<1>1. project.state \in ProjectState /\ project'.state \in ProjectState
  BY DEF TypeOK, Project
<1>2. drafts' = drafts => LockedForms' = LockedForms
  BY DEF LockedForms, LockedCount, Locked
<1>3. project'.state = project.state => phase' = phase
  OBVIOUS
<1>4. CASE Intake
  <2>1. LockedForms' = LockedForms
    BY <1>2, <1>4, IntakeMoves
  <2>2. phase' = phase \/ (phase = "preparing" /\ phase' = "closed")
    BY <1>1, <1>3, <1>4, IntakeMoves, Phases
  <2> QED
    BY <2>1, <2>2 DEF Lifecycle!LifecycleNext, Lifecycle!Become
<1>8. CASE BeginReviewReanalysis
  <2>1. LockedForms' = LockedForms
    BY <1>2, <1>8, ReanalysisMoves
  <2>2. phase \in {"preparing", "gated", "closed"} /\ phase' = "preparing"
    BY <1>8, ReanalysisMoves, Reanalyzed
  <2> QED
    BY <2>1, <2>2 DEF Lifecycle!LifecycleNext, Lifecycle!StartOver
<1>5. CASE Policy
  BY <1>2, <1>3, <1>5, PolicyMoves
<1>6. CASE Preparation
  <2>1. phase' = phase
    BY <1>3, <1>6, PreparationMoves, Phases
  <2> QED
    BY <1>6, <2>1, PreparationKeepsLocked
<1>7. CASE Filing
  <2>1. CASE PassGate /\ project.state \in GateReadyStates
             /\ project'.state = "GATE_D3_PASSED" /\ drafts' = drafts
    <3>1. Becomes("preparing", "gated")
      BY <1>2, <2>1, Phases DEF GateReadyStates
    <3> QED
      BY <3>1 DEF Lifecycle!LifecycleNext, Lifecycle!Become
  <2>2. CASE FreezeForm /\ project.state = "GATE_D3_PASSED"
             /\ project'.state = "FORM_FROZEN"
    <3>1. phase = "gated" /\ phase' = "sent"
      BY <2>2, Phases
    <3> QED
      BY <2>2, <3>1, FreezeAppends DEF Lifecycle!LifecycleNext, Lifecycle!Lock
  <2>3. CASE ResumeAfterReturn /\ project.state = "INSTITUTION_RETURNED"
             /\ project'.state = "REVISION_LOOP"
    <3>1. Becomes("returned", "preparing")
      BY <2>3, ResumeKeepsLocked, Phases
    <3> QED
      BY <3>1 DEF Lifecycle!LifecycleNext, Lifecycle!Become
  <2>4. CASE drafts' = drafts /\ project.state \in {"FORM_FROZEN", "INSTITUTION_REVIEW"}
             /\ project'.state = "INSTITUTION_REVIEW"
    BY <1>2, <2>4, Phases
  <2>5. CASE drafts' = drafts /\ project.state = "INSTITUTION_REVIEW"
             /\ project'.state \in {"INSTITUTION_RETURNED", "READY_FOR_EXTERNAL_FILING"}
    <3>1. Becomes("sent", "returned") \/ Becomes("sent", "accepted")
      BY <1>2, <2>5, Phases
    <3> QED
      BY <3>1 DEF Lifecycle!LifecycleNext, Lifecycle!Become
  <2>6. CASE drafts' = drafts /\ project.state = "READY_FOR_EXTERNAL_FILING"
             /\ project'.state = "FILED"
    <3>1. Becomes("accepted", "filed")
      BY <1>2, <2>6, Phases
    <3> QED
      BY <3>1 DEF Lifecycle!LifecycleNext, Lifecycle!Become
  <2>7. CASE drafts' = drafts /\ project'.state = project.state
    BY <1>2, <1>3, <2>7
  <2> QED
    BY <1>7, <2>1, <2>2, <2>3, <2>4, <2>5, <2>6, <2>7, FilingMoves
<1> QED
  BY <1>4, <1>5, <1>6, <1>7, <1>8 DEF Next

(* LifecycleImplemented.  Every operation on a project is a step of the    *)
(* filing lifecycle, or none.                                              *)
THEOREM LifecycleImplemented == Spec => ImplementsLifecycle
<1>1. Init => Lifecycle!LifecycleInit
  <2>1. Init => LockedForms = << >> /\ PhaseOf(project.state) = "preparing"
    BY EmptySeq DEF Init, LockedForms, LockedCount, Locked, PhaseOf, ExitStates
  <2> QED
    BY <2>1 DEF Lifecycle!LifecycleInit
<1>2. TypeOK /\ TypeOK' /\ [Next]_vars
        => [Lifecycle!LifecycleNext]_(Lifecycle!lvars)
  <2>1. UNCHANGED vars => UNCHANGED <<PhaseOf(project.state), LockedForms>>
    BY DEF vars, LockedForms, LockedCount, Locked
  <2> QED
    BY <2>1, LifecycleStep DEF Lifecycle!lvars
<1> QED
  BY <1>1, <1>2, TypeCorrect, PTL DEF Spec, ImplementsLifecycle, Lifecycle!LifecycleSpec

(* WhoeverIsOutsideHoldsAForm.  A filing that has been sent, and has not   *)
(* come back and been reopened, rests on a locked form.                    *)
THEOREM WhoeverIsOutsideHoldsAForm == Spec => []Lifecycle!OutsideHoldsAForm
<1>1. TypeOK /\ FilingInv => Lifecycle!OutsideHoldsAForm
  <2> SUFFICES ASSUME TypeOK, FilingInv,
                      PhaseOf(project.state) \in {"sent", "returned", "accepted", "filed"}
               PROVE  LockedForms # << >>
    BY DEF Lifecycle!OutsideHoldsAForm
  <2>1. project.state \in RecalcFrozenStates
    BY Phases DEF TypeOK, Project
  <2>2. Locked
    BY <2>1 DEF FilingInv, SentStatesHoldFrozenForm
  <2>3. LockedCount # 0
    BY <2>2, EmptySeq DEF LockedCount, Locked, TypeOK
  <2> QED
    BY <2>3, LockedFormsType, EmptySeq
<1> QED
  BY <1>1, TypeCorrect, FilingSafe, PTL

(* FormsAreNeverWithdrawn.  A form that was ever locked stays, unchanged   *)
(* and in its place.                                                       *)
THEOREM FormsAreNeverWithdrawn == Spec => Lifecycle!LockedFormsAreKept
<1> DEFINE Kept == \A i \in 1..Len(LockedForms) :
                     i <= Len(LockedForms') /\ LockedForms'[i] = LockedForms[i]
<1>1. ASSUME TypeOK, TypeOK', Next
      PROVE  Kept
  <2>1. LockedForms \in Seq(Draft) /\ Len(LockedForms) \in Nat
    BY <1>1, LockedFormsType, LenProperties
  <2>2. LockedForms' = LockedForms
        \/ \E form \in Draft : LockedForms' = Append(LockedForms, form)
    BY <1>1, LifecycleStep DEF Lifecycle!LifecycleNext, Lifecycle!Become,
                           Lifecycle!StartOver, Lifecycle!Lock
  <2> QED
    BY <2>1, <2>2, AppendProperties
<1>2. TypeOK /\ TypeOK' /\ [Next]_vars => [Kept]_(Lifecycle!lvars)
  <2>1. UNCHANGED vars => UNCHANGED Lifecycle!lvars
    BY DEF vars, Lifecycle!lvars, LockedForms, LockedCount, Locked
  <2> QED
    BY <1>1, <2>1
<1> QED
  BY <1>2, TypeCorrect, PTL DEF Spec, Lifecycle!LockedFormsAreKept

=============================================================================

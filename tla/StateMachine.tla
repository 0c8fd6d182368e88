---------------------------- MODULE StateMachine ----------------------------
(***************************************************************************)
(* The project state machine of core/state_machine.py as data: the states, *)
(* the table of legal transitions, and the sets of states the workflow     *)
(* service consults before it acts.  Nothing here has a variable; the      *)
(* workflow modules move a project only through CanMove.                   *)
(***************************************************************************)

ExitStates ==
    {"EXIT_NON_DRAMA", "EXIT_T2", "EXIT_T3", "EXIT_SISTER_PATH"}

NeedsHumanStates == {"NEEDS_HUMAN_FORMTYPE", "NEEDS_HUMAN_SUBJECT"}

ProjectState ==
    {"DRAFT", "INTAKE_DONE", "FORM_JUDGED", "CLASSIFIED",
     "ROADMAP_CONFIRMED", "COLLECTING_MATERIALS", "REVIEW_RUNNING",
     "REVISION_LOOP", "GATE_D3_PASSED", "FORM_FROZEN",
     "INSTITUTION_REVIEW", "INSTITUTION_RETURNED",
     "READY_FOR_EXTERNAL_FILING", "FILED", "PRODUCTION"}
    \cup NeedsHumanStates \cup ExitStates

(* The table as a relation, one line per source state; terminal states and *)
(* PRODUCTION have no successor.                                           *)
AllowedTransitions ==
    ({"DRAFT"} \X {"INTAKE_DONE"})
    \cup ({"INTAKE_DONE"} \X
            {"INTAKE_DONE", "FORM_JUDGED", "NEEDS_HUMAN_FORMTYPE",
             "EXIT_NON_DRAMA", "EXIT_SISTER_PATH"})
    \cup ({"FORM_JUDGED"} \X ({"CLASSIFIED"} \cup NeedsHumanStates \cup ExitStates))
    \cup ({"CLASSIFIED"} \X
            {"CLASSIFIED", "ROADMAP_CONFIRMED", "INTAKE_DONE",
             "NEEDS_HUMAN_SUBJECT", "EXIT_T2", "EXIT_T3"})
    \cup ({"ROADMAP_CONFIRMED"} \X {"COLLECTING_MATERIALS", "CLASSIFIED"})
    \cup ({"COLLECTING_MATERIALS"} \X
            {"COLLECTING_MATERIALS", "REVIEW_RUNNING", "CLASSIFIED"})
    \cup ({"REVIEW_RUNNING"} \X
            {"REVISION_LOOP", "GATE_D3_PASSED", "COLLECTING_MATERIALS", "CLASSIFIED"})
    \cup ({"REVISION_LOOP"} \X
            {"REVIEW_RUNNING", "REVISION_LOOP", "GATE_D3_PASSED", "CLASSIFIED"})
    \cup ({"GATE_D3_PASSED"} \X {"FORM_FROZEN", "REVISION_LOOP"})
    \cup ({"FORM_FROZEN"} \X {"INSTITUTION_REVIEW", "REVISION_LOOP"})
    \cup ({"INSTITUTION_REVIEW"} \X
            {"READY_FOR_EXTERNAL_FILING", "INSTITUTION_RETURNED", "INSTITUTION_REVIEW"})
    \cup ({"INSTITUTION_RETURNED"} \X {"REVISION_LOOP", "COLLECTING_MATERIALS"})
    \cup ({"READY_FOR_EXTERNAL_FILING"} \X {"FILED"})
    \cup ({"FILED"} \X {"PRODUCTION"})
    \cup ({"NEEDS_HUMAN_FORMTYPE"} \X
            {"FORM_JUDGED", "EXIT_NON_DRAMA", "EXIT_SISTER_PATH", "INTAKE_DONE"})
    \cup ({"NEEDS_HUMAN_SUBJECT"} \X {"CLASSIFIED", "EXIT_T2", "EXIT_T3"})

CanMove(from, to) == <<from, to>> \in AllowedTransitions

(* workflow_service.py: the sets of states its operations are guarded by. *)
GateReadyStates == {"REVIEW_RUNNING", "REVISION_LOOP"}

RecalcFrozenStates ==
    {"FORM_FROZEN", "INSTITUTION_REVIEW", "INSTITUTION_RETURNED",
     "READY_FOR_EXTERNAL_FILING", "FILED", "PRODUCTION"}

ReclassifiableStates ==
    {"CLASSIFIED", "ROADMAP_CONFIRMED", "COLLECTING_MATERIALS",
     "REVIEW_RUNNING", "REVISION_LOOP", "GATE_D3_PASSED"} \cup NeedsHumanStates

(* REANALYZABLE_REVIEW_STATES: an exit may be corrected, a lock may not.   *)
ReanalyzableStates == ReclassifiableStates \cup ExitStates

=============================================================================

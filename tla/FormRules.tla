----------------------------- MODULE FormRules -----------------------------
(***************************************************************************)
(* The pure rules facts, form fields and findings obey: how a fact is      *)
(* recorded against the ones already known (WorkflowService._upsert_fact), *)
(* how a form field is derived from the facts of its key                   *)
(* (core/forms.py), which findings hold the D3 gate shut                   *)
(* (schemas/findings.py) and when the gate opens (core/gate.py).           *)
(*                                                                         *)
(* The list of facts of one key is kept as the four things the code ever   *)
(* asks of it: its last element, the last confirmed element, and whether   *)
(* it holds a conflict and a deferral.                                     *)
(***************************************************************************)
CONSTANTS
    Keys,     \* fact keys a form may require
    Values,   \* values a fact may carry
    None      \* "no value": a deferred fact, an unanswered question

ASSUME NoneIsNoValue == None \notin Values

Sources == {"asset", "user_answer"}

NoFact == [value |-> None, source |-> "none", status |-> "none"]

Fact == [value: Values \cup {None},
         source: Sources \cup {"none"},
         status: {"none", "confirmed", "conflict", "pending_institution"}]

NoHistory ==
    [last |-> NoFact, kept |-> NoFact, conflict |-> FALSE, deferred |-> FALSE]

History == [last: Fact, kept: Fact, conflict: BOOLEAN, deferred: BOOLEAN]

(* A repeated value is not recorded again; a value that differs from one   *)
(* read off a document is recorded as a conflict, whoever supplies it.     *)
UpsertFact(h, v, src) ==
    LET clash == h.last.source = "asset"
        fact  == [value |-> v, source |-> src,
                  status |-> IF clash THEN "conflict" ELSE "confirmed"]
    IN IF h.last.value = v THEN h
       ELSE [last     |-> fact,
             kept     |-> IF clash THEN h.kept ELSE fact,
             conflict |-> h.conflict \/ clash,
             deferred |-> h.deferred]

(* answers maps the keys one call supplies to values, the others to None.  *)
UpsertAll(facts, answers, src) ==
    [k \in Keys |->
        IF answers[k] = None THEN facts[k] ELSE UpsertFact(facts[k], answers[k], src)]

(* Mutant: the check for a confirmed value is forgotten.                   *)
CanDeferAnything(h) == TRUE

CanDefer(h) == h.last.status # "confirmed"

DeferFact(h) ==
    [h EXCEPT !.last = [value |-> None, source |-> "user_answer",
                        status |-> "pending_institution"],
              !.deferred = TRUE]

FieldStatus == {"absent", "filled", "pending", "conflict", "pending_institution"}

Field == [status: FieldStatus, fact: Fact]

FieldOf(h) ==
    IF h.conflict THEN [status |-> "conflict", fact |-> NoFact]
    ELSE IF h.kept # NoFact THEN [status |-> "filled", fact |-> h.kept]
    ELSE IF h.deferred THEN [status |-> "pending_institution", fact |-> NoFact]
    ELSE [status |-> "pending", fact |-> NoFact]

NoFields == [k \in Keys |-> [status |-> "absent", fact |-> NoFact]]

BuildFields(required, facts) ==
    [k \in Keys |->
        IF k \in required THEN FieldOf(facts[k]) ELSE [status |-> "absent", fact |-> NoFact]]

(* Mutant: conflicts no longer hold the form shut.                         *)
PendingOnly(fields) == {k \in Keys : fields[k].status = "pending"}

(* A declared gap does not hold the form shut; the other unfilled ones do. *)
PendingKeys(fields) == {k \in Keys : fields[k].status \in {"pending", "conflict"}}

(* -------------------------------------------------------------- findings *)

(* resolve, waive and reject release the gate for different recorded       *)
(* reasons; no rule tells them apart.                                      *)
FindingStatus == {"open", "accepted", "self_fixed", "released"}

(* Mutant: a self-fixed finding releases the gate.                         *)
BlocksUnlessFixed(severity, status) ==
    severity = "needs_human" /\ status \notin {"released", "self_fixed"}

(* blocks_gate_d3 of an active finding: needs_human blocks until released, *)
(* also when accepted, when the scene is gone, and when an alert has been  *)
(* answered; co_review never blocks.  The review proposes no other severity.*)
Blocks(severity, status) == severity = "needs_human" /\ status # "released"

(* ------------------------------------------------------------------ gate *)

Usable(h) == h.kept # NoFact \/ h.deferred

(* evaluate_gate_d3: blocking is the set of findings that hold the gate,   *)
(* unvalidated the set of required cards not yet valid or waived.          *)
GateOpen(required, facts, blocking, unvalidated) ==
    /\ blocking = {}
    /\ \A k \in required : Usable(facts[k])
    /\ \A k \in Keys : ~facts[k].conflict
    /\ unvalidated = {}

=============================================================================

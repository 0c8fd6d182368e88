--------------------------- MODULE ReviewSession ---------------------------
(***************************************************************************)
(* One review session of core/review_facade.py, the requests that race for *)
(* it, and the project it analyses.  A request reads the session, copies   *)
(* session and project (stage_review_analysis), claims the session by      *)
(* compare-and-put, works on the copy, and publishes all of it at once if  *)
(* nothing it was copied from has changed.  Other operations of the        *)
(* workflow service read the project document, change a copy and save it;  *)
(* an editor is one such call.                                             *)
(*                                                                         *)
(* A step is what happens under one lock, or one SQLite transaction: a     *)
(* compare-and-put, a staging, a publication, a write to one store.        *)
(* Between two steps anybody else may run, and a request may die.          *)
(*                                                                         *)
(* Of a project only what the publication has to keep together is left:    *)
(* which analysis its documents show and which edits they contain.  In the *)
(* code two analyses or edits never leave equal documents, since each puts *)
(* time stamps and fresh ids into them; their numbers stand for those.     *)
(***************************************************************************)
EXTENDS Naturals

CONSTANTS
    Requests,       \* confirm, reanalyze and retry-intake calls in progress
    Editors,        \* other operations on the project in progress
    Details,        \* what a creator can confirm
    None,           \* no details
    MaxGeneration,  \* bound: analyses claimed
    MaxExtractions, \* bound: extractions of candidates finished
    MaxEdits        \* bound: other operations begun

ASSUME SessionConstants ==
    /\ None \notin Details
    /\ MaxGeneration \in Nat /\ MaxExtractions \in Nat /\ MaxEdits \in Nat

VARIABLES
    session,        \* the review session
    project,        \* the project document
    lockedForm,     \* the analysis a frozen form shows, NoAnalysis before
    record,         \* facts, findings, tasks, timeline and audit
    extractions,    \* how many extractions have finished
    request,        \* request -> what it holds
    dead,           \* requests whose process died
    abandoned,      \* generations whose analysis ended without saying so
    edits,          \* how many edits have begun
    editor,         \* editor -> what it holds
    starting        \* where the call of start is

vars == <<session, project, lockedForm, record, extractions, request, dead,
          abandoned, edits, editor, starting>>

-----------------------------------------------------------------------------

ReviewState ==
    {"NONE", "UPLOADING", "EXTRACTING", "AWAITING_CONFIRMATION", "ANALYZING",
     "COMPLETE", "FAILED"}

(* "incomplete" is PARTIAL or UNAVAILABLE, which both allow a retry. *)
IntakeOutcomes == {"complete", "incomplete"}
IntakeStatus == {"not_started", "running"} \cup IntakeOutcomes

(* The candidates are known by the extraction they come from. *)
Session ==
    [state : ReviewState, generation : 0..MaxGeneration,
     confirmed : Details \cup {None},
     intake : IntakeStatus, candidates : 0..MaxExtractions]

Analysis == [generation : 0..MaxGeneration, details : Details \cup {None}]
NoAnalysis == [generation |-> 0, details |-> None]

(* "gate" is GATE_D3_PASSED, "locked" any state with a frozen form out, and *)
(* "open" any state before those.                                          *)
ProjectStates == {"open", "gate", "locked"}
Project ==
    [state : ProjectStates, analysis : Analysis, edits : SUBSET (1..MaxEdits)]
Record == [analysis : Analysis, edits : SUBSET (1..MaxEdits)]

(* ReviewAnalysisBaseline *)
Baseline ==
    [session : Session, project : Project, lockedForm : Analysis, record : Record]

Live == [session |-> session, project |-> project, lockedForm |-> lockedForm,
         record |-> record]

NewSession ==
    [state |-> "NONE", generation |-> 0, confirmed |-> None,
     intake |-> "not_started", candidates |-> 0]
NewProject == [state |-> "open", analysis |-> NoAnalysis, edits |-> {}]
NewRecord == [analysis |-> NoAnalysis, edits |-> {}]

(* A request remembers the session it read or wrote and what it staged. *)
NoRequest ==
    [op |-> "none", phase |-> "idle", session |-> NewSession, details |-> None,
     base |-> [session |-> NewSession, project |-> NewProject,
               lockedForm |-> NoAnalysis, record |-> NewRecord]]
NoEdit ==
    [op |-> "none", phase |-> "idle", id |-> 0, seen |-> NewProject,
     form |-> NoAnalysis]

Init ==
    /\ session = NewSession
    /\ project = NewProject
    /\ lockedForm = NoAnalysis
    /\ record = NewRecord
    /\ extractions = 0
    /\ request = [r \in Requests |-> NoRequest]
    /\ dead = {} /\ abandoned = {}
    /\ edits = 0
    /\ editor = [e \in Editors |-> NoEdit]
    /\ starting = "new"

projectVars == <<project, lockedForm, record>>
editVars == <<edits, editor>>
losses == <<dead, abandoned>>

-----------------------------------------------------------------------------
(***************************************************************************)
(* start.  The route is a coroutine that calls it without awaiting, so no  *)
(* other call is accepted before it is through; it writes with put.        *)
(***************************************************************************)

PutSession(s, next) ==
    /\ session' = s
    /\ starting' = next
    /\ UNCHANGED <<projectVars, request, losses, editVars>>

StartIdea ==
    /\ starting = "new"
    /\ PutSession([session EXCEPT !.state = "AWAITING_CONFIRMATION"], "prepared")
    /\ UNCHANGED extractions

StartScript ==
    /\ starting = "new"
    /\ PutSession([session EXCEPT !.state = "UPLOADING"], "uploading")
    /\ UNCHANGED extractions

SourceStored ==
    /\ starting = "uploading"
    /\ PutSession([session EXCEPT !.state = "EXTRACTING", !.intake = "running"],
                  "extracting")
    /\ UNCHANGED extractions

CandidatesPrepared(outcome) ==
    /\ starting = "extracting" /\ extractions < MaxExtractions
    /\ PutSession([session EXCEPT !.state = "AWAITING_CONFIRMATION",
                                  !.intake = outcome,
                                  !.candidates = extractions + 1], "prepared")
    /\ extractions' = extractions + 1

StartReturns ==
    /\ starting = "prepared"
    /\ PutSession(session, "done")
    /\ UNCHANGED extractions

(* The except clause, which a late failure of the event log reaches too. *)
StartFails ==
    /\ starting \in {"uploading", "extracting", "prepared"}
    /\ PutSession([session EXCEPT !.state = "FAILED"], "done")
    /\ UNCHANGED extractions

(* The process dies, or the except clause raises like FailureUnrecorded.  *)
StartDies ==
    /\ starting \in {"uploading", "extracting", "prepared"}
    /\ PutSession(session, "done")
    /\ UNCHANGED extractions

-----------------------------------------------------------------------------
(***************************************************************************)
(* Requests.  compare_and_put tests the state, and the generation when it  *)
(* is given one.                                                           *)
(***************************************************************************)

Holds(state) == session.state = state
HoldsAt(state, generation) ==
    session.state = state /\ session.generation = generation

InPhase(r, phase) == r \notin dead /\ request[r].phase = phase

(* The request goes on to its next phase; it returns; it is about to raise *)
(* and needs nothing but its session; it leaves every other store alone.   *)
Goto(r, phase) == request' = [request EXCEPT ![r].phase = phase]
Return(r) == request' = [request EXCEPT ![r] = NoRequest]
Raise(r) ==
    request' = [request EXCEPT ![r] = [NoRequest EXCEPT
                    !.op = request[r].op, !.phase = "failing",
                    !.session = request[r].session]]
OnlySession == UNCHANGED <<projectVars, losses, editVars, starting>>

Call(r, op, d) ==
    /\ InPhase(r, "idle") /\ starting = "done"
    /\ request' = [request EXCEPT ![r] = [NoRequest EXCEPT
                        !.op = op, !.phase = "read", !.session = session,
                        !.details = d]]
    /\ UNCHANGED <<session, extractions>> /\ OnlySession

(* A confirmation of a completed review answers or refuses, writing        *)
(* nothing; so does a reanalysis with the details last confirmed.          *)
Confirm(r, d) ==
    /\ Holds("AWAITING_CONFIRMATION") /\ session.generation < MaxGeneration
    /\ Call(r, "confirm", d)

Reanalyze(r, d) ==
    /\ Holds("COMPLETE") /\ session.generation < MaxGeneration
    /\ Call(r, "reanalyze", d)

RetryIntake(r) ==
    /\ Holds("AWAITING_CONFIRMATION") /\ session.intake = "incomplete"
    /\ extractions < MaxExtractions
    /\ Call(r, "retry", None)

(* Mutant: trusts the project's state to tell whether its form is frozen. *)
MayReanalyzeUnlessOut(d) == project.state # "locked" /\ session.confirmed # d

(* REANALYZABLE_REVIEW_STATES and the newest draft not frozen. *)
MayReanalyze(d) ==
    /\ project.state # "locked" /\ lockedForm = NoAnalysis
    /\ session.confirmed # d

StageReviewAnalysis(r) ==
    /\ InPhase(r, "read") /\ request[r].op \in {"confirm", "reanalyze"}
    /\ IF /\ session = request[r].session
          /\ request[r].op = "reanalyze" => MayReanalyze(request[r].details)
       THEN request' = [request EXCEPT ![r].phase = "staged", ![r].base = Live]
       ELSE Return(r)
    /\ UNCHANGED <<session, extractions>> /\ OnlySession

(* Mutant: put instead of compare_and_put. *)
ClaimSessionUnchecked(r) ==
    LET claimed == [request[r].session EXCEPT !.state = "ANALYZING",
                                              !.confirmed = request[r].details,
                                              !.generation = @ + 1]
    IN  /\ InPhase(r, "staged")
        /\ session' = claimed
        /\ request' = [request EXCEPT ![r].phase = "analyzing", ![r].session = claimed]
        /\ UNCHANGED extractions /\ OnlySession

(* The whole session document is written, as it was read. *)
ClaimSession(r) ==
    LET read == request[r].session
        claimed == [read EXCEPT !.state = "ANALYZING",
                                !.confirmed = request[r].details,
                                !.generation = @ + 1]
    IN  /\ InPhase(r, "staged")
        /\ IF HoldsAt(read.state, read.generation)
           THEN /\ session' = claimed
                /\ request' = [request EXCEPT ![r].phase = "analyzing",
                                              ![r].session = claimed]
           ELSE Return(r) /\ UNCHANGED session
        /\ UNCHANGED extractions /\ OnlySession

(* A first analysis keeps the project's state, and the table has no way    *)
(* from the gate or behind it to CLASSIFIED; a reanalysis resets it first. *)
CanAnalyze(r) == request[r].op = "confirm" => request[r].base.project.state = "open"

(* Mutant: compares the documents of the aggregate and not its records. *)
PublishableDocuments(r) ==
    LET base == request[r].base IN
    /\ HoldsAt("ANALYZING", request[r].session.generation)
    /\ project = base.project /\ lockedForm = base.lockedForm

(* publish_review_analysis: claim and baseline are compared under one lock *)
(* and the staged documents replace the live ones.                         *)
Publishable(r) ==
    LET base == request[r].base IN
    /\ HoldsAt("ANALYZING", request[r].session.generation)
    /\ project = base.project /\ lockedForm = base.lockedForm
    /\ record = base.record

PublishReviewAnalysis(r) ==
    LET claimed == request[r].session
        base == request[r].base
        analysis == [generation |-> claimed.generation, details |-> claimed.confirmed]
    IN  /\ InPhase(r, "analyzing") /\ CanAnalyze(r) /\ Publishable(r)
        /\ session' = [claimed EXCEPT !.state = "COMPLETE"]
        /\ project' = [base.project EXCEPT !.state = "open", !.analysis = analysis]
        /\ lockedForm' = base.lockedForm
        /\ record' = [base.record EXCEPT !.analysis = analysis]
        /\ Return(r)
        /\ UNCHANGED <<extractions, losses, editVars, starting>>

(* Mutant: a refused confirmation raises outside the try block. *)
PublicationRefusedUncaught(r) ==
    /\ InPhase(r, "analyzing") /\ CanAnalyze(r) /\ ~Publishable(r)
    /\ IF request[r].op = "reanalyze" THEN Goto(r, "restoring") ELSE Return(r)
    /\ UNCHANGED <<session, extractions>> /\ OnlySession

PublicationRefused(r) ==
    /\ InPhase(r, "analyzing") /\ CanAnalyze(r) /\ ~Publishable(r)
    /\ IF request[r].op = "reanalyze" THEN Goto(r, "restoring") ELSE Raise(r)
    /\ UNCHANGED <<session, extractions>> /\ OnlySession

AnalysisRaises(r) ==
    /\ InPhase(r, "analyzing")
    /\ Raise(r)
    /\ UNCHANGED <<session, extractions>> /\ OnlySession

(* Mutants: the completed session comes back as it was claimed, or under a  *)
(* generation of its own.                                                  *)
RestoreClaimed(r) ==
    LET generation == request[r].session.generation IN
    /\ InPhase(r, "restoring")
    /\ session' = IF HoldsAt("ANALYZING", generation)
                  THEN [request[r].session EXCEPT !.state = "COMPLETE"]
                  ELSE session
    /\ Raise(r)
    /\ UNCHANGED extractions /\ OnlySession

RestoreNextGeneration(r) ==
    LET generation == request[r].session.generation IN
    /\ InPhase(r, "restoring")
    /\ session' = IF HoldsAt("ANALYZING", generation)
                  THEN [request[r].base.session EXCEPT !.generation = generation + 1]
                  ELSE session
    /\ Raise(r)
    /\ UNCHANGED extractions /\ OnlySession

(* The completed session comes back under the new generation. *)
RestoreCompleted(r) ==
    LET generation == request[r].session.generation IN
    /\ InPhase(r, "restoring")
    /\ session' = IF HoldsAt("ANALYZING", generation)
                  THEN [request[r].base.session EXCEPT !.generation = generation]
                  ELSE session
    /\ Raise(r)
    /\ UNCHANGED extractions /\ OnlySession

(* Mutant: an analysis fails whatever analysis is running. *)
FailAnyClaim(r) ==
    /\ InPhase(r, "failing")
    /\ session' = IF \/ request[r].op # "retry" /\ Holds("ANALYZING")
                     \/ request[r].op = "retry" /\ Holds("EXTRACTING")
                  THEN [request[r].session EXCEPT !.state = "FAILED"]
                  ELSE session
    /\ Return(r)
    /\ UNCHANGED extractions /\ OnlySession

(* The except clauses: an analysis fails the generation it claimed, an     *)
(* extraction whatever extraction is running.                              *)
FailClaim(r) ==
    /\ InPhase(r, "failing")
    /\ session' = IF \/ /\ request[r].op # "retry"
                        /\ HoldsAt("ANALYZING", request[r].session.generation)
                     \/ request[r].op = "retry" /\ Holds("EXTRACTING")
                  THEN [request[r].session EXCEPT !.state = "FAILED"]
                  ELSE session
    /\ Return(r)
    /\ UNCHANGED extractions /\ OnlySession

ClaimExtraction(r) ==
    LET extracting == [request[r].session EXCEPT !.state = "EXTRACTING",
                                                 !.intake = "running"]
    IN  /\ InPhase(r, "read") /\ request[r].op = "retry"
        /\ IF Holds("AWAITING_CONFIRMATION")
           THEN /\ session' = extracting
                /\ request' = [request EXCEPT ![r].phase = "extracting",
                                              ![r].session = extracting]
           ELSE Return(r) /\ UNCHANGED session
        /\ UNCHANGED extractions /\ OnlySession

(* An extraction that finds the session moved on raises. *)
PutCandidates(r, outcome) ==
    /\ InPhase(r, "extracting") /\ extractions < MaxExtractions
    /\ IF Holds("EXTRACTING")
       THEN /\ session' = [request[r].session EXCEPT
                                !.state = "AWAITING_CONFIRMATION",
                                !.intake = outcome, !.candidates = extractions + 1]
            /\ extractions' = extractions + 1
            /\ Goto(r, "answering")
       ELSE Raise(r) /\ UNCHANGED <<session, extractions>>
    /\ OnlySession

ExtractionRaises(r) ==
    /\ InPhase(r, "extracting")
    /\ Raise(r)
    /\ UNCHANGED <<session, extractions>> /\ OnlySession

(* The view is built inside the try block, after the candidates are put. *)
AnswerRetry(r) ==
    /\ InPhase(r, "answering")
    /\ Return(r) \/ Raise(r)
    /\ UNCHANGED <<session, extractions>> /\ OnlySession

(* The request ends and the session stays as it is. *)
Abandon(r) ==
    /\ abandoned' = IF request[r].session.state = "ANALYZING"
                    THEN abandoned \cup {request[r].session.generation}
                    ELSE abandoned
    /\ Return(r)

(* The except clause itself raises.  It sets error_message to the text of  *)
(* the exception, and ReviewSession refuses to be FAILED without one: an   *)
(* exception without text is never recorded, nor is one that finds the     *)
(* store failing.                                                          *)
FailureUnrecorded(r) ==
    /\ InPhase(r, "failing")
    /\ Abandon(r)
    /\ UNCHANGED <<session, projectVars, extractions, dead, editVars, starting>>

Die(r) ==
    /\ r \notin dead /\ request[r].phase # "idle"
    /\ dead' = dead \cup {r}
    /\ Abandon(r)
    /\ UNCHANGED <<session, projectVars, extractions, editVars, starting>>

-----------------------------------------------------------------------------
(***************************************************************************)
(* Other operations.  Each reads the project document and saves a changed  *)
(* copy, followed by an entry in the timeline; an operation "keep" leaves  *)
(* the state, "gate" is pass_gate, "freeze" is freeze_form, which puts the *)
(* frozen form before it saves the project.                                *)
(***************************************************************************)

OnlyEditor == UNCHANGED <<session, extractions, request, losses, edits, starting>>

EditReads(e, op) ==
    /\ editor[e].phase = "idle" /\ edits < MaxEdits
    /\ op = "gate" => project.state = "open"
    /\ op = "freeze" => project.state = "gate" /\ lockedForm = NoAnalysis
    /\ edits' = edits + 1
    /\ editor' = [editor EXCEPT ![e] =
                    [op |-> op, phase |-> IF op = "freeze" THEN "form" ELSE "save",
                     id |-> edits + 1, seen |-> project,
                     form |-> record.analysis]]
    /\ UNCHANGED <<session, projectVars, extractions, request, losses, starting>>

(* The draft was built from the facts when the operation began.  The event *)
(* that follows it shows a publication no more than the frozen form does.  *)
PutFrozenForm(e) ==
    /\ editor[e].phase = "form"
    /\ lockedForm' = editor[e].form
    /\ editor' = [editor EXCEPT ![e].phase = "save"]
    /\ UNCHANGED <<project, record>> /\ OnlyEditor

NextState(op, state) ==
    CASE op = "gate" -> "gate" [] op = "freeze" -> "locked" [] OTHER -> state

SaveProject(e) ==
    LET seen == editor[e].seen
        id == editor[e].id
    IN  /\ editor[e].phase = "save"
        /\ project' = [seen EXCEPT !.state = NextState(editor[e].op, @),
                                   !.edits = @ \cup {id}]
        /\ editor' = [editor EXCEPT ![e] = [NoEdit EXCEPT !.phase = "event", !.id = id]]
        /\ UNCHANGED <<lockedForm, record>> /\ OnlyEditor

(* Audit and timeline of the transition, or the event of the operation. *)
AddEvent(e) ==
    /\ editor[e].phase = "event"
    /\ record' = [record EXCEPT !.edits = @ \cup {editor[e].id}]
    /\ editor' = [editor EXCEPT ![e] = NoEdit]
    /\ UNCHANGED <<project, lockedForm>> /\ OnlyEditor

EditDies(e) ==
    /\ editor[e].phase # "idle"
    /\ editor' = [editor EXCEPT ![e] = NoEdit]
    /\ UNCHANGED projectVars /\ OnlyEditor

-----------------------------------------------------------------------------

Start ==
    \/ StartIdea \/ StartScript \/ SourceStored
    \/ \E outcome \in IntakeOutcomes : CandidatesPrepared(outcome)
    \/ StartReturns \/ StartFails

Answer(r) ==
    \/ StageReviewAnalysis(r) \/ ClaimSession(r)
    \/ PublishReviewAnalysis(r) \/ PublicationRefused(r) \/ AnalysisRaises(r)
    \/ RestoreCompleted(r) \/ FailClaim(r) \/ FailureUnrecorded(r)
    \/ ClaimExtraction(r)
    \/ \E outcome \in IntakeOutcomes : PutCandidates(r, outcome)
    \/ ExtractionRaises(r) \/ AnswerRetry(r)

Edit(e) ==
    \/ \E op \in {"keep", "gate", "freeze"} : EditReads(e, op)
    \/ PutFrozenForm(e) \/ SaveProject(e) \/ AddEvent(e) \/ EditDies(e)

Next ==
    \/ Start \/ StartDies
    \/ \E r \in Requests, d \in Details : Confirm(r, d) \/ Reanalyze(r, d)
    \/ \E r \in Requests : RetryIntake(r) \/ Answer(r) \/ Die(r)
    \/ \E e \in Editors : Edit(e)

Spec == Init /\ [][Next]_vars

-----------------------------------------------------------------------------
(***************************************************************************)
(* Properties.                                                             *)
(***************************************************************************)

Requesting ==
    [op : {"none", "confirm", "reanalyze", "retry"},
     phase : {"idle", "read", "staged", "analyzing", "restoring", "failing",
              "extracting", "answering"},
     session : Session, details : Details \cup {None}, base : Baseline]
Editing ==
    [op : {"none", "keep", "gate", "freeze"}, phase : {"idle", "form", "save", "event"},
     id : 0..MaxEdits, seen : Project, form : Analysis]

TypeOK ==
    /\ session \in Session /\ project \in Project
    /\ lockedForm \in Analysis /\ record \in Record
    /\ extractions \in 0..MaxExtractions /\ edits \in 0..MaxEdits
    /\ request \in [Requests -> Requesting] /\ dead \subseteq Requests
    /\ abandoned \subseteq 0..MaxGeneration
    /\ editor \in [Editors -> Editing]
    /\ starting \in {"new", "uploading", "extracting", "prepared", "done"}

(* A request that claimed the session and has not given it back. *)
Analyzing(r) == request[r].phase \in {"analyzing", "restoring"}

(* AnalysisHoldsSession.  The compare-and-put of confirm and reanalyze     *)
(* lets one request through, and neither a late failure of another one,    *)
(* nor a retried extraction, takes the session away from it                *)
(* (review_facade.py:238, 290, 405).                                       *)
AnalysisHoldsSession ==
    \A r \in Requests : Analyzing(r) =>
        /\ session = request[r].session
        /\ \A q \in Requests : Analyzing(q) => q = r

(* AnalyzingIsHeld.  A review in ANALYZING has a request that will         *)
(* publish, restore or fail it, unless the very analysis that claimed it   *)
(* died or could not record its failure: no other way out of               *)
(* _analyze_claimed leaves it behind (review_facade.py:320-412).           *)
AnalyzingIsHeld ==
    session.state = "ANALYZING" =>
        \/ session.generation \in abandoned
        \/ \E r \in Requests :
             /\ request[r].phase \in {"analyzing", "restoring", "failing"}
             /\ request[r].session = session

(* CompleteShowsPublished.  A completed review shows the details that the  *)
(* facts of its project were last analysed for, also after a reanalysis    *)
(* was refused and the session restored (review_facade.py:389).            *)
CompleteShowsPublished ==
    session.state = "COMPLETE" => session.confirmed = record.analysis.details

(* PublicationsKeepOtherWrites.  What other operations wrote while an      *)
(* analysis ran is still there when it publishes (memory.py:564).          *)
PublicationsKeepOtherWrites ==
    [][/\ record.edits \subseteq record'.edits
       /\ record'.analysis # record.analysis => project.edits \subseteq project'.edits]_vars

(* PublicationsRespectLocks.  A publication reaches no project whose form  *)
(* is out and replaces no frozen form; a reanalysis, which has a           *)
(* generation above 1, finds none, not even one whose freeze has written   *)
(* the form and not yet the project (review_facade.py:274).                *)
PublicationsRespectLocks ==
    [][record'.analysis # record.analysis =>
        /\ project.state # "locked" /\ lockedForm' = lockedForm
        /\ session.generation > 1 => lockedForm = NoAnalysis]_vars

(* FailedIsFinal.  A failed review stays failed, whatever the requests     *)
(* that were under way still write: its view tells the creator to start    *)
(* again (review_facade.py:608).                                           *)
FailedIsFinal == [][session.state = "FAILED" => session' = session]_vars

=============================================================================

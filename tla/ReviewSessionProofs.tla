------------------------ MODULE ReviewSessionProofs ------------------------
(***************************************************************************)
(* Proofs about ReviewSession, for any number of requests, editors and     *)
(* details and for all bounds.  SessionInv is the inductive invariant: it  *)
(* says what a request in each phase still knows about a session that      *)
(* others may have moved on.                                               *)
(***************************************************************************)
EXTENDS ReviewSession, TLAPS

Unclaimed == {"NONE", "UPLOADING", "EXTRACTING", "AWAITING_CONFIRMATION"}

(* Nobody calls before start has returned. *)
StartsAlone ==
    starting # "done" =>
        session.state \in Unclaimed /\ \A r \in Requests : request[r].phase = "idle"

(* A session never claimed, and every copy of one, has generation zero. *)
AtZero(s) == s.state \in Unclaimed => s.generation = 0

(* What a request was called for and the session it holds. *)
Fits(q) ==
    /\ AtZero(q.session)
    /\ q.phase \in {"staged", "analyzing", "restoring"} => q.op \in {"confirm", "reanalyze"}
    /\ q.phase = "restoring" => q.op = "reanalyze"
    /\ q.phase \in {"extracting", "answering"} => q.op = "retry"
    /\ q.phase \in {"read", "staged"} =>
        /\ q.op \in {"confirm", "retry"} => q.session.state = "AWAITING_CONFIRMATION"
        /\ q.op = "reanalyze" => q.session.state = "COMPLETE"
        /\ q.op \in {"confirm", "reanalyze"} => q.session.generation < MaxGeneration
    /\ q.phase \in {"extracting", "answering", "failing"} /\ q.op = "retry" =>
        q.session.state = "EXTRACTING"
    /\ q.phase \in {"analyzing", "restoring", "failing"} /\ q.op # "retry" =>
        q.session.state = "ANALYZING"
    /\ q.phase \in {"analyzing", "restoring"} /\ q.op = "confirm" =>
        q.session.generation = 1

PhasesFit == AtZero(session) /\ \A r \in Requests : Fits(request[r])

(* What a request staged: a reanalysis only an unlocked project.  Until it *)
(* claims the session, the session is the one it staged or has moved to a  *)
(* later generation; from then on the details it would restore are those   *)
(* the records still show.                                                 *)
StagedFits(q) ==
    /\ q.phase = "staged" => q.base.session = q.session
    /\ q.phase = "staged" /\ q.op = "reanalyze" =>
        q.session = session \/ q.session.generation < session.generation
    /\ q.phase \in {"staged", "analyzing"} /\ q.op = "reanalyze" =>
        q.base.lockedForm = NoAnalysis /\ q.base.project.state # "locked"
    /\ q.phase \in {"analyzing", "restoring"} /\ q.op = "reanalyze" =>
        /\ q.base.session.state = "COMPLETE"
        /\ q.base.session.confirmed = record.analysis.details

StagesFit == \A r \in Requests : StagedFits(request[r])

(* An analysis about to fail its claim holds an older generation than the  *)
(* analysis that holds the session, if there is one.                       *)
FailsOwnGeneration ==
    \A q \in Requests :
        request[q].phase = "failing" /\ request[q].op # "retry" =>
            /\ request[q].session.generation =< session.generation
            /\ \A r \in Requests : Analyzing(r) =>
                request[q].session.generation < session.generation

EditsNumbered == \A e \in Editors : editor[e].phase # "idle" => editor[e].id # 0

SessionInv ==
    /\ TypeOK /\ EditsNumbered /\ StartsAlone /\ PhasesFit /\ StagesFit
    /\ FailsOwnGeneration
    /\ AnalysisHoldsSession /\ AnalyzingIsHeld /\ CompleteShowsPublished

-----------------------------------------------------------------------------

LEMMA EmptyTypes ==
    /\ NoAnalysis \in Analysis /\ NewSession \in Session /\ NewProject \in Project
    /\ NewRecord \in Record /\ NoRequest \in Requesting /\ NoEdit \in Editing
BY SessionConstants DEF NoAnalysis, Analysis, NewSession, Session, ReviewState,
    IntakeStatus, IntakeOutcomes, NewProject, Project, ProjectStates, NewRecord, Record,
    NoRequest, Requesting, Baseline, NoEdit, Editing

LEMMA LiveType == TypeOK => Live \in Baseline
BY DEF TypeOK, Live, Baseline

LEMMA InitHolds == Init => SessionInv
<1> SUFFICES ASSUME Init PROVE SessionInv
    OBVIOUS
<1>1. TypeOK
    BY EmptyTypes, SessionConstants DEF Init, TypeOK
<1>2. EditsNumbered /\ StartsAlone
    BY DEF Init, EditsNumbered, NoEdit, StartsAlone, Unclaimed, NewSession, NoRequest
<1>3. PhasesFit
    BY DEF Init, PhasesFit, Fits, AtZero, NewSession, NoRequest
<1>4. StagesFit /\ FailsOwnGeneration
    BY DEF Init, StagesFit, StagedFits, FailsOwnGeneration, NoRequest
<1>5. AnalysisHoldsSession /\ AnalyzingIsHeld /\ CompleteShowsPublished
    BY DEF Init, AnalysisHoldsSession, AnalyzingIsHeld, CompleteShowsPublished, Analyzing,
        NoRequest, NewSession
<1> QED
    BY <1>1, <1>2, <1>3, <1>4, <1>5 DEF SessionInv

(* A start step writes the session with put and leaves the rest alone. *)
LEMMA StartTypes ==
    ASSUME TypeOK, EditsNumbered, Start \/ StartDies
    PROVE  TypeOK' /\ EditsNumbered'
<1>1. CASE StartIdea \/ StartScript \/ SourceStored \/ StartReturns \/ StartFails \/ StartDies
    BY <1>1, SessionConstants DEF StartIdea, StartScript, SourceStored, StartReturns,
        StartFails, StartDies, PutSession, TypeOK, EditsNumbered, Session, ReviewState,
        IntakeStatus, projectVars, losses, editVars
<1>2. ASSUME NEW outcome \in IntakeOutcomes, CandidatesPrepared(outcome)
     PROVE  TypeOK' /\ EditsNumbered'
    <2>1. extractions + 1 \in 0..MaxExtractions
        BY <1>2, SessionConstants DEF CandidatesPrepared, TypeOK
    <2>2. session' \in Session
        BY <1>2, <2>1 DEF CandidatesPrepared, PutSession, TypeOK, Session, ReviewState,
            IntakeStatus
    <2> QED
        BY <1>2, <2>1, <2>2 DEF CandidatesPrepared, PutSession, TypeOK, EditsNumbered,
            projectVars, losses, editVars
<1> QED
    BY <1>1, <1>2 DEF Start

(* The copy of a session that a request may put. *)
LEMMA SessionCopies ==
    ASSUME NEW s \in Session
    PROVE  /\ \A st \in ReviewState : [s EXCEPT !.state = st] \in Session
           /\ \A g \in 0..MaxGeneration : [s EXCEPT !.generation = g] \in Session
           /\ [s EXCEPT !.state = "EXTRACTING", !.intake = "running"] \in Session
           /\ \A o \in IntakeOutcomes, c \in 0..MaxExtractions :
                [s EXCEPT !.state = "AWAITING_CONFIRMATION", !.intake = o,
                          !.candidates = c] \in Session
           /\ \A d \in Details \cup {None}, g \in 0..MaxGeneration :
                [s EXCEPT !.state = "ANALYZING", !.confirmed = d,
                          !.generation = g] \in Session
BY DEF Session, ReviewState, IntakeStatus

LEMMA RequestCopies ==
    ASSUME NEW q \in Requesting
    PROVE  /\ \A x \in {"idle", "read", "staged", "analyzing", "restoring", "failing",
                         "extracting", "answering"} : [q EXCEPT !.phase = x] \in Requesting
           /\ \A b \in Baseline : [q EXCEPT !.phase = "staged", !.base = b] \in Requesting
           /\ \A x \in {"analyzing", "extracting"}, s \in Session :
                [q EXCEPT !.phase = x, !.session = s] \in Requesting
           /\ [NoRequest EXCEPT !.op = q.op, !.phase = "failing",
                                !.session = q.session] \in Requesting
BY EmptyTypes DEF Requesting

(* A step of request r replaces what r holds and leaves the editors alone. *)
LEMMA RequestTypes ==
    ASSUME TypeOK, EditsNumbered, NEW r \in Requests, NEW q \in Requesting,
           request' = [request EXCEPT ![r] = q], session' \in Session,
           project' \in Project, lockedForm' \in Analysis, record' \in Record,
           extractions' \in 0..MaxExtractions, dead' \subseteq Requests,
           abandoned' \subseteq 0..MaxGeneration,
           UNCHANGED <<editVars, starting>>
    PROVE  TypeOK' /\ EditsNumbered'
BY DEF TypeOK, EditsNumbered, editVars

LEMMA RequestSteps ==
    ASSUME TypeOK, EditsNumbered, NEW r \in Requests,
           \/ \E d \in Details : Confirm(r, d) \/ Reanalyze(r, d)
           \/ RetryIntake(r)
           \/ PublicationRefused(r) \/ AnalysisRaises(r)
           \/ ExtractionRaises(r) \/ AnswerRetry(r) \/ Die(r) \/ FailureUnrecorded(r)
           \/ StageReviewAnalysis(r)
    PROVE  TypeOK' /\ EditsNumbered'
<1> DEFINE q == request[r]
<1> USE DEF OnlySession, projectVars, losses, Goto, Return, Raise
<1>0. q \in Requesting /\ Live \in Baseline /\ NoRequest \in Requesting
    BY LiveType, EmptyTypes DEF TypeOK
<1>1. CASE (\E d \in Details : Confirm(r, d) \/ Reanalyze(r, d)) \/ RetryIntake(r)
    <2>1. PICK op \in {"confirm", "reanalyze", "retry"}, x \in Details \cup {None} : Call(r, op, x)
        BY <1>1 DEF Confirm, Reanalyze, RetryIntake
    <2>2. [NoRequest EXCEPT !.op = op, !.phase = "read", !.session = session,
                            !.details = x] \in Requesting
        BY <1>0, <2>1 DEF Requesting, TypeOK
    <2> QED
        BY <2>1, <2>2, RequestTypes DEF Call, TypeOK
<1>2. CASE PublicationRefused(r) \/ AnalysisRaises(r) \/ ExtractionRaises(r) \/ AnswerRetry(r)
    <2>1. \/ request' = [request EXCEPT ![r] = [q EXCEPT !.phase = "restoring"]]
          \/ request' = [request EXCEPT ![r] = NoRequest]
          \/ request' = [request EXCEPT ![r] = [NoRequest EXCEPT !.op = q.op,
                            !.phase = "failing", !.session = q.session]]
        BY <1>2 DEF PublicationRefused, AnalysisRaises, ExtractionRaises, AnswerRetry
    <2>2. PICK n \in Requesting : request' = [request EXCEPT ![r] = n]
        BY <2>1, <1>0, RequestCopies
    <2> QED
        BY <1>2, <2>2, RequestTypes DEF PublicationRefused, AnalysisRaises, ExtractionRaises,
            AnswerRetry, TypeOK
<1>3. CASE Die(r) \/ FailureUnrecorded(r)
    <2>1. abandoned' \subseteq 0..MaxGeneration
        BY <1>0, <1>3 DEF Die, FailureUnrecorded, Abandon, TypeOK, Requesting, Session
    <2> QED
        BY <1>0, <1>3, <2>1, RequestTypes DEF Die, FailureUnrecorded, Abandon, TypeOK
<1>4. CASE StageReviewAnalysis(r)
    <2>1. \/ request' = [request EXCEPT ![r] = NoRequest]
          \/ request' = [request EXCEPT ![r] = [q EXCEPT !.phase = "staged", !.base = Live]]
        BY <1>4 DEF StageReviewAnalysis
    <2>2. PICK n \in Requesting : request' = [request EXCEPT ![r] = n]
        BY <2>1, <1>0, RequestCopies
    <2> QED
        BY <1>4, <2>2, RequestTypes DEF StageReviewAnalysis, TypeOK
<1> QED
    BY <1>1, <1>2, <1>3, <1>4

LEMMA SessionSteps ==
    ASSUME TypeOK, EditsNumbered, PhasesFit, NEW r \in Requests,
           \/ ClaimSession(r) \/ PublishReviewAnalysis(r) \/ RestoreCompleted(r)
           \/ FailClaim(r) \/ ClaimExtraction(r)
           \/ \E outcome \in IntakeOutcomes : PutCandidates(r, outcome)
    PROVE  TypeOK' /\ EditsNumbered'
<1> DEFINE q == request[r]
<1> USE DEF OnlySession, projectVars, losses, Goto, Return, Raise
<1>0. q \in Requesting /\ q.session \in Session /\ q.base \in Baseline
      /\ q.details \in Details \cup {None} /\ NoRequest \in Requesting
    BY EmptyTypes DEF TypeOK, Requesting
<1>1. CASE ClaimSession(r)
    <2> DEFINE claimed == [q.session EXCEPT !.state = "ANALYZING",
                                           !.confirmed = q.details, !.generation = @ + 1]
    <2>1. q.session.generation + 1 \in 0..MaxGeneration
        BY <1>0, <1>1, SessionConstants DEF ClaimSession, InPhase, PhasesFit, Fits, Session
    <2>2. claimed = [q.session EXCEPT !.state = "ANALYZING", !.confirmed = q.details,
                                     !.generation = q.session.generation + 1]
        BY <1>0 DEF Session
    <2>3. claimed \in Session
        BY <1>0, <2>1, <2>2, SessionCopies
    <2>4. [q EXCEPT !.phase = "analyzing", !.session = claimed] \in Requesting
        BY <1>0, <2>3, RequestCopies
    <2>5. \/ request' = [request EXCEPT ![r] = NoRequest] /\ session' = session
          \/ /\ request' = [request EXCEPT ![r] = [q EXCEPT !.phase = "analyzing",
                                                         !.session = claimed]]
             /\ session' = claimed
        BY <1>1 DEF ClaimSession
    <2> QED
        BY <1>0, <1>1, <2>3, <2>4, <2>5, RequestTypes DEF ClaimSession, TypeOK
<1>2. CASE PublishReviewAnalysis(r)
    <2> DEFINE analysis == [generation |-> q.session.generation,
                            details |-> q.session.confirmed]
    <2>1. analysis \in Analysis
        BY <1>0 DEF Analysis, Session
    <2>2. [q.session EXCEPT !.state = "COMPLETE"] \in Session
        BY <1>0, SessionCopies DEF ReviewState
    <2>3. q.base.project \in Project /\ q.base.record \in Record /\ q.base.lockedForm \in Analysis
        BY <1>0 DEF Baseline
    <2>4. [q.base.project EXCEPT !.state = "open", !.analysis = analysis] \in Project
          /\ [q.base.record EXCEPT !.analysis = analysis] \in Record
        BY <2>1, <2>3 DEF Project, ProjectStates, Record
    <2> QED
        BY <1>0, <1>2, <2>2, <2>3, <2>4, RequestTypes DEF PublishReviewAnalysis, TypeOK
<1>3. CASE RestoreCompleted(r)
    <2>1. [q.base.session EXCEPT !.generation = q.session.generation] \in Session
        BY <1>0, SessionCopies DEF Baseline, Session
    <2>2. session' \in Session
        BY <1>3, <2>1 DEF RestoreCompleted, TypeOK
    <2>3. [NoRequest EXCEPT !.op = q.op, !.phase = "failing", !.session = q.session] \in Requesting
        BY <1>0, RequestCopies
    <2> QED
        BY <1>3, <2>2, <2>3, RequestTypes DEF RestoreCompleted, TypeOK
<1>4. CASE FailClaim(r)
    <2>1. session' \in Session
        BY <1>0, <1>4, SessionCopies DEF FailClaim, TypeOK, ReviewState
    <2> QED
        BY <1>0, <1>4, <2>1, RequestTypes DEF FailClaim, TypeOK
<1>5. CASE ClaimExtraction(r)
    <2> DEFINE extracting == [q.session EXCEPT !.state = "EXTRACTING", !.intake = "running"]
    <2>1. extracting \in Session
        BY <1>0, SessionCopies
    <2>2. [q EXCEPT !.phase = "extracting", !.session = extracting] \in Requesting
        BY <1>0, <2>1, RequestCopies
    <2>3. \/ request' = [request EXCEPT ![r] = NoRequest] /\ session' = session
          \/ /\ request' = [request EXCEPT ![r] = [q EXCEPT !.phase = "extracting",
                                                         !.session = extracting]]
             /\ session' = extracting
        BY <1>5 DEF ClaimExtraction
    <2> QED
        BY <1>0, <1>5, <2>1, <2>2, <2>3, RequestTypes DEF ClaimExtraction, TypeOK
<1>6. ASSUME NEW outcome \in IntakeOutcomes, PutCandidates(r, outcome)
     PROVE  TypeOK' /\ EditsNumbered'
    <2>0. extractions < MaxExtractions /\ extractions \in 0..MaxExtractions
        BY <1>6 DEF PutCandidates, TypeOK
    <2>1. extractions + 1 \in 0..MaxExtractions
        BY <2>0, SessionConstants
    <2> DEFINE put == [q.session EXCEPT !.state = "AWAITING_CONFIRMATION",
                                       !.intake = outcome, !.candidates = extractions + 1]
    <2>5. put \in Session
        BY <1>0, <2>1, SessionCopies
    <2>6. \/ session' = put /\ extractions' = extractions + 1
          \/ UNCHANGED <<session, extractions>>
        BY <1>6 DEF PutCandidates
    <2>2. session' \in Session /\ extractions' \in 0..MaxExtractions
        BY <2>1, <2>5, <2>6 DEF TypeOK
    <2>3. \/ request' = [request EXCEPT ![r] = [q EXCEPT !.phase = "answering"]]
          \/ request' = [request EXCEPT ![r] = [NoRequest EXCEPT !.op = q.op,
                            !.phase = "failing", !.session = q.session]]
        BY <1>6 DEF PutCandidates
    <2>4. PICK n \in Requesting : request' = [request EXCEPT ![r] = n]
        BY <2>3, <1>0, RequestCopies
    <2> QED
        BY <1>6, <2>2, <2>4, RequestTypes DEF PutCandidates, TypeOK
<1> QED
    BY <1>1, <1>2, <1>3, <1>4, <1>5, <1>6

LEMMA EditTypes ==
    ASSUME TypeOK, EditsNumbered, NEW e \in Editors, Edit(e)
    PROVE  TypeOK' /\ EditsNumbered'
<1> USE DEF OnlyEditor, projectVars, losses
<1> DEFINE w == editor[e]
<1>0. w \in Editing /\ NoEdit \in Editing
    BY EmptyTypes DEF TypeOK
<1>1. ASSUME NEW n \in Editing, n.phase # "idle" => n.id # 0,
            editor' = [editor EXCEPT ![e] = n], project' \in Project,
            lockedForm' \in Analysis, record' \in Record, edits' \in 0..MaxEdits,
            UNCHANGED <<session, extractions, request, losses, starting>>
     PROVE  TypeOK' /\ EditsNumbered'
    BY <1>1 DEF TypeOK, EditsNumbered
<1>2. ASSUME NEW op \in {"keep", "gate", "freeze"}, EditReads(e, op)
     PROVE  TypeOK' /\ EditsNumbered'
    <2> DEFINE n == [op |-> op, phase |-> IF op = "freeze" THEN "form" ELSE "save",
                     id |-> edits + 1, seen |-> project, form |-> record.analysis]
    <2>1. edits + 1 \in 1..MaxEdits
        BY <1>2, SessionConstants DEF EditReads, TypeOK
    <2>2. n \in Editing /\ n.id # 0
        BY <2>1 DEF Editing, TypeOK, Record
    <2>3. editor' = [editor EXCEPT ![e] = n] /\ edits' \in 0..MaxEdits
        BY <1>2, <2>1 DEF EditReads
    <2> QED
        BY <1>1, <1>2, <2>2, <2>3 DEF EditReads, TypeOK
<1>3. CASE PutFrozenForm(e)
    <2>1. [w EXCEPT !.phase = "save"] \in Editing /\ w.form \in Analysis /\ w.id # 0
        BY <1>0, <1>3 DEF PutFrozenForm, Editing, EditsNumbered
    <2> QED
        BY <1>0, <1>1, <1>3, <2>1 DEF PutFrozenForm, TypeOK, Editing
<1>4. CASE SaveProject(e)
    <2>1. w.id \in 1..MaxEdits /\ w.seen \in Project
        BY <1>0, <1>4, SessionConstants DEF SaveProject, Editing, EditsNumbered
    <2>2. project' \in Project
        BY <1>4, <2>1 DEF SaveProject, Project, NextState, ProjectStates
    <2>3. [NoEdit EXCEPT !.phase = "event", !.id = w.id] \in Editing
        BY <1>0, <2>1 DEF Editing
    <2>4. [NoEdit EXCEPT !.phase = "event", !.id = w.id].id # 0
        BY <2>1 DEF NoEdit
    <2> QED
        BY <1>1, <1>4, <2>2, <2>3, <2>4 DEF SaveProject, TypeOK
<1>5. CASE AddEvent(e)
    <2>1. w.id \in 1..MaxEdits
        BY <1>0, <1>5, SessionConstants DEF AddEvent, Editing, EditsNumbered
    <2>2. record' \in Record
        BY <1>5, <2>1 DEF AddEvent, TypeOK, Record
    <2> QED
        BY <1>0, <1>1, <1>5, <2>2 DEF AddEvent, TypeOK, NoEdit
<1>6. CASE EditDies(e)
    BY <1>0, <1>1, <1>6 DEF EditDies, TypeOK, NoEdit
<1> QED
    BY <1>2, <1>3, <1>4, <1>5, <1>6 DEF Edit

-----------------------------------------------------------------------------
(* What SessionInv says beyond the types. *)
Agreement ==
    /\ StartsAlone /\ PhasesFit /\ StagesFit /\ FailsOwnGeneration
    /\ AnalysisHoldsSession /\ AnalyzingIsHeld /\ CompleteShowsPublished

(* An operation of the workflow service touches no session, no request, and *)
(* not the analysis the records show.                                      *)
LEMMA EditAgrees ==
    ASSUME TypeOK, Agreement, NEW e \in Editors, Edit(e)
    PROVE  Agreement'
<1>1. UNCHANGED <<session, request, abandoned, starting>> /\ record'.analysis = record.analysis
    BY DEF Edit, EditReads, PutFrozenForm, SaveProject, AddEvent, EditDies, OnlyEditor,
        projectVars, losses, TypeOK, Record
<1> QED
    BY <1>1 DEF Agreement, StartsAlone, PhasesFit, Fits, AtZero, StagesFit, StagedFits,
        FailsOwnGeneration, AnalysisHoldsSession, AnalyzingIsHeld, Analyzing,
        CompleteShowsPublished

LEMMA StartAgrees ==
    ASSUME TypeOK, Agreement, Start \/ StartDies
    PROVE  Agreement'
<1>1. starting # "done" /\ session.state \in Unclaimed
      /\ \A r \in Requests : request[r].phase = "idle"
    BY DEF Agreement, StartsAlone, Start, StartDies, StartIdea, StartScript, SourceStored,
        CandidatesPrepared, StartReturns, StartFails
<1>2. /\ session'.generation = session.generation
      /\ \/ session'.state \in Unclaimed
         \/ session'.state = "FAILED" /\ starting' = "done"
      /\ UNCHANGED <<request, abandoned, record>>
    BY <1>1 DEF Start, StartDies, StartIdea, StartScript, SourceStored, CandidatesPrepared,
        StartReturns, StartFails, PutSession, projectVars, losses, TypeOK, Session, Unclaimed
<1>3. StartsAlone' /\ PhasesFit'
    BY <1>1, <1>2 DEF Agreement, StartsAlone, PhasesFit, Fits, AtZero
<1>4. StagesFit' /\ FailsOwnGeneration' /\ AnalysisHoldsSession'
    BY <1>1, <1>2 DEF Agreement, StagesFit, StagedFits, FailsOwnGeneration,
        AnalysisHoldsSession, Analyzing
<1>5. AnalyzingIsHeld' /\ CompleteShowsPublished'
    BY <1>2 DEF AnalyzingIsHeld, CompleteShowsPublished, Unclaimed
<1> QED
    BY <1>3, <1>4, <1>5 DEF Agreement

(* A step of request r that leaves the session and the project alone.  The *)
(* request may give a claim up, but takes none.                            *)
LEMMA QuietStep ==
    ASSUME TypeOK, Agreement, NEW r \in Requests, NEW n,
           request' = [request EXCEPT ![r] = n],
           UNCHANGED <<session, record, starting>>, abandoned \subseteq abandoned',
           starting = "done" \/ n.phase = "idle",
           Fits(n), StagedFits(n),
           n.phase \in {"analyzing", "restoring"} \/ (n.phase = "failing" /\ n.op # "retry")
             => Analyzing(r) /\ n.session = request[r].session,
           request[r].phase \in {"analyzing", "restoring", "failing"}
           /\ request[r].session = session /\ session.state = "ANALYZING"
             => \/ session.generation \in abandoned'
                \/ /\ n.phase \in {"analyzing", "restoring", "failing"}
                   /\ n.session = request[r].session
    PROVE  Agreement'
<1>1. /\ request'[r] = n
      /\ \A p \in Requests : p # r => request'[p] = request[p]
    BY DEF TypeOK
<1>2. StartsAlone' /\ PhasesFit'
    BY <1>1 DEF Agreement, StartsAlone, PhasesFit, Fits, AtZero
<1>3. StagesFit'
    BY <1>1 DEF Agreement, StagesFit, StagedFits
<1>4. AnalysisHoldsSession'
    BY <1>1 DEF Agreement, AnalysisHoldsSession, Analyzing
<1>5. FailsOwnGeneration'
    <2> SUFFICES ASSUME NEW q \in Requests, (request[q].phase = "failing")',
                        (request[q].op # "retry")'
                 PROVE  (/\ request[q].session.generation =< session.generation
                         /\ \A p \in Requests : Analyzing(p) =>
                              request[q].session.generation < session.generation)'
        BY DEF FailsOwnGeneration
    <2>1. CASE q = r
        <3>1. Analyzing(r) /\ n.session = session /\ n.phase = "failing"
            BY <1>1, <2>1 DEF Agreement, AnalysisHoldsSession
        <3>2. \A p \in Requests : ~Analyzing(p)'
            BY <1>1, <3>1 DEF Agreement, AnalysisHoldsSession, Analyzing
        <3>3. session.generation =< session.generation
            BY DEF TypeOK, Session
        <3> QED
            BY <1>1, <2>1, <3>1, <3>2, <3>3
    <2>2. CASE q # r
        BY <1>1, <2>2 DEF Agreement, FailsOwnGeneration, Analyzing
    <2> QED
        BY <2>1, <2>2
<1>6. AnalyzingIsHeld'
    BY <1>1 DEF Agreement, AnalyzingIsHeld
<1>7. CompleteShowsPublished'
    BY DEF Agreement, CompleteShowsPublished
<1> QED
    BY <1>2, <1>3, <1>4, <1>5, <1>6, <1>7 DEF Agreement

(* A step of request r that writes the session while no other request      *)
(* holds it.                                                               *)
LEMMA SessionStep ==
    ASSUME TypeOK, TypeOK', Agreement, NEW r \in Requests, NEW n,
           request' = [request EXCEPT ![r] = n],
           starting = "done", UNCHANGED starting,
           \A p \in Requests : p # r => ~Analyzing(p),
           AtZero(session'), session'.generation >= session.generation,
           session.state = "COMPLETE" => session'.generation > session.generation,
           Fits(n), n.phase \in {"idle", "analyzing", "failing", "extracting", "answering"},
           n.phase = "analyzing" =>
             /\ n.session = session' /\ session'.generation > session.generation
             /\ n.op = "reanalyze" =>
                  /\ n.base.lockedForm = NoAnalysis /\ n.base.project.state # "locked"
                  /\ n.base.session.state = "COMPLETE"
                  /\ n.base.session.confirmed = record'.analysis.details,
           n.phase = "failing" /\ n.op # "retry" =>
             n.session.generation =< session'.generation,
           session'.state = "ANALYZING" => n.phase = "analyzing",
           session'.state = "COMPLETE" =>
             session'.confirmed = record'.analysis.details
    PROVE  Agreement'
<1>1. /\ request'[r] = n
      /\ \A p \in Requests : p # r => request'[p] = request[p]
    BY DEF TypeOK
<1>2. StartsAlone' /\ PhasesFit'
    BY <1>1 DEF Agreement, StartsAlone, PhasesFit, Fits, AtZero
<1>3. StagesFit'
    <2>1. ASSUME NEW p \in Requests, p # r, request[p].phase = "staged",
                request[p].op = "reanalyze"
         PROVE  request[p].session.generation < session'.generation
        <3>1. request[p].session.state = "COMPLETE"
              /\ \/ request[p].session = session
                 \/ request[p].session.generation < session.generation
            BY <2>1 DEF Agreement, PhasesFit, Fits, StagesFit, StagedFits
        <3>2. session.generation \in Nat /\ session'.generation \in Nat
              /\ request[p].session.generation \in Nat
            BY SessionConstants DEF TypeOK, Requesting, Session
        <3> QED
            BY <3>1, <3>2
    <2> QED
        BY <1>1, <2>1 DEF Agreement, StagesFit, StagedFits, Analyzing
<1>4. AnalysisHoldsSession' /\ AnalyzingIsHeld' /\ CompleteShowsPublished'
    BY <1>1 DEF AnalysisHoldsSession, AnalyzingIsHeld, CompleteShowsPublished, Analyzing
<1>5. FailsOwnGeneration'
    <2> SUFFICES ASSUME NEW q \in Requests, (request[q].phase = "failing")',
                        (request[q].op # "retry")'
                 PROVE  (/\ request[q].session.generation =< session.generation
                         /\ \A p \in Requests : Analyzing(p) =>
                              request[q].session.generation < session.generation)'
        BY DEF FailsOwnGeneration
    <2>1. session.generation \in Nat /\ session'.generation \in Nat
          /\ request'[q].session.generation \in Nat
        BY SessionConstants DEF TypeOK, Requesting, Session
    <2>2. CASE q = r
        BY <1>1, <2>2 DEF Analyzing
    <2>3. CASE q # r
        <3>1. request'[q].session.generation =< session.generation
            BY <1>1, <2>3 DEF Agreement, FailsOwnGeneration
        <3>2. ASSUME NEW p \in Requests, Analyzing(p)'
             PROVE  session'.generation > session.generation
            BY <1>1, <3>2 DEF Analyzing
        <3> QED
            BY <2>1, <3>1, <3>2
    <2> QED
        BY <2>2, <2>3
<1> QED
    BY <1>2, <1>3, <1>4, <1>5 DEF Agreement

(* Whoever is between two steps was called after start had returned. *)
LEMMA CalledAfterStart ==
    ASSUME Agreement, NEW r \in Requests, request[r].phase # "idle"
    PROVE  starting = "done"
BY DEF Agreement, StartsAlone

LEMMA IdleFits == Fits(NoRequest) /\ StagedFits(NoRequest)
BY DEF Fits, StagedFits, AtZero, NoRequest, NewSession

LEMMA CallAgrees ==
    ASSUME TypeOK, Agreement, NEW r \in Requests,
           (\E d \in Details : Confirm(r, d) \/ Reanalyze(r, d)) \/ RetryIntake(r)
    PROVE  Agreement'
<1>1. PICK op, x : Call(r, op, x) /\ op \in {"confirm", "reanalyze", "retry"}
                   /\ (op \in {"confirm", "retry"} => session.state = "AWAITING_CONFIRMATION")
                   /\ (op = "reanalyze" => session.state = "COMPLETE")
                   /\ (op # "retry" => session.generation < MaxGeneration)
    BY DEF Confirm, Reanalyze, RetryIntake, Holds
<1> DEFINE n == [NoRequest EXCEPT !.op = op, !.phase = "read", !.session = session,
                                  !.details = x]
<1>2. request' = [request EXCEPT ![r] = n] /\ request[r].phase = "idle"
      /\ UNCHANGED <<session, record, abandoned, starting>> /\ starting = "done"
    BY <1>1 DEF Call, OnlySession, projectVars, losses, InPhase
<1>3. n.op = op /\ n.phase = "read" /\ n.session = session
    BY DEF NoRequest
<1>4. Fits(n) /\ StagedFits(n)
    BY <1>1, <1>3 DEF Fits, StagedFits, Agreement, PhasesFit
<1> HIDE DEF n
<1> QED
    BY <1>2, <1>3, <1>4, QuietStep

LEMMA StageAgrees ==
    ASSUME TypeOK, Agreement, NEW r \in Requests, StageReviewAnalysis(r)
    PROVE  Agreement'
<1> DEFINE q == request[r]
           n == [q EXCEPT !.phase = "staged", !.base = Live]
<1>0. q \in Requesting
    BY DEF TypeOK
<1>1. UNCHANGED <<session, record, abandoned, starting>> /\ q.phase = "read" /\ starting = "done"
      /\ q.op \in {"confirm", "reanalyze"}
    BY CalledAfterStart DEF StageReviewAnalysis, OnlySession, projectVars, losses, InPhase
<1>2. CASE request' = [request EXCEPT ![r] = NoRequest]
    BY <1>1, <1>2, IdleFits, QuietStep DEF NoRequest
<1>3. CASE /\ session = q.session /\ (q.op = "reanalyze" => MayReanalyze(q.details))
           /\ request' = [request EXCEPT ![r] = n]
    <2>1. n.op = q.op /\ n.phase = "staged" /\ n.session = q.session /\ n.base = Live
        BY <1>0 DEF Requesting
    <2>2. Fits(n)
        BY <1>1, <2>1 DEF Fits, Agreement, PhasesFit
    <2>3. StagedFits(n)
        BY <1>3, <2>1 DEF StagedFits, Live, MayReanalyze
    <2> HIDE DEF n
    <2> QED
        BY <1>1, <1>3, <2>1, <2>2, <2>3, QuietStep
<1> QED
    BY <1>2, <1>3 DEF StageReviewAnalysis, Return

(* A refused or failed analysis keeps its claim until it gives it up, a    *)
(* failed extraction has none.                                             *)
LEMMA RaiseAgrees ==
    ASSUME TypeOK, Agreement, NEW r \in Requests,
           PublicationRefused(r) \/ AnalysisRaises(r) \/ ExtractionRaises(r) \/ AnswerRetry(r)
    PROVE  Agreement'
<1> DEFINE q == request[r]
           failing == [NoRequest EXCEPT !.op = q.op, !.phase = "failing", !.session = q.session]
           restoring == [q EXCEPT !.phase = "restoring"]
<1>0. q \in Requesting
    BY DEF TypeOK
<1>1. UNCHANGED <<session, record, abandoned, starting>>
      /\ q.phase \in {"analyzing", "extracting", "answering"} /\ starting = "done"
    BY CalledAfterStart DEF PublicationRefused, AnalysisRaises, ExtractionRaises, AnswerRetry,
        OnlySession, projectVars, losses, InPhase
<1>2. \/ request' = [request EXCEPT ![r] = failing]
      \/ /\ request' = [request EXCEPT ![r] = restoring]
         /\ q.phase = "analyzing" /\ q.op = "reanalyze"
      \/ request' = [request EXCEPT ![r] = NoRequest] /\ q.phase = "answering"
    BY DEF PublicationRefused, AnalysisRaises, ExtractionRaises, AnswerRetry, Goto, Return,
        Raise, InPhase
<1>3. Fits(q) /\ StagedFits(q)
    BY DEF Agreement, PhasesFit, StagesFit
<1>4. CASE request' = [request EXCEPT ![r] = failing]
    <2>1. failing.op = q.op /\ failing.phase = "failing" /\ failing.session = q.session
        BY DEF NoRequest
    <2>2. Fits(failing) /\ StagedFits(failing)
        BY <1>1, <1>3, <2>1 DEF Fits, StagedFits
    <2>3. q.op # "retry" => Analyzing(r)
        BY <1>1, <1>3 DEF Fits, Analyzing
    <2> HIDE DEF failing
    <2> QED
        BY <1>1, <1>4, <2>1, <2>2, <2>3, QuietStep
<1>5. CASE /\ request' = [request EXCEPT ![r] = restoring]
           /\ q.phase = "analyzing" /\ q.op = "reanalyze"
    <2>1. restoring.op = q.op /\ restoring.phase = "restoring"
          /\ restoring.session = q.session /\ restoring.base = q.base
        BY <1>0 DEF Requesting
    <2>2. Fits(restoring) /\ StagedFits(restoring)
        BY <1>3, <1>5, <2>1 DEF Fits, StagedFits
    <2> HIDE DEF restoring
    <2> QED
        BY <1>1, <1>5, <2>1, <2>2, QuietStep DEF Analyzing
<1>6. CASE request' = [request EXCEPT ![r] = NoRequest] /\ q.phase = "answering"
    BY <1>1, <1>6, IdleFits, QuietStep DEF NoRequest
<1> QED
    BY <1>2, <1>4, <1>5, <1>6

(* A request that ends without a word leaves its generation on record. *)
LEMMA AbandonAgrees ==
    ASSUME TypeOK, Agreement, NEW r \in Requests, Die(r) \/ FailureUnrecorded(r)
    PROVE  Agreement'
<1>1. UNCHANGED <<session, record, starting>> /\ abandoned \subseteq abandoned'
      /\ request' = [request EXCEPT ![r] = NoRequest]
    BY DEF Die, FailureUnrecorded, Abandon, Return, projectVars
<1>2. ASSUME request[r].session = session, session.state = "ANALYZING"
      PROVE  session.generation \in abandoned'
    <2>1. abandoned' = abandoned \cup {request[r].session.generation}
        BY <1>2 DEF Die, FailureUnrecorded, Abandon
    <2> QED
        BY <1>2, <2>1
<1>3. NoRequest.phase = "idle"
    BY DEF NoRequest
<1> QED
    BY <1>1, <1>2, <1>3, IdleFits, QuietStep

(* While the session is claimed by r, or not claimed at all, no other      *)
(* request analyses.                                                       *)
LEMMA AloneInAnalysis ==
    ASSUME Agreement, NEW r \in Requests,
           Analyzing(r) \/ session.state # "ANALYZING"
    PROVE  \A p \in Requests : p # r => ~Analyzing(p)
BY DEF Agreement, AnalysisHoldsSession, Analyzing, PhasesFit, Fits

LEMMA ClaimAgrees ==
    ASSUME TypeOK, TypeOK', Agreement, NEW r \in Requests, ClaimSession(r)
    PROVE  Agreement'
<1> DEFINE q == request[r]
           claimed == [q.session EXCEPT !.state = "ANALYZING",
                                        !.confirmed = q.details, !.generation = @ + 1]
           n == [q EXCEPT !.phase = "analyzing", !.session = claimed]
<1>0. q \in Requesting /\ q.session \in Session /\ session \in Session
    BY DEF TypeOK, Requesting
<1>1. UNCHANGED <<record, abandoned, starting>> /\ q.phase = "staged" /\ starting = "done"
      /\ Fits(q) /\ StagedFits(q)
    BY CalledAfterStart DEF ClaimSession, OnlySession, projectVars, losses, InPhase, Agreement,
        PhasesFit, StagesFit
<1>2. CASE request' = [request EXCEPT ![r] = NoRequest] /\ session' = session
    BY <1>1, <1>2, IdleFits, QuietStep DEF NoRequest
<1>3. CASE /\ HoldsAt(q.session.state, q.session.generation)
           /\ request' = [request EXCEPT ![r] = n] /\ session' = claimed
    <2>1. n.op = q.op /\ n.phase = "analyzing" /\ n.session = claimed /\ n.base = q.base
        BY <1>0 DEF Requesting
    <2>2. claimed.state = "ANALYZING" /\ claimed.generation = q.session.generation + 1
        BY <1>0 DEF Session
    <2>3. q.session.generation = session.generation /\ session.generation \in Nat
        BY <1>0, <1>3, SessionConstants DEF HoldsAt, Session
    <2>4. q.op \in {"confirm", "reanalyze"} /\ q.base.session = q.session
          /\ (q.op = "confirm" => q.session.state = "AWAITING_CONFIRMATION")
          /\ (q.op = "reanalyze" => q.session.state = "COMPLETE")
        BY <1>1 DEF Fits, StagedFits
    <2>5. Fits(n)
        <3>1. q.op = "confirm" => q.session.generation = 0
            BY <1>1, <2>4 DEF Fits, AtZero, Unclaimed
        <3>2. AtZero(claimed)
            BY <2>2 DEF AtZero, Unclaimed
        <3>3. q.op = "confirm" => claimed.generation = 1
            BY <2>2, <3>1
        <3> HIDE DEF n, claimed
        <3> QED
            BY <2>1, <2>2, <2>4, <3>2, <3>3 DEF Fits
    <2>6. \A p \in Requests : p # r => ~Analyzing(p)
        BY <1>3, <2>4, AloneInAnalysis DEF HoldsAt
    <2>7. q.op = "reanalyze" =>
            /\ q.base.lockedForm = NoAnalysis /\ q.base.project.state # "locked"
            /\ q.base.session.state = "COMPLETE"
        BY <1>1, <2>4 DEF StagedFits
    <2>8. q.op = "reanalyze" => q.session.confirmed = record.analysis.details
        <3>1. q.op = "reanalyze" => session = q.session
            BY <1>1, <2>3 DEF StagedFits
        <3> QED
            BY <1>3, <2>4, <3>1 DEF HoldsAt, Agreement, CompleteShowsPublished
    <2>9. claimed.generation > session.generation
        BY <2>2, <2>3
    <2>10. AtZero(claimed)
        BY <2>2 DEF AtZero, Unclaimed
    <2> HIDE DEF n, claimed
    <2>11. /\ session'.generation > session.generation
           /\ session'.generation >= session.generation
           /\ AtZero(session') /\ session'.state = "ANALYZING"
        BY <1>3, <2>2, <2>3, <2>9, <2>10
    <2>12. n.op = "reanalyze" =>
             /\ n.base.lockedForm = NoAnalysis /\ n.base.project.state # "locked"
             /\ n.base.session.state = "COMPLETE"
             /\ n.base.session.confirmed = record'.analysis.details
        BY <1>1, <2>1, <2>4, <2>7, <2>8
    <2>13. n.phase = "analyzing" /\ n.session = session'
        BY <1>3, <2>1
    <2>14. request' = [request EXCEPT ![r] = n] /\ UNCHANGED <<starting, abandoned>>
           /\ starting = "done"
        BY <1>1, <1>3
    <2> QED
        BY ONLY TypeOK, TypeOK', Agreement, <2>5, <2>6, <2>11, <2>12, <2>13, <2>14, SessionStep
<1> QED
    BY <1>2, <1>3 DEF ClaimSession, Return

LEMMA PublishAgrees ==
    ASSUME TypeOK, TypeOK', Agreement, NEW r \in Requests, PublishReviewAnalysis(r)
    PROVE  Agreement'
<1> DEFINE q == request[r]
           analysis == [generation |-> q.session.generation,
                        details |-> q.session.confirmed]
<1>0. q \in Requesting /\ q.session \in Session /\ q.base.record \in Record
    BY DEF TypeOK, Requesting, Baseline
<1>1. /\ UNCHANGED <<abandoned, starting>> /\ starting = "done"
      /\ q.phase = "analyzing" /\ Analyzing(r) /\ session = q.session
      /\ session.state = "ANALYZING"
      /\ session' = [q.session EXCEPT !.state = "COMPLETE"]
      /\ record' = [q.base.record EXCEPT !.analysis = analysis]
      /\ request' = [request EXCEPT ![r] = NoRequest]
    BY CalledAfterStart DEF PublishReviewAnalysis, losses, Publishable, HoldsAt, InPhase, Return,
        Analyzing, Agreement, AnalysisHoldsSession
<1>2. /\ session'.generation = session.generation /\ session.generation \in Nat
      /\ session'.state = "COMPLETE" /\ session'.confirmed = session.confirmed
    BY <1>0, <1>1, SessionConstants DEF Session
<1>3. record'.analysis.details = session.confirmed
    BY <1>0, <1>1 DEF Record
<1>4. AtZero(session') /\ session'.generation >= session.generation
    BY <1>2 DEF AtZero, Unclaimed
<1>5. \A p \in Requests : p # r => ~Analyzing(p)
    BY <1>1, AloneInAnalysis
<1>6. Fits(NoRequest) /\ NoRequest.phase = "idle"
    BY IdleFits DEF NoRequest
<1> QED
    BY ONLY TypeOK, TypeOK', Agreement, <1>1, <1>2, <1>3, <1>4, <1>5, <1>6, SessionStep

LEMMA RestoreAgrees ==
    ASSUME TypeOK, TypeOK', Agreement, NEW r \in Requests, RestoreCompleted(r)
    PROVE  Agreement'
<1> DEFINE q == request[r]
           n == [NoRequest EXCEPT !.op = q.op, !.phase = "failing", !.session = q.session]
<1>0. q \in Requesting /\ q.session \in Session /\ q.base.session \in Session
    BY DEF TypeOK, Requesting, Baseline
<1>1. /\ UNCHANGED <<abandoned, starting, record>> /\ starting = "done"
      /\ q.phase = "restoring" /\ Analyzing(r) /\ session = q.session
      /\ Fits(q) /\ StagedFits(q)
      /\ request' = [request EXCEPT ![r] = n]
    BY CalledAfterStart DEF RestoreCompleted, InPhase, Raise, OnlySession, projectVars, losses,
        Analyzing, Agreement, AnalysisHoldsSession, PhasesFit, StagesFit
<1>2. q.op = "reanalyze" /\ session.state = "ANALYZING"
      /\ q.base.session.state = "COMPLETE"
      /\ q.base.session.confirmed = record.analysis.details
    BY <1>1 DEF Fits, StagedFits
<1>3. session' = [q.base.session EXCEPT !.generation = session.generation]
    BY <1>1, <1>2 DEF RestoreCompleted, HoldsAt
<1>4. /\ session'.generation = session.generation /\ session.generation \in Nat
      /\ session'.state = "COMPLETE" /\ session'.confirmed = record'.analysis.details
    BY <1>0, <1>1, <1>2, <1>3, SessionConstants DEF Session
<1>5. AtZero(session') /\ session'.generation >= session.generation
    BY <1>4 DEF AtZero, Unclaimed
<1>6. \A p \in Requests : p # r => ~Analyzing(p)
    BY <1>1, AloneInAnalysis
<1>7. n.op = "reanalyze" /\ n.phase = "failing" /\ n.session = session
    BY <1>1, <1>2 DEF NoRequest
<1> HIDE DEF n
<1>8. Fits(n) /\ n.session.generation =< session'.generation
    BY <1>1, <1>2, <1>4, <1>7 DEF Fits
<1> QED
    BY ONLY TypeOK, TypeOK', Agreement, <1>1, <1>2, <1>4, <1>5, <1>6, <1>7, <1>8, SessionStep

LEMMA FailAgrees ==
    ASSUME TypeOK, TypeOK', Agreement, NEW r \in Requests, FailClaim(r)
    PROVE  Agreement'
<1> DEFINE q == request[r]
<1>0. q \in Requesting /\ q.session \in Session /\ session \in Session
    BY DEF TypeOK, Requesting
<1>1. /\ UNCHANGED <<abandoned, starting, record>> /\ starting = "done"
      /\ q.phase = "failing" /\ Fits(q)
      /\ request' = [request EXCEPT ![r] = NoRequest]
    BY CalledAfterStart DEF FailClaim, InPhase, Return, OnlySession, projectVars, losses, Agreement,
        PhasesFit
<1>2. Fits(NoRequest) /\ StagedFits(NoRequest) /\ NoRequest.phase = "idle"
    BY IdleFits DEF NoRequest
<1>3. ASSUME session' = [q.session EXCEPT !.state = "FAILED"],
            q.session.generation = session.generation,
            session.state \in {"ANALYZING", "EXTRACTING"},
            \A p \in Requests : p # r => ~Analyzing(p)
     PROVE  Agreement'
    <2>1. /\ session'.generation = session.generation /\ session.generation \in Nat
          /\ session'.state = "FAILED"
        BY <1>0, <1>3, SessionConstants DEF Session
    <2>2. AtZero(session') /\ session'.generation >= session.generation
        BY <2>1 DEF AtZero, Unclaimed
    <2> QED
        BY ONLY TypeOK, TypeOK', Agreement, <1>1, <1>2, <1>3, <2>1, <2>2, SessionStep
<1>4. CASE q.op # "retry" /\ HoldsAt("ANALYZING", q.session.generation)
    <2>1. \A p \in Requests : ~Analyzing(p)
        <3>1. q.session.generation = session.generation /\ session.generation \in Nat
            BY <1>0, <1>4, SessionConstants DEF HoldsAt, Session
        <3> QED
            BY <1>1, <1>4, <3>1 DEF Agreement, FailsOwnGeneration
    <2> QED
        BY <1>3, <1>4, <2>1 DEF FailClaim, HoldsAt
<1>5. CASE q.op = "retry" /\ Holds("EXTRACTING")
    <2>1. q.session.generation = 0 /\ session.generation = 0
        BY <1>1, <1>5 DEF Fits, AtZero, Unclaimed, Holds, Agreement, PhasesFit
    <2>2. \A p \in Requests : p # r => ~Analyzing(p)
        BY <1>5, AloneInAnalysis DEF Holds
    <2> QED
        BY <1>3, <1>5, <2>1, <2>2 DEF FailClaim, Holds
<1>6. CASE /\ ~(q.op # "retry" /\ HoldsAt("ANALYZING", q.session.generation))
           /\ ~(q.op = "retry" /\ Holds("EXTRACTING"))
    <2>1. session' = session
        BY <1>6 DEF FailClaim
    <2>2. ~(q.session = session /\ session.state = "ANALYZING")
        BY <1>1, <1>6 DEF Fits, HoldsAt
    <2> QED
        BY <1>1, <1>2, <2>1, <2>2, QuietStep
<1> QED
    BY <1>4, <1>5, <1>6

LEMMA ClaimExtractionAgrees ==
    ASSUME TypeOK, TypeOK', Agreement, NEW r \in Requests, ClaimExtraction(r)
    PROVE  Agreement'
<1> DEFINE q == request[r]
           extracting == [q.session EXCEPT !.state = "EXTRACTING", !.intake = "running"]
           n == [q EXCEPT !.phase = "extracting", !.session = extracting]
<1>0. q \in Requesting /\ q.session \in Session /\ session \in Session
    BY DEF TypeOK, Requesting
<1>1. /\ UNCHANGED <<abandoned, starting, record>> /\ starting = "done"
      /\ q.phase = "read" /\ q.op = "retry" /\ Fits(q)
    BY CalledAfterStart DEF ClaimExtraction, InPhase, OnlySession, projectVars, losses, Agreement,
        PhasesFit
<1>2. CASE request' = [request EXCEPT ![r] = NoRequest] /\ session' = session
    BY <1>1, <1>2, IdleFits, QuietStep DEF NoRequest
<1>3. CASE /\ Holds("AWAITING_CONFIRMATION") /\ session' = extracting
           /\ request' = [request EXCEPT ![r] = n]
    <2>1. q.session.generation = 0 /\ session.generation = 0
        BY <1>1, <1>3 DEF Fits, AtZero, Unclaimed, Holds, Agreement, PhasesFit
    <2>2. session'.generation = 0 /\ session'.state = "EXTRACTING" /\ AtZero(session')
        BY <1>0, <1>3, <2>1 DEF Session, AtZero
    <2>3. n.op = "retry" /\ n.phase = "extracting" /\ n.session = session'
        BY <1>0, <1>1, <1>3 DEF Requesting
    <2>4. \A p \in Requests : p # r => ~Analyzing(p)
        BY <1>3, AloneInAnalysis DEF Holds
    <2> HIDE DEF n, extracting
    <2>5. Fits(n)
        BY <2>2, <2>3 DEF Fits
    <2>6. session'.generation >= session.generation /\ session.state = "AWAITING_CONFIRMATION"
        BY <1>3, <2>1, <2>2 DEF Holds
    <2> QED
        BY ONLY TypeOK, TypeOK', Agreement, <1>1, <1>3, <2>2, <2>3, <2>4, <2>5, <2>6,
            SessionStep
<1> QED
    BY <1>2, <1>3 DEF ClaimExtraction, Return

LEMMA PutCandidatesAgrees ==
    ASSUME TypeOK, TypeOK', Agreement, NEW r \in Requests,
           NEW outcome \in IntakeOutcomes, PutCandidates(r, outcome)
    PROVE  Agreement'
<1> DEFINE q == request[r]
           n == [q EXCEPT !.phase = "answering"]
           failing == [NoRequest EXCEPT !.op = q.op, !.phase = "failing", !.session = q.session]
<1>0. q \in Requesting /\ q.session \in Session /\ session \in Session
    BY DEF TypeOK, Requesting
<1>1. /\ UNCHANGED <<abandoned, starting, record>> /\ starting = "done"
      /\ q.phase = "extracting" /\ q.op = "retry" /\ Fits(q)
    BY CalledAfterStart DEF PutCandidates, InPhase, OnlySession, projectVars, losses, Agreement,
        PhasesFit, Fits
<1>2. CASE request' = [request EXCEPT ![r] = failing] /\ session' = session
    <2>1. failing.op = "retry" /\ failing.phase = "failing" /\ failing.session = q.session
        BY <1>1 DEF NoRequest
    <2> HIDE DEF failing
    <2>2. Fits(failing) /\ StagedFits(failing)
        BY <1>1, <2>1 DEF Fits, StagedFits
    <2> QED
        BY <1>1, <1>2, <2>1, <2>2, QuietStep
<1>3. CASE /\ Holds("EXTRACTING") /\ request' = [request EXCEPT ![r] = n]
           /\ session' = [q.session EXCEPT !.state = "AWAITING_CONFIRMATION",
                                !.intake = outcome, !.candidates = extractions + 1]
    <2>1. q.session.generation = 0 /\ session.generation = 0
        BY <1>1, <1>3 DEF Fits, AtZero, Unclaimed, Holds, Agreement, PhasesFit
    <2>2. session'.generation = 0 /\ session'.state = "AWAITING_CONFIRMATION"
          /\ AtZero(session')
        BY <1>0, <1>3, <2>1 DEF Session, AtZero
    <2>3. n.op = "retry" /\ n.phase = "answering" /\ n.session = q.session
        BY <1>0, <1>1 DEF Requesting
    <2>4. \A p \in Requests : p # r => ~Analyzing(p)
        BY <1>3, AloneInAnalysis DEF Holds
    <2> HIDE DEF n
    <2>5. Fits(n)
        BY <1>1, <2>3 DEF Fits
    <2>6. session'.generation >= session.generation /\ session.state = "EXTRACTING"
        BY <1>3, <2>1, <2>2 DEF Holds
    <2> QED
        BY ONLY TypeOK, TypeOK', Agreement, <1>1, <1>3, <2>2, <2>3, <2>4, <2>5, <2>6,
            SessionStep
<1> QED
    BY <1>2, <1>3 DEF PutCandidates, Goto, Raise

-----------------------------------------------------------------------------

LEMMA StepHolds == SessionInv /\ Next => SessionInv'
<1> SUFFICES ASSUME SessionInv, Next PROVE SessionInv'
    OBVIOUS
<1>0. TypeOK /\ EditsNumbered /\ Agreement /\ PhasesFit
    BY DEF SessionInv, Agreement
<1>1. ASSUME Start \/ StartDies PROVE SessionInv'
    <2>1. TypeOK' /\ EditsNumbered' /\ Agreement'
        BY <1>0, <1>1, StartTypes, StartAgrees
    <2> QED
        BY <2>1 DEF SessionInv, Agreement
<1>2. ASSUME NEW e \in Editors, Edit(e) PROVE SessionInv'
    <2>1. TypeOK' /\ EditsNumbered' /\ Agreement'
        BY <1>0, <1>2, EditTypes, EditAgrees
    <2> QED
        BY <2>1 DEF SessionInv, Agreement
<1>3. ASSUME NEW r \in Requests, NEW d \in Details, Confirm(r, d) \/ Reanalyze(r, d)
     PROVE  SessionInv'
    <2>1. TypeOK' /\ EditsNumbered'
        BY <1>0, <1>3, RequestSteps
    <2>2. Agreement'
        BY <1>0, <1>3, CallAgrees
    <2> QED
        BY <2>1, <2>2 DEF SessionInv, Agreement
<1>4. ASSUME NEW r \in Requests,
            \/ RetryIntake(r) \/ Die(r) \/ StageReviewAnalysis(r) \/ PublicationRefused(r)
            \/ AnalysisRaises(r) \/ ExtractionRaises(r) \/ AnswerRetry(r)
            \/ FailureUnrecorded(r)
     PROVE  SessionInv'
    <2>1. TypeOK' /\ EditsNumbered'
        BY <1>0, <1>4, RequestSteps
    <2>2. Agreement'
        BY <1>0, <1>4, CallAgrees, AbandonAgrees, StageAgrees, RaiseAgrees
    <2> QED
        BY <2>1, <2>2 DEF SessionInv, Agreement
<1>5. ASSUME NEW r \in Requests,
            \/ ClaimSession(r) \/ PublishReviewAnalysis(r) \/ RestoreCompleted(r)
            \/ FailClaim(r) \/ ClaimExtraction(r)
            \/ \E outcome \in IntakeOutcomes : PutCandidates(r, outcome)
     PROVE  SessionInv'
    <2>1. TypeOK' /\ EditsNumbered'
        BY <1>0, <1>5, SessionSteps
    <2>2. Agreement'
        BY <1>0, <1>5, <2>1, ClaimAgrees, PublishAgrees, RestoreAgrees, FailAgrees,
            ClaimExtractionAgrees, PutCandidatesAgrees
    <2> QED
        BY <2>1, <2>2 DEF SessionInv, Agreement
<1> QED
    BY <1>1, <1>2, <1>3, <1>4, <1>5 DEF Next, Answer

LEMMA StutterHolds == SessionInv /\ UNCHANGED vars => SessionInv'
BY DEF SessionInv, vars, TypeOK, EditsNumbered, StartsAlone, PhasesFit, AtZero, StagesFit,
    StagedFits, FailsOwnGeneration, AnalysisHoldsSession, AnalyzingIsHeld, Analyzing,
    CompleteShowsPublished

(* The invariant holds in every reachable state. *)
THEOREM SessionInvariant == Spec => []SessionInv
<1>1. SessionInv /\ [Next]_vars => SessionInv'
    BY StepHolds, StutterHolds
<1> QED
    BY InitHolds, <1>1, PTL DEF Spec

(* The session, the documents of the project and what every request holds  *)
(* have their types: no generation is claimed and no extraction numbered   *)
(* beyond its bound.                                                       *)
THEOREM SessionTypesCorrect == Spec => []TypeOK
<1>1. SessionInv => TypeOK
    BY DEF SessionInv
<1> QED
    BY SessionInvariant, <1>1, PTL

(* However many requests race, at most one analysis holds the session, and *)
(* nobody takes it away (the compare-and-put of review_facade.py:238, 290). *)
THEOREM OneAnalysisHoldsSession == Spec => []AnalysisHoldsSession
<1>1. SessionInv => AnalysisHoldsSession
    BY DEF SessionInv
<1> QED
    BY SessionInvariant, <1>1, PTL

(* A review in ANALYZING has a request that will publish, restore or fail  *)
(* it, unless its own analysis died or could not record its failure        *)
(* (review_facade.py:320-412).                                             *)
THEOREM AnalyzingHasHolder == Spec => []AnalyzingIsHeld
<1>1. SessionInv => AnalyzingIsHeld
    BY DEF SessionInv
<1> QED
    BY SessionInvariant, <1>1, PTL

(* A completed review shows the details its records were last analysed     *)
(* for, also when a refused reanalysis restored it (review_facade.py:389). *)
THEOREM CompleteMatchesRecord == Spec => []CompleteShowsPublished
<1>1. SessionInv => CompleteShowsPublished
    BY DEF SessionInv
<1> QED
    BY SessionInvariant, <1>1, PTL

-----------------------------------------------------------------------------
(* The analysis of the records changes in a publication alone. *)
LEMMA OnlyPublicationsAnalyze ==
    ASSUME TypeOK, Next, record'.analysis # record.analysis
    PROVE  \E r \in Requests : PublishReviewAnalysis(r)
<1>1. ASSUME NEW e \in Editors, Edit(e) PROVE record'.analysis = record.analysis
    BY <1>1 DEF Edit, EditReads, PutFrozenForm, SaveProject, AddEvent, EditDies, OnlyEditor,
        projectVars, losses, TypeOK, Record
<1>2. Start \/ StartDies => record' = record
    BY DEF Start, StartDies, StartIdea, StartScript, SourceStored, CandidatesPrepared,
        StartReturns, StartFails, PutSession, projectVars, losses
<1>3. ASSUME NEW r \in Requests, NEW d \in Details, Confirm(r, d) \/ Reanalyze(r, d)
     PROVE  record' = record
    BY <1>3 DEF Confirm, Reanalyze, Call, OnlySession, projectVars, losses
<1>4. ASSUME NEW r \in Requests,
            RetryIntake(r) \/ Die(r) \/ (Answer(r) /\ ~PublishReviewAnalysis(r))
     PROVE  record' = record
    BY <1>4 DEF RetryIntake, Call, Die, FailureUnrecorded, Answer, StageReviewAnalysis,
        ClaimSession, PublicationRefused, AnalysisRaises, RestoreCompleted, FailClaim,
        ClaimExtraction, PutCandidates, ExtractionRaises, AnswerRetry, OnlySession, projectVars, losses
<1> QED
    BY <1>1, <1>2, <1>3, <1>4 DEF Next

(* A publication finds the project as it was staged. *)
LEMMA PublicationDocuments ==
    ASSUME TypeOK, NEW r \in Requests, PublishReviewAnalysis(r)
    PROVE  /\ project = request[r].base.project /\ project'.edits = project.edits
           /\ lockedForm = request[r].base.lockedForm /\ lockedForm' = lockedForm
           /\ record'.edits = record.edits
BY DEF PublishReviewAnalysis, Publishable, TypeOK, Project, Record

(* Neither a publication nor any other step loses what another operation   *)
(* wrote into the records, and a publication loses nothing of the project  *)
(* document: the comparison with the baseline covers both (memory.py:564). *)
THEOREM PublicationsLoseNothing == Spec => PublicationsKeepOtherWrites
<1>1. TypeOK /\ [Next]_vars =>
        [/\ record.edits \subseteq record'.edits
         /\ record'.analysis # record.analysis => project.edits \subseteq project'.edits]_vars
    <2> SUFFICES ASSUME TypeOK, Next
                 PROVE  /\ record.edits \subseteq record'.edits
                        /\ record'.analysis # record.analysis =>
                             project.edits \subseteq project'.edits
        OBVIOUS
    <2>1. record'.analysis # record.analysis => project.edits \subseteq project'.edits
        BY OnlyPublicationsAnalyze, PublicationDocuments
    <2>2. record.edits \subseteq record'.edits
        <3>1. ASSUME NEW e \in Editors, Edit(e) PROVE record.edits \subseteq record'.edits
            BY <3>1 DEF Edit, EditReads, PutFrozenForm, SaveProject, AddEvent, EditDies,
                OnlyEditor, projectVars, losses, TypeOK, Record
        <3>2. Start \/ StartDies => record' = record
            BY DEF Start, StartDies, StartIdea, StartScript, SourceStored, CandidatesPrepared,
                StartReturns, StartFails, PutSession, projectVars, losses
        <3>3. ASSUME NEW r \in Requests, NEW d \in Details, Confirm(r, d) \/ Reanalyze(r, d)
             PROVE  record' = record
            BY <3>3 DEF Confirm, Reanalyze, Call, OnlySession, projectVars, losses
        <3>4. ASSUME NEW r \in Requests, RetryIntake(r) \/ Die(r) \/ Answer(r)
             PROVE  record'.edits = record.edits
            BY <3>4, PublicationDocuments DEF RetryIntake, Call, Die, FailureUnrecorded, Answer,
                StageReviewAnalysis, ClaimSession, PublicationRefused, AnalysisRaises,
                RestoreCompleted, FailClaim, ClaimExtraction, PutCandidates, ExtractionRaises,
                AnswerRetry, OnlySession, projectVars, losses
        <3> QED
            BY <3>1, <3>2, <3>3, <3>4 DEF Next
    <2> QED
        BY <2>1, <2>2
<1> QED
    BY SessionTypesCorrect, <1>1, PTL DEF Spec, PublicationsKeepOtherWrites

(* No analysis is published into a project whose form is out or over a     *)
(* frozen form, and no reanalysis beside one (review_facade.py:274).       *)
THEOREM PublicationsSpareLocks == Spec => PublicationsRespectLocks
<1>1. SessionInv /\ [Next]_vars =>
        [record'.analysis # record.analysis =>
            /\ project.state # "locked" /\ lockedForm' = lockedForm
            /\ session.generation > 1 => lockedForm = NoAnalysis]_vars
    <2> SUFFICES ASSUME SessionInv, Next, record'.analysis # record.analysis
                 PROVE  /\ project.state # "locked" /\ lockedForm' = lockedForm
                        /\ session.generation > 1 => lockedForm = NoAnalysis
        OBVIOUS
    <2>1. PICK r \in Requests : PublishReviewAnalysis(r)
        BY OnlyPublicationsAnalyze DEF SessionInv
    <2> DEFINE q == request[r]
    <2>2. project = q.base.project /\ lockedForm = q.base.lockedForm /\ lockedForm' = lockedForm
        BY <2>1, PublicationDocuments DEF SessionInv
    <2>3. /\ q.phase = "analyzing" /\ CanAnalyze(r) /\ session = q.session
          /\ Fits(q) /\ StagedFits(q)
        BY <2>1 DEF PublishReviewAnalysis, InPhase, SessionInv, AnalysisHoldsSession, Analyzing,
            PhasesFit, StagesFit
    <2>4. CASE q.op = "confirm"
        <3>1. session.generation = 1 /\ project.state = "open"
            BY <2>2, <2>3, <2>4 DEF CanAnalyze, Fits
        <3> QED
            BY <2>2, <3>1
    <2>5. CASE q.op = "reanalyze"
        BY <2>2, <2>3, <2>5 DEF StagedFits
    <2> QED
        BY <2>3, <2>4, <2>5 DEF Fits
<1> QED
    BY SessionInvariant, <1>1, PTL DEF Spec, PublicationsRespectLocks

(* A failed review stays failed: no claim, publication, restoration or     *)
(* candidate gets past its compare-and-put (review_facade.py:608).         *)
THEOREM FailureIsFinal == Spec => FailedIsFinal
<1>1. SessionInv /\ [Next]_vars => [session.state = "FAILED" => session' = session]_vars
    <2> SUFFICES ASSUME SessionInv, Next, session.state = "FAILED"
                 PROVE  session' = session
        OBVIOUS
    <2>1. starting = "done"
        BY DEF SessionInv, StartsAlone, Unclaimed
    <2>2. ~Start /\ ~StartDies
        BY <2>1 DEF Start, StartDies, StartIdea, StartScript, SourceStored,
            CandidatesPrepared, StartReturns, StartFails
    <2>3. ASSUME NEW e \in Editors, Edit(e) PROVE session' = session
        BY <2>3 DEF Edit, EditReads, PutFrozenForm, SaveProject, AddEvent, EditDies, OnlyEditor
    <2>4. ASSUME NEW r \in Requests, NEW d \in Details, Confirm(r, d) \/ Reanalyze(r, d)
         PROVE  session' = session
        BY <2>4 DEF Confirm, Reanalyze, Call
    <2>5. ASSUME NEW r \in Requests,
                \/ RetryIntake(r) \/ Die(r) \/ FailureUnrecorded(r) \/ StageReviewAnalysis(r)
                \/ PublicationRefused(r) \/ AnalysisRaises(r) \/ ExtractionRaises(r)
                \/ AnswerRetry(r) \/ RestoreCompleted(r) \/ FailClaim(r)
                \/ PublishReviewAnalysis(r) \/ ClaimExtraction(r)
                \/ \E outcome \in IntakeOutcomes : PutCandidates(r, outcome)
         PROVE  session' = session
        BY <2>5 DEF RetryIntake, Call, Die, FailureUnrecorded, StageReviewAnalysis, PublicationRefused,
            AnalysisRaises, ExtractionRaises, AnswerRetry, RestoreCompleted, FailClaim,
            PublishReviewAnalysis, Publishable, ClaimExtraction, PutCandidates, Holds, HoldsAt
    <2>6. ASSUME NEW r \in Requests, ClaimSession(r) PROVE session' = session
        <3>1. request[r].session.state # "FAILED"
            BY <2>6 DEF ClaimSession, InPhase, SessionInv, PhasesFit, Fits
        <3> QED
            BY <2>6, <3>1 DEF ClaimSession, HoldsAt
    <2> QED
        BY <2>2, <2>3, <2>4, <2>5, <2>6 DEF Next, Answer
<1> QED
    BY SessionInvariant, <1>1, PTL DEF Spec, FailedIsFinal

=============================================================================

-------------------------- MODULE ProjectFormProofs --------------------------
(***************************************************************************)
(* Proofs about what a form says: that an answer on record is never hidden *)
(* behind an older one, that a classification can show the answers it      *)
(* rests on, and that a frozen form is filled from confirmed facts and     *)
(* declared gaps alone.  Then proofs about the D3 gate that such a form    *)
(* has to pass.                                                            *)
(***************************************************************************)
EXTENDS ProjectWorkflowProofs

(* What a history must satisfy for the rules on facts to be safe.  The     *)
(* middle part is what is wanted; the others are what a deferral and a     *)
(* repeated value, which record no confirmed fact, rely on.                *)
SoundHistory(h) ==
    /\ h.kept # NoFact => h.kept.status = "confirmed"
    /\ ~h.conflict /\ h.kept # NoFact => h.kept = h.last
    /\ h.last.value # None => h.kept # NoFact \/ h.conflict

OnRecord(h) == h.kept # NoFact \/ h.conflict

LEMMA UpsertSound ==
    ASSUME NEW h \in History, NEW v \in Values, NEW src \in Sources, SoundHistory(h)
    PROVE  /\ SoundHistory(UpsertFact(h, v, src))
           /\ OnRecord(UpsertFact(h, v, src))
           /\ OnRecord(h) => OnRecord(UpsertFact(h, v, src))
<1> DEFINE new == UpsertFact(h, v, src)
<1>1. CASE h.last.value = v
  BY <1>1, NoneIsNoValue DEF UpsertFact, SoundHistory, OnRecord
<1>2. CASE h.last.value # v /\ h.last.source = "asset"
  BY <1>2 DEF UpsertFact, SoundHistory, OnRecord
<1>3. CASE h.last.value # v /\ h.last.source # "asset"
  <2> DEFINE fact == [value |-> v, source |-> src, status |-> "confirmed"]
  <2>1. new = [last |-> fact, kept |-> fact, conflict |-> h.conflict, deferred |-> h.deferred]
    BY <1>3 DEF UpsertFact, History
  <2>2. fact # NoFact
    BY NoneIsNoValue DEF NoFact
  <2> QED
    BY <2>1, <2>2 DEF SoundHistory, OnRecord
<1> QED
  BY <1>1, <1>2, <1>3

LEMMA DeferSound ==
    ASSUME NEW h \in History, SoundHistory(h), CanDefer(h)
    PROVE  SoundHistory(DeferFact(h)) /\ (OnRecord(h) => OnRecord(DeferFact(h)))
BY DEF DeferFact, CanDefer, SoundHistory, OnRecord, History, Fact

LEMMA UpsertAllSound ==
    ASSUME NEW fs \in [Keys -> History], NEW answers \in Answers, NEW src \in Sources,
           \A k \in Keys : SoundHistory(fs[k])
    PROVE  \A k \in Keys :
              /\ SoundHistory(UpsertAll(fs, answers, src)[k])
              /\ answers[k] # None \/ OnRecord(fs[k])
                    => OnRecord(UpsertAll(fs, answers, src)[k])
BY UpsertSound DEF UpsertAll, Answers

-----------------------------------------------------------------------------
(* Every history is sound, and the answers behind a classification are on  *)
(* record: no operation takes an answer or a fact back.                    *)
FactsInv ==
    /\ \A k \in Keys : SoundHistory(facts[k])
    /\ ClassifiedAnswersAreOnRecord

LEMMA OnRecordForm ==
    ClassifiedAnswersAreOnRecord <=>
        (project.cls # NoClass =>
            \A k \in AskedKeys : project.intent[k] # None /\ OnRecord(facts[k]))
BY DEF ClassifiedAnswersAreOnRecord, OnRecord

LEMMA FactsInvIntake ==
    ASSUME TypeOK, FactsInv, Intake
    PROVE  FactsInv'
<1>1. \A k \in AskedKeys : k \in Keys /\ k \in IntentKeys
  BY WorkflowConstants
<1>2. project.intent \in Answers /\ facts \in [Keys -> History]
  BY DEF TypeOK, Project
<1>3. /\ \A k \in Keys : SoundHistory(IntentFacts[k])
      /\ \A k \in Keys : project.intent[k] # None => OnRecord(IntentFacts[k])
  BY <1>2, UpsertAllSound DEF FactsInv, IntentFacts, Sources
<1>4. ASSUME NEW patch \in Answers, SubmitIntent(patch)
      PROVE  FactsInv'
  <2> DEFINE p == [project EXCEPT !.intent =
                    [k \in Keys |-> IF patch[k] = None THEN @[k] ELSE patch[k]]]
  <2>1. /\ p \in Project /\ p.cls = project.cls
        /\ \A k \in Keys : project.intent[k] # None => p.intent[k] # None
    BY DEF TypeOK, Project, Answers
  <2>2. project' = IF p.state = "DRAFT" THEN Move(p, "INTAKE_DONE") ELSE p
    BY <1>4 DEF SubmitIntent
  <2>3. project'.cls = project.cls /\ project'.intent = p.intent
    BY <2>1, <2>2, MoveResult DEF ProjectState
  <2>4. facts' = facts
    BY <1>4 DEF SubmitIntent
  <2> QED
    BY <1>1, <2>1, <2>3, <2>4, OnRecordForm
    DEF FactsInv, ClassifiedAnswersAreOnRecord
<1>9. ASSUME NEW details \in Answers, ApplyReviewConfirmation(details)
      PROVE  FactsInv'
  <2> DEFINE p == [project EXCEPT !.intent =
                    [k \in Keys |-> IF k \in IntentKeys THEN details[k] ELSE None]]
  <2>1. /\ p \in Project /\ p.cls = project.cls
        /\ \A k \in IntentKeys : p.intent[k] = details[k]
    BY WorkflowConstants DEF TypeOK, Project, Answers
  <2>2. project' = IF p.state = "DRAFT" THEN Move(p, "INTAKE_DONE") ELSE p
    BY <1>9 DEF ApplyReviewConfirmation
  <2>3. project'.cls = project.cls /\ project'.intent = p.intent
    BY <2>1, <2>2, MoveResult DEF ProjectState
  <2>4. facts' = UpsertAll(facts, details, "user_answer")
        /\ \A k \in Keys : details[k] # None <=> k \in ConfirmedKeys
    BY <1>9 DEF ApplyReviewConfirmation
  <2>5. /\ \A k \in Keys : SoundHistory(facts'[k])
        /\ \A k \in Keys : details[k] # None => OnRecord(facts'[k])
    BY <1>2, <2>4, UpsertAllSound DEF FactsInv, Sources
  <2>6. \A k \in AskedKeys : k \in Keys /\ k \in IntentKeys /\ k \in ConfirmedKeys
    BY WorkflowConstants
  <2> QED
    BY <2>1, <2>3, <2>4, <2>5, <2>6
    DEF FactsInv, ClassifiedAnswersAreOnRecord, OnRecord
<1>5. ASSUME facts' = IntentFacts, Answered, project'.intent = project.intent
      PROVE  FactsInv'
  BY <1>1, <1>3, <1>5 DEF FactsInv, ClassifiedAnswersAreOnRecord, Answered, OnRecord
<1>6. ASSUME NEW verdict \in Verdicts, NEW c \in ClassesOf(verdict),
             RunClassification(verdict, c)
      PROVE  FactsInv'
  <2> DEFINE p == [project EXCEPT !.cls = c]
             judged == IF p.state = "INTAKE_DONE"
                          /\ TargetOf(verdict) \in {"CLASSIFIED", "NEEDS_HUMAN_SUBJECT"}
                       THEN Move(p, "FORM_JUDGED") ELSE p
  <2>1. p \in Project /\ p.intent = project.intent
    BY ClassesType DEF TypeOK, Project
  <2>2. TargetOf(verdict) \in ProjectState
    BY DEF TargetOf, ProjectState, NeedsHumanStates, ExitStates
  <2>3. judged \in Project /\ judged.intent = p.intent
    BY <2>1, MoveResult DEF ProjectState
  <2>4. project' = Move(judged, TargetOf(verdict))
    BY <1>6 DEF RunClassification
  <2>5. project'.intent = project.intent
    BY <2>1, <2>2, <2>3, <2>4, MoveResult
  <2> QED
    BY <1>5, <1>6, <2>5 DEF RunClassification
<1>7. ASSUME NEW verdict \in Verdicts, NEW c \in ClassesOf(verdict),
             Reclassify(verdict, c)
      PROVE  FactsInv'
  <2>1. project'.intent = project.intent
    BY <1>7 DEF Reclassify, TypeOK, Project
  <2> QED
    BY <1>5, <1>7, <2>1 DEF Reclassify
<1>8. ASSUME ConfirmRoadmap
      PROVE  FactsInv'
  <2> DEFINE p == [project EXCEPT !.roadmap = TRUE]
             q == Move(p, "ROADMAP_CONFIRMED")
  <2>1. p \in Project /\ p.intent = project.intent /\ p.cls = project.cls
    BY DEF TypeOK, Project
  <2>2. q \in Project /\ q.intent = p.intent /\ q.cls = p.cls
    BY <2>1, MoveResult DEF ProjectState
  <2>3. LET r == Move(q, "COLLECTING_MATERIALS")
        IN r.intent = q.intent /\ r.cls = q.cls
    BY <2>2, MoveResult DEF ProjectState
  <2>4. project' = p \/ project' = Move(q, "COLLECTING_MATERIALS")
    BY <1>8 DEF ConfirmRoadmap
  <2>5. facts' = facts
    BY <1>8 DEF ConfirmRoadmap
  <2> QED
    BY <2>1, <2>2, <2>3, <2>4, <2>5 DEF FactsInv, ClassifiedAnswersAreOnRecord
<1> QED
  BY <1>4, <1>6, <1>7, <1>8, <1>9 DEF Intake

LEMMA FactsInvReanalysis ==
    ASSUME TypeOK, FactsInv, BeginReviewReanalysis
    PROVE  FactsInv'
<1>1. facts' = facts /\ project'.cls = NoClass
  BY DEF BeginReviewReanalysis, TypeOK, Project
<1> QED
  BY <1>1 DEF FactsInv, ClassifiedAnswersAreOnRecord

LEMMA FactsInvPolicy ==
    ASSUME TypeOK, FactsInv, Policy
    PROVE  FactsInv'
BY PolicyMoves DEF FactsInv, ClassifiedAnswersAreOnRecord

LEMMA FactsInvPreparation ==
    ASSUME TypeOK, FactsInv, Preparation
    PROVE  FactsInv'
<1>1. project'.intent = project.intent /\ project'.cls = project.cls
  BY PreparationMoves
<1>2. \A k \in AskedKeys : k \in Keys
  BY WorkflowConstants
<1>3. ASSUME \A k \in Keys : SoundHistory(facts'[k])
                             /\ (OnRecord(facts[k]) => OnRecord(facts'[k]))
      PROVE  FactsInv'
  BY <1>1, <1>2, <1>3 DEF FactsInv, ClassifiedAnswersAreOnRecord, OnRecord
<1>4. ASSUME NEW a \in 1..Len(assets), NEW found \in Answers, NEW again \in Answers,
             ExtractAssetFacts(a, found, again)
      PROVE  FactsInv'
  <2> DEFINE once == UpsertAll(facts, found, "asset")
  <2>1. /\ once \in [Keys -> History]
        /\ \A k \in Keys : SoundHistory(once[k])
                           /\ (OnRecord(facts[k]) => OnRecord(once[k]))
    BY UpsertAllType, UpsertAllSound DEF FactsInv, TypeOK, Sources
  <2>2. facts' = UpsertAll(once, again, "asset")
    BY <1>4 DEF ExtractAssetFacts
  <2> QED
    BY <1>3, <2>1, <2>2, UpsertAllSound DEF Sources
<1>5. ASSUME NEW k \in Keys, NEW h \in History, RecordField(k, h), SoundHistory(h),
             OnRecord(facts[k]) => OnRecord(h)
      PROVE  FactsInv'
  <2>1. facts' = [facts EXCEPT ![k] = h] /\ facts \in [Keys -> History]
    BY <1>5 DEF RecordField, TypeOK
  <2> QED
    BY <1>3, <1>5, <2>1 DEF FactsInv
<1>6. ASSUME NEW k \in Keys, NEW v \in Values, ConfirmFormField(k, v)
      PROVE  FactsInv'
  <2>1. facts[k] \in History /\ SoundHistory(facts[k])
    BY DEF FactsInv, TypeOK
  <2> QED
    BY <1>5, <1>6, <2>1, UpsertSound, UpsertFactType DEF ConfirmFormField, Sources
<1>7. ASSUME NEW k \in Keys, DeferFormField(k)
      PROVE  FactsInv'
  <2>1. facts[k] \in History /\ SoundHistory(facts[k])
    BY DEF FactsInv, TypeOK
  <2> QED
    BY <1>5, <1>7, <2>1, DeferSound, DeferFactType DEF DeferFormField
<1>8. CASE facts' = facts
  BY <1>1, <1>8 DEF FactsInv, ClassifiedAnswersAreOnRecord
<1> QED
  BY <1>4, <1>6, <1>7, <1>8
  DEF Preparation, UploadAsset, RunScriptReview, ReviewForAnalysis, ReviewNow,
      ActOnFinding, ActOnAlert, DispatchAlert, ReadMaterialCards, AttachMaterial,
      ValidateMaterial, WaiveMaterial, SetCard, FormDraft

(* FactsSafe.  The histories stay sound under every order of answers,      *)
(* documents, deferrals and classifications.                               *)
THEOREM FactsSafe == Spec => []FactsInv
<1>1. Init => FactsInv
  BY DEF Init, FactsInv, SoundHistory, NoHistory, NoFact, ClassifiedAnswersAreOnRecord
<1>2. FactsInv /\ UNCHANGED vars => FactsInv'
  BY DEF vars, FactsInv, ClassifiedAnswersAreOnRecord
<1>3. TypeOK /\ FactsInv /\ Filing => FactsInv'
  BY FilingMoves DEF FactsInv, ClassifiedAnswersAreOnRecord
<1>4. TypeOK /\ FactsInv /\ [Next]_vars => FactsInv'
  BY <1>2, <1>3, FactsInvIntake, FactsInvReanalysis, FactsInvPolicy,
     FactsInvPreparation DEF Next
<1> QED
  BY <1>1, <1>4, TypeCorrect, PTL DEF Spec

(* NewestAnswerShown.  The value a form shows has nothing newer behind it. *)
THEOREM NewestAnswerShown == Spec => []FilledFieldIsNewestAnswer
<1>1. FactsInv => FilledFieldIsNewestAnswer
  BY DEF FactsInv, SoundHistory, FilledFieldIsNewestAnswer
<1> QED
  BY <1>1, FactsSafe, PTL

(* AnswersOnRecord.  A classification can show the answers it rests on.    *)
THEOREM AnswersOnRecord == Spec => []ClassifiedAnswersAreOnRecord
<1>1. FactsInv => ClassifiedAnswersAreOnRecord
  BY DEF FactsInv
<1> QED
  BY <1>1, FactsSafe, PTL

-----------------------------------------------------------------------------
(* FormsAreSourced.  A draft is frozen only when no required key is        *)
(* pending or in conflict, and is never touched again; so every frozen     *)
(* form is filled from what a human confirmed or declared as a gap.        *)

LEMMA FieldSourced ==
    ASSUME NEW h \in History, SoundHistory(h),
           FieldOf(h).status \notin {"pending", "conflict"}
    PROVE  \/ FieldOf(h).status = "filled" /\ FieldOf(h).fact.status = "confirmed"
           \/ FieldOf(h).status = "pending_institution"
BY DEF FieldOf, SoundHistory

Sourced(draft) ==
    \A k \in Keys :
        LET field == draft.fields[k]
        IN IF k \in RequiredFacts[draft.version]
           THEN \/ field.status = "filled" /\ field.fact.status = "confirmed"
                \/ field.status = "pending_institution"
           ELSE field.status = "absent"

LEMMA FreezeSourced ==
    ASSUME TypeOK, FactsInv, FreezeForm
    PROVE  Sourced([fields |-> CurrentFields, version |-> Pinned, frozen |-> TRUE])
<1>1. ASSUME NEW k \in Keys
      PROVE  /\ CurrentFields[k] = IF k \in Required THEN FieldOf(facts[k])
                                   ELSE [status |-> "absent", fact |-> NoFact]
             /\ facts[k] \in History /\ SoundHistory(facts[k])
             /\ CurrentFields[k].status \notin {"pending", "conflict"}
  BY <1>1 DEF CurrentFields, BuildFields, FactsInv, TypeOK, FreezeForm, PendingKeys
<1>2. ASSUME NEW k \in Keys
      PROVE  IF k \in Required
             THEN \/ CurrentFields[k].status = "filled"
                     /\ CurrentFields[k].fact.status = "confirmed"
                  \/ CurrentFields[k].status = "pending_institution"
             ELSE CurrentFields[k].status = "absent"
  BY <1>1, <1>2, FieldSourced
<1> QED
  BY <1>2 DEF Sourced, Required

LEMMA FrozenFormsStep ==
    ASSUME TypeOK, FactsInv, FrozenFormsAreSourced, Next
    PROVE  FrozenFormsAreSourced'
<1> DEFINE AllSourced == \A i \in 1..Len(drafts) : drafts[i].frozen => Sourced(drafts[i])
<1>1. FrozenFormsAreSourced <=> AllSourced
  BY DEF FrozenFormsAreSourced, Sourced
<1>2. FrozenFormsAreSourced' <=> AllSourced'
  BY DEF FrozenFormsAreSourced, Sourced
<1>3. CASE drafts' = drafts
  BY <1>3 DEF FrozenFormsAreSourced
<1>4. CASE Preparation
  <2>1. ASSUME Len(drafts') = IF drafts = << >> THEN 1 ELSE Len(drafts),
               \A i \in 1..Len(drafts) : i # Len(drafts) => drafts'[i] = drafts[i],
               ~drafts'[Len(drafts')].frozen
        PROVE  AllSourced'
    BY <1>1, <2>1, EmptySeq DEF TypeOK
  <2> QED
    BY <1>2, <1>3, <1>4, <2>1, PreparationDrafts
<1>5. CASE FreezeForm
  <2>1. Sourced(drafts'[Len(drafts')])
    BY <1>5, FreezeLocks, FreezeSourced
  <2> QED
    BY <1>1, <1>2, <1>5, <2>1, FreezeLocks, EmptySeq DEF TypeOK
<1>6. CASE ResumeAfterReturn
  <2>1. CASE Locked
    <3>1. /\ Len(drafts') = Len(drafts) + 1 /\ Len(drafts) \in Nat
          /\ ~drafts'[Len(drafts')].frozen
          /\ \A i \in 1..Len(drafts) : drafts'[i] = drafts[i]
      BY <1>6, <2>1, ResumeUnlocks, LenProperties, EmptySeq DEF Locked, TypeOK
    <3> QED
      BY <1>1, <1>2, <3>1
  <2> QED
    BY <1>3, <1>6, <2>1, ResumeUnlocks
<1> QED
  BY <1>3, <1>4, <1>5, <1>6, IntakeMoves, ReanalysisMoves, PolicyMoves, FilingMoves
  DEF Next

(* FormsAreSourced. A frozen form is filled from confirmed facts and       *)
(* declared gaps alone.                                                    *)
THEOREM FormsAreSourced == Spec => []FrozenFormsAreSourced
<1>1. Init => FrozenFormsAreSourced
  <2>1. Init => drafts = << >> /\ Len(drafts) = 0
    BY EmptySeq DEF Init
  <2> QED
    BY <2>1 DEF FrozenFormsAreSourced
<1>2. FrozenFormsAreSourced /\ UNCHANGED vars => FrozenFormsAreSourced'
  BY DEF vars, FrozenFormsAreSourced
<1>3. TypeOK /\ FactsInv /\ FrozenFormsAreSourced /\ [Next]_vars => FrozenFormsAreSourced'
  BY <1>2, FrozenFormsStep
<1> QED
  BY <1>1, <1>3, TypeCorrect, FactsSafe, PTL DEF Spec

-----------------------------------------------------------------------------
(* The gate: whatever happened to findings, scripts, cards and snapshots   *)
(* before, it opens only over released scenes and over the cards of the    *)
(* pinned snapshot.                                                        *)

(* Each scene of a reviewed script has a finding, on that version or on    *)
(* another, and a card with an asset has one of its kind.  A finding is    *)
(* about a scene of the version it is attached to: the findings a          *)
(* reanalysis drops are of scenes it opens again.                          *)
ReviewsAreRecorded ==
    /\ \A a \in reviewed :
        /\ a \in 1..Len(assets)
        /\ \A s \in assets[a].scenes : \E f \in findings : f.scene = s
    /\ \A f \in findings :
        f.version \in 1..Len(assets) /\ f.scene \in assets[f.version].scenes

CardsAreBacked(cs) ==
    \A c \in Cards :
        /\ cs[c].status = "valid" => cs[c].asset # 0
        /\ cs[c].asset # 0 =>
            cs[c].asset \in 1..Len(assets) /\ assets[cs[c].asset].kind = CardKind[c]

GateInv == ReviewsAreRecorded /\ CardsAreBacked(cards)

LEMMA MaterialisedBacked ==
    ASSUME TypeOK, CardsAreBacked(cards)
    PROVE  CardsAreBacked(Materialised)
BY DEF CardsAreBacked, Materialised, TypeOK

LEMMA UploadKeeps ==
    ASSUME TypeOK, GateInv, NEW asset \in AssetVersion, UploadAsset(asset)
    PROVE  GateInv'
<1>1. /\ Len(assets) \in Nat /\ Len(assets') = Len(assets) + 1
      /\ \A i \in 1..Len(assets) : assets'[i] = assets[i]
  BY AppendProperties, LenProperties DEF UploadAsset, TypeOK
<1>2. ReviewsAreRecorded'
  BY <1>1 DEF UploadAsset, GateInv, ReviewsAreRecorded
<1>3. CardsAreBacked(cards)'
  BY <1>1 DEF UploadAsset, GateInv, CardsAreBacked
<1> QED
  BY <1>2, <1>3 DEF GateInv

LEMMA OpenedFor ==
    ASSUME NEW a \in 1..Len(assets), NEW fs, NEW id
    PROVE  /\ \A s \in assets[a].scenes : \E f \in fs \cup Opened(a, fs, id) : f.scene = s
           /\ \A f \in Opened(a, fs, id) :
                f.version = a /\ f.scene \in assets[a].scenes
<1>1. ASSUME NEW s \in assets[a].scenes, \A f \in fs : f.version = a => f.scene # s
      PROVE  \E f \in Opened(a, fs, id) : f.scene = s
  <2> DEFINE new == [id |-> id, scene |-> s, version |-> a, status |-> "open"]
  <2>1. new \in Opened(a, fs, id) /\ new.scene = s
    BY <1>1 DEF Opened
  <2> QED
    BY <2>1
<1> QED
  BY <1>1 DEF Opened

(* Whatever a review keeps of the earlier findings, it records the scenes  *)
(* of its script, as long as no other scene loses its last finding.        *)
LEMMA ReviewKeeps ==
    ASSUME TypeOK, GateInv, NEW a \in 1..Len(assets), NEW id \in FindingIds, NEW kept,
           reviewed' = reviewed \cup {a}, ReviewNow(a, kept, id),
           \A f \in findings : (\E g \in kept : g.scene = f.scene)
                              \/ f.scene \in assets[a].scenes,
           \A g \in kept :
                g.version \in 1..Len(assets) /\ g.scene \in assets[g.version].scenes
    PROVE  GateInv'
<1>1. findings' = kept \cup Opened(a, kept, id) /\ UNCHANGED <<assets, cards>>
  BY DEF ReviewNow
<1>2. \A s \in assets[a].scenes : \E f \in findings' : f.scene = s
  BY <1>1, OpenedFor
<1>3. ASSUME NEW f \in findings
      PROVE  \E g \in findings' : g.scene = f.scene
  BY <1>1, <1>2
<1>4. ASSUME NEW b \in reviewed'
      PROVE  b \in 1..Len(assets') /\ \A s \in assets'[b].scenes : \E f \in findings' : f.scene = s
  <2>1. CASE b = a
    BY <1>1, <1>2, <2>1
  <2>2. CASE b \in reviewed
    BY <1>1, <1>3, <2>2 DEF GateInv, ReviewsAreRecorded
  <2> QED
    BY <2>1, <2>2
<1>5. \A f \in findings' :
        f.version \in 1..Len(assets') /\ f.scene \in assets'[f.version].scenes
  BY <1>1, OpenedFor
<1>6. ReviewsAreRecorded'
  BY <1>4, <1>5 DEF ReviewsAreRecorded
<1> QED
  BY <1>1, <1>6 DEF GateInv, CardsAreBacked

LEMMA RunReviewKeeps ==
    ASSUME TypeOK, GateInv, NEW a \in 1..Len(assets), NEW id \in FindingIds,
           RunScriptReview(a, id)
    PROVE  GateInv'
<1> DEFINE kept == CarriedForward(a)
<1>1. reviewed' = reviewed \cup {a} /\ ReviewNow(a, kept, id)
  BY DEF RunScriptReview
<1>2. ASSUME NEW f \in findings
      PROVE  \E g \in kept :
                /\ g.scene = f.scene
                /\ g.version \in 1..Len(assets) /\ g.scene \in assets[g.version].scenes
  <2>1. f \in Finding /\ f.version \in 1..Len(assets) /\ f.scene \in assets[f.version].scenes
    BY DEF TypeOK, GateInv, ReviewsAreRecorded
  <2> DEFINE g == IF f.scene \in assets[a].scenes THEN [f EXCEPT !.version = a]
                  ELSE IF f.status = "open" THEN [f EXCEPT !.status = "self_fixed"]
                  ELSE f
  <2>2. g \in kept
    BY DEF CarriedForward
  <2>3. /\ g.scene = f.scene
        /\ g.version = IF f.scene \in assets[a].scenes THEN a ELSE f.version
    BY <2>1 DEF Finding
  <2> QED
    BY <2>1, <2>2, <2>3
<1>3. ASSUME NEW g \in kept
      PROVE  g.version \in 1..Len(assets) /\ g.scene \in assets[g.version].scenes
  <2>1. PICK f \in findings :
            g = IF f.scene \in assets[a].scenes THEN [f EXCEPT !.version = a]
                ELSE IF f.status = "open" THEN [f EXCEPT !.status = "self_fixed"]
                ELSE f
    BY <1>3 DEF CarriedForward
  <2>2. f \in Finding /\ f.version \in 1..Len(assets) /\ f.scene \in assets[f.version].scenes
    BY DEF TypeOK, GateInv, ReviewsAreRecorded
  <2> QED
    BY <2>1, <2>2 DEF Finding
<1> QED
  BY <1>1, <1>2, <1>3, ReviewKeeps

(* The findings a reanalysis drops were about scenes of the first script,  *)
(* and it opens those again.                                               *)
LEMMA ReanalysisKeeps ==
    ASSUME TypeOK, GateInv, NEW id \in FindingIds, ReviewForAnalysis(id)
    PROVE  GateInv'
<1> DEFINE kept == {f \in findings : f.version # 1}
<1>1. 1 \in 1..Len(assets) /\ reviewed' = reviewed \cup {1} /\ ReviewNow(1, kept, id)
  BY DEF ReviewForAnalysis, Scripts
<1>2. \A f \in findings : f \in kept \/ f.scene \in assets[1].scenes
  BY DEF GateInv, ReviewsAreRecorded
<1>3. \A g \in kept : g.version \in 1..Len(assets) /\ g.scene \in assets[g.version].scenes
  BY DEF GateInv, ReviewsAreRecorded
<1> QED
  BY <1>1, <1>2, <1>3, ReviewKeeps

LEMMA SetCardKeeps ==
    ASSUME TypeOK, GateInv, NEW c \in Cards, NEW card \in MaterialCard, SetCard(c, card),
           card.status = "valid" => card.asset # 0,
           card.asset # 0 =>
                card.asset \in 1..Len(assets) /\ assets[card.asset].kind = CardKind[c]
    PROVE  GateInv'
<1>1. cards' = [Materialised EXCEPT ![c] = card] /\ UNCHANGED <<assets, reviewed, findings>>
  BY DEF SetCard
<1>2. \A d \in Cards : cards'[d] = IF d = c THEN card ELSE Materialised[d]
  BY <1>1, MaterialisedType
<1>3. CardsAreBacked(Materialised)
  BY MaterialisedBacked DEF GateInv
<1> QED
  BY <1>1, <1>2, <1>3 DEF GateInv, CardsAreBacked, ReviewsAreRecorded

LEMMA GateInvPreparation ==
    ASSUME TypeOK, GateInv, Preparation
    PROVE  GateInv'
<1>1. ASSUME NEW f \in findings, NEW status \in FindingStatus, ActOnFinding(f, status)
      PROVE  GateInv'
  <2> DEFINE g == [f EXCEPT !.status = status]
  <2>1. findings' = (findings \ {f}) \cup {g} /\ UNCHANGED <<assets, reviewed, cards>>
    BY <1>1 DEF ActOnFinding
  <2>2. g.scene = f.scene /\ g.version = f.version
    BY DEF TypeOK, Finding
  <2>3. \A h \in findings : \E e \in findings' : e.scene = h.scene
    BY <2>1, <2>2
  <2>4. \A e \in findings' :
            e.version \in 1..Len(assets) /\ e.scene \in assets[e.version].scenes
    BY <2>1, <2>2 DEF GateInv, ReviewsAreRecorded
  <2>5. ReviewsAreRecorded'
    BY <2>1, <2>3, <2>4 DEF GateInv, ReviewsAreRecorded
  <2> QED
    BY <2>1, <2>5 DEF GateInv, CardsAreBacked
<1>2. CASE ReadMaterialCards
  BY <1>2, MaterialisedBacked DEF ReadMaterialCards, GateInv, ReviewsAreRecorded,
                                  CardsAreBacked
<1>3. ASSUME NEW c \in Cards, NEW a \in 1..Len(assets), AttachMaterial(c, a)
      PROVE  GateInv'
  <2> DEFINE card == [status |-> "uploaded", asset |-> a]
  <2>1. card \in MaterialCard
    BY WorkflowConstants, LenProperties DEF MaterialCard, MaterialStatus, TypeOK
  <2>2. SetCard(c, card) /\ assets[a].kind = CardKind[c]
    BY <1>3 DEF AttachMaterial
  <2> QED
    BY <2>1, <2>2, SetCardKeeps
<1>4. ASSUME NEW c \in Cards, ValidateMaterial(c) \/ WaiveMaterial(c)
      PROVE  GateInv'
  <2> DEFINE old == Materialised[c]
  <2>1. old \in MaterialCard
    BY MaterialisedType
  <2>2. old.asset # 0 =>
            old.asset \in 1..Len(assets) /\ assets[old.asset].kind = CardKind[c]
    BY MaterialisedBacked DEF GateInv, CardsAreBacked
  <2>3. PICK status \in MaterialStatus :
            /\ SetCard(c, [old EXCEPT !.status = status])
            /\ status = "valid" => old.asset # 0
    BY <1>4 DEF ValidateMaterial, WaiveMaterial, MaterialStatus
  <2> DEFINE new == [old EXCEPT !.status = status]
  <2>4. new \in MaterialCard /\ new.status = status /\ new.asset = old.asset
    BY <2>1 DEF MaterialCard
  <2> QED
    BY <2>2, <2>3, <2>4, SetCardKeeps
<1>5. CASE UNCHANGED <<assets, reviewed, findings, cards>>
  BY <1>5 DEF GateInv, ReviewsAreRecorded, CardsAreBacked
<1> QED
  BY <1>1, <1>2, <1>3, <1>4, <1>5, UploadKeeps, RunReviewKeeps, ReanalysisKeeps
  DEF Preparation, ActOnAlert, DispatchAlert, ExtractAssetFacts, FormDraft,
      ConfirmFormField, DeferFormField, RecordField

LEMMA GateInvFiling ==
    ASSUME TypeOK, GateInv, Filing
    PROVE  GateInv'
<1>1. UNCHANGED <<assets, reviewed, findings>> /\ cards' \in {cards, Materialised}
  BY DEF Filing, PassGate, FreezeForm, SubmitToInstitution, DecideInstitutionReview,
         ResumeAfterReturn, RecordFiling
<1> QED
  BY <1>1, MaterialisedBacked DEF GateInv, ReviewsAreRecorded, CardsAreBacked

(* GateSafe. Reviews point at scripts whose scenes have findings, and      *)
(* cards at assets of their kind, after every operation.                   *)
THEOREM GateSafe == Spec => []GateInv
<1>1. Init => GateInv
  BY DEF Init, GateInv, ReviewsAreRecorded, CardsAreBacked
<1>2. GateInv /\ UNCHANGED vars => GateInv'
  BY DEF vars, GateInv, ReviewsAreRecorded, CardsAreBacked
<1>3. TypeOK /\ GateInv /\ (Intake \/ BeginReviewReanalysis \/ Policy) => GateInv'
  BY IntakeMoves, ReanalysisMoves, PolicyMoves DEF GateInv, ReviewsAreRecorded, CardsAreBacked
<1>4. TypeOK /\ GateInv /\ [Next]_vars => GateInv'
  BY <1>2, <1>3, GateInvPreparation, GateInvFiling DEF Next
<1> QED
  BY <1>1, <1>4, TypeCorrect, PTL DEF Spec

-----------------------------------------------------------------------------
(* Only pass_gate opens the gate.                                          *)
LEMMA GateIsPassed ==
    ASSUME TypeOK, Next, EntersGate
    PROVE  PassGate
<1>1. ~Intake
  BY IntakeMoves DEF EntersGate, EarlyStates, NeedsHumanStates, ExitStates
<1>2. ~Policy
  BY PolicyMoves DEF EntersGate
<1>3. ~Preparation
  BY PreparationMoves DEF EntersGate
<1>4. ~BeginReviewReanalysis
  BY ReanalysisMoves DEF EntersGate
<1> QED
  BY <1>1, <1>2, <1>3, <1>4, FilingMoves DEF EntersGate, Next

(* ScenesReleasedAtGate.  A human released every unconfirmed scene of      *)
(* every reviewed script, also one that a reanalysis found again.          *)
THEOREM ScenesReleasedAtGate == Spec => GatedScenesAreReleased
<1> DEFINE Released ==
        EntersGate =>
            \A a \in reviewed : \A s \in HumanScenes \cap assets[a].scenes :
                /\ \E f \in findings : f.scene = s
                /\ \A f \in findings : f.scene = s => f.status = "released"
<1>1. ASSUME TypeOK, GateInv, Next, EntersGate,
             NEW a \in reviewed, NEW s \in HumanScenes \cap assets[a].scenes
      PROVE  /\ \E f \in findings : f.scene = s
             /\ \A f \in findings : f.scene = s => f.status = "released"
  <2>1. PassGate
    BY <1>1, GateIsPassed
  <2>2. BlockingScenes(findings) = {}
    BY <2>1 DEF PassGate, GatePasses, GateOpen, BlockingFindings
  <2>3. \E f \in findings : f.scene = s
    BY <1>1 DEF GateInv, ReviewsAreRecorded
  <2>4. ASSUME NEW f \in findings, f.scene = s
        PROVE  f.status = "released"
    BY <2>2, <2>4 DEF BlockingScenes, SeverityOf, Blocks
  <2> QED
    BY <2>3, <2>4
<1>2. TypeOK /\ GateInv /\ [Next]_vars => [Released]_vars
  BY <1>1
<1> QED
  BY <1>2, TypeCorrect, GateSafe, PTL DEF Spec, GatedScenesAreReleased

(* CardsSettledAtGate.  Every required card of the pinned snapshot is      *)
(* waived, or valid with an uploaded asset of its kind.                    *)
THEOREM CardsSettledAtGate == Spec => GateSeesEveryDefinedCard
<1> DEFINE Settled ==
        EntersGate =>
            \A c \in RequiredCards \cap DefinedCards[project.cls.version] :
                \/ cards'[c].status = "waived"
                \/ /\ cards'[c].status = "valid" /\ cards'[c].asset \in 1..Len(assets)
                   /\ assets[cards'[c].asset].kind = CardKind[c]
<1>1. ASSUME TypeOK, FilingInv, GateInv, Next, EntersGate,
             NEW c \in RequiredCards \cap DefinedCards[project.cls.version]
      PROVE  \/ cards'[c].status = "waived"
             \/ /\ cards'[c].status = "valid" /\ cards'[c].asset \in 1..Len(assets)
                /\ assets[cards'[c].asset].kind = CardKind[c]
  <2>1. /\ PassGate /\ cards' = Materialised /\ Unvalidated = {}
        /\ project.state \in GateReadyStates
    BY <1>1, GateIsPassed DEF PassGate, GatePasses, GateOpen
  <2>2. c \in DefinedCards[Pinned] /\ c \in RequiredCards /\ c \in Cards
    BY <1>1, <2>1, WorkflowConstants
    DEF FilingInv, CollectedOnConfirmedPlan, CollectionStates, GateReadyStates, Pinned
  <2>3. Materialised[c].status \in {"valid", "waived"}
    BY <2>1, <2>2 DEF Unvalidated, Materialised
  <2>4. CardsAreBacked(Materialised)
    BY <1>1, MaterialisedBacked DEF GateInv
  <2> QED
    BY <2>1, <2>2, <2>3, <2>4 DEF CardsAreBacked
<1>2. TypeOK /\ FilingInv /\ GateInv /\ [Next]_vars => [Settled]_vars
  BY <1>1
<1> QED
  BY <1>2, TypeCorrect, FilingSafe, GateSafe, PTL DEF Spec, GateSeesEveryDefinedCard

=============================================================================

----------------------- MODULE ProjectWorkflowProofs -----------------------
(***************************************************************************)
(* Proofs, for every value of the constants, of the safety properties of   *)
(* ProjectWorkflow.  Type correctness comes first; each later theorem      *)
(* rests on it, on lemmas about the transition table and about the rules   *)
(* for facts, and on the inductive invariant stated before it.             *)
(***************************************************************************)
EXTENDS ProjectWorkflow, SequenceTheorems, TLAPS

-----------------------------------------------------------------------------
(* Lemmas about the helpers.                                               *)

(* Move changes nothing but the state, and the state only along the table. *)
LEMMA MoveResult ==
    ASSUME NEW p \in Project, NEW to \in ProjectState
    PROVE  /\ Move(p, to) \in Project
           /\ Move(p, to).intent = p.intent
           /\ Move(p, to).cls = p.cls
           /\ Move(p, to).roadmap = p.roadmap
           /\ Move(p, to).number = p.number
           /\ Move(p, to).stale = p.stale
           /\ Move(p, to).state \in {p.state, to}
           /\ ~CanMove(p.state, to) => Move(p, to) = p
BY DEF Move, CanEnter, Project

(* Recording an answer keeps a history well formed.                        *)
LEMMA UpsertFactType ==
    ASSUME NEW h \in History, NEW v \in Values, NEW src \in Sources
    PROVE  UpsertFact(h, v, src) \in History
BY DEF UpsertFact, History, Fact, Sources

LEMMA UpsertAllType ==
    ASSUME NEW fs \in [Keys -> History], NEW answers \in Answers, NEW src \in Sources
    PROVE  UpsertAll(fs, answers, src) \in [Keys -> History]
BY UpsertFactType DEF UpsertAll, Answers

LEMMA DeferFactType ==
    ASSUME NEW h \in History
    PROVE  DeferFact(h) \in History
BY DEF DeferFact, History, Fact, Sources

LEMMA BuildFieldsType ==
    ASSUME NEW fs \in [Keys -> History], NEW required
    PROVE  BuildFields(required, fs) \in [Keys -> Field]
BY DEF BuildFields, FieldOf, Field, FieldStatus, History, Fact, NoFact

LEMMA PinnedType ==
    ASSUME TypeOK
    PROVE  Pinned \in Versions
BY DEF TypeOK, Pinned, Project, Classification

LEMMA MaterialisedType ==
    ASSUME TypeOK
    PROVE  Materialised \in [Cards -> MaterialCard]
BY WorkflowConstants DEF TypeOK, Materialised, MaterialCard, MaterialStatus

LEMMA ClassesType ==
    ASSUME TypeOK, NEW verdict \in Verdicts, NEW c \in ClassesOf(verdict)
    PROVE  c \in Classification
BY WorkflowConstants DEF TypeOK, ClassesOf, Classification, Verdicts

(* A draft put in the place of the newest one, or first.                   *)
LEMMA NewestDraftType ==
    ASSUME TypeOK, NEW fields \in [Keys -> Field]
    PROVE  LET draft == [fields |-> fields, version |-> Pinned, frozen |-> FALSE]
               ds == IF drafts = << >> THEN <<draft>>
                     ELSE [drafts EXCEPT ![Len(drafts)] = draft]
           IN /\ ds \in Seq(Draft) /\ ds # << >> /\ Len(ds) <= MaxDrafts
              /\ Len(ds) = IF drafts = << >> THEN 1 ELSE Len(drafts)
              /\ ds[Len(ds)] = draft
              /\ \A i \in 1..Len(drafts) : i # Len(drafts) => ds[i] = drafts[i]
<1> DEFINE draft == [fields |-> fields, version |-> Pinned, frozen |-> FALSE]
<1>1. draft \in Draft
  BY PinnedType DEF Draft
<1>2. drafts \in Seq(Draft) /\ Len(drafts) <= MaxDrafts
  BY DEF TypeOK
<1>3. CASE drafts = << >>
  BY <1>1, <1>3, WorkflowConstants
<1>4. CASE drafts # << >>
  <2>1. Len(drafts) \in 1..Len(drafts)
    BY <1>2, <1>4, EmptySeq
  <2> QED
    BY <1>1, <1>2, <1>4, <2>1, ExceptSeq
<1> QED
  BY <1>3, <1>4

LEMMA CurrentDraftsType ==
    ASSUME TypeOK
    PROVE  /\ CurrentDrafts \in Seq(Draft) /\ CurrentDrafts # << >>
           /\ Len(CurrentDrafts) <= MaxDrafts
           /\ Len(CurrentDrafts) = IF drafts = << >> THEN 1 ELSE Len(drafts)
           /\ \A i \in 1..Len(drafts) : i # Len(drafts) => CurrentDrafts[i] = drafts[i]
           /\ Locked => CurrentDrafts = drafts
           /\ ~Locked => CurrentDrafts[Len(CurrentDrafts)] =
                [fields |-> CurrentFields, version |-> Pinned, frozen |-> FALSE]
<1>1. CurrentFields \in [Keys -> Field]
  BY BuildFieldsType DEF TypeOK, CurrentFields
<1>2. CASE Locked
  BY <1>2, EmptySeq DEF CurrentDrafts, Locked, TypeOK
<1>3. CASE ~Locked
  BY <1>1, <1>3, NewestDraftType DEF CurrentDrafts
<1> QED
  BY <1>2, <1>3

-----------------------------------------------------------------------------
(* TypeCorrect.  Every store of a project keeps the shape its schema says, *)
(* within the bounds, under every operation.                               *)

LEMMA InitType == Init => TypeOK
BY WorkflowConstants
DEF Init, TypeOK, Project, ProjectState, NeedsHumanStates, ExitStates, NoClass,
    NoAlert, Alert, FindingStatus, MaterialCard, MaterialStatus, NoReview,
    NoHistory, History, NoFact, Fact, Versions, Answers

LEMMA IntakeType ==
    ASSUME TypeOK, Intake
    PROVE  TypeOK'
<1>1. ASSUME NEW patch \in Answers, SubmitIntent(patch)
      PROVE  TypeOK'
  <2> DEFINE p == [project EXCEPT !.intent =
                    [k \in Keys |-> IF patch[k] = None THEN @[k] ELSE patch[k]]]
  <2>1. p \in Project
    BY DEF TypeOK, Project, Answers
  <2>2. project' \in Project
    BY <1>1, <2>1, MoveResult DEF SubmitIntent, ProjectState
  <2> QED
    BY <1>1, <2>2 DEF SubmitIntent, TypeOK
<1>2. ASSUME NEW verdict \in Verdicts, NEW c \in ClassesOf(verdict),
             RunClassification(verdict, c)
      PROVE  TypeOK'
  <2> DEFINE p == [project EXCEPT !.cls = c]
             judged == IF p.state = "INTAKE_DONE"
                          /\ TargetOf(verdict) \in {"CLASSIFIED", "NEEDS_HUMAN_SUBJECT"}
                       THEN Move(p, "FORM_JUDGED") ELSE p
  <2>1. p \in Project
    BY ClassesType DEF TypeOK, Project
  <2>2. TargetOf(verdict) \in ProjectState
    BY DEF TargetOf, ProjectState, NeedsHumanStates, ExitStates
  <2>3. judged \in Project
    BY <2>1, MoveResult DEF ProjectState
  <2>4. project' = Move(judged, TargetOf(verdict))
    BY <1>2 DEF RunClassification
  <2>5. project' \in Project
    BY <2>2, <2>3, <2>4, MoveResult
  <2>6. facts' \in [Keys -> History]
    BY <1>2, UpsertAllType DEF RunClassification, IntentFacts, TypeOK, Project, Sources
  <2>7. alert' \in Alert
    BY <1>2 DEF RunClassification, AlertAfter, Alert, NoAlert, FindingStatus
  <2> QED
    BY <1>2, <2>5, <2>6, <2>7 DEF RunClassification, TypeOK
<1>3. ASSUME NEW verdict \in Verdicts, NEW c \in ClassesOf(verdict),
             Reclassify(verdict, c)
      PROVE  TypeOK'
  <2>1. project' \in Project
    BY <1>3, ClassesType DEF Reclassify, TypeOK, Project
  <2>2. facts' \in [Keys -> History]
    BY <1>3, UpsertAllType DEF Reclassify, IntentFacts, TypeOK, Project, Sources
  <2> QED
    BY <1>3, <2>1, <2>2 DEF Reclassify, TypeOK
<1>4. ASSUME ConfirmRoadmap
      PROVE  TypeOK'
  <2> DEFINE p == [project EXCEPT !.roadmap = TRUE]
  <2>1. p \in Project
    BY DEF TypeOK, Project
  <2>2. project' \in Project
    BY <1>4, <2>1, MoveResult DEF ConfirmRoadmap, ProjectState
  <2> QED
    BY <1>4, <2>2 DEF ConfirmRoadmap, TypeOK
<1>5. ASSUME NEW details \in Answers, ApplyReviewConfirmation(details)
      PROVE  TypeOK'
  <2> DEFINE p == [project EXCEPT !.intent =
                    [k \in Keys |-> IF k \in IntentKeys THEN details[k] ELSE None]]
  <2>1. p \in Project
    BY DEF TypeOK, Project, Answers
  <2>2. project' \in Project
    BY <1>5, <2>1, MoveResult DEF ApplyReviewConfirmation, ProjectState
  <2>3. facts' \in [Keys -> History]
    BY <1>5, UpsertAllType DEF ApplyReviewConfirmation, TypeOK, Sources
  <2> QED
    BY <1>5, <2>2, <2>3 DEF ApplyReviewConfirmation, TypeOK
<1> QED
  BY <1>1, <1>2, <1>3, <1>4, <1>5 DEF Intake

LEMMA ReanalysisType ==
    ASSUME TypeOK, BeginReviewReanalysis
    PROVE  TypeOK'
<1>1. project' \in Project
  BY DEF BeginReviewReanalysis, TypeOK, Project, ProjectState
<1> QED
  BY <1>1 DEF BeginReviewReanalysis, TypeOK

LEMMA PolicyType ==
    ASSUME TypeOK, Policy
    PROVE  TypeOK'
<1>1. CASE PublishSnapshot
  BY <1>1, WorkflowConstants DEF PublishSnapshot, TypeOK, Versions
<1>2. CASE MarkPolicyStale
  BY <1>2 DEF MarkPolicyStale, TypeOK, Project
<1>3. ASSUME NEW v \in Versions, NEW tier \in Tiers, NEW provisional \in BOOLEAN,
             RecalcTier(v, tier, provisional)
      PROVE  TypeOK'
  BY <1>3, WorkflowConstants DEF RecalcTier, TypeOK, Project, Classification
<1> QED
  BY <1>1, <1>2, <1>3 DEF Policy

(* What a review leaves are findings, about scenes of the script it read   *)
(* or as they were.                                                        *)
LEMMA ReviewedType ==
    ASSUME TypeOK, NEW a \in 1..Len(assets), NEW id \in FindingIds,
           NEW kept \in {CarriedForward(a), {f \in findings : f.version # a}},
           ReviewNow(a, kept, id)
    PROVE  kept \subseteq Finding /\ findings' \subseteq Finding
<1>1. a \in 1..MaxAssets
  BY WorkflowConstants, LenProperties DEF TypeOK
<1>2. assets[a] \in AssetVersion
  BY ElementOfSeq DEF TypeOK
<1>3. CarriedForward(a) \subseteq Finding
  BY <1>1 DEF CarriedForward, TypeOK, Finding, FindingStatus
<1>4. kept \subseteq Finding
  BY <1>3 DEF TypeOK
<1>5. Opened(a, kept, id) \subseteq Finding
  BY <1>1, <1>2 DEF Opened, Finding, AssetVersion, FindingStatus
<1> QED
  BY <1>4, <1>5 DEF ReviewNow

LEMMA PreparationType ==
    ASSUME TypeOK, Preparation
    PROVE  TypeOK'
<1>1. ASSUME NEW asset \in AssetVersion, UploadAsset(asset)
      PROVE  TypeOK'
  <2>1. assets' \in Seq(AssetVersion) /\ Len(assets') = Len(assets) + 1
    BY <1>1, AppendProperties DEF UploadAsset, TypeOK
  <2> QED
    BY <1>1, <2>1, WorkflowConstants, LenProperties DEF UploadAsset, TypeOK
<1>2. ASSUME NEW a \in 1..Len(assets), NEW id \in FindingIds,
             RunScriptReview(a, id) \/ (a = 1 /\ ReviewForAnalysis(id))
      PROVE  TypeOK'
  <2>1. PICK kept \in {CarriedForward(a), {f \in findings : f.version # a}} :
            reviewed' = reviewed \cup {a} /\ ReviewNow(a, kept, id)
    BY <1>2 DEF RunScriptReview, ReviewForAnalysis
  <2>2. project' \in Project
    BY <2>1, MoveResult DEF ReviewNow, AdvanceAfterReview, ProjectState, TypeOK
  <2>3. findings' \subseteq Finding
    BY <2>1, ReviewedType
  <2>4. reviewed' \subseteq 1..MaxAssets
    BY <2>1, WorkflowConstants, LenProperties DEF TypeOK
  <2> QED
    BY <2>1, <2>2, <2>3, <2>4 DEF ReviewNow, TypeOK
<1>3. ASSUME NEW f \in findings, NEW status \in FindingStatus, ActOnFinding(f, status)
      PROVE  TypeOK'
  BY <1>3 DEF ActOnFinding, TypeOK, Finding
<1>15. ASSUME NEW id \in FindingIds, ReviewForAnalysis(id)
       PROVE  TypeOK'
  BY <1>2, <1>15 DEF ReviewForAnalysis, Scripts
<1>4. ASSUME NEW status \in FindingStatus, ActOnAlert(status)
      PROVE  TypeOK'
  BY <1>4 DEF ActOnAlert, TypeOK, Alert
<1>5. CASE DispatchAlert
  BY <1>5 DEF DispatchAlert, TypeOK, Alert
<1>6. ASSUME NEW a \in 1..Len(assets), NEW found \in Answers, NEW again \in Answers,
             ExtractAssetFacts(a, found, again)
      PROVE  TypeOK'
  <2>1. UpsertAll(facts, found, "asset") \in [Keys -> History]
    BY UpsertAllType DEF TypeOK, Sources
  <2>2. facts' \in [Keys -> History]
    BY <1>6, <2>1, UpsertAllType DEF ExtractAssetFacts, Sources
  <2>3. extracted' \subseteq 1..MaxAssets
    BY <1>6, WorkflowConstants, LenProperties DEF ExtractAssetFacts, TypeOK
  <2> QED
    BY <1>6, <2>2, <2>3 DEF ExtractAssetFacts, TypeOK
<1>7. CASE ReadMaterialCards
  BY <1>7, MaterialisedType DEF ReadMaterialCards, TypeOK
<1>8. ASSUME NEW c \in Cards, NEW card \in MaterialCard, SetCard(c, card)
      PROVE  TypeOK'
  BY <1>8, MaterialisedType DEF SetCard, TypeOK
<1>9. ASSUME NEW c \in Cards, NEW a \in 1..Len(assets), AttachMaterial(c, a)
      PROVE  TypeOK'
  <2>1. [status |-> "uploaded", asset |-> a] \in MaterialCard
    BY WorkflowConstants, LenProperties DEF MaterialCard, MaterialStatus, TypeOK
  <2> QED
    BY <1>8, <1>9, <2>1 DEF AttachMaterial
<1>10. ASSUME NEW c \in Cards, ValidateMaterial(c) \/ WaiveMaterial(c)
       PROVE  TypeOK'
  <2>1. Materialised[c] \in MaterialCard
    BY MaterialisedType
  <2>2. \A status \in MaterialStatus :
            [Materialised[c] EXCEPT !.status = status] \in MaterialCard
    BY <2>1 DEF MaterialCard
  <2> QED
    BY <1>8, <1>10, <2>2 DEF ValidateMaterial, WaiveMaterial, MaterialStatus
<1>11. CASE FormDraft
  BY <1>11, CurrentDraftsType DEF FormDraft, TypeOK
<1>12. ASSUME NEW k \in Keys, NEW history \in History, RecordField(k, history)
       PROVE  TypeOK'
  <2>1. facts' \in [Keys -> History]
    BY <1>12 DEF RecordField, TypeOK
  <2>2. BuildFields(Required, facts') \in [Keys -> Field]
    BY <2>1, BuildFieldsType
  <2>3. drafts' \in Seq(Draft) /\ Len(drafts') <= MaxDrafts
    BY <1>12, <2>2, NewestDraftType DEF RecordField
  <2> QED
    BY <1>12, <2>1, <2>3 DEF RecordField, TypeOK
<1>13. ASSUME NEW k \in Keys, NEW v \in Values, ConfirmFormField(k, v)
       PROVE  TypeOK'
  <2>1. UpsertFact(facts[k], v, "user_answer") \in History
    BY UpsertFactType DEF TypeOK, Sources
  <2> QED
    BY <1>12, <1>13, <2>1 DEF ConfirmFormField
<1>14. ASSUME NEW k \in Keys, DeferFormField(k)
       PROVE  TypeOK'
  <2>1. DeferFact(facts[k]) \in History
    BY DeferFactType DEF TypeOK
  <2> QED
    BY <1>12, <1>14, <2>1 DEF DeferFormField
<1> QED
  BY <1>1, <1>2, <1>3, <1>4, <1>5, <1>6, <1>7, <1>9, <1>10, <1>11, <1>13, <1>14, <1>15
  DEF Preparation

LEMMA FilingType ==
    ASSUME TypeOK, Filing
    PROVE  TypeOK'
<1>1. CASE PassGate
  BY <1>1, MaterialisedType, MoveResult DEF PassGate, TypeOK, ProjectState
<1>2. CASE FreezeForm
  <2> DEFINE frozen == [CurrentDrafts[Len(CurrentDrafts)] EXCEPT !.frozen = TRUE]
  <2>1. Len(CurrentDrafts) \in 1..Len(CurrentDrafts)
    BY CurrentDraftsType, EmptySeq
  <2>2. frozen \in Draft
    <3>1. CurrentDrafts[Len(CurrentDrafts)] \in Draft
      BY <2>1, CurrentDraftsType, ElementOfSeq
    <3> QED
      BY <3>1 DEF Draft
  <2>3. drafts' = [CurrentDrafts EXCEPT ![Len(CurrentDrafts)] = frozen]
    BY <1>2 DEF FreezeForm
  <2>4. drafts' \in Seq(Draft) /\ Len(drafts') <= MaxDrafts
    BY <2>1, <2>2, <2>3, CurrentDraftsType, ExceptSeq
  <2>5. project' \in Project
    BY <1>2, MoveResult DEF FreezeForm, TypeOK, ProjectState
  <2> QED
    BY <1>2, <2>4, <2>5 DEF FreezeForm, TypeOK
<1>3. ASSUME NEW i \in Institutions, SubmitToInstitution(i)
      PROVE  TypeOK'
  BY <1>3, MoveResult
  DEF SubmitToInstitution, TypeOK, ProjectState, InstitutionReview, Decisions
<1>4. ASSUME NEW decision \in Decisions, DecideInstitutionReview(decision)
      PROVE  TypeOK'
  <2>1. review' \in InstitutionReview
    BY <1>4 DEF DecideInstitutionReview, TypeOK, InstitutionReview
  <2>2. project' \in Project
    BY <1>4, MoveResult DEF DecideInstitutionReview, TypeOK, ProjectState
  <2> QED
    BY <1>4, <2>1, <2>2 DEF DecideInstitutionReview, TypeOK
<1>5. CASE ResumeAfterReturn
  <2> DEFINE successor == [fields |-> NoFields, frozen |-> FALSE,
                           version |-> drafts[Len(drafts)].version]
  <2>1. ASSUME Locked
        PROVE  successor \in Draft
    <3>1. drafts[Len(drafts)] \in Draft
      BY <2>1, EmptySeq, ElementOfSeq DEF Locked, TypeOK
    <3> QED
      BY <3>1 DEF Draft, NoFields, Field, FieldStatus, Fact, NoFact
  <2>2. drafts' \in Seq(Draft) /\ Len(drafts') <= MaxDrafts
    BY <1>5, <2>1, AppendProperties, LenProperties, WorkflowConstants
    DEF ResumeAfterReturn, TypeOK
  <2>3. project' \in Project
    BY <1>5, MoveResult DEF ResumeAfterReturn, TypeOK, ProjectState
  <2> QED
    BY <1>5, <2>2, <2>3 DEF ResumeAfterReturn, TypeOK
<1>6. ASSUME NEW n \in Numbers, RecordFiling(n)
      PROVE  TypeOK'
  <2>1. [project EXCEPT !.number = n] \in Project
    BY DEF TypeOK, Project
  <2> QED
    BY <1>6, <2>1, MoveResult DEF RecordFiling, TypeOK, ProjectState
<1> QED
  BY <1>1, <1>2, <1>3, <1>4, <1>5, <1>6 DEF Filing

(* TypeCorrect. Every operation leaves every store holding the documents   *)
(* it is declared to hold.                                                 *)
THEOREM TypeCorrect == Spec => []TypeOK
<1>1. TypeOK /\ UNCHANGED vars => TypeOK'
  BY DEF TypeOK, vars
<1>2. TypeOK /\ [Next]_vars => TypeOK'
  BY <1>1, IntakeType, ReanalysisType, PolicyType, PreparationType, FilingType DEF Next
<1> QED
  BY InitType, <1>2, PTL DEF Spec

-----------------------------------------------------------------------------
(* Where each group of operations can take a project.                      *)

EarlyStates ==
    {"INTAKE_DONE", "FORM_JUDGED", "CLASSIFIED", "ROADMAP_CONFIRMED",
     "COLLECTING_MATERIALS"} \cup NeedsHumanStates \cup ExitStates

SettledStates == {"GATE_D3_PASSED"} \cup RecalcFrozenStates \cup ExitStates

(* The table has no line from a settled state to an early one that an      *)
(* operation of the intake could use.                                      *)
LEMMA SettledTable ==
    ASSUME NEW from \in SettledStates
    PROVE  \A to \in EarlyStates \ {"COLLECTING_MATERIALS"} : ~CanMove(from, to)
BY DEF SettledStates, EarlyStates, CanMove, AllowedTransitions,
       NeedsHumanStates, ExitStates, RecalcFrozenStates

(* Intake and classification stay among the early states, and leave a      *)
(* project past the gate, or out of the product, where it is.              *)
LEMMA IntakeMoves ==
    ASSUME TypeOK, Intake
    PROVE  /\ UNCHANGED <<latest, findings, assets, reviewed, extracted, cards,
                          drafts, review>>
           /\ project'.state \in EarlyStates \cup {project.state}
           /\ project.state \in SettledStates => project'.state = project.state
           /\ project'.number = project.number
           /\ project.roadmap => project'.roadmap
           /\ project.cls # NoClass => project'.cls # NoClass
           /\ project'.state = "COLLECTING_MATERIALS" =>
                \/ project.state = "COLLECTING_MATERIALS"
                \/ project'.roadmap /\ project'.cls # NoClass
<1>1. ASSUME NEW patch \in Answers, SubmitIntent(patch)
      PROVE  /\ project'.state \in {project.state, "INTAKE_DONE"}
             /\ project.state # "DRAFT" => project'.state = project.state
             /\ project'.number = project.number
             /\ project'.roadmap = project.roadmap
             /\ project'.cls = project.cls
  <2> DEFINE p == [project EXCEPT !.intent =
                    [k \in Keys |-> IF patch[k] = None THEN @[k] ELSE patch[k]]]
  <2>1. p \in Project /\ p.state = project.state /\ p.number = project.number
        /\ p.roadmap = project.roadmap /\ p.cls = project.cls
    BY DEF TypeOK, Project, Answers
  <2>2. project' = IF p.state = "DRAFT" THEN Move(p, "INTAKE_DONE") ELSE p
    BY <1>1 DEF SubmitIntent
  <2> QED
    BY <2>1, <2>2, MoveResult DEF ProjectState
<1>2. ASSUME NEW verdict \in Verdicts, NEW c \in ClassesOf(verdict),
             RunClassification(verdict, c)
      PROVE  /\ project'.state \in (EarlyStates \ {"COLLECTING_MATERIALS"}) \cup {project.state}
             /\ project.state \in SettledStates => project'.state = project.state
             /\ project'.number = project.number
             /\ project'.roadmap = project.roadmap
             /\ project'.cls # NoClass
  <2> DEFINE p == [project EXCEPT !.cls = c]
             to == TargetOf(verdict)
             judged == IF p.state = "INTAKE_DONE"
                          /\ to \in {"CLASSIFIED", "NEEDS_HUMAN_SUBJECT"}
                       THEN Move(p, "FORM_JUDGED") ELSE p
  <2>1. c \in Classification /\ c # NoClass
    BY ClassesType DEF Classification, NoClass
  <2>2. p \in Project /\ p.state = project.state /\ p.number = project.number
        /\ p.roadmap = project.roadmap /\ p.cls = c
    BY <2>1 DEF TypeOK, Project
  <2>3. to \in EarlyStates \ {"COLLECTING_MATERIALS"} /\ to \in ProjectState
    BY DEF TargetOf, EarlyStates, ProjectState, NeedsHumanStates, ExitStates
  <2>4. /\ judged \in Project /\ judged.number = p.number
        /\ judged.roadmap = p.roadmap /\ judged.cls = p.cls
        /\ judged.state \in {p.state, "FORM_JUDGED"}
        /\ p.state # "INTAKE_DONE" => judged.state = p.state
    BY <2>2, MoveResult DEF ProjectState
  <2>5. project' = Move(judged, to)
    BY <1>2 DEF RunClassification
  <2>6. /\ project'.state \in {judged.state, to}
        /\ ~CanMove(judged.state, to) => project'.state = judged.state
        /\ project'.number = judged.number /\ project'.roadmap = judged.roadmap
        /\ project'.cls = judged.cls
    BY <2>3, <2>4, <2>5, MoveResult
  <2>7. project.state \in SettledStates => project'.state = project.state
    BY <2>2, <2>3, <2>4, <2>6, SettledTable DEF SettledStates, RecalcFrozenStates, ExitStates
  <2> QED
    BY <2>1, <2>2, <2>3, <2>4, <2>6, <2>7 DEF EarlyStates
<1>3. ASSUME NEW verdict \in Verdicts, NEW c \in ClassesOf(verdict),
             Reclassify(verdict, c)
      PROVE  /\ project'.state = project.state /\ project'.number = project.number
             /\ project'.roadmap = project.roadmap /\ project'.cls # NoClass
  <2>1. c \in Classification /\ c # NoClass
    BY ClassesType DEF Classification, NoClass
  <2> QED
    BY <1>3, <2>1 DEF Reclassify, TypeOK, Project
<1>4. ASSUME ConfirmRoadmap
      PROVE  /\ project'.state \in {project.state, "ROADMAP_CONFIRMED", "COLLECTING_MATERIALS"}
             /\ project.state \in SettledStates => project'.state = project.state
             /\ project'.number = project.number
             /\ project'.roadmap /\ project'.cls = project.cls /\ project.cls # NoClass
  <2> DEFINE p == [project EXCEPT !.roadmap = TRUE]
             q == Move(p, "ROADMAP_CONFIRMED")
  <2>1. p \in Project /\ p.state = project.state /\ p.number = project.number
        /\ p.roadmap /\ p.cls = project.cls
    BY DEF TypeOK, Project
  <2>2. /\ q \in Project /\ q.number = p.number /\ q.roadmap = p.roadmap
        /\ q.cls = p.cls /\ q.state \in {p.state, "ROADMAP_CONFIRMED"}
    BY <2>1, MoveResult DEF ProjectState
  <2>3. project' = IF CanEnter(p, "ROADMAP_CONFIRMED")
                   THEN Move(q, "COLLECTING_MATERIALS") ELSE p
    BY <1>4 DEF ConfirmRoadmap
  <2>4. project.state \in SettledStates => project' = p
    BY <2>1, <2>3, SettledTable DEF EarlyStates, CanEnter
  <2>5. LET r == Move(q, "COLLECTING_MATERIALS")
        IN /\ r.state \in {q.state, "COLLECTING_MATERIALS"}
           /\ r.number = q.number /\ r.roadmap = q.roadmap /\ r.cls = q.cls
    BY <2>2, MoveResult DEF ProjectState
  <2>6. project.cls # NoClass
    BY <1>4 DEF ConfirmRoadmap
  <2>7. project' = p \/ project' = Move(q, "COLLECTING_MATERIALS")
    BY <2>3
  <2> QED
    BY <2>1, <2>2, <2>4, <2>5, <2>6, <2>7
<1>7. ASSUME NEW details \in Answers, ApplyReviewConfirmation(details)
      PROVE  /\ project'.state \in {project.state, "INTAKE_DONE"}
             /\ project.state # "DRAFT" => project'.state = project.state
             /\ project'.number = project.number
             /\ project'.roadmap = project.roadmap
             /\ project'.cls = project.cls
  <2> DEFINE p == [project EXCEPT !.intent =
                    [k \in Keys |-> IF k \in IntentKeys THEN details[k] ELSE None]]
  <2>1. p \in Project /\ p.state = project.state /\ p.number = project.number
        /\ p.roadmap = project.roadmap /\ p.cls = project.cls
    BY <1>7 DEF TypeOK, Project, Answers
  <2>2. project' = IF p.state = "DRAFT" THEN Move(p, "INTAKE_DONE") ELSE p
    BY <1>7 DEF ApplyReviewConfirmation
  <2> QED
    BY <2>1, <2>2, MoveResult DEF ProjectState
<1>5. UNCHANGED <<latest, findings, assets, reviewed, extracted, cards, drafts, review>>
  BY DEF Intake, SubmitIntent, ApplyReviewConfirmation, RunClassification, Reclassify,
         ConfirmRoadmap
<1>6. "INTAKE_DONE" \in EarlyStates /\ "ROADMAP_CONFIRMED" \in EarlyStates
      /\ "COLLECTING_MATERIALS" \in EarlyStates
      /\ "DRAFT" \notin SettledStates /\ "INTAKE_DONE" # "COLLECTING_MATERIALS"
  BY DEF EarlyStates, SettledStates, RecalcFrozenStates, ExitStates
<1> QED
  BY <1>1, <1>2, <1>3, <1>4, <1>5, <1>6, <1>7 DEF Intake

(* A reanalysis takes back the classification and the plan, and leaves the *)
(* form, its findings and what an institution said.                        *)
LEMMA ReanalysisMoves ==
    ASSUME TypeOK, BeginReviewReanalysis
    PROVE  /\ UNCHANGED <<latest, facts, alert, findings, assets, reviewed, extracted,
                          cards, drafts, review>>
           /\ project.state \in ReanalyzableStates \ RecalcFrozenStates
           /\ project'.state = "DRAFT" /\ project'.cls = NoClass
BY DEF BeginReviewReanalysis, TypeOK, Project, ReanalyzableStates, ReclassifiableStates,
       RecalcFrozenStates, NeedsHumanStates, ExitStates

(* The policy loop re-decides a provisional tier and nothing else.         *)
LEMMA PolicyMoves ==
    ASSUME TypeOK, Policy
    PROVE  /\ UNCHANGED <<facts, alert, findings, assets, reviewed, extracted,
                          cards, drafts, review>>
           /\ project'.state = project.state
           /\ project'.intent = project.intent
           /\ project'.number = project.number
           /\ project'.roadmap = project.roadmap
           /\ project.cls # NoClass => project'.cls # NoClass
           /\ project.cls = NoClass \/ ~project.cls.provisional
                => project'.cls = project.cls
<1>1. CASE PublishSnapshot
  BY <1>1 DEF PublishSnapshot
<1>2. CASE MarkPolicyStale
  BY <1>2 DEF MarkPolicyStale, TypeOK, Project
<1>3. ASSUME NEW v \in Versions, NEW tier \in Tiers, NEW provisional \in BOOLEAN,
             RecalcTier(v, tier, provisional)
      PROVE  /\ UNCHANGED <<facts, alert, findings, assets, reviewed, extracted,
                            cards, drafts, review>>
             /\ project'.state = project.state /\ project'.intent = project.intent
             /\ project'.number = project.number /\ project'.roadmap = project.roadmap
             /\ project'.cls # NoClass /\ project.cls # NoClass /\ project.cls.provisional
  BY <1>3, WorkflowConstants DEF RecalcTier, NewerEvent, TypeOK, Project, NoClass
<1> QED
  BY <1>1, <1>2, <1>3 DEF Policy

(* Of the preparation only the script review moves a project, out of the   *)
(* collection and into the revision loop.                                  *)
LEMMA PreparationMoves ==
    ASSUME TypeOK, Preparation
    PROVE  /\ UNCHANGED <<latest, review>>
           /\ reviewed \subseteq reviewed'
           /\ project'.intent = project.intent
           /\ project'.number = project.number
           /\ project'.roadmap = project.roadmap
           /\ project'.cls = project.cls
           /\ \/ project'.state = project.state
              \/ /\ project.state \in {"COLLECTING_MATERIALS", "REVIEW_RUNNING"}
                 /\ project'.state \in {"REVIEW_RUNNING", "REVISION_LOOP"}
                 /\ reviewed' # {}
<1>1. ASSUME NEW a \in 1..Len(assets), NEW id \in FindingIds,
             RunScriptReview(a, id) \/ (a = 1 /\ ReviewForAnalysis(id))
      PROVE  /\ UNCHANGED <<latest, review>>
             /\ reviewed \subseteq reviewed' /\ reviewed' # {}
             /\ project'.intent = project.intent /\ project'.number = project.number
             /\ project'.roadmap = project.roadmap /\ project'.cls = project.cls
             /\ \/ project'.state = project.state
                \/ /\ project.state \in {"COLLECTING_MATERIALS", "REVIEW_RUNNING"}
                   /\ project'.state \in {"REVIEW_RUNNING", "REVISION_LOOP"}
  <2> DEFINE started == IF project.state = "COLLECTING_MATERIALS"
                        THEN Move(project, "REVIEW_RUNNING") ELSE project
  <2>1. /\ started \in Project /\ started.intent = project.intent
        /\ started.number = project.number /\ started.roadmap = project.roadmap
        /\ started.cls = project.cls
        /\ \/ started.state = project.state
           \/ project.state = "COLLECTING_MATERIALS" /\ started.state = "REVIEW_RUNNING"
    BY MoveResult DEF TypeOK, ProjectState
  <2>2. project' \in {started, Move(started, "REVISION_LOOP")}
        /\ (started.state # "REVIEW_RUNNING" => project' = started)
    BY <1>1 DEF RunScriptReview, ReviewForAnalysis, ReviewNow, AdvanceAfterReview
  <2>3. LET r == Move(started, "REVISION_LOOP")
        IN /\ r.intent = started.intent /\ r.number = started.number
           /\ r.roadmap = started.roadmap /\ r.cls = started.cls
           /\ r.state \in {started.state, "REVISION_LOOP"}
    BY <2>1, MoveResult DEF ProjectState
  <2>4. reviewed' = reviewed \cup {a} /\ UNCHANGED <<latest, review>>
    BY <1>1 DEF RunScriptReview, ReviewForAnalysis, ReviewNow
  <2> QED
    BY <2>1, <2>2, <2>3, <2>4
<1>2. CASE UNCHANGED <<project, latest, review, reviewed>>
  BY <1>2
<1>3. ASSUME NEW id \in FindingIds, ReviewForAnalysis(id)
      PROVE  1 \in 1..Len(assets)
  BY <1>3 DEF ReviewForAnalysis, Scripts
<1> QED
  BY <1>1, <1>2, <1>3
  DEF Preparation, UploadAsset, ActOnFinding, ActOnAlert, DispatchAlert,
      ExtractAssetFacts, ReadMaterialCards, AttachMaterial, ValidateMaterial,
      WaiveMaterial, SetCard, FormDraft, ConfirmFormField, DeferFormField, RecordField

(* It rebuilds the newest draft only while that draft is not frozen.       *)
LEMMA PreparationDrafts ==
    ASSUME TypeOK, Preparation
    PROVE  /\ Locked' <=> Locked
           /\ Locked => drafts' = drafts
           /\ \/ drafts' = drafts
              \/ /\ Len(drafts') = IF drafts = << >> THEN 1 ELSE Len(drafts)
                 /\ \A i \in 1..Len(drafts) : i # Len(drafts) => drafts'[i] = drafts[i]
                 /\ ~drafts'[Len(drafts')].frozen
<1>1. CASE FormDraft
  BY <1>1, CurrentDraftsType DEF FormDraft, Locked, TypeOK
<1>2. ASSUME NEW k \in Keys, NEW history \in History, RecordField(k, history)
      PROVE  /\ ~Locked /\ ~Locked'
             /\ Len(drafts') = IF drafts = << >> THEN 1 ELSE Len(drafts)
             /\ \A i \in 1..Len(drafts) : i # Len(drafts) => drafts'[i] = drafts[i]
             /\ ~drafts'[Len(drafts')].frozen
  <2>1. facts' \in [Keys -> History]
    BY <1>2 DEF RecordField, TypeOK
  <2>2. BuildFields(Required, facts') \in [Keys -> Field]
    BY <2>1, BuildFieldsType
  <2> QED
    BY <1>2, <2>2, NewestDraftType DEF RecordField, Locked
<1>3. ASSUME NEW k \in Keys, NEW v \in Values, ConfirmFormField(k, v)
      PROVE  \E history \in History : RecordField(k, history)
  BY <1>3, UpsertFactType DEF ConfirmFormField, TypeOK, Sources
<1>4. ASSUME NEW k \in Keys, DeferFormField(k)
      PROVE  \E history \in History : RecordField(k, history)
  BY <1>4, DeferFactType DEF DeferFormField, TypeOK
<1>5. CASE UNCHANGED drafts
  BY <1>5 DEF Locked
<1> QED
  BY <1>1, <1>2, <1>3, <1>4, <1>5
  DEF Preparation, UploadAsset, RunScriptReview, ReviewForAnalysis, ReviewNow,
      ActOnFinding, ActOnAlert, DispatchAlert, ExtractAssetFacts,
      ReadMaterialCards, AttachMaterial, ValidateMaterial, WaiveMaterial, SetCard

(* What each operation past the preparation does to the state.             *)
LEMMA FilingTable ==
    /\ \A from \in GateReadyStates : CanMove(from, "GATE_D3_PASSED")
    /\ CanMove("GATE_D3_PASSED", "FORM_FROZEN")
    /\ \A from \in {"FORM_FROZEN", "INSTITUTION_REVIEW"} : CanMove(from, "INSTITUTION_REVIEW")
    /\ \A from \in ProjectState :
         \A to \in {"READY_FOR_EXTERNAL_FILING", "INSTITUTION_RETURNED"} :
            CanMove(from, to) <=> from = "INSTITUTION_REVIEW"
    /\ CanMove("INSTITUTION_RETURNED", "REVISION_LOOP")
    /\ \A from \in ProjectState :
            CanMove(from, "FILED") <=> from = "READY_FOR_EXTERNAL_FILING"
BY DEF CanMove, AllowedTransitions, GateReadyStates, NeedsHumanStates, ExitStates,
       ProjectState

LEMMA MoveAlong ==
    ASSUME NEW p \in Project, NEW to \in ProjectState, CanEnter(p, to)
    PROVE  Move(p, to).state = to
BY DEF Move, Project

LEMMA FilingTargets ==
    ASSUME NEW p \in Project,
           NEW to \in {"READY_FOR_EXTERNAL_FILING", "INSTITUTION_RETURNED",
                       "REVISION_LOOP", "FILED"}
    PROVE  /\ Move(p, to).intent = p.intent /\ Move(p, to).cls = p.cls
           /\ Move(p, to).roadmap = p.roadmap /\ Move(p, to).number = p.number
           /\ to \in {"READY_FOR_EXTERNAL_FILING", "INSTITUTION_RETURNED"} =>
                Move(p, to).state = IF p.state = "INSTITUTION_REVIEW" THEN to ELSE p.state
           /\ to = "REVISION_LOOP" /\ p.state = "INSTITUTION_RETURNED" =>
                Move(p, to).state = to
           /\ to = "FILED" =>
                \/ Move(p, to).state = p.state
                \/ p.state = "READY_FOR_EXTERNAL_FILING" /\ Move(p, to).state = to
<1>1. to \in ProjectState /\ p.state \in ProjectState
  BY DEF ProjectState, Project
<1>2. /\ Move(p, to).state \in {p.state, to}
      /\ ~CanMove(p.state, to) => Move(p, to).state = p.state
      /\ to # "FILED" /\ CanMove(p.state, to) => Move(p, to).state = to
  BY <1>1, MoveResult, MoveAlong DEF CanEnter
<1>3. to \in {"READY_FOR_EXTERNAL_FILING", "INSTITUTION_RETURNED"} =>
        (CanMove(p.state, to) <=> p.state = "INSTITUTION_REVIEW")
  BY <1>1, FilingTable
<1>4. to = "FILED" => (CanMove(p.state, to) <=> p.state = "READY_FOR_EXTERNAL_FILING")
  BY <1>1, FilingTable
<1>5. to = "REVISION_LOOP" /\ p.state = "INSTITUTION_RETURNED" => CanMove(p.state, to)
  BY FilingTable
<1> QED
  BY <1>1, <1>2, <1>3, <1>4, <1>5, MoveResult

LEMMA FilingMoves ==
    ASSUME TypeOK, Filing
    PROVE  /\ UNCHANGED <<latest, facts, alert, findings, assets, reviewed, extracted>>
           /\ project'.intent = project.intent /\ project'.cls = project.cls
           /\ project'.roadmap = project.roadmap
           /\ \/ /\ PassGate
                 /\ project.state \in GateReadyStates /\ project'.state = "GATE_D3_PASSED"
                 /\ project'.number = project.number /\ UNCHANGED <<drafts, review>>
              \/ /\ FreezeForm
                 /\ project.state = "GATE_D3_PASSED" /\ project'.state = "FORM_FROZEN"
                 /\ project'.number = project.number /\ review' = review
              \/ /\ project.state \in {"FORM_FROZEN", "INSTITUTION_REVIEW"}
                 /\ project'.state = "INSTITUTION_REVIEW"
                 /\ project'.number = project.number /\ drafts' = drafts
              \/ /\ project'.number = project.number
                 /\ drafts' = drafts /\ review'.licensed = review.licensed
                 /\ \/ project'.state = project.state
                    \/ /\ project.state = "INSTITUTION_REVIEW"
                       /\ \/ project'.state = "INSTITUTION_RETURNED"
                          \/ project'.state = "READY_FOR_EXTERNAL_FILING" /\ review.licensed
              \/ /\ ResumeAfterReturn
                 /\ project.state = "INSTITUTION_RETURNED" /\ project'.state = "REVISION_LOOP"
                 /\ project'.number = project.number /\ review' = review
              \/ /\ project'.number \in Numbers /\ UNCHANGED <<drafts, review>>
                 /\ \/ project'.state = project.state
                    \/ /\ project.state = "READY_FOR_EXTERNAL_FILING"
                       /\ project'.state = "FILED"
<1> DEFINE Same == project'.intent = project.intent /\ project'.cls = project.cls
                   /\ project'.roadmap = project.roadmap
<1>1. project \in Project /\ project.state \in ProjectState
  BY DEF TypeOK, Project
<1>2. UNCHANGED <<latest, facts, alert, findings, assets, reviewed, extracted>>
  BY DEF Filing, PassGate, FreezeForm, SubmitToInstitution, DecideInstitutionReview,
         ResumeAfterReturn, RecordFiling
<1>3. ASSUME PassGate
      PROVE  /\ Same /\ project'.number = project.number /\ UNCHANGED <<drafts, review>>
             /\ project.state \in GateReadyStates /\ project'.state = "GATE_D3_PASSED"
  BY <1>1, <1>3, MoveResult, MoveAlong, FilingTable DEF PassGate, CanEnter, ProjectState
<1>4. ASSUME FreezeForm
      PROVE  /\ Same /\ project'.number = project.number /\ review' = review
             /\ project.state = "GATE_D3_PASSED" /\ project'.state = "FORM_FROZEN"
  BY <1>1, <1>4, MoveResult, MoveAlong, FilingTable DEF FreezeForm, CanEnter, ProjectState
<1>5. ASSUME NEW i \in Institutions, SubmitToInstitution(i)
      PROVE  /\ Same /\ project'.number = project.number /\ drafts' = drafts
             /\ project.state \in {"FORM_FROZEN", "INSTITUTION_REVIEW"}
             /\ project'.state = "INSTITUTION_REVIEW"
  <2>1. /\ project.state \in {"FORM_FROZEN", "INSTITUTION_REVIEW"} /\ drafts' = drafts
        /\ project' = Move(project, "INSTITUTION_REVIEW")
    BY <1>5 DEF SubmitToInstitution
  <2>2. CanEnter(project, "INSTITUTION_REVIEW") /\ "INSTITUTION_REVIEW" \in ProjectState
    BY <2>1, FilingTable DEF CanEnter, ProjectState
  <2> QED
    BY <1>1, <2>1, <2>2, MoveResult, MoveAlong
<1>6. ASSUME NEW decision \in Decisions, DecideInstitutionReview(decision)
      PROVE  /\ Same /\ project'.number = project.number
             /\ drafts' = drafts /\ review'.licensed = review.licensed
             /\ \/ project'.state = project.state
                \/ /\ project.state = "INSTITUTION_REVIEW"
                   /\ \/ project'.state = "INSTITUTION_RETURNED"
                      \/ project'.state = "READY_FOR_EXTERNAL_FILING" /\ review.licensed
  <2>1. drafts' = drafts /\ review'.licensed = review.licensed
    BY <1>6 DEF DecideInstitutionReview, TypeOK, InstitutionReview, NoReview
  <2>2. CASE decision = "accept"
    <3>1. project' = Move(project, "READY_FOR_EXTERNAL_FILING") /\ review.licensed
      BY <1>6, <2>2 DEF DecideInstitutionReview
    <3> QED
      BY <1>1, <2>1, <3>1, FilingTargets
  <2>3. CASE decision = "return"
    <3>1. project' = Move(project, "INSTITUTION_RETURNED")
      BY <1>6, <2>3 DEF DecideInstitutionReview
    <3> QED
      BY <1>1, <2>1, <3>1, FilingTargets
  <2>4. CASE decision \notin {"accept", "return"}
    BY <1>6, <2>1, <2>4 DEF DecideInstitutionReview
  <2> QED
    BY <2>2, <2>3, <2>4
<1>7. ASSUME ResumeAfterReturn
      PROVE  /\ Same /\ project'.number = project.number /\ review' = review
             /\ project.state = "INSTITUTION_RETURNED" /\ project'.state = "REVISION_LOOP"
  BY <1>1, <1>7, FilingTargets DEF ResumeAfterReturn
<1>8. ASSUME NEW n \in Numbers, RecordFiling(n)
      PROVE  /\ Same /\ project'.number \in Numbers /\ UNCHANGED <<drafts, review>>
             /\ \/ project'.state = project.state
                \/ /\ project.state = "READY_FOR_EXTERNAL_FILING"
                   /\ project'.state = "FILED"
  <2> DEFINE p == [project EXCEPT !.number = n]
  <2>1. /\ p \in Project /\ p.state = project.state /\ p.number = n
        /\ p.intent = project.intent /\ p.cls = project.cls /\ p.roadmap = project.roadmap
    BY DEF TypeOK, Project
  <2>2. project' = Move(p, "FILED") /\ UNCHANGED <<drafts, review>>
    BY <1>8 DEF RecordFiling
  <2> QED
    BY <2>1, <2>2, FilingTargets
<1> QED
  BY <1>2, <1>3, <1>4, <1>5, <1>6, <1>7, <1>8 DEF Filing

(* Freezing locks the newest draft; resuming after a return leaves it      *)
(* locked behind a successor.                                              *)
LEMMA FreezeLocks ==
    ASSUME TypeOK, FreezeForm
    PROVE  /\ ~Locked /\ Locked'
           /\ Len(drafts') = IF drafts = << >> THEN 1 ELSE Len(drafts)
           /\ \A i \in 1..Len(drafts) : i # Len(drafts) => drafts'[i] = drafts[i]
           /\ drafts'[Len(drafts')] =
                [fields |-> CurrentFields, version |-> Pinned, frozen |-> TRUE]
<1> DEFINE rebuilt == CurrentDrafts
           draft == [fields |-> CurrentFields, version |-> Pinned, frozen |-> FALSE]
           locked == [draft EXCEPT !.frozen = TRUE]
<1>1. /\ ~Locked /\ rebuilt \in Seq(Draft) /\ Len(rebuilt) \in 1..Len(rebuilt)
      /\ Len(rebuilt) = IF drafts = << >> THEN 1 ELSE Len(drafts)
      /\ rebuilt[Len(rebuilt)] = draft
      /\ \A i \in 1..Len(drafts) : i # Len(drafts) => rebuilt[i] = drafts[i]
  BY CurrentDraftsType, EmptySeq DEF FreezeForm
<1>2. locked \in Draft
  <2>1. draft \in Draft
    BY <1>1, ElementOfSeq
  <2> QED
    BY <2>1 DEF Draft
<1>3. drafts' = [rebuilt EXCEPT ![Len(rebuilt)] = locked]
  BY <1>1 DEF FreezeForm
<1>4. /\ drafts' \in Seq(Draft) /\ Len(drafts') = Len(rebuilt)
      /\ drafts'[Len(rebuilt)] = locked
      /\ \A i \in 1..Len(rebuilt) : i # Len(rebuilt) => drafts'[i] = rebuilt[i]
  BY <1>1, <1>2, <1>3, ExceptSeq
<1>5. \A i \in 1..Len(drafts) : i # Len(drafts) => drafts'[i] = drafts[i]
  BY <1>1, <1>4, EmptySeq DEF TypeOK
<1>6. drafts' # << >>
  BY <1>1, <1>4, EmptySeq
<1> QED
  BY <1>1, <1>4, <1>5, <1>6 DEF Locked

LEMMA ResumeUnlocks ==
    ASSUME TypeOK, ResumeAfterReturn
    PROVE  /\ ~Locked'
           /\ \A i \in 1..Len(drafts) : drafts'[i] = drafts[i]
           /\ Locked => Len(drafts') = Len(drafts) + 1
           /\ ~Locked => drafts' = drafts
<1>1. CASE Locked
  <2> DEFINE successor == [fields |-> NoFields, frozen |-> FALSE,
                           version |-> drafts[Len(drafts)].version]
  <2>1. drafts \in Seq(Draft) /\ drafts[Len(drafts)] \in Draft
    BY <1>1, EmptySeq, ElementOfSeq DEF Locked, TypeOK
  <2>2. successor \in Draft
    BY <2>1 DEF Draft, NoFields, Field, FieldStatus, Fact, NoFact
  <2>3. drafts' = Append(drafts, successor)
    BY <1>1 DEF ResumeAfterReturn
  <2> QED
    BY <1>1, <2>1, <2>2, <2>3, AppendProperties, LenProperties DEF Locked
<1>2. CASE ~Locked
  BY <1>2 DEF ResumeAfterReturn, Locked
<1> QED
  BY <1>1, <1>2

-----------------------------------------------------------------------------
(* The invariants of the way to the institution and out, kept together     *)
(* because each step is judged once for all of them.  The stores change    *)
(* with the state: a freeze locks the draft, a return unlocks it, a review *)
(* and an acceptance record what the next states claim.                    *)

FilingInv ==
    /\ SentStatesHoldFrozenForm
    /\ SupersededDraftsStayFrozen
    /\ CollectedOnConfirmedPlan
    /\ ReviewPrecedesGate
    /\ AcceptedByLicensed

LEMMA FilingInvIntake ==
    ASSUME TypeOK, FilingInv, Intake
    PROVE  FilingInv'
<1>1. SentStatesHoldFrozenForm'
  <2>1. Locked' <=> Locked
    BY IntakeMoves DEF Locked
  <2>2. project'.state \in RecalcFrozenStates <=> project.state \in RecalcFrozenStates
    BY IntakeMoves DEF EarlyStates, SettledStates, RecalcFrozenStates,
                       NeedsHumanStates, ExitStates
  <2> QED
    BY <2>1, <2>2 DEF FilingInv, SentStatesHoldFrozenForm
<1>2. SupersededDraftsStayFrozen'
  BY IntakeMoves DEF FilingInv, SupersededDraftsStayFrozen
<1>3. project'.state \in CollectionStates =>
        project'.state = project.state \/ project'.state = "COLLECTING_MATERIALS"
  BY IntakeMoves DEF CollectionStates, EarlyStates, RecalcFrozenStates,
                     NeedsHumanStates, ExitStates
<1>4. CollectedOnConfirmedPlan'
  BY <1>3, IntakeMoves DEF FilingInv, CollectedOnConfirmedPlan, CollectionStates
<1>5. ReviewPrecedesGate'
  BY <1>3, IntakeMoves DEF FilingInv, ReviewPrecedesGate
<1>6. AcceptedByLicensed'
  <2>1. project'.state \in {"READY_FOR_EXTERNAL_FILING", "FILED"} =>
            project'.state = project.state
    BY IntakeMoves DEF EarlyStates, NeedsHumanStates, ExitStates
  <2> QED
    BY <2>1, IntakeMoves DEF FilingInv, AcceptedByLicensed
<1> QED
  BY <1>1, <1>2, <1>4, <1>5, <1>6 DEF FilingInv

LEMMA FilingInvReanalysis ==
    ASSUME TypeOK, FilingInv, BeginReviewReanalysis
    PROVE  FilingInv'
BY ReanalysisMoves
DEF FilingInv, SentStatesHoldFrozenForm, SupersededDraftsStayFrozen, Locked,
    CollectedOnConfirmedPlan, ReviewPrecedesGate, AcceptedByLicensed,
    CollectionStates, RecalcFrozenStates

LEMMA FilingInvPolicy ==
    ASSUME TypeOK, FilingInv, Policy
    PROVE  FilingInv'
BY PolicyMoves
DEF FilingInv, SentStatesHoldFrozenForm, SupersededDraftsStayFrozen, Locked,
    CollectedOnConfirmedPlan, ReviewPrecedesGate, AcceptedByLicensed

LEMMA FilingInvPreparation ==
    ASSUME TypeOK, FilingInv, Preparation
    PROVE  FilingInv'
<1>1. SentStatesHoldFrozenForm'
  <2>1. project'.state \in RecalcFrozenStates <=> project.state \in RecalcFrozenStates
    BY PreparationMoves DEF RecalcFrozenStates
  <2> QED
    BY <2>1, PreparationDrafts DEF FilingInv, SentStatesHoldFrozenForm
<1>2. SupersededDraftsStayFrozen'
  <2>1. CASE drafts' = drafts
    BY <2>1 DEF FilingInv, SupersededDraftsStayFrozen
  <2>2. CASE /\ Len(drafts') = IF drafts = << >> THEN 1 ELSE Len(drafts)
             /\ \A i \in 1..Len(drafts) : i # Len(drafts) => drafts'[i] = drafts[i]
    BY <2>2, EmptySeq DEF FilingInv, SupersededDraftsStayFrozen, TypeOK
  <2> QED
    BY <2>1, <2>2, PreparationDrafts
<1>3. CollectedOnConfirmedPlan'
  BY PreparationMoves DEF FilingInv, CollectedOnConfirmedPlan, CollectionStates
<1>4. ReviewPrecedesGate'
  BY PreparationMoves DEF FilingInv, ReviewPrecedesGate
<1>5. AcceptedByLicensed'
  BY PreparationMoves DEF FilingInv, AcceptedByLicensed
<1> QED
  BY <1>1, <1>2, <1>3, <1>4, <1>5 DEF FilingInv

LEMMA FilingInvFiling ==
    ASSUME TypeOK, FilingInv, Filing
    PROVE  FilingInv'
<1>1. SentStatesHoldFrozenForm'
  <2>1. CASE drafts' = drafts
    <3>1. project'.state \in RecalcFrozenStates <=> project.state \in RecalcFrozenStates
      BY <2>1, FilingMoves, FreezeLocks, ResumeUnlocks
      DEF FilingInv, SentStatesHoldFrozenForm, RecalcFrozenStates, GateReadyStates, Locked
    <3> QED
      BY <2>1, <3>1 DEF FilingInv, SentStatesHoldFrozenForm, Locked
  <2>2. CASE FreezeForm /\ project'.state = "FORM_FROZEN"
    BY <2>2, FreezeLocks DEF SentStatesHoldFrozenForm, RecalcFrozenStates
  <2>3. CASE ResumeAfterReturn /\ project'.state = "REVISION_LOOP"
    BY <2>3, ResumeUnlocks DEF SentStatesHoldFrozenForm, RecalcFrozenStates
  <2> QED
    BY <2>1, <2>2, <2>3, FilingMoves
<1>2. SupersededDraftsStayFrozen'
  <2>1. CASE drafts' = drafts
    BY <2>1 DEF FilingInv, SupersededDraftsStayFrozen
  <2>2. CASE FreezeForm
    <3>1. Len(drafts) \in Nat /\ (drafts = << >> => Len(drafts) = 0)
      BY EmptySeq, LenProperties DEF TypeOK
    <3> QED
      BY <2>2, <3>1, FreezeLocks DEF FilingInv, SupersededDraftsStayFrozen
  <2>3. CASE ResumeAfterReturn
    BY <2>3, ResumeUnlocks, LenProperties DEF FilingInv, SupersededDraftsStayFrozen, Locked, TypeOK
  <2> QED
    BY <2>1, <2>2, <2>3, FilingMoves
<1>3. CollectedOnConfirmedPlan'
  BY FilingMoves DEF FilingInv, CollectedOnConfirmedPlan, CollectionStates,
                     GateReadyStates, RecalcFrozenStates
<1>4. ReviewPrecedesGate'
  BY FilingMoves DEF FilingInv, ReviewPrecedesGate, CollectionStates,
                     GateReadyStates, RecalcFrozenStates
<1>5. AcceptedByLicensed'
  BY FilingMoves, WorkflowConstants DEF FilingInv, AcceptedByLicensed, GateReadyStates
<1> QED
  BY <1>1, <1>2, <1>3, <1>4, <1>5 DEF FilingInv

(* FilingSafe.  The five properties of the filing hold in every reachable  *)
(* state, for any number of institutions, snapshots and rounds.            *)
THEOREM FilingSafe == Spec => []FilingInv
<1>1. Init => FilingInv
  BY DEF Init, FilingInv, SentStatesHoldFrozenForm, SupersededDraftsStayFrozen, Locked,
         CollectedOnConfirmedPlan, ReviewPrecedesGate, AcceptedByLicensed,
         CollectionStates, RecalcFrozenStates
<1>2. FilingInv /\ UNCHANGED vars => FilingInv'
  BY DEF vars, FilingInv, SentStatesHoldFrozenForm, SupersededDraftsStayFrozen, Locked,
         CollectedOnConfirmedPlan, ReviewPrecedesGate, AcceptedByLicensed
<1>3. TypeOK /\ FilingInv /\ [Next]_vars => FilingInv'
  BY <1>2, FilingInvIntake, FilingInvReanalysis, FilingInvPolicy, FilingInvPreparation, FilingInvFiling DEF Next
<1> QED
  BY <1>1, <1>3, TypeCorrect, PTL DEF Spec

(* FormOnRecord.  Which document is out agrees with the state machine.     *)
THEOREM FormOnRecord == Spec => []SentStatesHoldFrozenForm
<1>1. FilingInv => SentStatesHoldFrozenForm
  BY DEF FilingInv
<1> QED
  BY <1>1, FilingSafe, PTL

(* SupersededFrozen. A draft only gets a successor once it was frozen.     *)
THEOREM SupersededFrozen == Spec => []SupersededDraftsStayFrozen
<1>1. FilingInv => SupersededDraftsStayFrozen
  BY DEF FilingInv
<1> QED
  BY <1>1, FilingSafe, PTL

(* PlanFirst. Work past the plan rests on a classification and on a plan   *)
(* the creator confirmed.                                                  *)
THEOREM PlanFirst == Spec => []CollectedOnConfirmedPlan
<1>1. FilingInv => CollectedOnConfirmedPlan
  BY DEF FilingInv
<1> QED
  BY <1>1, FilingSafe, PTL

(* ReviewFirst. From the review on, some script version has been through   *)
(* the pre-check.                                                          *)
THEOREM ReviewFirst == Spec => []ReviewPrecedesGate
<1>1. FilingInv => ReviewPrecedesGate
  BY DEF FilingInv
<1> QED
  BY <1>1, FilingSafe, PTL

(* LicensedAcceptance. Only an institution with a valid licence lets a     *)
(* project through to filing, however often it was switched.               *)
THEOREM LicensedAcceptance == Spec => []AcceptedByLicensed
<1>1. FilingInv => AcceptedByLicensed
  BY DEF FilingInv
<1> QED
  BY <1>1, FilingSafe, PTL

(* FrozenIsFinal.  No operation edits, rebuilds or drops a frozen draft.   *)
LEMMA FrozenKept ==
    ASSUME TypeOK, Next, NEW i \in 1..Len(drafts), drafts[i].frozen
    PROVE  i <= Len(drafts') /\ drafts'[i] = drafts[i]
<1>1. i \in Nat /\ i <= Len(drafts) /\ Len(drafts) \in Nat
  BY LenProperties DEF TypeOK
<1>2. CASE drafts' = drafts
  BY <1>1, <1>2
<1>3. ASSUME ~Locked, Len(drafts') = IF drafts = << >> THEN 1 ELSE Len(drafts),
             \A j \in 1..Len(drafts) : j # Len(drafts) => drafts'[j] = drafts[j]
      PROVE  i <= Len(drafts') /\ drafts'[i] = drafts[i]
  BY <1>1, <1>3, EmptySeq DEF Locked, TypeOK
<1>4. CASE Preparation
  BY <1>2, <1>3, <1>4, PreparationDrafts
<1>5. CASE FreezeForm
  BY <1>3, <1>5, FreezeLocks
<1>6. CASE ResumeAfterReturn
  BY <1>1, <1>2, <1>6, ResumeUnlocks
<1> QED
  BY <1>2, <1>4, <1>5, <1>6, IntakeMoves, ReanalysisMoves, PolicyMoves, FilingMoves DEF Next

(* FrozenIsFinal. No operation edits, rebuilds or drops a frozen draft.    *)
THEOREM FrozenIsFinal == Spec => FrozenDraftsNeverChange
<1> DEFINE Kept == \A i \in 1..Len(drafts) :
                     drafts[i].frozen => i <= Len(drafts') /\ drafts'[i] = drafts[i]
<1>1. TypeOK /\ [Next]_vars => [Kept]_vars
  BY FrozenKept
<1> QED
  BY <1>1, TypeCorrect, PTL DEF Spec, FrozenDraftsNeverChange

=============================================================================

-------------------------- MODULE ProjectWorkflow --------------------------
(***************************************************************************)
(* One project of the compliance agent and the operations of               *)
(* core/workflow_service.py on it, from the first intent to the recorded   *)
(* filing number.  A variable stands for a store: the project document,    *)
(* the facts, the findings, the uploaded assets, the job records, the      *)
(* material cards, the form drafts and the institution reviews.            *)
(*                                                                         *)
(* An action is one call of one operation, with every write it makes.  An  *)
(* operation that is refused after it has written is modelled with those   *)
(* writes and without the transition: Move leaves the state where it was.  *)
(* Refusals that write nothing are not steps.                              *)
(***************************************************************************)
EXTENDS FormRules, StateMachine, Naturals, Sequences

CONSTANTS
    IntentKeys,     \* keys the intake questionnaire supplies
    AskedKeys,      \* those classification refuses to run without
    ConfirmedKeys,  \* keys a confirmed review supplies
    Scenes,         \* scene problems a script can contain
    HumanScenes,    \* those matched by a rule no expert has confirmed
    Cards,          \* material cards
    RequiredCards,  \* those the gate waits for
    CardKind,       \* card -> kind of asset it accepts
    Kinds,          \* asset kinds
    Institutions,   \* institutions a form can be sent to
    Licensed,       \* those whose licence check passes
    Tiers,          \* tiers the amount can decide
    Numbers,        \* registration numbers a human can read off
    RequiredFacts,  \* policy version -> keys its form requires
    DefinedCards,   \* policy version -> cards it defines
    FindingIds,     \* bound: active findings about one scene, by their ids
    MaxVersion,     \* bound: policy versions ever published
    MaxAssets,      \* bound: assets ever uploaded
    MaxDrafts       \* bound: form drafts, one per round with institutions

ASSUME WorkflowConstants ==
    /\ MaxVersion \in Nat \ {0} /\ MaxAssets \in Nat /\ MaxDrafts \in Nat \ {0}
    /\ AskedKeys \subseteq IntentKeys /\ IntentKeys \subseteq Keys
    /\ AskedKeys \subseteq ConfirmedKeys /\ ConfirmedKeys \subseteq Keys
    /\ HumanScenes \subseteq Scenes /\ RequiredCards \subseteq Cards
    /\ CardKind \in [Cards -> Kinds] /\ "script" \in Kinds
    /\ Licensed \subseteq Institutions /\ None \notin Numbers
    /\ Tiers \subseteq {"T1", "T2", "T3"}
    /\ RequiredFacts \in [1..MaxVersion -> SUBSET Keys]
    /\ DefinedCards \in [1..MaxVersion -> SUBSET Cards]

VARIABLES
    project,    \* the project document
    latest,     \* newest published policy version
    facts,      \* key -> history of the facts recorded for it
    alert,      \* the classification alert finding
    findings,   \* the active findings about scenes
    assets,     \* uploaded asset versions, oldest first
    reviewed,   \* scripts with a review job
    extracted,  \* assets with an extraction job
    cards,      \* card -> status and attached asset
    drafts,     \* form drafts, oldest first
    review      \* the latest institution review

vars == <<project, latest, facts, alert, findings, assets, reviewed,
          extracted, cards, drafts, review>>

Versions == 1..MaxVersion

Verdicts == {"form_human", "exit_non_drama", "exit_sister",
             "special", "edge", "tiered"}

NoClass == [tier |-> "none", provisional |-> FALSE, version |-> 0]

Classification ==
    [tier: {"T1", "T2", "T3", "UNDETERMINED"}, provisional: BOOLEAN, version: Versions]

Answers == [Keys -> Values \cup {None}]

Project == [state: ProjectState,
            intent: Answers,
            cls: Classification \cup {NoClass},
            roadmap: BOOLEAN,
            number: Numbers \cup {None},
            stale: BOOLEAN]

(* A deactivated alert is never read again: it counts as none.             *)
NoAlert == [active |-> FALSE, status |-> "open", dispatched |-> FALSE]

Alert == [active: BOOLEAN, status: FindingStatus, dispatched: BOOLEAN]

(* A finding belongs to the script version it was last seen in; inactive   *)
(* ones are never read again and are not kept.                             *)
Finding == [id: FindingIds, scene: Scenes, version: 1..MaxAssets, status: FindingStatus]

AssetVersion == [kind: Kinds, scenes: SUBSET Scenes]

MaterialStatus == {"absent", "pending", "uploaded", "valid", "invalid", "waived"}

MaterialCard == [status: MaterialStatus, asset: 0..MaxAssets]

Draft == [fields: [Keys -> Field], version: Versions, frozen: BOOLEAN]

Decisions == {"pending", "accept", "return", "escalate"}

NoReview == [licensed |-> FALSE, decision |-> "none"]

InstitutionReview == [licensed: BOOLEAN, decision: Decisions]

TypeOK ==
    /\ project \in Project
    /\ latest \in Versions
    /\ facts \in [Keys -> History]
    /\ alert \in Alert
    /\ findings \subseteq Finding
    /\ assets \in Seq(AssetVersion) /\ Len(assets) <= MaxAssets
    /\ reviewed \subseteq 1..MaxAssets
    /\ extracted \subseteq 1..MaxAssets
    /\ cards \in [Cards -> MaterialCard]
    /\ drafts \in Seq(Draft) /\ Len(drafts) <= MaxDrafts
    /\ review \in InstitutionReview \cup {NoReview}

Init ==
    /\ project = [state |-> "DRAFT", intent |-> [k \in Keys |-> None],
                  cls |-> NoClass, roadmap |-> FALSE, number |-> None,
                  stale |-> FALSE]
    /\ latest = 1
    /\ facts = [k \in Keys |-> NoHistory]
    /\ alert = NoAlert
    /\ findings = {}
    /\ assets = << >>
    /\ reviewed = {} /\ extracted = {}
    /\ cards = [c \in Cards |-> [status |-> "absent", asset |-> 0]]
    /\ drafts = << >>
    /\ review = NoReview

-----------------------------------------------------------------------------
(* What the operations read.                                               *)

Pinned == IF project.cls = NoClass THEN latest ELSE project.cls.version

Required == RequiredFacts[Pinned]

(* material_cards: the cards of the pinned pack exist once they are read.  *)
Materialised ==
    [c \in Cards |->
        IF c \in DefinedCards[Pinned] /\ cards[c].status = "absent"
        THEN [status |-> "pending", asset |-> 0]
        ELSE cards[c]]

(* Mutant: only the cards somebody has opened are looked at.               *)
UnvalidatedStored ==
    {c \in RequiredCards : cards[c].status \notin {"absent", "valid", "waived"}}

Unvalidated ==
    {c \in RequiredCards :
        Materialised[c].status \notin {"absent", "valid", "waived"}}

SeverityOf(s) == IF s \in HumanScenes THEN "needs_human" ELSE "co_review_required"

BlockingScenes(fs) == {f \in fs : Blocks(SeverityOf(f.scene), f.status)}

AlertBlocks == alert.active /\ Blocks("needs_human", alert.status)

BlockingFindings ==
    BlockingScenes(findings) \cup (IF AlertBlocks THEN {alert} ELSE {})

GatePasses == GateOpen(Required, facts, BlockingFindings, Unvalidated)

Scripts == {a \in 1..Len(assets) : assets[a].kind = "script"}

IsLatestScript(a) == a \in Scripts /\ \A b \in Scripts : b <= a

Locked == drafts # << >> /\ drafts[Len(drafts)].frozen

(* form_draft: a frozen draft as it is, any other rebuilt from the facts.  *)
CurrentFields == BuildFields(Required, facts)

(* Mutant: a rebuilt draft gets a new identity instead of its own.         *)
CurrentDraftsAppended ==
    IF Locked THEN drafts
    ELSE Append(drafts, [fields |-> CurrentFields, version |-> Pinned, frozen |-> FALSE])

CurrentDrafts ==
    LET draft == [fields |-> CurrentFields, version |-> Pinned, frozen |-> FALSE]
    IN IF drafts = << >> THEN <<draft>>
       ELSE IF Locked THEN drafts
       ELSE [drafts EXCEPT ![Len(drafts)] = draft]

(* Mutant: the state is assigned without consulting the table.             *)
MoveUnchecked(p, to) == [p EXCEPT !.state = to]

(* transition: the table and the entry guards.  The gate's own guard is    *)
(* the report pass_gate has just read, and the table admits FORM_FROZEN    *)
(* from the gate alone.                                                    *)
CanEnter(p, to) ==
    /\ CanMove(p.state, to)
    /\ to \in {"ROADMAP_CONFIRMED", "COLLECTING_MATERIALS"} => p.roadmap
    /\ to = "FILED" => p.number # None

Move(p, to) == IF CanEnter(p, to) THEN [p EXCEPT !.state = to] ELSE p

-----------------------------------------------------------------------------
(* Intake and classification.                                              *)

SubmitIntent(patch) ==
    LET p == [project EXCEPT !.intent =
                [k \in Keys |-> IF patch[k] = None THEN @[k] ELSE patch[k]]]
    IN /\ \A k \in Keys \ IntentKeys : patch[k] = None
       /\ project' = IF p.state = "DRAFT" THEN Move(p, "INTAKE_DONE") ELSE p
       /\ UNCHANGED <<latest, facts, alert, findings, assets, reviewed,
                      extracted, cards, drafts, review>>

(***************************************************************************)
(* What review_facade.py adds when a creator confirms a review, and when a *)
(* completed one is analysed again.  It runs these on a staged copy of the *)
(* stores, followed by run_classification, ReviewForAnalysis, FormDraft    *)
(* and DeferFormField, and publishes what they leave; ReviewSession has    *)
(* the staging.  Here each is a step, as on the stores it is called on.    *)
(***************************************************************************)

(* apply_review_confirmation: the whole intent is replaced, then the       *)
(* confirmed details are recorded as facts.                                *)
ApplyReviewConfirmation(details) ==
    LET p == [project EXCEPT !.intent =
                [k \in Keys |-> IF k \in IntentKeys THEN details[k] ELSE None]]
    IN /\ \A k \in Keys : details[k] # None <=> k \in ConfirmedKeys
       /\ project' = IF p.state = "DRAFT" THEN Move(p, "INTAKE_DONE") ELSE p
       /\ facts' = UpsertAll(facts, details, "user_answer")
       /\ UNCHANGED <<latest, alert, findings, assets, reviewed, extracted,
                      cards, drafts, review>>

(* Mutant: the classification and the plan go, the state stays.            *)
ReanalyseInPlace ==
    /\ project.state \in ReanalyzableStates
    /\ project' = [project EXCEPT !.cls = NoClass, !.roadmap = FALSE,
                                  !.stale = FALSE, !.number = None]
    /\ UNCHANGED <<latest, facts, alert, findings, assets, reviewed,
                   extracted, cards, drafts, review>>

(* The backward edge: the state is assigned, not looked up in the table.   *)
BeginReviewReanalysis ==
    /\ project.state \in ReanalyzableStates
    /\ project' = [project EXCEPT !.state = "DRAFT", !.cls = NoClass,
                                  !.roadmap = FALSE, !.stale = FALSE, !.number = None]
    /\ UNCHANGED <<latest, facts, alert, findings, assets, reviewed,
                   extracted, cards, drafts, review>>

(* Mutant: nothing is asked back.                                          *)
AnsweredOrNot == TRUE

Answered == \A k \in AskedKeys : project.intent[k] # None

TargetOf(verdict) ==
    CASE verdict = "form_human"     -> "NEEDS_HUMAN_FORMTYPE"
      [] verdict = "exit_non_drama" -> "EXIT_NON_DRAMA"
      [] verdict = "exit_sister"    -> "EXIT_SISTER_PATH"
      [] verdict = "edge"           -> "NEEDS_HUMAN_SUBJECT"
      [] OTHER                      -> "CLASSIFIED"

(* What the chain of deciders may record with a verdict, from the newest   *)
(* snapshot.  The verdict follows the synopsis, which the creator may edit *)
(* before every call; only a tier read off the amount can be provisional.  *)
ClassesOf(verdict) ==
    CASE verdict = "special" ->
            [tier: {"T1"}, provisional: {FALSE}, version: {latest}]
      [] verdict = "tiered" ->
            [tier: Tiers, provisional: BOOLEAN, version: {latest}]
      [] OTHER ->
            [tier: {"UNDETERMINED"}, provisional: {FALSE}, version: {latest}]

IntentFacts == UpsertAll(facts, project.intent, "user_answer")

(* An edge subject opens a new alert finding, also over an answered one;   *)
(* any other verdict deactivates the one there was.                        *)
AlertAfter(verdict) ==
    IF verdict = "edge" THEN [active |-> TRUE, status |-> "open", dispatched |-> FALSE]
    ELSE NoAlert

(* run_classification (and choose_tier, whose bracket is part of the free  *)
(* verdict).  The document, the facts and the alert are written before the *)
(* transition, so a refused one leaves them behind.                        *)
RunClassification(verdict, c) ==
    LET target == TargetOf(verdict)
        p      == [project EXCEPT !.cls = c]
        judged == IF p.state = "INTAKE_DONE"
                     /\ target \in {"CLASSIFIED", "NEEDS_HUMAN_SUBJECT"}
                  THEN Move(p, "FORM_JUDGED") ELSE p
    IN /\ project.state # "DRAFT" /\ Answered
       /\ c \in ClassesOf(verdict)
       /\ project' = Move(judged, target)
       /\ facts' = IntentFacts
       /\ alert' = AlertAfter(verdict)
       /\ UNCHANGED <<latest, findings, assets, reviewed, extracted, cards,
                      drafts, review>>

(* reclassify: the answer is replaced in place.  Neither the state nor the *)
(* alert follows it.                                                       *)
Reclassify(verdict, c) ==
    /\ project.stale /\ project.state \in ReclassifiableStates /\ Answered
    /\ c \in ClassesOf(verdict)
    /\ project' = [project EXCEPT !.cls = c, !.stale = FALSE]
    /\ facts' = IntentFacts
    /\ UNCHANGED <<latest, alert, findings, assets, reviewed, extracted,
                   cards, drafts, review>>

-----------------------------------------------------------------------------
(* What the policy loop does to a project.                                 *)

(* Environment: a new snapshot is published.                               *)
PublishSnapshot ==
    /\ latest < MaxVersion
    /\ latest' = latest + 1
    /\ UNCHANGED <<project, facts, alert, findings, assets, reviewed,
                   extracted, cards, drafts, review>>

(* The consumer calls both for an event newer than the pinned version.     *)
NewerEvent(v) == project.cls # NoClass /\ project.cls.version < v /\ v <= latest

MarkPolicyStale ==
    /\ NewerEvent(latest)
    /\ project' = [project EXCEPT !.stale = TRUE]
    /\ UNCHANGED <<latest, facts, alert, findings, assets, reviewed,
                   extracted, cards, drafts, review>>

RecalcTier(v, tier, provisional) ==
    /\ NewerEvent(v)
    /\ project.state \notin RecalcFrozenStates /\ project.number = None
    /\ project.cls.provisional
    /\ project' = [project EXCEPT !.stale = FALSE, !.cls =
                    [tier |-> tier, provisional |-> provisional, version |-> v]]
    /\ UNCHANGED <<latest, facts, alert, findings, assets, reviewed,
                   extracted, cards, drafts, review>>

-----------------------------------------------------------------------------
(* Roadmap, uploads, script review.                                        *)

(* The confirmed plan is saved first; confirming twice is one event.       *)
ConfirmRoadmap ==
    /\ project.cls # NoClass /\ ~project.roadmap
    /\ LET p == [project EXCEPT !.roadmap = TRUE]
       IN project' = IF CanEnter(p, "ROADMAP_CONFIRMED")
                     THEN Move(Move(p, "ROADMAP_CONFIRMED"), "COLLECTING_MATERIALS")
                     ELSE p
    /\ UNCHANGED <<latest, facts, alert, findings, assets, reviewed,
                   extracted, cards, drafts, review>>

UploadAsset(asset) ==
    /\ Len(assets) < MaxAssets
    /\ asset.kind # "script" => asset.scenes = {}
    /\ assets' = Append(assets, asset)
    /\ UNCHANGED <<project, latest, facts, alert, findings, reviewed,
                   extracted, cards, drafts, review>>

(* A finding whose scene survived follows the script and keeps its         *)
(* decision; an open one whose scene vanished is self-fixed.               *)
CarriedForward(a) ==
    {IF f.scene \in assets[a].scenes THEN [f EXCEPT !.version = a]
     ELSE IF f.status = "open" THEN [f EXCEPT !.status = "self_fixed"]
     ELSE f : f \in findings}

(* One finding for each scene of the script that has none in these yet.    *)
Opened(a, fs, id) ==
    {[id |-> id, scene |-> s, version |-> a, status |-> "open"] :
        s \in {t \in assets[a].scenes :
                    \A f \in fs : f.version = a => f.scene # t}}

(* A review of a project that is collecting starts its review loop; one    *)
(* that leaves a blocking finding opens the revision loop.                 *)
AdvanceAfterReview(fs) ==
    LET started == IF project.state = "COLLECTING_MATERIALS"
                   THEN Move(project, "REVIEW_RUNNING") ELSE project
    IN IF started.state = "REVIEW_RUNNING" /\ (BlockingScenes(fs) # {} \/ AlertBlocks)
       THEN Move(started, "REVISION_LOOP") ELSE started

(* _review_now after the model's answer: kept are the earlier findings as  *)
(* this review leaves them.                                                *)
ReviewNow(a, kept, id) ==
    /\ \A f \in findings : f.id # id
    /\ findings' = kept \cup Opened(a, kept, id)
    /\ project' = AdvanceAfterReview(findings')
    /\ UNCHANGED <<latest, facts, alert, assets, extracted, cards, drafts, review>>

(* Mutant: the job of a review without findings is not recorded.           *)
RunScriptReviewUnrecorded(a, id) ==
    /\ IsLatestScript(a) /\ a \notin reviewed
    /\ reviewed' = IF assets[a].scenes = {} THEN reviewed ELSE reviewed \cup {a}
    /\ ReviewNow(a, CarriedForward(a), id)

(* run_script_review of the latest script, once per version: a replay      *)
(* returns the first job and changes nothing.                              *)
RunScriptReview(a, id) ==
    /\ IsLatestScript(a) /\ a \notin reviewed
    /\ reviewed' = reviewed \cup {a}
    /\ ReviewNow(a, CarriedForward(a), id)

(* The review inside an analysis looks at the script the session began     *)
(* with, which is the project's first asset, also when there are newer     *)
(* ones.  Its findings are a fresh conclusion: decisions on that version   *)
(* are dropped, findings that moved on to another version stay.            *)
ReviewForAnalysis(id) ==
    /\ 1 \in Scripts
    /\ reviewed' = reviewed \cup {1}
    /\ ReviewNow(1, {f \in findings : f.version # 1}, id)

(* act_on_finding: any decision replaces any other, in every state.        *)
ActOnFinding(f, status) ==
    /\ f \in findings
    /\ status \in {"accepted", "released"}
    /\ findings' = (findings \ {f}) \cup {[f EXCEPT !.status = status]}
    /\ UNCHANGED <<project, latest, facts, alert, assets, reviewed, extracted,
                   cards, drafts, review>>

ActOnAlert(status) ==
    /\ alert # NoAlert
    /\ status \in {"accepted", "released"}
    /\ alert' = [alert EXCEPT !.status = status]
    /\ UNCHANGED <<project, latest, facts, findings, assets, reviewed,
                   extracted, cards, drafts, review>>

(* choose_option dispatches the alert and leaves its status alone.         *)
DispatchAlert ==
    /\ alert # NoAlert
    /\ alert' = [alert EXCEPT !.dispatched = TRUE]
    /\ UNCHANGED <<project, latest, facts, findings, assets, reviewed,
                   extracted, cards, drafts, review>>

-----------------------------------------------------------------------------
(* Facts, materials, form fields.                                          *)

(* One document may state a key twice; keys the form does not ask for are  *)
(* recorded too.  Once per asset version, like a review.                   *)
ExtractAssetFacts(a, found, again) ==
    /\ a \in 1..Len(assets) \ extracted
    /\ extracted' = extracted \cup {a}
    /\ facts' = UpsertAll(UpsertAll(facts, found, "asset"), again, "asset")
    /\ UNCHANGED <<project, latest, alert, findings, assets, reviewed, cards,
                   drafts, review>>

(* material_cards, and every refused gate check.                           *)
ReadMaterialCards ==
    /\ cards' = Materialised
    /\ UNCHANGED <<project, latest, facts, alert, findings, assets, reviewed,
                   extracted, drafts, review>>

SetCard(c, card) ==
    /\ Materialised[c].status # "absent"
    /\ cards' = [Materialised EXCEPT ![c] = card]
    /\ UNCHANGED <<project, latest, facts, alert, findings, assets, reviewed,
                   extracted, drafts, review>>

(* Mutant: the next asset version is attached.                             *)
AttachNextVersion(c, a) ==
    /\ a \in 1..Len(assets) /\ assets[a].kind = CardKind[c]
    /\ SetCard(c, [status |-> "uploaded", asset |-> a + 1])

AttachMaterial(c, a) ==
    /\ a \in 1..Len(assets) /\ assets[a].kind = CardKind[c]
    /\ SetCard(c, [status |-> "uploaded", asset |-> a])

(* The stored bytes of an attached asset are there: nothing deletes them.  *)
ValidateMaterial(c) ==
    LET card == Materialised[c]
    IN SetCard(c, [card EXCEPT !.status =
                      IF card.asset = 0 THEN "invalid" ELSE "valid"])

WaiveMaterial(c) == SetCard(c, [Materialised[c] EXCEPT !.status = "waived"])

FormDraft ==
    /\ drafts' = CurrentDrafts
    /\ UNCHANGED <<project, latest, facts, alert, findings, assets, reviewed,
                   extracted, cards, review>>

(* Mutant: a frozen draft is edited like any other.                        *)
RecordFieldInFrozen(k, history) ==
    /\ drafts # << >> /\ k \in Required
    /\ facts' = [facts EXCEPT ![k] = history]
    /\ drafts' = [drafts EXCEPT ![Len(drafts)].fields = BuildFields(Required, facts')]
    /\ UNCHANGED <<project, latest, alert, findings, assets, reviewed,
                   extracted, cards, review>>

(* The draft is rebuilt before and after the fact is recorded.             *)
RecordField(k, history) ==
    /\ ~Locked /\ k \in Required
    /\ facts' = [facts EXCEPT ![k] = history]
    /\ drafts' = LET draft == [fields |-> BuildFields(Required, facts'),
                               version |-> Pinned, frozen |-> FALSE]
                 IN IF drafts = << >> THEN <<draft>>
                    ELSE [drafts EXCEPT ![Len(drafts)] = draft]
    /\ UNCHANGED <<project, latest, alert, findings, assets, reviewed,
                   extracted, cards, review>>

ConfirmFormField(k, v) == RecordField(k, UpsertFact(facts[k], v, "user_answer"))

DeferFormField(k) == CanDefer(facts[k]) /\ RecordField(k, DeferFact(facts[k]))

-----------------------------------------------------------------------------
(* The gate, the freeze and the way out.                                   *)

PassGate ==
    /\ GatePasses /\ project.state \in GateReadyStates
    /\ cards' = Materialised
    /\ project' = Move(project, "GATE_D3_PASSED")
    /\ UNCHANGED <<latest, facts, alert, findings, assets, reviewed,
                   extracted, drafts, review>>

(* The gate is not evaluated again; only the rebuilt fields are.           *)
FreezeForm ==
    /\ project.state = "GATE_D3_PASSED" /\ ~Locked
    /\ PendingKeys(CurrentFields) = {}
    /\ drafts' = LET rebuilt == CurrentDrafts
                 IN [rebuilt EXCEPT ![Len(rebuilt)].frozen = TRUE]
    /\ project' = Move(project, "FORM_FROZEN")
    /\ UNCHANGED <<latest, facts, alert, findings, assets, reviewed,
                   extracted, cards, review>>

SubmitToInstitution(i) ==
    /\ project.state \in {"FORM_FROZEN", "INSTITUTION_REVIEW"}
    /\ review' = [licensed |-> i \in Licensed, decision |-> "pending"]
    /\ project' = Move(project, "INSTITUTION_REVIEW")
    /\ UNCHANGED <<latest, facts, alert, findings, assets, reviewed,
                   extracted, cards, drafts>>

(* Mutant: the failed mock licence check does not stop the flow.           *)
DecideWithoutLicence(decision) ==
    /\ review # NoReview
    /\ review' = [review EXCEPT !.decision = decision]
    /\ project' = CASE decision = "accept" -> Move(project, "READY_FOR_EXTERNAL_FILING")
                    [] decision = "return" -> Move(project, "INSTITUTION_RETURNED")
                    [] OTHER -> project
    /\ UNCHANGED <<latest, facts, alert, findings, assets, reviewed,
                   extracted, cards, drafts>>

(* The decision is recorded whatever state the project is in; only the     *)
(* transition that follows it is guarded.                                  *)
DecideInstitutionReview(decision) ==
    /\ review # NoReview
    /\ decision = "accept" => review.licensed
    /\ review' = [review EXCEPT !.decision = decision]
    /\ project' = CASE decision = "accept" -> Move(project, "READY_FOR_EXTERNAL_FILING")
                    [] decision = "return" -> Move(project, "INSTITUTION_RETURNED")
                    [] OTHER -> project
    /\ UNCHANGED <<latest, facts, alert, findings, assets, reviewed,
                   extracted, cards, drafts>>

(* Mutant: the project resumes without a successor draft.                  *)
ResumeWithoutSuccessor ==
    /\ project.state = "INSTITUTION_RETURNED"
    /\ project' = Move(project, "REVISION_LOOP")
    /\ UNCHANGED <<latest, facts, alert, findings, assets, reviewed,
                   extracted, cards, drafts, review>>

(* A returned form is kept and superseded by an empty successor.           *)
ResumeAfterReturn ==
    /\ project.state = "INSTITUTION_RETURNED"
    /\ Len(drafts) < MaxDrafts
    /\ drafts' = IF Locked
                 THEN Append(drafts, [fields |-> NoFields, frozen |-> FALSE,
                                      version |-> drafts[Len(drafts)].version])
                 ELSE drafts
    /\ project' = Move(project, "REVISION_LOOP")
    /\ UNCHANGED <<latest, facts, alert, findings, assets, reviewed,
                   extracted, cards, review>>

(* The number is saved before the transition is tried.                     *)
RecordFiling(n) ==
    /\ project' = Move([project EXCEPT !.number = n], "FILED")
    /\ UNCHANGED <<latest, facts, alert, findings, assets, reviewed,
                   extracted, cards, drafts, review>>

-----------------------------------------------------------------------------
Intake ==
    \/ \E patch \in Answers : SubmitIntent(patch)
    \/ \E details \in Answers : ApplyReviewConfirmation(details)
    \/ \E verdict \in Verdicts : \E c \in ClassesOf(verdict) : RunClassification(verdict, c)
    \/ \E verdict \in Verdicts : \E c \in ClassesOf(verdict) : Reclassify(verdict, c)
    \/ ConfirmRoadmap

Policy ==
    \/ PublishSnapshot
    \/ MarkPolicyStale
    \/ \E v \in Versions, tier \in Tiers, provisional \in BOOLEAN :
            RecalcTier(v, tier, provisional)

Preparation ==
    \/ \E asset \in AssetVersion : UploadAsset(asset)
    \/ \E a \in 1..Len(assets), id \in FindingIds : RunScriptReview(a, id)
    \/ \E id \in FindingIds : ReviewForAnalysis(id)
    \/ \E f \in findings, status \in FindingStatus : ActOnFinding(f, status)
    \/ \E status \in FindingStatus : ActOnAlert(status)
    \/ DispatchAlert
    \/ \E a \in 1..Len(assets), found, again \in Answers :
            ExtractAssetFacts(a, found, again)
    \/ ReadMaterialCards
    \/ \E c \in Cards, a \in 1..Len(assets) : AttachMaterial(c, a)
    \/ \E c \in Cards : ValidateMaterial(c) \/ WaiveMaterial(c)
    \/ FormDraft
    \/ \E k \in Keys, v \in Values : ConfirmFormField(k, v)
    \/ \E k \in Keys : DeferFormField(k)

Filing ==
    \/ PassGate
    \/ FreezeForm
    \/ \E i \in Institutions : SubmitToInstitution(i)
    \/ \E decision \in Decisions : DecideInstitutionReview(decision)
    \/ ResumeAfterReturn
    \/ \E n \in Numbers : RecordFiling(n)

Next == Intake \/ BeginReviewReanalysis \/ Policy \/ Preparation \/ Filing

Spec == Init /\ [][Next]_vars

-----------------------------------------------------------------------------
(***************************************************************************)
(* What the operations must keep true together.                            *)
(***************************************************************************)

(* SentStatesHoldFrozenForm.  The newest draft is frozen exactly while the *)
(* state says a form is locked: resume_after_return, freeze_form and       *)
(* form_draft agree with the state machine on which document is out.       *)
SentStatesHoldFrozenForm == Locked <=> project.state \in RecalcFrozenStates

(* SupersededDraftsStayFrozen.  Every draft but the newest was frozen: a   *)
(* successor is only ever started for a form an institution has seen.      *)
SupersededDraftsStayFrozen ==
    \A i \in 1..Len(drafts) : i < Len(drafts) => drafts[i].frozen

(* FrozenDraftsNeverChange.  Once frozen, a draft is the record of what    *)
(* was reviewed: no operation edits, rebuilds or drops it.                 *)
FrozenDraftsNeverChange ==
    [][\A i \in 1..Len(drafts) :
        drafts[i].frozen => i <= Len(drafts') /\ drafts'[i] = drafts[i]]_vars

(* FrozenFormsAreSourced.  A frozen form answers every key its snapshot    *)
(* requires, with a confirmed fact or a declared gap, and nothing else, on *)
(* every path through classification, policy changes and returns.          *)
FrozenFormsAreSourced ==
    \A i \in 1..Len(drafts) : drafts[i].frozen =>
        \A k \in Keys :
            LET field == drafts[i].fields[k]
            IN IF k \in RequiredFacts[drafts[i].version]
               THEN \/ field.status = "filled" /\ field.fact.status = "confirmed"
                    \/ field.status = "pending_institution"
               ELSE field.status = "absent"

CollectionStates ==
    {"COLLECTING_MATERIALS", "REVIEW_RUNNING", "REVISION_LOOP", "GATE_D3_PASSED"}
    \cup RecalcFrozenStates

(* CollectedOnConfirmedPlan.  Whatever reclassification, review and return *)
(* do in between, work past the plan rests on a classification and on a    *)
(* plan the creator confirmed.                                             *)
CollectedOnConfirmedPlan ==
    project.state \in CollectionStates =>
        project.roadmap /\ project.cls # NoClass

(* ReviewPrecedesGate.  pass_gate promises that the script pre-check runs  *)
(* first; from the review on, some script version has been reviewed.       *)
ReviewPrecedesGate ==
    project.state \in CollectionStates \ {"COLLECTING_MATERIALS"} => reviewed # {}

(* AcceptedByLicensed.  A project ready for filing, or filed, was let      *)
(* through by an institution whose licence check passed, however many      *)
(* institutions it was switched between; a filed one has a number.         *)
AcceptedByLicensed ==
    /\ project.state \in {"READY_FOR_EXTERNAL_FILING", "FILED"} => review.licensed
    /\ project.state = "FILED" => project.number # None

(* FilledFieldIsNewestAnswer.  A key without a conflict that has a         *)
(* confirmed value has nothing newer: no later answer or deferral is       *)
(* hidden behind the value the form shows.                                 *)
FilledFieldIsNewestAnswer ==
    \A k \in Keys :
        ~facts[k].conflict /\ facts[k].kept # NoFact => facts[k].kept = facts[k].last

(* ClassifiedAnswersAreOnRecord.  A classification rests on the asked      *)
(* answers, and each of those keys has a fact to show for it, whatever     *)
(* order documents, deferrals and answers came in.                         *)
ClassifiedAnswersAreOnRecord ==
    project.cls # NoClass =>
        \A k \in AskedKeys :
            project.intent[k] # None /\ (facts[k].kept # NoFact \/ facts[k].conflict)

EntersGate ==
    project.state # "GATE_D3_PASSED" /\ project'.state = "GATE_D3_PASSED"

(* GatedScenesAreReleased.  When the gate opens, a human has released      *)
(* every unconfirmed scene of every reviewed script, the last one among    *)
(* them: scenes that came and went between versions, and scenes a          *)
(* reanalysis found again after they had been released, included.          *)
GatedScenesAreReleased ==
    [][EntersGate =>
        \A a \in reviewed : \A s \in HumanScenes \cap assets[a].scenes :
            /\ \E f \in findings : f.scene = s
            /\ \A f \in findings : f.scene = s => f.status = "released"]_vars

(* GateSeesEveryDefinedCard.  The gate opens only over the required cards  *)
(* of the pinned pack, also those nobody has opened yet and those a newer  *)
(* pack defines: each is waived, or valid with an asset of its kind.       *)
GateSeesEveryDefinedCard ==
    [][EntersGate =>
        \A c \in RequiredCards \cap DefinedCards[project.cls.version] :
            \/ cards'[c].status = "waived"
            \/ /\ cards'[c].status = "valid" /\ cards'[c].asset \in 1..Len(assets)
               /\ assets[cards'[c].asset].kind = CardKind[c]]_vars

-----------------------------------------------------------------------------
(***************************************************************************)
(* The filing lifecycle a creator and an institution see.                  *)
(***************************************************************************)

PhaseOf(state) ==
    CASE state = "GATE_D3_PASSED" -> "gated"
      [] state \in {"FORM_FROZEN", "INSTITUTION_REVIEW"} -> "sent"
      [] state = "INSTITUTION_RETURNED" -> "returned"
      [] state = "READY_FOR_EXTERNAL_FILING" -> "accepted"
      [] state \in {"FILED", "PRODUCTION"} -> "filed"
      [] state \in ExitStates -> "closed"
      [] OTHER -> "preparing"

LockedCount == IF Locked \/ drafts = << >> THEN Len(drafts) ELSE Len(drafts) - 1

LockedForms == [i \in 1..LockedCount |-> drafts[i]]

Lifecycle == INSTANCE FilingLifecycle WITH
    Forms <- Draft, phase <- PhaseOf(project.state), locked <- LockedForms

(* ImplementsLifecycle.  Every operation, refused or not, is a step of the *)
(* filing lifecycle or none at all.                                        *)
ImplementsLifecycle == Lifecycle!LifecycleSpec

=============================================================================

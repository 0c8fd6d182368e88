# Film Compliance Agent: TLA+ models and proofs

This directory models the workflow of the Film Compliance Agent in TLA+,
model-checks it with TLC, and proves its safety properties with TLAPS. Paths
below are relative to `src/`; line numbers are in `PROJECT.json`, which maps
every definition to the code it stands for.

Contents: 1 inventory, 2 how the models correspond to the code, 3 the
abstract specifications, 4 runs and bounds, 5 fairness, 6 proofs, 7 divergences found,
8 what is not modelled, 9 plan.

## 1. Inventory

The product takes a film project from a creator's first idea to a registration
number. One `WorkflowService` (`core/workflow_service.py`) owns every rule;
routers call it, stores keep documents for it, a job runner executes the slow
parts, and a separate policy loop publishes new snapshots of the rules and
tells projects about them.

| component | state | operations | hard behaviour | what makes it correct |
|---|---|---|---|---|
| state machine (`core/state_machine.py`) | the table | `transition` with entry guards | 21 states, loops back from returned and from every state after classification | no way out without classification, plan, review, frozen form, licence |
| workflow service | the project document and everything below | 32 operations | operations write before they are refused; any order of calls is legal HTTP | the stores agree with the state the project is in |
| facts and form (`core/forms.py`) | facts per key, append-only; drafts | `_upsert_fact`, `defer_form_field`, `form_draft`, `freeze_form`, `resume_after_return` | answers and documents in any order, required keys that change with the snapshot, drafts superseded after a return | a frozen form is complete, sourced, and never changes |
| gate (`core/gate.py`) | none | `evaluate_gate_d3` | evaluated once, before the freeze | nothing unreleased, unvalidated, missing or conflicting passes |
| script review (`core/review.py`) | findings per scene, one job per version | `run_script_review`, `act_on_finding`, `_carry_findings_forward` | scenes vanish and come back; reviews replay | a scene's finding is decided by a human before the gate |
| materials (`core/materials.py`) | cards | read, attach, validate, waive | cards are created by reading; packs change | the gate sees every required card of the pinned pack |
| institution flow (`core/institution.py`) | latest review | submit, decide, resume, record filing | switching institution, deciding twice, returning twice | only a licensed institution lets a project through |
| classification (`core/classify/`) | the classification | `classify`, `recalc_tier` | deciders short-circuit; the amount may be provisional | the tier follows from the subject first and the amount second |
| review sessions (`core/review_facade.py`) | session, generation | start, confirm, reanalyze, retry intake | racing requests, staged publication, crashes in between, a failure that cannot be recorded | one analysis publishes, all of it or nothing |
| job queue (`core/jobs.py`, `workers/jobs.py`) | tasks by idempotency key | `_run_job`, `claim_queued_task`, `execute_task`, `handle` | redelivery, racing requests, an except clause with an old copy, worker crash | the work of a key starts at most once; what was dispatched gets an outcome |
| policy loop (`workers/policy/`) | snapshots, proposals, runs, outbox, receipts | refresh, publish, discard, dispatch, consume | overlapping refreshes, racing administrators, discards in threads, whole documents saved over each other, duplicated and reordered events, restarts that lose receipts, page limit | a proposal becomes one version, and its version reaches the projects that rest on older ones |
| stores (`store/`) | documents with ordinals | get, put, append, list; compare-and-put, claims, publication | statements of one call interleave with those of another on SQLite and Firestore | lists keep their order and their members |
| API, web, language models, artifacts | none | one call each | serialisation, external services | not protocol properties |

Components interact through calls of the service and through the stores; the
policy loop reaches a project through `mark_policy_stale` and `recalc_tier`
alone (`workers/policy/adapters/live_projects.py`).

`PROJECT.json` lists the hazards of all of these with their lines, and the
properties that would catch them going wrong. The few without a property say
why.

## 2. The models

### Modules

- `StateMachine` - the transition table as a relation, and the sets of states
  the service consults.
- `FormRules` - the pure rules: recording a fact, deriving a field, deferring,
  which findings block, when the gate opens. No variables.
- `ProjectWorkflow` - one project. Eleven variables, one for each store the
  operations use, and one action for each operation.
- `FilingLifecycle` - what the product promises of a filing, in two variables.
- `ProjectLiveness` - what a creator keeps doing, and that the revision loop then
  has an end.
- `ReviewSession` - one review session, the requests that race for it, and the
  project its analyses publish into. It is a model of its own and shares no
  variable with `ProjectWorkflow`: there an operation is one step and all of its
  effects count, here an operation is several steps and only what a publication
  has to keep together counts.
- `JobQueue` - the tasks of one project, requests, workers, the queue, and the
  findings reviews write. `JobPromise` is what `core/jobs.py` promises of them.
- `DurableStores` - the calls of the three stores as sequences of statements.
- `PolicyLoop` - refresh, publication, delivery and consumption of policy, beside
  classifications in progress. `PolicyLedger` is what publishing means.
- `ClassificationChain` - the deciders, and the operations that record, redo and
  recalculate what they decide.
- `MCProjectWorkflow`, `MCReviewSession`, `MCJobQueue`, `MCDurableStores`,
  `MCPolicyLoop`, `MCClassification` - the instances TLC checks.
- `ProjectWorkflowProofs`, `ProjectFormProofs`, `ProjectLifecycleProofs` - the
  theorems about a project, each extending the one before it where it needs its
  lemmas; `ReviewSessionProofs`, `JobQueueProofs`, `DurableStoresProofs`,
  `PolicyLoopProofs`, `ClassificationProofs` - those about a session, the jobs, the
  stores, the policy loop, and a class.

The models share no variables. Each takes one dimension of the program apart
and keeps the others whole: `ProjectWorkflow` has every store and every
operation and makes an operation one step; the others have few stores, and as
many steps as the code has places where something else can come between.

### State of `ProjectWorkflow`

| variable | store | abstraction |
|---|---|---|
| `project` | `projects` | state, the intent answers, classification, whether a roadmap is stored, registration number, `policy_stale` |
| `latest` | the snapshot repository | the newest published version; versions are numbered in order |
| `facts` | `facts` | per key the four things the code reads of the list: last element, last confirmed element, whether it has a conflict or a deferral |
| `alert` | `findings` | the alert finding of the classification; deactivated is the same as absent, since nothing reads it again |
| `findings` | `findings` | the active findings about scenes: id, scene problem, script version, status; `resolved`, `waived`, `rejected` are one value `released`, which no rule tells apart; deactivated ones are never read again |
| `assets` | `assets` | kind and, for a script, the scene problems it contains, in upload order |
| `reviewed`, `extracted` | `tasks` | versions that have a succeeded job of the two kinds: a repeated call is a replay |
| `cards` | `materials` | status and attached version; absent until somebody reads the cards |
| `drafts` | `forms` | fields, pinned version, frozen, in creation order; the newest is the one every operation looks up |
| `review` | `institution_reviews` | the latest one: licence verdict and decision |

### Actions of `ProjectWorkflow`

An action is one call of one operation with every write it makes. The two
operations only a review session calls, `apply_review_confirmation` and
`begin_review_reanalysis`, are among them, and so is the review of the first
script that an analysis makes (`ReviewForAnalysis`). The program runs these on a
staged copy, one after the other with `run_classification` and the form, and
publishes what they leave (`ReviewSession`). Here each is a step on the stores:
an invariant of these steps holds of what is published at their end too, and
the steps between are additional states of the model. Reanalysis is the one
operation that assigns a state past the table; every other goes through `Move`,
which has the table and the entry guards of `_check_entry_guards`.

The order
of writes matters in five operations (`run_classification`, `confirm_roadmap`,
`record_filing`, `decide_institution_review`, `run_script_review`): they write
first and try the transition afterwards. A call refused at that point has an
effect, and the action has it too: `Move` changes the state when the table
allows it and leaves it otherwise, and the other writes stand. A call refused
before its first write is no step.

Inputs are chosen freely: which keys a call answers and with what, which
scenes a script has, what a document states, what an institution decides. The
verdict of the classification is free within what the chain may return
(`ClassesOf`), since the creator may edit the synopsis and the amount before
every call; `choose_tier` and the channel profile are part of that freedom.
The `MaxVersion`, `MaxAssets` and `MaxDrafts` guards and the ids `FindingIds`, one
for each review in which a scene may be found anew, are bounds of the model and
no limits of the code; the theorems hold for all their values.

Assumptions: operations on a project run one at a time (section 9 has the
module that drops this), the job runner is the inline one, stored bytes
are never missing, and a review or extraction job does not fail (jobs that do
are in `JobQueue`).

### State and steps of `ReviewSession`

| variable | stands for |
|---|---|
| `session` | the `ReviewSession` document: state, generation, confirmed details, intake status, and the extraction its candidates come from |
| `project` | the project document: open, at the gate or locked; the analysis it shows; the edits it contains |
| `lockedForm` | the analysis a frozen form shows |
| `record` | facts, findings, tasks, timeline and audit, as far as analyses and edits differ in them |
| `extractions`, `edits` | history: how many there have been, which numbers the next |
| `request` | per call of `confirm`, `reanalyze` or `retry_intake`: how far it is, the session it read or wrote, and the baseline it staged |
| `dead`, `abandoned` | requests whose process ended; generations whose analysis ended without a word, by a death or by an except clause that raised |
| `editor` | per other operation on the project: how far it is and the project it read |
| `starting` | where the call of `start` is |

A step is one section under a lock of `store/memory.py`, which is one
transaction of `store/sqlite.py`: `compare_and_put`, `stage_review_analysis`,
`publish_review_analysis`, or one `put`, `save` or `add`. `Confirm`, `Reanalyze` and
`RetryIntake` are the first read of a call. `StageReviewAnalysis` copies the
aggregate and checks what the call checks on the copy, `ClaimSession` is the
compare-and-put, `PublishReviewAnalysis` and `PublicationRefused` are the two
outcomes of the publication, `RestoreCompleted` gives a refused reanalysis its old
session back under the new generation, `FailClaim` is the except clause. It
may raise itself (`FailureUnrecorded`): a failed session must have a message, and
an exception without text gives it none. What
the analysis does to the staged stores has no step of its own, since nobody
else sees them. `Die` ends a request between any two steps.

An editor stands for every other operation of the workflow service: it reads
the project, possibly puts a frozen form, saves its copy of the project, and
writes the timeline. It may stop between any two of these.

Assumptions: `start` is not interleaved with other calls, because its route is
a coroutine that calls it without awaiting; the job runner of an analysis is
the synchronous one, which `confirm` and `reanalyze` require
(`_require_synchronous_script_review`); two analyses or edits never leave equal
documents, because they write time stamps and fresh ids; a write to a store
fails nowhere but in the except clause. Drafts after a return, and materials,
which a publication does not compare, are in `ProjectWorkflow` only.

### State and steps of `JobQueue`

| variable | stands for |
|---|---|
| `runner` | `InlineRunner` or `QueuedRunner` |
| `latest` | the newest script version |
| `tasks` | the task store: key and status, in the order of recording |
| `queue` | tasks handed to the publisher; it may deliver each at any time, any number of times |
| `findings` | for the one scene of the model, the finding each review wrote: the version it stands at, and whether it is closed as fixed |
| `starts` | history: how often the work of a task has started |
| `phase`, `wants`, `held`, `listed` | per request or worker: where it is, the job it asks for, the task it holds, the findings it has read |
| `losses` | how much has gone wrong |

A step is one call of a store or of the queue. `CreateTask` and `ReplayTask`
are the two outcomes of `get_or_create_by_idempotency_key`, `Claim` is
`claim_queued_task`: one transaction each of the SQLite store, which is the one
modelled. The memory store looks a key up and inserts the task without a lock,
and there two requests in threads may record two tasks. `ListTasks`,
`Dispatch`, `StartWork`, `WriteResults`, `SaveOutcome` are the calls
`_run_job`, `execute_task` and the review make one after the other, and
`SaveFailed` is the except clause of `JobWorker.handle`, which writes over
whatever the task has become. Every process may die between any two steps;
`WorkFails` is work that raises, which needs no bound. `PublishUnknown` is a
type an older worker does not know.

Assumptions: acknowledging is no step of its own (a handler that has returned
leaves the task redeliverable, which covers both orders); what a review writes
is one step, because a scene's finding is one document; extraction writes facts,
which are not kept here.

### State and steps of `DurableStores`

| variable | stands for |
|---|---|
| `backend` | memory, SQLite or Firestore |
| `counter` | `next_ordinal` |
| `rows` | the drafts of a project and the institutions, each with its ordinal |
| `audit` | the log, whose lines have the ordinal as their key |
| `spent`, `analyzing` | an upload ticket; whether the review session is claimed |
| `phase`, `call` | per thread: the next statement of its call, and what the call has read so far |
| `begun`, `kept`, `spends`, `loaded`, `failed` | history: lines begun, lines whose append returned, how often the ticket was given out, loads that returned, whether a call has raised |

A call on the memory store is one step. On the others a step is a statement or
a transaction: `FindOrdinal`, `Draw`, `ReadOrdinal`, `WriteRow` are `put`; `Draw`,
`WriteLine` are `append`; `ClearRegistry` and one `put` for each institution are
`load`; `Stage` and `Publish` are transactions. The four kinds of collection stand
for the fourteen of the stores, which are built from the same `Collection`.

Assumptions: one connection for each process (`SqliteStores.at`, cached by
`api/deps/services.py`), which is the constant `Connection`; a load is of at
least one institution; which session an analysis belongs to, and its
generation, are in `ReviewSession`. Firestore has no sessions.

### State and steps of `PolicyLoop`

| variable | stands for |
|---|---|
| `wiring` | `inline`, the API process, or `pubsub`, the cloud runtime |
| `runs`, `source` | refresh runs and how far they are; the text the source state points to |
| `proposals`, `snapshots`, `outbox` | the policy repository |
| `copied`, `discarding` | inline: the dictionary of proposals as a publication has copied it, and the proposals a discard has looked at and not yet overwritten |
| `topic` | events published to it; it may deliver each again, in any order |
| `receipts`, `recalcs` | what the consumer keeps in memory |
| `threads` | requests of administrators and deliveries: where each is, its proposal and version, the rows it has listed, the page of projects it has still to visit |
| `project`, `requests` | per project the pinned version, `policy_stale` and since when its answer is on record; the copy a request in progress will save, and how often |
| `heard` | `policy.stale` entries of the timelines |

A step is one transaction, or what one thread does between two accesses to what
others write. In the API process refreshes and publications are coroutines of
one event loop: a publication keeps it until its events are delivered, a
refresh gives it up while it waits for the fetcher or the model (`LoopFree`). Everything
else is an ordinary function and runs in the thread pool beside them, over
dictionaries without a lock. Discarding is one of these: it looks at the proposal
(`CheckDiscard`) and overwrites it later (`WriteDiscard`), while a publication
copies the proposals and puts the copy in their place (`CopyProposals`,
`SwapProposals`). In the cloud a transaction of Firestore is a step, everything
interleaves, and `Die` ends all processes with what they had in memory.

The operations of the workflow service read a project and save a whole copy
of it later. `RunClassification`, `Reclassify` and `Reanalyze` start a request that will
save a new answer, or none; `Edit` starts any other, which will save what it has
read: `submit_channels`, `submit_intent`, the gate, the freeze, a material. Each
`SaveCopy` is one save over whatever the project has become. `run_classification`
saves up to three times (`_persist_classification`, and each `_transition`). The consumer is
no different: `mark_policy_stale` is `ReadMark`, `SaveMark` and the timeline entry, and
`recalc_tier` is `ReadRecalc` and `RecalcTier`.

Assumptions: a snapshot is effective when it is published, so the latest is
the one in effect; whether a tier is provisional or a form frozen is chosen
freely when it matters. A recalculation that finds no tier raises, because the
consumer's result has room for T1 to T3 only; that is `HandlingFails`, which may
come at any point of the page. Projects meet only in the page limit: each may be
new or classified when the model starts, people work on those in `Busy`
meanwhile, one request on each at a time, and the others only wait to be told. One
thread discards a given proposal at a time. The end of the API process ends this
model's state, since its repository is in memory.

### State and steps of `ClassificationChain`

| variable | stands for |
|---|---|
| `snapshots` | what the packs p1 to p4 say, by version |
| `budget` | what the work costs: known to the creator, not to the program |
| `intent` | the answers, as far as a decider reads them |
| `phase` | `draft`, `open` (may be decided in place), `locked` |
| `cls`, `stale` | the recorded classification and `policy_stale` |

`JudgeFormType`, `MatchedRules`, `JudgeTier` and `Classify` are the functions of
`core/classify/`; `RunClassification`, `ChooseTier`, `ConfirmReview`, `Reclassify` and
`RecalcTier` record what they return. `Snapshots` has the fields a decider
reads, and `ChainConstants` what validation guarantees of them.

Assumptions: the creator answers truthfully (`Truthful`), with the bracket read
off the lines the web client names (`AskedLines`); a model adds any subset of
the subjects, with a quote that is there. The tier of a truthful answer is what
the properties are about: of a false one nothing could be said.

## 3. The abstract specifications

`FilingLifecycle` has the phase of a filing (preparing, gated, sent, returned,
accepted, filed, closed) and the sequence of forms locked so far. A form is
locked only from the gate, exactly one at a time; a locked form is neither
changed nor withdrawn; an institution's answer leads to the filing or back to
preparation. Until a form has been sent, a reanalysis may start a gated or
closed filing over (`StartOver`), which keeps the forms locked in earlier
rounds. `ImplementsLifecycle` states that `ProjectWorkflow` implements it under
the mapping `PhaseOf` (of the state) and `LockedForms` (the frozen prefix of
the drafts). The mapping is not a projection of one variable: the step that
locks must freeze a draft and move the project together, and
`resume_after_return` must add a draft without touching the locked ones, which
is what makes the refinement worth checking.

`JobPromise` has the keys with a task, the starts of their work and the keys
with an outcome. A start needs a recorded key that has none yet, an outcome
stays. Starts are mapped from the counter of each task, so that a redelivery
which ran the work again would be a second start of its key; `FAILED` written
over `SUCCEEDED` is a stutter, because the promise speaks of outcomes and not of
which one (section 7).

`PolicyLedger` has the sequence of published proposals, the discarded ones and
the acknowledged events. The ledger only grows at its end, no proposal is in it
twice, an event is acknowledged once. Where the store has transactions, a person
decides a proposal once; where it has none, which is the API process, a
discard may be recorded of a published proposal, and a publication may undo
discards, and the specification says so. The mapping reads the ledger
off the snapshots and the acknowledgements off the outbox, which one commit
writes together.

## 4. Runs and bounds

Each passing run of `ProjectWorkflow` opens some dimensions of a project and
closes the others; all operations stay enabled. Deadlock is checked in them,
because the stores can always be read. Two runs say
`CHECK_DEADLOCK FALSE`. `MCSession`: a review that has failed accepts no request any
more, and the bound on edits then really stops the model. `MCPolicy`: when all
refreshes are done and all events sent nothing is left to do, since nobody works
on its projects. In the other models there
is always something left to do: a store can be read, a request can be made and
run out of tasks, a project can be analysed again, a creator can answer.

| run | open dimensions | shows |
|---|---|---|
| `MCForms` | one key with two values, two snapshots of which the second requires the key, two drafts, no licensed institution; with fairness | frozen forms are sourced, complete and final; facts do not hide newer ones; the round trip is no dead end. Two rounds are needed for a successor, a late requirement for a form whose snapshot changes between rounds. No institution is licensed, so that every round comes back; no symmetry, since liveness is checked. |
| `MCFiling` | two institutions, one licensed; two numbers; two snapshots; three drafts | what is sent holds a frozen form; acceptance, plan (a reanalysis takes it back), successors, and the refinement. Three drafts make a superseded draft that is not the first; two institutions make a switch after a failed licence check. |
| `MCReview` | one unconfirmed scene, three script versions, three finding ids, the alert | a scene that is present, absent and present again is the shortest carry-forward that could lose a decision; three findings about it are one that was carried, and two that analyses of the first version opened anew. Finding ids are symmetric: only their equality is looked at. |
| `MCMaterials` | two required cards, the second defined by the second snapshot only; one answer that classification asks for | cards nobody has read, and cards of a pack that arrives while the first is being worked on; the answers a class rests on are on record. One value is enough to be on record or not. |
| `MCSession` | two requests, one editor with two edits, two details, three generations, two extractions | races for the session, publications beside other writes, refusals, failures recorded or not, and deaths. Two requests make every race for a compare-and-put, and a slot is used again after its call returned; the third generation is a reanalysis of a reanalysis; the second extraction is a retry; the second edit meets what the first left behind. Requests, editors and details are symmetric. |
| `MCJobs` | two requests, two workers, two tasks, one version, one loss | all races for one key need two of each, and a second task may be of a type the worker does not know. One version is enough for what is claimed of keys: with more, the key of a review may change between two requests (section 7), which only `ClaimCarry` needs. No symmetry, since liveness is checked. |
| `MCStores` | two threads on one connection, two drafts, two institutions, four calls, eight ordinals, one failed call | two drafts have an order to lose; four calls are a claimed analysis, and three writes before, during and after it. A publication draws at most four ordinals after three earlier ones. |
| `MCPolicy` | two refreshes, two texts, two threads, two projects and a page of one, nobody at work on them, two publications, one failure or death | a second publication finds the row a first left behind; two threads are racing administrators, or an administrator and a delivery, or two deliveries of the topic out of order. One project is on the page; the other is beyond it, or on it when the first is not classified. Nobody saves their flags away. Runs, threads and texts are symmetric. |
| `MCConsumer` | two projects on a page of two, one of them being worked on, requests of two saves, one publication, one failure or death | the handling stops between two projects, or between two steps on one, and is taken up again; copies are saved before, between and after the reads and saves of the consumer. Two saves are the fewest with a copy saved after another's write in between; the code's three repeat the second, and the theorems hold for any number. |
| `MCClassification` | lines at 2 and 3, budgets on both, two words, one of them in the vocabulary only, one publication out of four | the four publications are agreed lines, a disputed line, a moved line with an edge rule, and thresholds without lines. Budgets on the lines are where the comparisons differ. One publication after the seed gives every recalculation a single step can see; the theorems cover any number. |

Two runs, `ClaimCarry` and `ClaimReach`, each show one statement of the
repository violated (section 7). Every property of a passing run has a
mutant: a change of a mapped definition as a plausible bug would make it, with
which the run must fail. The mutants stand beside the definitions they change.

## 5. Fairness

Nothing in the code schedules a creator or a reviewer, so no safety property
rests on fairness. `ReturnedIsRefrozen` asks whether somebody *can* bring a
returned project back to a frozen form, whatever else happens. Its
specification `FairSpec` therefore assumes that the creator keeps doing what
is open: weak fairness of answering, deferring, and releasing findings and the
alert, and of `ResumeAfterReturn`; strong fairness of `PassGate` and
`FreezeForm`, because other calls (a new script version, a reopened finding)
disable and re-enable them for ever. No fairness is assumed for
institutions, uploads, or the policy loop. The conclusion lets three
exits stand: a second classification and a reanalysis, which the creator chooses,
and a conflict of facts, which no operation resolves.

`ReviewSession` has no fairness and no liveness property: a process may die at
any step and nothing takes its work up, so nothing is promised to happen.
`AnalyzingIsHeld` is the safety property that remains: a session in `ANALYZING` has
somebody who will move it on, unless the very analysis that claimed it died or
could not record its failure.

`DispatchedIsFinished` of `JobQueue` assumes that a worker takes its next step
(weak fairness: a running process runs), and that the queue delivers a task
again and again while a worker is free for it (strong fairness, because workers
are taken and freed: at-least-once delivery, `core/jobs.py`). Requests are
promised nothing. Without a lease the property cannot be more than it
is: a task whose worker died is `RUNNING` for ever. `UnattendedOnlyByLoss` says that
there are never more of those than losses. Losses are deaths, publishers that
refuse and claims that fail, so it is sharp about what is no loss: redelivery,
races for a claim, work that raises.

The stores, the policy loop and the classification have no fairness. An
outbox row waits for the next publication, which nobody is bound to make;
`NoEventLeftBehind` states as safety what the code does promise.

## 6. Proofs

TLAPS proves every safety property the passing runs check, for all values of the
constants that satisfy the assumptions of the modules (`NoneIsNoValue` and
`WorkflowConstants`, `SessionConstants`, `JobConstants`, `StoreConstants`,
`PolicyConstants`, `ChainConstants`: sets of any size, every bound any number).
One more hypothesis is used, and written into the theorems that need it:
`SharedConnection`, that the threads of an SQLite store use one connection,
as `store/sqlite.py` says of itself ("One connection, guarded by a lock") and
`SqliteStores.at` sees to. Without it two threads read one ordinal
(section 7), so these theorems cannot do without.

- `ProjectWorkflowProofs`. `TypeCorrect` comes first, from lemmas on what each
  rule returns. Then one lemma for each group of actions says how it can change
  the state, the drafts and the review (`IntakeMoves`, `PolicyMoves`,
  `PreparationMoves`, `FilingMoves`), so that the invariants need not look at
  the operations again. `FilingInv` is the inductive invariant: the conjunction
  of the five filing properties, which together with `TypeOK` are preserved by
  every action. The difficulty is not a hidden strengthening but the table:
  `Move` from a state that some earlier call left behind may go anywhere the
  table allows, so each lemma has to confine the states an operation can reach
  (`FilingTable`, `FilingTargets`, `SettledTable`) before the stores are looked
  at. `FrozenIsFinal` is an action property from the same lemmas. A reanalysis
  does not go through the table; it has a lemma of its own kind, because it
  starts from states in which no form is locked and leaves the drafts alone.
- `ProjectFormProofs`. `FactsInv` strengthens `FilledFieldIsNewestAnswer` with
  what a repeated value and a deferral rely on: a value last recorded is
  confirmed or in conflict (`SoundHistory`). A deferral is refused over a
  confirmed value only; without the third part it would not be known that the
  history below is empty of confirmed facts. `FormsAreSourced` follows for the
  freeze step and is preserved because frozen drafts do not change. In the same
  module `GateInv`: every reviewed version is an uploaded script all of whose
  scenes have a finding, no finding stands at a version without its scene, and
  every card with an asset has one of its kind. With the definition of the gate
  it gives the two action properties about the step that enters the gate.
- `ProjectLifecycleProofs`. The refinement: initial states map to initial states,
  and `LifecycleStep` maps every action to an abstract step or a stutter, a
  reanalysis to `StartOver` or to none. Two
  properties of the abstract specification are carried to the concrete one.
- `ReviewSessionProofs`. `SessionInv` is inductive. Its stated parts,
  `AnalysisHoldsSession`, `AnalyzingIsHeld` and `CompleteShowsPublished`, say what a
  request that holds the session knows; the others say what a request that
  does not hold it, or not yet, still knows: what it was called for and the
  state of the copy it holds (`PhasesFit`), that its copy is current or older
  than the session (`StagesFit`), and that an analysis about to fail holds an
  older generation than whoever analyses now (`FailsOwnGeneration`), without
  which a late except clause could fail somebody else's analysis. Steps that
  leave the session alone (`QuietStep`) and steps that write it while nobody
  else holds it (`SessionStep`) preserve the invariant for reasons that do not
  depend on the step; each action then only shows that it is one of these. A
  session that was never claimed has generation zero (`AtZero`), which is why
  the compare-and-put of an extraction, on the state alone, cannot bring back
  an older generation. The three action properties follow from the invariant
  and from what a publication compares.

- `JobQueueProofs`. `JobInv` is inductive. Beside the types and one task per
  key (`OneTaskPerKey`, from the transaction of get-or-create) it says that a
  task is in the working hands of at most one process (`OneWorks`), that its
  start is counted when it leaves `claimed`, and that a task still queued for a
  worker was never started and is in nobody's hands (`StartsFit`); `RunnersFit`
  keeps the two deployments apart. The except clause may write over a task in
  another worker's hands, but what it writes cannot be claimed again. The
  refinement takes one step of the queue to one step of `JobPromise` or a
  stutter. For `LossesCounted` every step is shown to leave each attended task
  attended, except a death, which leaves one (`StaysAttended`, `OrphanStep`).
- `ClassificationProofs`. The invariant says of the recorded class that it is
  good for the snapshot it is pinned to (`GoodClass`): that is what the chain
  returns (`ClassifyIsGood`), what stays true as snapshots are only appended
  (`GoodStays`), and what a recalculation keeps, which changes half of the
  record. A recalculation is guarded by `tier_provisional`, and a special subject
  is never provisional: that is why the money cannot overwrite it.

- `DurableStoresProofs`. `CallInv` says what a thread that has come this far in
  a call knows (`PhaseFits`: a thread at "write" has an ordinal that was drawn,
  one at "clear" has its whole set still to put), and that every ordinal
  in the store has been drawn. The ordinals then rest on ownership:
  `OrdinalsOwned` says that between drawing an ordinal and writing with it a
  thread holds one under which nothing is stored, unless by the draft it saves,
  and that no other thread holds it, unless it saves the same draft; `LinesOnce`
  says that a line is stored once, and not before its call gets there.
  `KeptLinesStay` is proved with them, because a publication that rewrites the
  log draws ordinals as well. `SharedConnection` is needed where a thread
  reads the counter it has just drawn from.
  `LoadInv` is about loads that overlap: some load has returned and is whole,
  or is still deleting, or has had nothing of what it put deleted. Of the
  last two one is left whenever a load deletes the work of others.
  `OrderIsKept` is an action property: a step moves no draft and no line past
  another, because what it writes is either new, and last, or in its old place.
- `PolicyLoopProofs`. Six invariants. `TypeInv` adds to the types that nothing
  refers to a version that is not published, which a thread between reading the
  latest version and committing depends on. `OneAtWork` is the event loop: inline
  one request publishes at a time. `LedgerInv` ties the proposals, runs, snapshots
  and outbox rows together (a published version names its proposal, and no
  proposal has two), and says of the copied proposals what a discard may have
  changed since (`CopyFits`); it is what the refinement of `PolicyLedger` and
  `EveryChangeIsProposed` need. `OutboxInv` says who carries an event that is
  not sent, and that inline there is one request whose queue are the pending
  rows, from which the order of delivery follows. `ToldInv` is the one for
  `AnnouncedToAll`: who has not been told of the event a thread is handling is
  on the page in the thread's hands, in the version it was listed with
  (`ThreadTells`). It needs `OlderThan`, that whoever has not been told still
  rests on an older version, or the listing might pass it by: only a
  recalculation moves a project on without deciding it anew, and it has told
  it first (`StartedIsTold` carries this over an exception, to the delivery
  that finds the marker of the first). A copy saved over an answer counts as
  on record only from that save on (`Since`); without that the copies of
  requests would break every one of these. `FlagInv` adds what holds inline only:
  a project behind the event has been told of it or is on the page, one that
  nobody works on is flagged as well, and receipts come in
  the order of the versions (`HandledInOrder`), without which a recalculation
  for an older event would clear a flag that a newer one had set.
  `ReachesTheUndisturbed` then draws the border of the claim `ClaimReach` refutes:
  it is true inline, of projects nobody works on meanwhile, when the page
  has room for all of them.

Only model-checked: liveness (`ReturnedIsRefrozen`, `DispatchedIsFinished`), which
is beyond the prover, and the violated claims.

## 7. Divergences found

Two have a run with the shortest counterexample:

1. `ClaimCarry`: the review of an older script version that finishes after the
   one of a newer version closes the newer one's finding as fixed, because
   `_carry_findings_forward` closes every finding whose quote is not in its own
   script.
2. `ClaimReach`: a project whose classification was in progress when a version
   was published is saved on the older version after the consumer has passed.
   `AnnouncedToAll` is what holds instead: the answers that were on record
   before the publication, of the projects the page has room for, have been
   told of that version or of a later one. Inline it is that very version, and
   where nobody works on the project the flag is still there; where somebody
   does, a request that has read the project before may save the flag away. In
   the cloud it need not be that version: a delivery of event 2 that has listed
   a project on version 1 may recalculate it after event 4 has, because
   `recalc_tier` writes the event's version without looking at the one that is
   there (`core/workflow_service.py`); the project is then on version 2, not
   flagged, and event 3 has passed it by as older than what it had. TLC finds
   this with three refreshes and four versions. A project beyond it is passed over, and
   the receipt keeps it so: this needs no run, it is what the limit does
   (`FitsThePage` is the property's precondition).

Recorded in `PROJECT.json` without a run, by component:

- project: a second classification after the plan was confirmed rests in
  `CLASSIFIED`, and confirming again does nothing; `run_classification` replaces
  the class of a project whose form is out, and is refused afterwards; a
  project ready for filing may hold a decision that is no acceptance, or a
  number; a conflict between facts is never resolved; a document that repeats
  an answer is not recorded; a removed scene's `needs_human` finding blocks the
  gate; a script reviewed before collection started is not reviewed again;
  `api/routers/review.py` says the pre-check moves no state; `run_classification`
  leaves `policy_stale` set; a stale project that is filed has no revision loop
  to go round.
- sessions: an exception without text cannot be recorded, and the session stays
  `ANALYZING`; a retried extraction that finishes between staging and claim is
  overwritten; an operation that read the project before a publication saves
  its old copy after it; a partial intake is retried without the pending flag.
- jobs: the type, and so the key, of a review depends on tasks other requests
  record meanwhile; two reviews in flight write a scene twice; the except
  clause writes over another worker's outcome.
- stores: a ticket is given to two calls that overlap; two connections to one
  file may read one ordinal; Firestore's `put` may move a draft; a line whose
  ordinal was drawn before a publication lands in front of the log; overlapping
  loads leave a union; the Firestore bundle lacks the sessions and the task
  claims the service calls.
- policy: in the API process a proposal may be discarded after it was
  published, or a discard be undone by a publication; whole copies of a project
  saved by requests clear the flag or bring an older answer back; a late
  recalculation takes a project back to older rules (above), keeps the old
  route and may keep old evidence, clears a flag a subject rule had set, and
  ignores the promotion answers; a restart numbers versions from the seed again
  under projects pinned to later ones; an error between saving and notifying
  loses the notice.
- classification: a bracket settles a tier although the module says it stays
  provisional, and is read against lines that may have moved since it was asked.

## 8. Not modelled, and why

- Two ordinary operations racing on one project document, and crashes between
  the writes of one operation, beyond what an editor of `ReviewSession` and a
  request of `PolicyLoop` do: planned, section 9. In particular two requests on one
  project, each saving its copy, beside the consumer.
- The internal routes that mark or recalculate a single project, which do what
  the consumer does without an event; the task store in memory, whose
  get-or-create is not atomic.
- Of the jobs: teaser jobs and their artifacts; of the stores: the SQL itself,
  schema creation and serialisation; of the policy loop: blobs, diffs, HTML
  normalisation and what the model drafts.
- Of a review session: the contents of candidates and artifacts, `get`, `source`
  and `artifact`, which only read. The Firestore stores keep no review sessions.
- Of the classification: pending flags, evidence, departments, quotes, and the
  form-type dictionary beyond whether a phrase is there. Validation of snapshot
  files is an assumption on the constants.
- `PRODUCTION` has no operation that enters it. `NEEDS_HUMAN_FORMTYPE` has no
  operation that leads back to `CLASSIFIED`; only the exits and a reanalysis
  leave it.
- Language model calls, HTML fetching, rendering of artifacts, HTTP
  serialisation, the web client: no protocol of their own.

## 9. Plan

| order | module | models | properties | proofs |
|---|---|---|---|---|
| done | `ProjectWorkflow` | one project, atomic operations | sections 4 to 6 | all safety |
| done | `ReviewSession` | racing requests, staged publication, deaths, other operations | sections 4 to 6 | all of them |
| done | `JobQueue` | tasks by key, both runners, redelivery, deaths | sections 4 to 6 | all safety |
| done | `ClassificationChain` | deciders and recalculation | sections 4 to 6 | all of them |
| done | `DurableStores`, `PolicyLoop` | statements of the stores; the policy loop | sections 4 to 6 | all safety |
| 1 | `ConcurrentProject` | two requests on one project document, each a read and a write step, with crash between two writes of one operation | which invariants of `FilingInv` survive, and which updates are lost | the surviving ones |

The lemmas of `ProjectWorkflowProofs` on `Move` and the table carry over
to `ConcurrentProject`, whose operations use the same definitions.

------------------------------ MODULE JobQueue ------------------------------
(***************************************************************************)
(* The background jobs of one project: core/jobs.py, the job operations of *)
(* core/workflow_service.py and the worker of workers/jobs.py.  A request  *)
(* records a task under an idempotency key and hands it to a runner.  The  *)
(* inline runner does the work in the request; the queued one publishes    *)
(* the task, and a worker it is delivered to claims it and does the work.  *)
(* Deliveries are at least once, in any order.                             *)
(*                                                                         *)
(* A step is one call of a store or of the queue: the task store's         *)
(* get-or-create and claim are one transaction each, a plain get, list or  *)
(* save is a step of its own.  Any process may die between two steps, the  *)
(* publisher may refuse a task, and a store call of a worker may raise.    *)
(*                                                                         *)
(* Of the work a review does, its writes to the findings are kept, for one *)
(* scene that some versions of the script contain: a finding is known by   *)
(* the task that wrote it, and stands at the version it was last carried   *)
(* to.  Extraction writes facts, which ProjectWorkflow models.             *)
(***************************************************************************)
EXTENDS Naturals, FiniteSets

CONSTANTS
    Requests,       \* API calls in progress
    Workers,        \* worker processes
    MaxTasks,       \* bound: tasks ever recorded
    MaxVersion,     \* bound: script versions uploaded
    SceneIn,        \* the versions that contain the scene
    MaxLosses       \* bound: deaths, refusals of the publisher, store errors

ASSUME JobConstants ==
    /\ Requests \cap Workers = {}
    /\ MaxTasks \in Nat
    /\ MaxVersion \in Nat \ {0}
    /\ SceneIn \subseteq 1..MaxVersion
    /\ MaxLosses \in Nat

VARIABLES
    runner,     \* which runner the deployment has
    latest,     \* the newest script version
    tasks,      \* the task store
    queue,      \* tasks handed to the queue
    findings,   \* task -> the finding of the scene it wrote
    starts,     \* task -> how often its work has started
    phase,      \* request or worker -> what it is doing
    wants,      \* request -> the job it asks for
    held,       \* request or worker -> the task in its hands
    listed,     \* request or worker -> the findings it has read
    losses      \* how much has gone wrong

store == <<tasks, findings, starts>>
process == <<phase, wants, held, listed>>
vars == <<runner, latest, queue, losses, store, process>>

-----------------------------------------------------------------------------

Versions == 1..MaxVersion
ReviewTypes == {"review_full", "review_incremental"}
Handled == ReviewTypes \cup {"fact_extract"}

(* "other" is any type this release of the worker does not know. *)
TaskTypes == Handled \cup {"other"}

Terminal == {"succeeded", "failed", "needs_human"}
TaskStatus == {"queued", "running"} \cup Terminal

(* The idempotency key; the project is the same for all. *)
Keys == [type : TaskTypes, version : Versions]
Key(type, version) == [type |-> type, version |-> version]
NoKey == Key("other", 1)

(* Tasks are numbered as they are recorded. *)
TaskIds == 1..MaxTasks
None == 0

WorkflowTask == [key : Keys, status : TaskStatus]
NoTask == [key |-> NoKey, status |-> "none"]

Recorded == {t \in TaskIds : tasks[t] # NoTask}
Status(t) == tasks[t].status

Finding == [at : Versions \cup {0}, fixed : BOOLEAN]
NoFinding == [at |-> 0, fixed |-> FALSE]
NoFindings == [t \in TaskIds |-> NoFinding]

Processes == Requests \cup Workers
Phases ==
    {"idle", "picked", "keyed", "dispatching", "delivered", "refusing",
     "claimed", "working", "written", "reporting", "failing"}

Init ==
    /\ runner \in {"inline", "queued"}
    /\ latest = 1
    /\ tasks = [t \in TaskIds |-> NoTask]
    /\ queue = {}
    /\ findings = NoFindings
    /\ starts = [t \in TaskIds |-> 0]
    /\ phase = [p \in Processes |-> "idle"]
    /\ wants = [p \in Processes |-> NoKey]
    /\ held = [p \in Processes |-> None]
    /\ listed = [p \in Processes |-> NoFindings]
    /\ losses = 0

Goto(p, ph) == phase' = [phase EXCEPT ![p] = ph]

(* Mutant: a process that is done keeps its task. *)
LeaveHolding(p) ==
    /\ Goto(p, "idle")
    /\ wants' = [wants EXCEPT ![p] = NoKey]
    /\ listed' = [listed EXCEPT ![p] = NoFindings]
    /\ UNCHANGED held

(* A process that is done forgets what it knew. *)
Leave(p) ==
    /\ Goto(p, "idle")
    /\ wants' = [wants EXCEPT ![p] = NoKey]
    /\ held' = [held EXCEPT ![p] = None]
    /\ listed' = [listed EXCEPT ![p] = NoFindings]

Lose == losses < MaxLosses /\ losses' = losses + 1

SetStatus(t, status) == tasks' = [tasks EXCEPT ![t].status = status]

-----------------------------------------------------------------------------
(* Requests *)

Ask(r, ph, key) ==
    /\ phase[r] = "idle"
    /\ Goto(r, ph)
    /\ wants' = [wants EXCEPT ![r] = key]
    /\ UNCHANGED <<runner, queue, losses, store, held, listed>>

AskExtraction(r) ==
    /\ \E v \in 1..latest : Ask(r, "keyed", Key("fact_extract", v))
    /\ UNCHANGED latest

(* A review is of the newest script there is when the request arrives; a   *)
(* newer one may have been uploaded since the last request.                *)
AskReview(r) ==
    \E v \in latest..MaxVersion :
        /\ latest' = v
        /\ Ask(r, "picked", Key("review_full", v))

ReviewTypeFor(v) ==
    IF \E t \in Recorded : tasks[t].key.type \in ReviewTypes /\ tasks[t].key.version # v
    THEN "review_incremental"
    ELSE "review_full"

ListTasks(r) ==
    /\ phase[r] = "picked"
    /\ Goto(r, "keyed")
    /\ wants' = [wants EXCEPT ![r].type = ReviewTypeFor(wants[r].version)]
    /\ UNCHANGED <<runner, latest, queue, losses, store, held, listed>>

(* The tasks get_or_create_by_idempotency_key finds under a key.  Looking  *)
(* and inserting are one BEGIN IMMEDIATE transaction of the SQLite store.  *)
Under(key) == {t \in Recorded : tasks[t].key = key}

IsNextId(t) == t \notin Recorded /\ \A u \in TaskIds : u < t => u \in Recorded

CreateTask(r) ==
    /\ phase[r] = "keyed" /\ Under(wants[r]) = {}
    /\ \E t \in TaskIds :
        /\ IsNextId(t)
        /\ tasks' = [tasks EXCEPT ![t] = [key |-> wants[r], status |-> "queued"]]
        /\ held' = [held EXCEPT ![r] = t]
    /\ Goto(r, IF runner = "inline" THEN "claimed" ELSE "dispatching")
    /\ UNCHANGED <<runner, latest, queue, losses, findings, starts, wants, listed>>

(* The bound on tasks: a request that would need one more is not made. *)
OutOfTasks(r) ==
    /\ phase[r] = "keyed" /\ Under(wants[r]) = {}
    /\ TaskIds = Recorded
    /\ Leave(r)
    /\ UNCHANGED <<runner, latest, queue, losses, store>>

(* A replay answers from the first task; the queued runner dispatches it   *)
(* again while it is still queued.                                         *)
ReplayTask(r) ==
    /\ phase[r] = "keyed"
    /\ \E t \in Under(wants[r]) :
        IF runner = "queued" /\ Status(t) = "queued"
        THEN /\ held' = [held EXCEPT ![r] = t]
             /\ Goto(r, "dispatching")
             /\ UNCHANGED <<wants, listed>>
        ELSE Leave(r)
    /\ UNCHANGED <<runner, latest, queue, losses, store>>

Dispatch(r) ==
    /\ phase[r] = "dispatching"
    /\ queue' = queue \cup {held[r]}
    /\ Leave(r)
    /\ UNCHANGED <<runner, latest, losses, store>>

DispatchFails(r) ==
    /\ phase[r] = "dispatching"
    /\ Lose
    /\ Leave(r)
    /\ UNCHANGED <<runner, latest, queue, store>>

-----------------------------------------------------------------------------
(* The queue *)

(* A task once handed over may be delivered any number of times, before    *)
(* and after a handler has returned and so acknowledged it: what is left   *)
(* to acknowledge makes no difference to what can happen, and the queue    *)
(* forgets nothing.                                                        *)

(* A release whose API queues a type the worker does not know. *)
PublishUnknown(t) ==
    /\ runner = "queued" /\ IsNextId(t)
    /\ Under(NoKey) = {}
    /\ tasks' = [tasks EXCEPT ![t] = [key |-> NoKey, status |-> "queued"]]
    /\ queue' = queue \cup {t}
    /\ UNCHANGED <<runner, latest, losses, findings, starts, process>>

-----------------------------------------------------------------------------
(* The worker's handle and execute_task *)

(* A delivery of a finished task changes nothing: it is acknowledged. *)
Deliver(w, t) ==
    /\ phase[w] = "idle" /\ t \in queue
    /\ Status(t) \notin Terminal
    /\ held' = [held EXCEPT ![w] = t]
    /\ Goto(w, IF tasks[t].key.type \in Handled THEN "delivered" ELSE "refusing")
    /\ UNCHANGED <<runner, latest, queue, losses, store, wants, listed>>

(* Mutant: any unfinished task can be claimed. *)
ClaimableUnlessFinished(t) == Status(t) \in {"queued", "running"}

Claimable(t) == Status(t) = "queued"

(* claim_queued_task, one transaction. *)
Claim(w) ==
    /\ phase[w] = "delivered" /\ Claimable(held[w])
    /\ SetStatus(held[w], "running")
    /\ Goto(w, "claimed")
    /\ UNCHANGED <<runner, latest, queue, losses, findings, starts,
                   wants, held, listed>>

AlreadyClaimed(w) ==
    /\ phase[w] = "delivered" /\ ~Claimable(held[w])
    /\ Leave(w)
    /\ UNCHANGED <<runner, latest, queue, losses, store>>

ClaimFails(w) ==
    /\ phase[w] = "delivered"
    /\ Lose
    /\ Goto(w, "failing")
    /\ UNCHANGED <<runner, latest, queue, store, wants, held, listed>>

(* The script is read and reviewed and the earlier findings are listed.    *)
StartWork(p) ==
    /\ phase[p] = "claimed"
    /\ starts' = [starts EXCEPT ![held[p]] = @ + 1]
    /\ listed' = [listed EXCEPT ![p] = findings]
    /\ Goto(p, "working")
    /\ UNCHANGED <<runner, latest, queue, losses, tasks, findings, wants, held>>

(* What a listed finding becomes when version v is reviewed. *)
Carried(finding, v) ==
    CASE v \in SceneIn -> [finding EXCEPT !.at = v]
      [] OTHER -> [finding EXCEPT !.fixed = TRUE]

(* Findings of other versions follow the scene to this one or are closed;  *)
(* a scene none of them is about gets a finding of its own.                *)
Reviewed(t, seen, v) ==
    [u \in TaskIds |->
        IF seen[u] # NoFinding
        THEN IF seen[u].at = v THEN findings[u] ELSE Carried(seen[u], v)
        ELSE IF u = t /\ v \in SceneIn /\ \A s \in TaskIds : seen[s] = NoFinding
        THEN [at |-> v, fixed |-> FALSE]
        ELSE findings[u]]

WriteResults(p) ==
    /\ phase[p] = "working"
    /\ findings' = IF tasks[held[p]].key.type \in ReviewTypes
                   THEN Reviewed(held[p], listed[p], tasks[held[p]].key.version)
                   ELSE findings
    /\ Goto(p, "written")
    /\ UNCHANGED <<runner, latest, queue, losses, tasks, starts,
                   wants, held, listed>>

(* The work raises, before or after it has written. *)
WorkFails(p) ==
    /\ phase[p] \in {"working", "written"}
    /\ Goto(p, "failing")
    /\ UNCHANGED <<runner, latest, queue, losses, store, wants, held, listed>>

SaveOutcome(p) ==
    /\ phase[p] = "written"
    /\ \E status \in {"succeeded", "needs_human"} : SetStatus(held[p], status)
    /\ IF p \in Workers
       THEN Goto(p, "reporting") /\ UNCHANGED <<wants, held, listed>>
       ELSE Leave(p)
    /\ UNCHANGED <<runner, latest, queue, losses, findings, starts>>

(* Mutant: a worker that fails leaves the task as it was. *)
FailSilently(p) ==
    /\ phase[p] \in {"failing", "refusing"}
    /\ Leave(p)
    /\ UNCHANGED <<runner, latest, queue, losses, store>>

(* The handler's except clause, and its answer to an unknown type: FAILED  *)
(* is saved over whatever the task has become since it was read.           *)
SaveFailed(p) ==
    /\ phase[p] \in {"failing", "refusing"}
    /\ SetStatus(held[p], "failed")
    /\ Leave(p)
    /\ UNCHANGED <<runner, latest, queue, losses, findings, starts>>

(* The timeline entry of a finished job. *)
Report(w) ==
    /\ phase[w] = "reporting"
    /\ Leave(w)
    /\ UNCHANGED <<runner, latest, queue, losses, store>>

ReportFails(w) ==
    /\ phase[w] = "reporting"
    /\ Lose
    /\ Goto(w, "failing")
    /\ UNCHANGED <<runner, latest, queue, store, wants, held, listed>>

(* A process dies: nothing is acknowledged, nothing else is undone. *)
Die(p) ==
    /\ phase[p] # "idle"
    /\ Lose
    /\ Leave(p)
    /\ UNCHANGED <<runner, latest, queue, store>>

-----------------------------------------------------------------------------

Execute(p) == StartWork(p) \/ WriteResults(p) \/ WorkFails(p) \/ SaveOutcome(p) \/ SaveFailed(p)

RequestStep(r) ==
    \/ ListTasks(r) \/ CreateTask(r) \/ OutOfTasks(r) \/ ReplayTask(r)
    \/ Dispatch(r) \/ DispatchFails(r) \/ Execute(r)

WorkerStep(w) ==
    \/ Claim(w) \/ AlreadyClaimed(w) \/ ClaimFails(w)
    \/ Execute(w) \/ Report(w) \/ ReportFails(w)

Next ==
    \/ \E r \in Requests : AskExtraction(r) \/ AskReview(r) \/ RequestStep(r)
    \/ \E t \in TaskIds : PublishUnknown(t)
    \/ \E w \in Workers : WorkerStep(w) \/ \E t \in TaskIds : Deliver(w, t)
    \/ \E p \in Processes : Die(p)

(* A worker that runs takes its next step, and the queue keeps delivering  *)
(* what no handler has returned for.                                       *)
Fairness ==
    /\ \A w \in Workers : WF_vars(WorkerStep(w))
    /\ \A t \in TaskIds : SF_vars(\E w \in Workers : Deliver(w, t))

Spec == Init /\ [][Next]_vars
FairSpec == Spec /\ Fairness

-----------------------------------------------------------------------------
(* Properties *)

TypeOK ==
    /\ runner \in {"inline", "queued"}
    /\ latest \in Versions
    /\ tasks \in [TaskIds -> WorkflowTask \cup {NoTask}]
    /\ queue \subseteq Recorded
    /\ findings \in [TaskIds -> Finding]
    /\ starts \in [TaskIds -> Nat]
    /\ phase \in [Processes -> Phases]
    /\ wants \in [Processes -> Keys]
    /\ held \in [Processes -> TaskIds \cup {None}]
    /\ listed \in [Processes -> [TaskIds -> Finding]]
    /\ losses \in 0..MaxLosses
    /\ \A p \in Processes :
        IF phase[p] \in {"idle", "picked", "keyed"}
        THEN held[p] = None
        ELSE held[p] \in Recorded

(* Whoever is about to write the outcome of a task. *)
Attending == {"claimed", "working", "written", "failing"}
Unattended(t) ==
    /\ Status(t) = "running"
    /\ \A w \in Workers : phase[w] \in Attending => held[w] # t

(* UnattendedOnlyByLoss.  A RUNNING task has no lease (the comment of      *)
(* execute_task): one nobody is working on is there for ever.  There are   *)
(* never more of them than losses: deaths, publishers that refuse, claims  *)
(* that fail.  Redeliveries, races for a claim and work that raises are    *)
(* free of charge, so none of these leaves a task behind.                  *)
UnattendedOnlyByLoss ==
    Cardinality({t \in TaskIds : Unattended(t)}) =< losses

(* KeepsJobPromise.  Redelivered, retried, raced for or half failed: the   *)
(* work behind a key starts at most once, and a finished task is not       *)
(* reopened.  Starts are told apart by the task and a number, so a second  *)
(* start is a second element.                                              *)
KeysWith(S) == {tasks[t].key : t \in S}
StartsMade == {s \in TaskIds \X {1, 2} : s[2] =< starts[s[1]]}
Promise ==
    INSTANCE JobPromise WITH
        Starts <- TaskIds \X {1, 2},
        recorded <- KeysWith(Recorded),
        started <- {<<tasks[s[1]].key, s>> : s \in StartsMade},
        finished <- KeysWith({t \in Recorded : Status(t) \in Terminal})
KeepsJobPromise == Promise!JobSpec

(* DispatchedIsFinished.  A task handed to the queue gets an outcome, or a *)
(* process died with it.                                                   *)
DispatchedIsFinished ==
    \A t \in TaskIds :
        t \in queue ~> Status(t) \in Terminal \/ Unattended(t)

(* OnlyLaterVersionsCloseFindings.  "A quote that has vanished was         *)
(* rewritten, which is the creator fixing it"                              *)
(* (core/workflow_service.py, _carry_findings_forward): a finding is       *)
(* closed as fixed by the review of a later version than its own.          *)
OnlyLaterVersionsCloseFindings ==
    [][\A t \in TaskIds : findings'[t].fixed /\ ~findings[t].fixed =>
        \E p \in Processes :
            /\ phase[p] = "working" /\ phase'[p] = "written"
            /\ tasks[held[p]].key.version > findings[t].at]_vars

=============================================================================

--------------------------- MODULE JobQueueProofs ---------------------------
(***************************************************************************)
(* Proofs about JobQueue, for any number of requests, workers, tasks and   *)
(* versions.  JobInv is the inductive invariant: a task's work is in the   *)
(* hands of at most one process, its start is counted when it leaves       *)
(* "claimed", and a task that is still queued for a worker is in nobody's  *)
(* hands and was never started.                                            *)
(***************************************************************************)
EXTENDS JobQueue, FiniteSetTheorems, TLAPS

Working == {"claimed", "working", "written"}

(* Which steps a deployment has: an inline one publishes nothing, so its   *)
(* workers idle; in a queued one no request does the work.                 *)
RunnersFit ==
    /\ runner = "inline" => queue = {} /\ \A w \in Workers : phase[w] = "idle"
    /\ \A r \in Requests :
        /\ phase[r] # "delivered" /\ phase[r] # "reporting" /\ phase[r] # "refusing"
        /\ phase[r] \in Working \cup {"failing"} => runner = "inline"
        /\ phase[r] = "dispatching" => runner = "queued"
    /\ \A w \in Workers : phase[w] \notin {"picked", "keyed", "dispatching"}

(* One pair of hands. *)
OneWorks ==
    \A p, q \in Processes :
        phase[p] \in Working /\ phase[q] \in Working /\ held[p] = held[q] => p = q

StartsFit ==
    /\ \A t \in TaskIds :
        /\ starts[t] \in {0, 1}
        /\ t \notin Recorded => starts[t] = 0
        /\ runner = "queued" /\ Status(t) = "queued" =>
            /\ starts[t] = 0
            /\ \A p \in Processes : phase[p] \in Working => held[p] # t
    /\ \A p \in Processes : phase[p] = "claimed" => starts[held[p]] = 0

(* One task per key: the transaction of CreateTask and ReplayTask. *)
OneTaskPerKey ==
    \A t, u \in Recorded : tasks[t].key = tasks[u].key => t = u

JobInv == TypeOK /\ RunnersFit /\ OneTaskPerKey /\ OneWorks /\ StartsFit

-----------------------------------------------------------------------------

USE JobConstants

(* The types of the processes, of the rest, and what a process holds.      *)
ProcessTypes ==
    /\ phase \in [Processes -> Phases]
    /\ wants \in [Processes -> Keys]
    /\ held \in [Processes -> TaskIds \cup {None}]
    /\ listed \in [Processes -> [TaskIds -> Finding]]

StoreTypes ==
    /\ runner \in {"inline", "queued"}
    /\ latest \in Versions
    /\ tasks \in [TaskIds -> WorkflowTask \cup {NoTask}]
    /\ queue \subseteq Recorded
    /\ findings \in [TaskIds -> Finding]
    /\ starts \in [TaskIds -> Nat]
    /\ losses \in 0..MaxLosses

EmptyHanded == {"idle", "picked", "keyed"}
Holds(p) == IF phase[p] \in EmptyHanded THEN held[p] = None ELSE held[p] \in Recorded

LEMMA TypeParts == TypeOK <=> ProcessTypes /\ StoreTypes /\ \A p \in Processes : Holds(p)
  BY DEF TypeOK, ProcessTypes, StoreTypes, Holds, EmptyHanded

LEMMA Basics ==
  /\ NoKey \in Keys /\ NoFindings \in [TaskIds -> Finding]
  /\ \A k \in Keys : k.type \in TaskTypes /\ k.version \in Versions
  /\ \A ty \in TaskTypes, v \in Versions : Key(ty, v) \in Keys
  /\ \A w \in WorkflowTask : w.key \in Keys /\ w.status \in TaskStatus /\ w # NoTask
  /\ NoTask.key \in Keys /\ NoTask.status = "none"
  /\ None \notin TaskIds /\ "none" \notin TaskStatus
  /\ Terminal \subseteq TaskStatus /\ "queued" \in TaskStatus /\ "running" \in TaskStatus
  /\ "queued" \notin Terminal /\ "running" \notin Terminal
  BY DEF NoKey, Keys, Key, TaskTypes, Handled, ReviewTypes, Versions, NoFindings, NoFinding,
         Finding, WorkflowTask, NoTask, TaskStatus, Terminal, None, TaskIds

(* Only process p changes its phase and what it holds. *)
Alone(p) ==
    \A q \in Processes : q # p => phase'[q] = phase[q] /\ held'[q] = held[q]

LEMMA GotoAlone ==
  ASSUME ProcessTypes, NEW p \in Processes, NEW ph \in Phases, Goto(p, ph),
         held' = held
  PROVE  /\ phase' \in [Processes -> Phases] /\ phase'[p] = ph
         /\ Alone(p) /\ held'[p] = held[p]
  BY DEF ProcessTypes, Goto, Alone

LEMMA LeaveAlone ==
  ASSUME ProcessTypes, NEW p \in Processes, Leave(p)
  PROVE  ProcessTypes' /\ phase'[p] = "idle" /\ held'[p] = None /\ Alone(p)
  BY Basics DEF ProcessTypes, Leave, Goto, Alone, Phases

(* A change of status leaves the tasks recorded, under their keys. *)
LEMMA SetStatusKeeps ==
  ASSUME StoreTypes, NEW t \in Recorded, NEW status \in TaskStatus, SetStatus(t, status)
  PROVE  /\ tasks' \in [TaskIds -> WorkflowTask \cup {NoTask}]
         /\ Recorded' = Recorded
         /\ \A u \in TaskIds : tasks'[u].key = tasks[u].key
         /\ Status(t)' = status
         /\ \A u \in TaskIds : u # t => Status(u)' = Status(u)
  <1>1. t \in TaskIds /\ tasks[t] \in WorkflowTask
    BY DEF StoreTypes, Recorded
  <1>2. [tasks[t] EXCEPT !.status = status] \in WorkflowTask
    BY <1>1 DEF WorkflowTask
  <1>3. tasks' = [tasks EXCEPT ![t] = [tasks[t] EXCEPT !.status = status]]
    BY DEF SetStatus
  <1>4. tasks' \in [TaskIds -> WorkflowTask \cup {NoTask}]
    BY <1>1, <1>2, <1>3 DEF StoreTypes
  <1>5. /\ tasks'[t].key = tasks[t].key /\ tasks'[t].status = status
        /\ \A u \in TaskIds : u # t => tasks'[u] = tasks[u]
    BY <1>1, <1>3 DEF StoreTypes, WorkflowTask
  <1>6. tasks'[t] # NoTask
    BY <1>1, <1>2, <1>3, Basics DEF StoreTypes
  <1> QED
    BY <1>1, <1>4, <1>5, <1>6 DEF Recorded, Status

(* What a review leaves of the findings is findings. *)
LEMMA ReviewedIsFindings ==
  ASSUME NEW t \in TaskIds, NEW v \in Versions,
         NEW seen \in [TaskIds -> Finding], findings \in [TaskIds -> Finding]
  PROVE  Reviewed(t, seen, v) \in [TaskIds -> Finding]
  <1>1. \A u \in TaskIds : Carried(seen[u], v) \in Finding
    BY DEF Carried, Finding
  <1>2. [at |-> v, fixed |-> FALSE] \in Finding
    BY DEF Finding
  <1> QED
    BY <1>1, <1>2 DEF Reviewed

(* JobInit.  The invariant holds before the first request.                 *)
LEMMA JobInitHolds == Init => JobInv
  <1> SUFFICES ASSUME Init PROVE JobInv
    OBVIOUS
  <1>1. TypeOK
    BY DEF Init, TypeOK, Processes, Phases, TaskIds, None, Versions, TaskTypes, Keys,
           Key, NoKey, WorkflowTask, NoTask, Recorded, Finding, NoFinding, NoFindings
  <1>2. RunnersFit /\ OneTaskPerKey /\ OneWorks /\ StartsFit
    BY DEF Init, RunnersFit, OneTaskPerKey, OneWorks, StartsFit, Working, Recorded, Status,
           NoTask, Processes
  <1> QED
    BY <1>1, <1>2 DEF JobInv

(* ---- *)

(* Quiet.  A step in which one process moves without taking up or starting *)
(* work, and no task changes, keeps what the work's hands depend on.       *)
LEMMA Quiet ==
  ASSUME TypeOK, OneTaskPerKey, OneWorks, StartsFit,
         UNCHANGED <<runner, tasks, starts>>,
         NEW p \in Processes, Alone(p),
         phase'[p] \in Working => phase[p] \in Working /\ phase'[p] # "claimed"
                                   /\ held'[p] = held[p]
  PROVE  OneTaskPerKey' /\ OneWorks' /\ StartsFit'
  <1>1. Recorded' = Recorded /\ \A t \in TaskIds : Status(t)' = Status(t)
    BY DEF Recorded, Status
  <1>2. OneTaskPerKey'
    BY <1>1 DEF OneTaskPerKey
  <1>3. \A q \in Processes : phase'[q] \in Working => phase[q] \in Working /\ held'[q] = held[q]
    BY DEF Alone
  <1>4. OneWorks'
    BY <1>3 DEF OneWorks
  <1>5. \A q \in Processes : phase'[q] = "claimed" => phase[q] = "claimed" /\ held'[q] = held[q]
    BY <1>3 DEF Alone, Working
  <1>6. StartsFit'
    BY <1>1, <1>3, <1>5 DEF StartsFit
  <1> QED
    BY <1>2, <1>4, <1>6

LEMMA AloneTypes ==
  ASSUME TypeOK, ProcessTypes', StoreTypes', Recorded \subseteq Recorded',
         NEW p \in Processes, Alone(p), Holds(p)'
  PROVE  TypeOK'
  <1>1. \A q \in Processes : Holds(q)'
    BY TypeParts DEF Alone, Holds
  <1> QED
    BY <1>1 DEF TypeOK, ProcessTypes, StoreTypes, Holds, EmptyHanded

(* Outcome.  Saving an outcome, from any phase but "claimed", keeps what   *)
(* the work's hands depend on.                                             *)
LEMMA Outcome ==
  ASSUME TypeOK, OneTaskPerKey, OneWorks, StartsFit, UNCHANGED <<runner, starts>>,
         Recorded' = Recorded,
         \A u \in TaskIds : tasks'[u].key = tasks[u].key,
         \A u \in TaskIds : Status(u)' = Status(u) \/ Status(u)' \in Terminal,
         NEW p \in Processes, Alone(p), phase'[p] \notin Working
  PROVE  OneTaskPerKey' /\ OneWorks' /\ StartsFit'
  <1>1. OneTaskPerKey'
    BY DEF OneTaskPerKey, Recorded
  <1>2. \A q \in Processes : phase'[q] \in Working =>
          phase[q] \in Working /\ phase'[q] = phase[q] /\ held'[q] = held[q]
    BY DEF Alone
  <1>3. OneWorks'
    BY <1>2 DEF OneWorks
  <1>4. \A u \in TaskIds : Status(u)' = "queued" => Status(u) = "queued"
    BY Basics
  <1>5. \A q \in Processes : phase'[q] = "claimed" => phase[q] = "claimed" /\ held'[q] = held[q]
    BY <1>2 DEF Working
  <1>6. StartsFit'
    BY <1>2, <1>4, <1>5 DEF StartsFit
  <1> QED
    BY <1>1, <1>3, <1>6

(* RunnersKept.  The steps keep to their deployment.                       *)
Side(p) ==
    /\ runner = "inline" => (p \in Workers => phase[p] = "idle")
    /\ p \in Requests =>
        /\ phase[p] # "delivered" /\ phase[p] # "reporting" /\ phase[p] # "refusing"
        /\ phase[p] \in Working \cup {"failing"} => runner = "inline"
        /\ phase[p] = "dispatching" => runner = "queued"
    /\ p \in Workers => phase[p] \notin {"picked", "keyed", "dispatching"}

LEMMA RunnersParts ==
  RunnersFit <=> (runner = "inline" => queue = {}) /\ \A p \in Processes : Side(p)
  BY DEF RunnersFit, Side, Processes

LEMMA AloneRuns ==
  ASSUME RunnersFit, UNCHANGED <<runner>>, runner = "inline" => queue' = {},
         NEW p \in Processes, Alone(p), Side(p)'
  PROVE  RunnersFit'
  <1>1. \A q \in Processes : Side(q)'
    BY RunnersParts DEF Alone, Side
  <1> QED
    BY <1>1 DEF RunnersFit, Side, Processes

LEMMA Names ==
  /\ Phases = {"idle", "picked", "keyed", "dispatching", "delivered", "refusing",
               "claimed", "working", "written", "reporting", "failing"}
  /\ \A r \in Requests : r \in Processes /\ r \notin Workers
  /\ \A w \in Workers : w \in Processes /\ w \notin Requests
  BY DEF Phases, Processes

(* JobInvKept.  Every step keeps the invariant.                            *)
LEMMA JobInvKept == JobInv /\ [Next]_vars => JobInv'
  <1> SUFFICES ASSUME JobInv, [Next]_vars PROVE JobInv'
    OBVIOUS
  <1>a. TypeOK /\ RunnersFit /\ OneTaskPerKey /\ OneWorks /\ StartsFit
    BY DEF JobInv
  <1>b. ProcessTypes /\ StoreTypes /\ \A p \in Processes : Holds(p)
    BY <1>a, TypeParts
  <1>c. \A p \in Processes : Side(p)
    BY <1>a, RunnersParts
  <1>1. ASSUME NEW r \in Requests, AskExtraction(r) PROVE JobInv'
    <2>1. r \in Processes
      BY Names
    <2>2. ProcessTypes' /\ Alone(r) /\ Holds(r)'
      <3>1. PICK v \in 1..latest : Ask(r, "keyed", Key("fact_extract", v))
        BY <1>1 DEF AskExtraction
      <3>2. Key("fact_extract", v) \in Keys
        BY <1>b, <3>1, Basics DEF StoreTypes, Versions, TaskTypes, Handled, ReviewTypes
      <3>3. phase' \in [Processes -> Phases] /\ phase'[r] = "keyed" /\ Alone(r) /\ held' = held
        BY <1>b, <2>1, <3>1, GotoAlone, Names DEF Ask
      <3>4. wants' \in [Processes -> Keys] /\ listed' = listed /\ tasks' = tasks
        BY <1>b, <2>1, <3>1, <3>2 DEF Ask, ProcessTypes, store
      <3> QED
        BY <1>b, <2>1, <3>1, <3>3, <3>4 DEF Ask, ProcessTypes, Holds, EmptyHanded, Recorded
    <2>3. Side(r)' /\ (phase'[r] \in Working => phase[r] \in Working /\ phase'[r] # "claimed"
                                                 /\ held'[r] = held[r])
      BY <1>1, <1>a, <1>b, <1>c, <2>1, <2>2, Names, LeaveAlone DEF AskExtraction, Ask, Side, Working, Goto, ProcessTypes, RunnersFit
    <2>4. StoreTypes' /\ (runner = "inline" => queue' = {}) /\ UNCHANGED <<runner, tasks, starts>>
      BY <1>1, <1>a, <1>b DEF AskExtraction, Ask, StoreTypes, store, RunnersFit, Recorded
    <2> QED
      BY <1>a, <2>1, <2>2, <2>3, <2>4, Quiet, AloneTypes, AloneRuns DEF JobInv, Recorded
  <1>2. ASSUME NEW r \in Requests, AskReview(r) PROVE JobInv'
    <2>1. r \in Processes
      BY Names
    <2>2. ProcessTypes' /\ Alone(r) /\ Holds(r)'
      <3>1. PICK v \in latest..MaxVersion : Ask(r, "picked", Key("review_full", v))
        BY <1>2 DEF AskReview
      <3>2. Key("review_full", v) \in Keys
        BY <1>b, <3>1, Basics DEF StoreTypes, Versions, TaskTypes, Handled, ReviewTypes
      <3>3. phase' \in [Processes -> Phases] /\ phase'[r] = "picked" /\ Alone(r) /\ held' = held
        BY <1>b, <2>1, <3>1, GotoAlone, Names DEF Ask
      <3>4. wants' \in [Processes -> Keys] /\ listed' = listed /\ tasks' = tasks
        BY <1>b, <2>1, <3>1, <3>2 DEF Ask, ProcessTypes, store
      <3> QED
        BY <1>b, <2>1, <3>1, <3>3, <3>4 DEF Ask, ProcessTypes, Holds, EmptyHanded, Recorded
    <2>3. Side(r)' /\ (phase'[r] \in Working => phase[r] \in Working /\ phase'[r] # "claimed"
                                                 /\ held'[r] = held[r])
      BY <1>2, <1>a, <1>b, <1>c, <2>1, <2>2, Names, LeaveAlone DEF AskReview, Ask, Side, Working, Goto, ProcessTypes, RunnersFit
    <2>4. StoreTypes' /\ (runner = "inline" => queue' = {}) /\ UNCHANGED <<runner, tasks, starts>>
      BY <1>2, <1>a, <1>b DEF AskReview, Ask, Versions, StoreTypes, store, RunnersFit, Recorded
    <2> QED
      BY <1>a, <2>1, <2>2, <2>3, <2>4, Quiet, AloneTypes, AloneRuns DEF JobInv, Recorded
  <1>3. ASSUME NEW r \in Requests, ListTasks(r) PROVE JobInv'
    <2>1. r \in Processes
      BY Names
    <2>2. ProcessTypes' /\ Alone(r) /\ Holds(r)'
      <3>1. phase' \in [Processes -> Phases] /\ phase'[r] = "keyed" /\ Alone(r) /\ held' = held
        BY <1>3, <1>b, <2>1, GotoAlone, Names DEF ListTasks
      <3>2. wants' \in [Processes -> Keys] /\ listed' = listed /\ tasks' = tasks
        BY <1>3, <1>b, <2>1, Basics DEF ListTasks, ProcessTypes, store, ReviewTypeFor, Keys, TaskTypes, Handled, ReviewTypes
      <3> QED
        BY <1>3, <1>b, <2>1, <3>1, <3>2 DEF ListTasks, ProcessTypes, Holds, EmptyHanded, Recorded
    <2>3. Side(r)' /\ (phase'[r] \in Working => phase[r] \in Working /\ phase'[r] # "claimed"
                                                 /\ held'[r] = held[r])
      BY <1>3, <1>a, <1>b, <1>c, <2>1, <2>2, Names, LeaveAlone DEF ListTasks, Side, Working, Goto, ProcessTypes, RunnersFit
    <2>4. StoreTypes' /\ (runner = "inline" => queue' = {}) /\ UNCHANGED <<runner, tasks, starts>>
      BY <1>3, <1>a, <1>b DEF ListTasks, StoreTypes, store, RunnersFit, Recorded
    <2> QED
      BY <1>a, <2>1, <2>2, <2>3, <2>4, Quiet, AloneTypes, AloneRuns DEF JobInv, Recorded
  <1>4. ASSUME NEW r \in Requests, OutOfTasks(r) PROVE JobInv'
    <2>1. r \in Processes
      BY Names
    <2>2. ProcessTypes' /\ Alone(r) /\ Holds(r)'
      BY <1>4, <1>b, <2>1, LeaveAlone DEF OutOfTasks, Holds, EmptyHanded
    <2>3. Side(r)' /\ (phase'[r] \in Working => phase[r] \in Working /\ phase'[r] # "claimed"
                                                 /\ held'[r] = held[r])
      BY <1>4, <1>a, <1>b, <1>c, <2>1, <2>2, Names, LeaveAlone DEF OutOfTasks, Side, Working, Goto, ProcessTypes, RunnersFit
    <2>4. StoreTypes' /\ (runner = "inline" => queue' = {}) /\ UNCHANGED <<runner, tasks, starts>>
      BY <1>4, <1>a, <1>b DEF OutOfTasks, StoreTypes, store, RunnersFit, Recorded
    <2> QED
      BY <1>a, <2>1, <2>2, <2>3, <2>4, Quiet, AloneTypes, AloneRuns DEF JobInv, Recorded
  <1>5. ASSUME NEW r \in Requests, ReplayTask(r) PROVE JobInv'
    <2>1. r \in Processes
      BY Names
    <2>2. ProcessTypes' /\ Alone(r) /\ Holds(r)'
      <3>1. PICK t \in Under(wants[r]) :
              IF runner = "queued" /\ Status(t) = "queued"
              THEN /\ held' = [held EXCEPT ![r] = t]
                   /\ Goto(r, "dispatching")
                   /\ UNCHANGED <<wants, listed>>
              ELSE Leave(r)
        BY <1>5 DEF ReplayTask
      <3>2. CASE Leave(r)
        BY <3>2, <1>b, <2>1, LeaveAlone DEF Holds, EmptyHanded
      <3>3. CASE held' = [held EXCEPT ![r] = t] /\ Goto(r, "dispatching") /\ UNCHANGED <<wants, listed>>
        <4>1. t \in TaskIds /\ t \in Recorded /\ tasks' = tasks
          BY <1>5 DEF Under, Recorded, ReplayTask, store
        <4> QED
          BY <3>3, <4>1, <1>b, <2>1, Names DEF Holds, EmptyHanded, ProcessTypes, Goto, Alone, Recorded
      <3> QED
        BY <3>1, <3>2, <3>3
    <2>3. Side(r)' /\ (phase'[r] \in Working => phase[r] \in Working /\ phase'[r] # "claimed"
                                                 /\ held'[r] = held[r])
      BY <1>5, <1>a, <1>b, <1>c, <2>1, <2>2, Names, LeaveAlone DEF ReplayTask, Side, Working, Goto, ProcessTypes, RunnersFit
    <2>4. StoreTypes' /\ (runner = "inline" => queue' = {}) /\ UNCHANGED <<runner, tasks, starts>>
      BY <1>5, <1>a, <1>b DEF ReplayTask, StoreTypes, store, RunnersFit, Recorded
    <2> QED
      BY <1>a, <2>1, <2>2, <2>3, <2>4, Quiet, AloneTypes, AloneRuns DEF JobInv, Recorded
  <1>6. ASSUME NEW r \in Requests, Dispatch(r) PROVE JobInv'
    <2>1. r \in Processes
      BY Names
    <2>2. ProcessTypes' /\ Alone(r) /\ Holds(r)'
      BY <1>6, <1>b, <2>1, LeaveAlone DEF Dispatch, Holds, EmptyHanded
    <2>3. Side(r)' /\ (phase'[r] \in Working => phase[r] \in Working /\ phase'[r] # "claimed"
                                                 /\ held'[r] = held[r])
      BY <1>6, <1>a, <1>b, <1>c, <2>1, <2>2, Names, LeaveAlone DEF Dispatch, Side, Working, Goto, ProcessTypes, RunnersFit
    <2>4. StoreTypes' /\ (runner = "inline" => queue' = {}) /\ UNCHANGED <<runner, tasks, starts>>
      <3>1. held[r] \in Recorded /\ runner = "queued"
        BY <1>6, <1>b, <1>c, <2>1 DEF Dispatch, Holds, EmptyHanded, Side
      <3> QED
        BY <1>6, <1>a, <1>b, <3>1 DEF Dispatch, StoreTypes, store, Recorded, RunnersFit
    <2> QED
      BY <1>a, <2>1, <2>2, <2>3, <2>4, Quiet, AloneTypes, AloneRuns DEF JobInv, Recorded
  <1>7. ASSUME NEW r \in Requests, DispatchFails(r) PROVE JobInv'
    <2>1. r \in Processes
      BY Names
    <2>2. ProcessTypes' /\ Alone(r) /\ Holds(r)'
      BY <1>7, <1>b, <2>1, LeaveAlone DEF DispatchFails, Holds, EmptyHanded
    <2>3. Side(r)' /\ (phase'[r] \in Working => phase[r] \in Working /\ phase'[r] # "claimed"
                                                 /\ held'[r] = held[r])
      BY <1>7, <1>a, <1>b, <1>c, <2>1, <2>2, Names, LeaveAlone DEF DispatchFails, Side, Working, Goto, ProcessTypes, RunnersFit
    <2>4. StoreTypes' /\ (runner = "inline" => queue' = {}) /\ UNCHANGED <<runner, tasks, starts>>
      BY <1>7, <1>a, <1>b DEF DispatchFails, Lose, StoreTypes, store, RunnersFit, Recorded
    <2> QED
      BY <1>a, <2>1, <2>2, <2>3, <2>4, Quiet, AloneTypes, AloneRuns DEF JobInv, Recorded
  <1>8. ASSUME NEW w \in Workers, NEW t \in TaskIds, Deliver(w, t) PROVE JobInv'
    <2>1. w \in Processes /\ t \in Recorded /\ runner = "queued"
      BY <1>8, <1>a, <1>b, Names DEF Deliver, StoreTypes, RunnersFit
    <2>2. PICK ph \in {"delivered", "refusing"} : Goto(w, ph)
      BY <1>8 DEF Deliver
    <2>3. ProcessTypes' /\ Alone(w) /\ phase'[w] = ph /\ held'[w] = t
      BY <1>8, <1>b, <2>1, <2>2, Names DEF Deliver, ProcessTypes, Goto, Alone
    <2>4. Holds(w)' /\ Side(w)'
      BY <1>8, <2>1, <2>2, <2>3, Names DEF Deliver, Holds, EmptyHanded, Side, Recorded, store
    <2>5. StoreTypes' /\ (runner = "inline" => queue' = {}) /\ UNCHANGED <<runner, tasks, starts>>
      BY <1>8, <1>a, <1>b DEF Deliver, StoreTypes, store, RunnersFit, Recorded
    <2> QED
      BY <1>a, <2>1, <2>2, <2>3, <2>4, <2>5, Quiet, AloneTypes, AloneRuns DEF JobInv, Recorded, Working
  <1>9. ASSUME NEW w \in Workers, AlreadyClaimed(w) PROVE JobInv'
    <2>1. w \in Processes
      BY Names
    <2>2. ProcessTypes' /\ Alone(w) /\ Holds(w)'
      BY <1>9, <1>b, <2>1, LeaveAlone DEF AlreadyClaimed, Holds, EmptyHanded
    <2>3. Side(w)' /\ (phase'[w] \in Working => phase[w] \in Working /\ phase'[w] # "claimed"
                                                 /\ held'[w] = held[w])
      BY <1>9, <1>a, <1>b, <1>c, <2>1, <2>2, Names, LeaveAlone DEF AlreadyClaimed, Side, Working, Goto, ProcessTypes, RunnersFit
    <2>4. StoreTypes' /\ (runner = "inline" => queue' = {}) /\ UNCHANGED <<runner, tasks, starts>>
      BY <1>9, <1>a, <1>b DEF AlreadyClaimed, StoreTypes, store, RunnersFit, Recorded
    <2> QED
      BY <1>a, <2>1, <2>2, <2>3, <2>4, Quiet, AloneTypes, AloneRuns DEF JobInv, Recorded
  <1>10. ASSUME NEW w \in Workers, ClaimFails(w) PROVE JobInv'
    <2>1. w \in Processes
      BY Names
    <2>2. ProcessTypes' /\ Alone(w) /\ Holds(w)'
      <3>1. phase' \in [Processes -> Phases] /\ phase'[w] = "failing" /\ Alone(w) /\ held' = held
        BY <1>10, <1>b, <2>1, GotoAlone, Names DEF ClaimFails
      <3>2. wants' \in [Processes -> Keys] /\ listed' = listed /\ tasks' = tasks
        BY <1>10, <1>b, <2>1, Basics DEF ClaimFails, ProcessTypes, store
      <3> QED
        BY <1>10, <1>b, <2>1, <3>1, <3>2 DEF ClaimFails, ProcessTypes, Holds, EmptyHanded, Recorded
    <2>3. Side(w)' /\ (phase'[w] \in Working => phase[w] \in Working /\ phase'[w] # "claimed"
                                                 /\ held'[w] = held[w])
      BY <1>10, <1>a, <1>b, <1>c, <2>1, <2>2, Names, LeaveAlone DEF ClaimFails, Side, Working, Goto, ProcessTypes, RunnersFit
    <2>4. StoreTypes' /\ (runner = "inline" => queue' = {}) /\ UNCHANGED <<runner, tasks, starts>>
      BY <1>10, <1>a, <1>b DEF ClaimFails, Lose, StoreTypes, store, RunnersFit, Recorded
    <2> QED
      BY <1>a, <2>1, <2>2, <2>3, <2>4, Quiet, AloneTypes, AloneRuns DEF JobInv, Recorded
  <1>11. ASSUME NEW w \in Workers, Report(w) PROVE JobInv'
    <2>1. w \in Processes
      BY Names
    <2>2. ProcessTypes' /\ Alone(w) /\ Holds(w)'
      BY <1>11, <1>b, <2>1, LeaveAlone DEF Report, Holds, EmptyHanded
    <2>3. Side(w)' /\ (phase'[w] \in Working => phase[w] \in Working /\ phase'[w] # "claimed"
                                                 /\ held'[w] = held[w])
      BY <1>11, <1>a, <1>b, <1>c, <2>1, <2>2, Names, LeaveAlone DEF Report, Side, Working, Goto, ProcessTypes, RunnersFit
    <2>4. StoreTypes' /\ (runner = "inline" => queue' = {}) /\ UNCHANGED <<runner, tasks, starts>>
      BY <1>11, <1>a, <1>b DEF Report, StoreTypes, store, RunnersFit, Recorded
    <2> QED
      BY <1>a, <2>1, <2>2, <2>3, <2>4, Quiet, AloneTypes, AloneRuns DEF JobInv, Recorded
  <1>12. ASSUME NEW w \in Workers, ReportFails(w) PROVE JobInv'
    <2>1. w \in Processes
      BY Names
    <2>2. ProcessTypes' /\ Alone(w) /\ Holds(w)'
      <3>1. phase' \in [Processes -> Phases] /\ phase'[w] = "failing" /\ Alone(w) /\ held' = held
        BY <1>12, <1>b, <2>1, GotoAlone, Names DEF ReportFails
      <3>2. wants' \in [Processes -> Keys] /\ listed' = listed /\ tasks' = tasks
        BY <1>12, <1>b, <2>1, Basics DEF ReportFails, ProcessTypes, store
      <3> QED
        BY <1>12, <1>b, <2>1, <3>1, <3>2 DEF ReportFails, ProcessTypes, Holds, EmptyHanded, Recorded
    <2>3. Side(w)' /\ (phase'[w] \in Working => phase[w] \in Working /\ phase'[w] # "claimed"
                                                 /\ held'[w] = held[w])
      BY <1>12, <1>a, <1>b, <1>c, <2>1, <2>2, Names, LeaveAlone DEF ReportFails, Side, Working, Goto, ProcessTypes, RunnersFit
    <2>4. StoreTypes' /\ (runner = "inline" => queue' = {}) /\ UNCHANGED <<runner, tasks, starts>>
      BY <1>12, <1>a, <1>b DEF ReportFails, Lose, StoreTypes, store, RunnersFit, Recorded
    <2> QED
      BY <1>a, <2>1, <2>2, <2>3, <2>4, Quiet, AloneTypes, AloneRuns DEF JobInv, Recorded
  <1>13. ASSUME NEW p \in Processes, WorkFails(p) PROVE JobInv'
    <2>1. p \in Processes
      BY Names
    <2>2. ProcessTypes' /\ Alone(p) /\ Holds(p)'
      <3>1. phase' \in [Processes -> Phases] /\ phase'[p] = "failing" /\ Alone(p) /\ held' = held
        BY <1>13, <1>b, <2>1, GotoAlone, Names DEF WorkFails
      <3>2. wants' \in [Processes -> Keys] /\ listed' = listed /\ tasks' = tasks
        BY <1>13, <1>b, <2>1, Basics DEF WorkFails, ProcessTypes, store
      <3> QED
        BY <1>13, <1>b, <2>1, <3>1, <3>2 DEF WorkFails, ProcessTypes, Holds, EmptyHanded, Recorded
    <2>3. Side(p)' /\ (phase'[p] \in Working => phase[p] \in Working /\ phase'[p] # "claimed"
                                                 /\ held'[p] = held[p])
      BY <1>13, <1>a, <1>b, <1>c, <2>1, <2>2, Names, LeaveAlone DEF WorkFails, Side, Working, Goto, ProcessTypes, RunnersFit
    <2>4. StoreTypes' /\ (runner = "inline" => queue' = {}) /\ UNCHANGED <<runner, tasks, starts>>
      BY <1>13, <1>a, <1>b DEF WorkFails, StoreTypes, store, RunnersFit, Recorded
    <2> QED
      BY <1>a, <2>1, <2>2, <2>3, <2>4, Quiet, AloneTypes, AloneRuns DEF JobInv, Recorded
  <1>14. ASSUME NEW p \in Processes, Die(p) PROVE JobInv'
    <2>1. p \in Processes
      BY Names
    <2>2. ProcessTypes' /\ Alone(p) /\ Holds(p)'
      BY <1>14, <1>b, <2>1, LeaveAlone DEF Die, Holds, EmptyHanded
    <2>3. Side(p)' /\ (phase'[p] \in Working => phase[p] \in Working /\ phase'[p] # "claimed"
                                                 /\ held'[p] = held[p])
      BY <1>14, <1>a, <1>b, <1>c, <2>1, <2>2, Names, LeaveAlone DEF Die, Side, Working, Goto, ProcessTypes, RunnersFit
    <2>4. StoreTypes' /\ (runner = "inline" => queue' = {}) /\ UNCHANGED <<runner, tasks, starts>>
      BY <1>14, <1>a, <1>b DEF Die, Lose, StoreTypes, store, RunnersFit, Recorded
    <2> QED
      BY <1>a, <2>1, <2>2, <2>3, <2>4, Quiet, AloneTypes, AloneRuns DEF JobInv, Recorded
  <1>15. ASSUME NEW p \in Processes, WriteResults(p) PROVE JobInv'
    <2>1. p \in Processes
      BY Names
    <2>2. ProcessTypes' /\ Alone(p) /\ Holds(p)'
      <3>1. phase' \in [Processes -> Phases] /\ phase'[p] = "written" /\ Alone(p) /\ held' = held
        BY <1>15, <1>b, <2>1, GotoAlone, Names DEF WriteResults
      <3>2. wants' \in [Processes -> Keys] /\ listed' = listed /\ tasks' = tasks
        BY <1>15, <1>b, <2>1, Basics DEF WriteResults, ProcessTypes, store
      <3> QED
        BY <1>15, <1>b, <2>1, <3>1, <3>2 DEF WriteResults, ProcessTypes, Holds, EmptyHanded, Recorded
    <2>3. Side(p)' /\ (phase'[p] \in Working => phase[p] \in Working /\ phase'[p] # "claimed"
                                                 /\ held'[p] = held[p])
      BY <1>15, <1>a, <1>b, <1>c, <2>1, <2>2, Names, LeaveAlone DEF WriteResults, Side, Working, Goto, ProcessTypes, RunnersFit
    <2>4. StoreTypes' /\ (runner = "inline" => queue' = {}) /\ UNCHANGED <<runner, tasks, starts>>
      <3>1. held[p] \in TaskIds /\ tasks[held[p]].key.version \in Versions
        BY <1>15, <1>b, Basics DEF WriteResults, Holds, EmptyHanded, Recorded, StoreTypes
      <3>2. findings' \in [TaskIds -> Finding]
        BY <1>15, <1>b, <3>1, ReviewedIsFindings DEF WriteResults, StoreTypes, ProcessTypes
      <3> QED
        BY <1>15, <1>a, <1>b, <3>2 DEF WriteResults, StoreTypes, RunnersFit, Recorded
    <2> QED
      BY <1>a, <2>1, <2>2, <2>3, <2>4, Quiet, AloneTypes, AloneRuns DEF JobInv, Recorded
  <1>16. ASSUME NEW r \in Requests, CreateTask(r) PROVE JobInv'
    <2>1. PICK t \in TaskIds :
            /\ IsNextId(t)
            /\ tasks' = [tasks EXCEPT ![t] = [key |-> wants[r], status |-> "queued"]]
            /\ held' = [held EXCEPT ![r] = t]
      BY <1>16 DEF CreateTask
    <2>2. PICK ph \in {"claimed", "dispatching"} :
            Goto(r, ph) /\ ph = IF runner = "inline" THEN "claimed" ELSE "dispatching"
      BY <1>16 DEF CreateTask
    <2>3. r \in Processes /\ t \notin Recorded /\ phase[r] = "keyed" /\ Under(wants[r]) = {}
      BY <1>16, <2>1, Names DEF CreateTask, IsNextId
    <2>4. wants[r] \in Keys /\ [key |-> wants[r], status |-> "queued"] \in WorkflowTask
      BY <1>b, <2>3, Basics DEF ProcessTypes, WorkflowTask
    <2>5. /\ StoreTypes' /\ Recorded' = Recorded \cup {t}
          /\ tasks'[t].key = wants[r] /\ tasks'[t].status = "queued"
          /\ \A u \in TaskIds : u # t => tasks'[u] = tasks[u]
          /\ UNCHANGED <<runner, starts, queue>>
      BY <1>16, <1>b, <2>1, <2>3, <2>4, Basics DEF CreateTask, StoreTypes, Recorded
    <2>6. ProcessTypes' /\ Alone(r) /\ phase'[r] = ph /\ held'[r] = t
      BY <1>16, <1>b, <2>1, <2>2, <2>3, Names DEF CreateTask, ProcessTypes, Goto, Alone
    <2>7. Holds(r)' /\ Side(r)'
      BY <1>b, <1>c, <2>2, <2>3, <2>5, <2>6, Names DEF StoreTypes, Holds, EmptyHanded, Side, Working
    <2>8. TypeOK' /\ RunnersFit'
      BY <1>a, <1>c, <2>3, <2>5, <2>6, <2>7, AloneTypes, AloneRuns DEF RunnersFit
    <2>9. OneTaskPerKey'
      BY <1>a, <2>3, <2>5 DEF OneTaskPerKey, Under, Recorded
    <2>10. \A q \in Processes : phase[q] \in Working => held[q] # t /\ q # r
      BY <1>b, <2>3 DEF Holds, EmptyHanded, Working
    <2>11. OneWorks'
      BY <1>a, <2>6, <2>10 DEF OneWorks, Alone
    <2>12. StartsFit'
      <3>1. starts[t] = 0
        BY <1>a, <2>3 DEF StartsFit
      <3>2. \A u \in TaskIds : u # t => Status(u)' = Status(u) /\ (u \in Recorded' <=> u \in Recorded)
        BY <2>5 DEF Status
      <3>3. \A q \in Processes : phase'[q] \in Working /\ q # r =>
              phase[q] \in Working /\ held'[q] = held[q] /\ held[q] # t /\ phase'[q] = phase[q]
        BY <2>6, <2>10 DEF Alone
      <3>4. phase'[r] \in Working => runner = "inline"
        BY <2>2, <2>6 DEF Working
      <3>5. \A u \in TaskIds :
              /\ starts'[u] \in {0, 1}
              /\ u \notin Recorded' => starts'[u] = 0
              /\ runner' = "queued" /\ Status(u)' = "queued" =>
                  /\ starts'[u] = 0
                  /\ \A q \in Processes : phase'[q] \in Working => held'[q] # u
        BY <1>a, <2>5, <2>6, <3>1, <3>2, <3>3, <3>4 DEF StartsFit
      <3>6. \A q \in Processes : phase'[q] = "claimed" => starts'[held'[q]] = 0
        BY <1>a, <2>5, <2>6, <3>1, <3>3 DEF StartsFit, Alone, Working
      <3> QED
        BY <3>5, <3>6 DEF StartsFit
    <2> QED
      BY <2>8, <2>9, <2>11, <2>12 DEF JobInv
  <1>17. ASSUME NEW t \in TaskIds, PublishUnknown(t) PROVE JobInv'
    <2>1. t \notin Recorded /\ Under(NoKey) = {} /\ [key |-> NoKey, status |-> "queued"] \in WorkflowTask
      BY <1>17, Basics DEF PublishUnknown, IsNextId, WorkflowTask
    <2>2. /\ StoreTypes' /\ Recorded' = Recorded \cup {t} /\ runner = "queued"
          /\ tasks'[t].key = NoKey /\ tasks'[t].status = "queued"
          /\ \A u \in TaskIds : u # t => tasks'[u] = tasks[u]
          /\ UNCHANGED <<runner, starts, phase, wants, held, listed>>
      BY <1>17, <1>b, <2>1, Basics DEF PublishUnknown, StoreTypes, Recorded, process
    <2>3. TypeOK'
      BY <1>b, <2>2 DEF TypeOK, ProcessTypes, StoreTypes, Holds, EmptyHanded
    <2>4. RunnersFit'
      BY <1>a, <2>2 DEF RunnersFit
    <2>5. OneTaskPerKey'
      BY <1>a, <2>1, <2>2 DEF OneTaskPerKey, Under, Recorded
    <2>6. OneWorks'
      BY <1>a, <2>2 DEF OneWorks
    <2>7. StartsFit'
      <3>1. \A q \in Processes : phase[q] \in Working => held[q] # t
        BY <1>b, <2>1 DEF Holds, EmptyHanded, Working
      <3>2. \A u \in TaskIds : u # t => Status(u)' = Status(u)
        BY <2>2 DEF Status
      <3> QED
        BY <1>a, <2>1, <2>2, <3>1, <3>2 DEF StartsFit
    <2> QED
      BY <2>3, <2>4, <2>5, <2>6, <2>7 DEF JobInv
  <1>18. ASSUME NEW w \in Workers, Claim(w) PROVE JobInv'
    <2>1. /\ w \in Processes /\ held[w] \in Recorded /\ held[w] \in TaskIds
          /\ Status(held[w]) = "queued" /\ runner = "queued" /\ phase[w] = "delivered"
      BY <1>18, <1>a, <1>b, Names DEF Claim, Claimable, Holds, EmptyHanded, RunnersFit, StoreTypes, Recorded
    <2>2. /\ tasks' \in [TaskIds -> WorkflowTask \cup {NoTask}] /\ Recorded' = Recorded
          /\ \A u \in TaskIds : tasks'[u].key = tasks[u].key
          /\ tasks'[held[w]].status = "running" /\ \A u \in TaskIds : u # held[w] => Status(u)' = Status(u)
      BY <1>18, <1>b, <2>1, SetStatusKeeps, Basics DEF Claim, Status
    <2>3. phase'[w] = "claimed" /\ Alone(w) /\ ProcessTypes' /\ held' = held
      BY <1>18, <1>b, <2>1, GotoAlone, Names DEF Claim, ProcessTypes
    <2>4. StoreTypes' /\ UNCHANGED <<runner, queue, starts>>
      BY <1>18, <1>b, <2>2 DEF Claim, StoreTypes
    <2>5. Holds(w)' /\ Side(w)'
      BY <2>1, <2>2, <2>3, <2>4, Names DEF Holds, EmptyHanded, Side
    <2>6. TypeOK' /\ RunnersFit'
      BY <1>a, <2>1, <2>2, <2>3, <2>4, <2>5, AloneTypes, AloneRuns DEF RunnersFit
    <2>7. OneTaskPerKey'
      BY <1>a, <2>2 DEF OneTaskPerKey, Recorded
    <2>8. \A q \in Processes : phase[q] \in Working => held[q] # held[w]
      BY <1>a, <2>1 DEF StartsFit
    <2>9. OneWorks'
      BY <1>a, <2>3, <2>8 DEF OneWorks, Alone
    <2>10. StartsFit'
      <3>1. starts[held[w]] = 0
        BY <1>a, <2>1 DEF StartsFit
      <3>2. \A q \in Processes : phase'[q] \in Working /\ q # w => phase[q] = phase'[q]
        BY <2>3 DEF Alone
      <3>3. \A u \in TaskIds : Status(u)' = "queued" => Status(u) = "queued" /\ u # held[w]
        BY <2>2, Basics DEF Status
      <3>4. \A u \in TaskIds :
              /\ starts'[u] \in {0, 1}
              /\ u \notin Recorded' => starts'[u] = 0
              /\ runner' = "queued" /\ Status(u)' = "queued" =>
                  /\ starts'[u] = 0
                  /\ \A q \in Processes : phase'[q] \in Working => held'[q] # u
        BY <1>a, <2>2, <2>3, <2>4, <3>2, <3>3 DEF StartsFit
      <3>5. \A q \in Processes : phase'[q] = "claimed" => starts'[held'[q]] = 0
        BY <1>a, <2>3, <2>4, <3>1, <3>2 DEF StartsFit, Working
      <3> QED
        BY <3>4, <3>5 DEF StartsFit
    <2> QED
      BY <2>6, <2>7, <2>9, <2>10 DEF JobInv
  <1>19. ASSUME NEW p \in Processes, StartWork(p) PROVE JobInv'
    <2>1. held[p] \in Recorded /\ held[p] \in TaskIds /\ phase[p] = "claimed" /\ starts[held[p]] = 0
      BY <1>19, <1>a, <1>b DEF StartWork, Holds, EmptyHanded, StartsFit, Recorded
    <2>2. phase'[p] = "working" /\ Alone(p) /\ ProcessTypes' /\ held' = held
      BY <1>19, <1>b, GotoAlone, Names DEF StartWork, ProcessTypes, StoreTypes
    <2>3. /\ StoreTypes' /\ UNCHANGED <<runner, queue, tasks>> /\ starts'[held[p]] = 1
          /\ \A u \in TaskIds : u # held[p] => starts'[u] = starts[u]
      BY <1>19, <1>b, <2>1 DEF StartWork, StoreTypes, Recorded
    <2>4. Holds(p)' /\ Side(p)' /\ Recorded' = Recorded
      BY <1>c, <2>1, <2>2, <2>3 DEF Holds, EmptyHanded, Side, Recorded, Working
    <2>5. TypeOK' /\ RunnersFit'
      BY <1>a, <2>2, <2>3, <2>4, AloneTypes, AloneRuns DEF RunnersFit
    <2>6. OneTaskPerKey' /\ OneWorks'
      BY <1>a, <2>1, <2>2, <2>3, <2>4 DEF OneTaskPerKey, OneWorks, Alone, Working
    <2>7. StartsFit'
      <3>1. \A q \in Processes : q # p /\ phase[q] \in Working => held[q] # held[p]
        BY <1>a, <2>1 DEF OneWorks, Working
      <3>2. ~(runner = "queued" /\ Status(held[p]) = "queued")
        BY <1>a, <2>1 DEF StartsFit, Working
      <3>3. \A u \in TaskIds : Status(u)' = Status(u)
        BY <2>3 DEF Status
      <3>4. \A q \in Processes : phase'[q] \in Working => phase[q] \in Working
        BY <2>1, <2>2 DEF Alone, Working
      <3>5. \A q \in Processes : phase'[q] = "claimed" => q # p /\ phase[q] = "claimed" /\ phase[q] \in Working
        BY <2>2 DEF Alone, Working
      <3>6. \A q \in Processes : phase[q] \in Working => held[q] \in TaskIds
        BY <1>b DEF Holds, EmptyHanded, Working, Recorded
      <3>7. \A q \in Processes : phase'[q] = "claimed" => starts'[held'[q]] = 0
        BY <1>a, <2>2, <2>3, <3>1, <3>5, <3>6 DEF StartsFit
      <3> QED
        BY <1>a, <2>1, <2>2, <2>3, <2>4, <3>2, <3>3, <3>4, <3>7 DEF StartsFit
    <2> QED
      BY <2>5, <2>6, <2>7 DEF JobInv
  <1>20. ASSUME NEW p \in Processes, SaveOutcome(p) PROVE JobInv'
    <2>1. held[p] \in Recorded /\ held[p] \in TaskIds
      BY <1>20, <1>b DEF SaveOutcome, Holds, EmptyHanded, Recorded
    <2>2. PICK status \in {"succeeded", "needs_human"} : SetStatus(held[p], status)
      BY <1>20 DEF SaveOutcome
    <2>3. /\ tasks' \in [TaskIds -> WorkflowTask \cup {NoTask}] /\ Recorded' = Recorded
          /\ \A u \in TaskIds : tasks'[u].key = tasks[u].key
          /\ tasks'[held[p]].status = status /\ \A u \in TaskIds : u # held[p] => Status(u)' = Status(u)
          /\ status \in Terminal
      <3>1. status \in Terminal /\ status \in TaskStatus
        BY <2>2, Basics DEF Terminal
      <3> QED
        BY <1>b, <2>1, <2>2, <3>1, SetStatusKeeps DEF Status
    <2>4. ProcessTypes' /\ Alone(p) /\ Holds(p)' /\ Side(p)' /\ phase'[p] \notin Working
      <3>1. CASE p \in Workers
        BY <1>20, <1>b, <1>c, <2>1, <2>3, <3>1, GotoAlone, Names DEF SaveOutcome, ProcessTypes, Holds,
           EmptyHanded, Side, Working
      <3>2. CASE p \notin Workers
        BY <1>20, <1>b, <2>1, <2>3, <3>2, LeaveAlone DEF SaveOutcome, Holds, EmptyHanded, Side, Working
      <3> QED
        BY <3>1, <3>2
    <2>5. StoreTypes' /\ UNCHANGED <<runner, queue, starts>>
      BY <1>20, <1>b, <2>3 DEF SaveOutcome, StoreTypes
    <2>6. TypeOK' /\ RunnersFit'
      BY <1>a, <2>3, <2>4, <2>5, AloneTypes, AloneRuns DEF RunnersFit
    <2>7. OneTaskPerKey' /\ OneWorks' /\ StartsFit'
      BY <1>a, <2>1, <2>3, <2>4, <2>5, Outcome DEF Status
    <2> QED
      BY <2>6, <2>7 DEF JobInv
  <1>21. ASSUME NEW p \in Processes, SaveFailed(p) PROVE JobInv'
    <2>1. held[p] \in Recorded /\ held[p] \in TaskIds
      BY <1>21, <1>b DEF SaveFailed, Holds, EmptyHanded, Recorded
    <2>2. PICK status \in {"failed"} : SetStatus(held[p], status)
      BY <1>21 DEF SaveFailed
    <2>3. /\ tasks' \in [TaskIds -> WorkflowTask \cup {NoTask}] /\ Recorded' = Recorded
          /\ \A u \in TaskIds : tasks'[u].key = tasks[u].key
          /\ tasks'[held[p]].status = status /\ \A u \in TaskIds : u # held[p] => Status(u)' = Status(u)
          /\ status \in Terminal
      <3>1. status \in Terminal /\ status \in TaskStatus
        BY <2>2, Basics DEF Terminal
      <3> QED
        BY <1>b, <2>1, <2>2, <3>1, SetStatusKeeps DEF Status
    <2>4. ProcessTypes' /\ Alone(p) /\ Holds(p)' /\ Side(p)' /\ phase'[p] \notin Working
      BY <1>21, <1>b, <2>1, <2>3, LeaveAlone DEF SaveFailed, Holds, EmptyHanded, Side, Working
    <2>5. StoreTypes' /\ UNCHANGED <<runner, queue, starts>>
      BY <1>21, <1>b, <2>3 DEF SaveFailed, StoreTypes
    <2>6. TypeOK' /\ RunnersFit'
      BY <1>a, <2>3, <2>4, <2>5, AloneTypes, AloneRuns DEF RunnersFit
    <2>7. OneTaskPerKey' /\ OneWorks' /\ StartsFit'
      BY <1>a, <2>1, <2>3, <2>4, <2>5, Outcome DEF Status
    <2> QED
      BY <2>6, <2>7 DEF JobInv
  <1>22. CASE UNCHANGED vars
    BY <1>22, <1>a DEF vars, store, process, JobInv, TypeOK, RunnersFit, OneTaskPerKey, OneWorks,
       StartsFit, Recorded, Status
  <1> QED
    BY <1>1, <1>2, <1>3, <1>4, <1>5, <1>6, <1>7, <1>8, <1>9, <1>10, <1>11, <1>12, <1>13, <1>14, <1>15, <1>16, <1>17, <1>18, <1>19, <1>20, <1>21, <1>22, Names DEF Next, RequestStep, WorkerStep, Execute

(* JobInvAlways, JobTypes.  The invariant and the types hold in every      *)
(* reachable state, however many requests and workers there are.           *)
THEOREM JobInvAlways == Spec => []JobInv
  BY JobInitHolds, JobInvKept, PTL DEF Spec

THEOREM JobTypes == Spec => []TypeOK
  <1>1. JobInv => TypeOK
    BY DEF JobInv
  <1> QED
    BY <1>1, JobInvAlways, PTL

-----------------------------------------------------------------------------
(* The promise *)

Finished == {t \in Recorded : Status(t) \in Terminal}
StartsOf == {<<tasks[s[1]].key, s>> : s \in StartsMade}

LEMMA KeysOfTasks ==
  ASSUME TypeOK
  PROVE  /\ \A t \in Recorded : t \in TaskIds /\ tasks[t].key \in Keys
         /\ KeysWith(Recorded) \subseteq Keys
  BY TypeParts, Basics DEF StoreTypes, Recorded, KeysWith

(* SameTasks.  A step that keeps the tasks under their keys, the starts    *)
(* and what is finished is a step the promise does not see.                *)
LEMMA SameTasks ==
  ASSUME TypeOK, JobInv, starts' = starts, Recorded' = Recorded, Finished' = Finished,
         \A u \in TaskIds : tasks'[u].key = tasks[u].key
  PROVE  UNCHANGED Promise!jvars
  <1>1. KeysWith(Recorded)' = KeysWith(Recorded) /\ KeysWith(Finished)' = KeysWith(Finished)
    BY DEF KeysWith, Recorded, Finished
  <1>2. StartsMade' = StartsMade /\ \A s \in StartsMade : s[1] \in TaskIds
    BY DEF StartsMade
  <1>3. StartsOf' = StartsOf
    BY <1>2 DEF StartsOf
  <1> QED
    BY <1>1, <1>3 DEF Promise!jvars, Finished, StartsOf

LEMMA NewTask ==
  ASSUME JobInv, NEW t \in TaskIds, NEW k \in Keys, t \notin Recorded, Under(k) = {},
         Recorded' = Recorded \cup {t}, tasks'[t].key = k, tasks'[t].status = "queued",
         \A u \in TaskIds : u # t => tasks'[u] = tasks[u], starts' = starts
  PROVE  Promise!JobNext
  <1>1. KeysWith(Recorded)' = KeysWith(Recorded) \cup {k} /\ k \notin KeysWith(Recorded)
    BY DEF KeysWith, Under, Recorded
  <1>2. Finished' = Finished
    BY Basics DEF Finished, Status, Recorded
  <1>3. KeysWith(Finished)' = KeysWith(Finished)
    BY <1>2 DEF KeysWith, Finished, Recorded
  <1>4. starts[t] = 0 /\ StartsMade' = StartsMade
    BY DEF JobInv, StartsFit, StartsMade
  <1>5. \A s \in StartsMade : s[1] \in TaskIds /\ s[1] # t
    BY <1>4 DEF StartsMade
  <1>6. StartsOf' = StartsOf
    BY <1>4, <1>5 DEF StartsOf
  <1>7. Promise!RecordJob(k)
    BY <1>1, <1>3, <1>6 DEF Promise!RecordJob, Finished, StartsOf
  <1> QED
    BY <1>7 DEF Promise!JobNext

LEMMA Started ==
  ASSUME JobInv, NEW t \in TaskIds, t \in Recorded, starts[t] = 0, starts'[t] = 1,
         \A u \in TaskIds : u # t => starts'[u] = starts[u], tasks' = tasks
  PROVE  Promise!JobNext
  <1>1. Recorded' = Recorded /\ Finished' = Finished
    BY DEF Recorded, Finished, Status
  <1>2. KeysWith(Recorded)' = KeysWith(Recorded) /\ KeysWith(Finished)' = KeysWith(Finished)
    BY <1>1 DEF KeysWith
  <1>3. StartsMade' = StartsMade \cup {<<t, 1>>}
    <2>1. \A s \in TaskIds \X {1, 2} : s = <<s[1], s[2]>> /\ s[1] \in TaskIds /\ s[2] \in {1, 2}
      OBVIOUS
    <2>2. \A s \in TaskIds \X {1, 2} : s[2] =< starts'[s[1]] <=> s[2] =< starts[s[1]] \/ s = <<t, 1>>
      BY <2>1
    <2> QED
      BY <2>2 DEF StartsMade
  <1>4. StartsOf' = StartsOf \cup {<<tasks[t].key, <<t, 1>>>>}
    BY <1>3 DEF StartsOf
  <1>5. tasks[t].key \in KeysWith(Recorded) /\ tasks[t].key \in Keys
    BY KeysOfTasks DEF KeysWith, JobInv
  <1>6. \A r \in TaskIds \X {1, 2} : <<tasks[t].key, r>> \notin StartsOf
    <2> SUFFICES ASSUME NEW r \in TaskIds \X {1, 2}, <<tasks[t].key, r>> \in StartsOf
                 PROVE  FALSE
      OBVIOUS
    <2>1. r \in StartsMade /\ tasks[r[1]].key = tasks[t].key
      BY DEF StartsOf
    <2>2. r[1] \in TaskIds /\ r[2] \in {1, 2} /\ r[2] =< starts[r[1]]
      BY <2>1 DEF StartsMade
    <2>3. r[1] \in Recorded
      BY <2>2 DEF JobInv, StartsFit
    <2>4. r[1] = t
      BY <2>1, <2>3 DEF JobInv, OneTaskPerKey
    <2> QED
      BY <2>2, <2>4
  <1>7. <<t, 1>> \in TaskIds \X {1, 2}
    OBVIOUS
  <1>8. Promise!StartJob(tasks[t].key, <<t, 1>>)
    BY <1>2, <1>4, <1>5, <1>6, <1>7 DEF Promise!StartJob, Finished, StartsOf
  <1> QED
    BY <1>5, <1>7, <1>8 DEF Promise!JobNext

LEMMA GotOutcome ==
  ASSUME JobInv, NEW t \in TaskIds, t \in Recorded, starts' = starts, Recorded' = Recorded,
         \A u \in TaskIds : tasks'[u].key = tasks[u].key,
         tasks'[t].status \in Terminal,
         \A u \in TaskIds : u # t => tasks'[u].status = tasks[u].status
  PROVE  Promise!JobNext \/ UNCHANGED Promise!jvars
  <1>1. Finished' = Finished \cup {t}
    BY DEF Finished, Status, Recorded
  <1>2. CASE t \in Finished
    BY <1>1, <1>2, SameTasks DEF JobInv
  <1>3. CASE t \notin Finished
    <2>1. KeysWith(Finished)' = KeysWith(Finished) \cup {tasks[t].key}
      BY <1>1 DEF KeysWith, Finished, Recorded
    <2>2. tasks[t].key \in KeysWith(Recorded) \ KeysWith(Finished) /\ tasks[t].key \in Keys
      BY <1>3, KeysOfTasks DEF KeysWith, JobInv, OneTaskPerKey, Finished
    <2>3. KeysWith(Recorded)' = KeysWith(Recorded)
      BY DEF KeysWith, Recorded
    <2>4. StartsMade' = StartsMade /\ \A s \in StartsMade : s[1] \in TaskIds
      BY DEF StartsMade
    <2>5. StartsOf' = StartsOf
      BY <2>4 DEF StartsOf
    <2>6. Promise!FinishJob(tasks[t].key)
      BY <2>1, <2>2, <2>3, <2>5 DEF Promise!FinishJob, Finished, StartsOf
    <2> QED
      BY <2>2, <2>6 DEF Promise!JobNext
  <1> QED
    BY <1>2, <1>3

(* Unseen.  A step that changes neither tasks nor starts is not seen.      *)
LEMMA Unseen ==
  ASSUME JobInv, UNCHANGED <<tasks, starts>>
  PROVE  UNCHANGED Promise!jvars
  BY SameTasks DEF JobInv, Recorded, Finished, Status

LEMMA PromiseStep == JobInv /\ [Next]_vars => [Promise!JobNext]_(Promise!jvars)
  <1> SUFFICES ASSUME JobInv, [Next]_vars
               PROVE  Promise!JobNext \/ UNCHANGED Promise!jvars
    OBVIOUS
  <1>a. TypeOK /\ ProcessTypes /\ StoreTypes /\ \A p \in Processes : Holds(p)
    BY TypeParts DEF JobInv
  <1>1. ASSUME NEW r \in Requests, CreateTask(r) PROVE Promise!JobNext
    <2>1. PICK t \in TaskIds :
            /\ IsNextId(t)
            /\ tasks' = [tasks EXCEPT ![t] = [key |-> wants[r], status |-> "queued"]]
      BY <1>1 DEF CreateTask
    <2>2. wants[r] \in Keys /\ t \notin Recorded /\ Under(wants[r]) = {} /\ starts' = starts
      BY <1>1, <1>a, <2>1, Names DEF CreateTask, ProcessTypes, IsNextId
    <2>3. [key |-> wants[r], status |-> "queued"] # NoTask
      BY Basics DEF NoTask
    <2>4. /\ tasks'[t].key = wants[r] /\ tasks'[t].status = "queued" /\ Recorded' = Recorded \cup {t}
          /\ \A u \in TaskIds : u # t => tasks'[u] = tasks[u]
      BY <1>a, <2>1, <2>2, <2>3 DEF StoreTypes, Recorded
    <2> QED
      BY <2>2, <2>4, NewTask
  <1>2. ASSUME NEW t \in TaskIds, PublishUnknown(t) PROVE Promise!JobNext
    <2>1. t \notin Recorded /\ Under(NoKey) = {} /\ starts' = starts /\ NoKey \in Keys
      BY <1>2, Basics DEF PublishUnknown, IsNextId
    <2>2. [key |-> NoKey, status |-> "queued"] # NoTask
      BY Basics DEF NoTask
    <2>3. /\ tasks'[t].key = NoKey /\ tasks'[t].status = "queued" /\ Recorded' = Recorded \cup {t}
          /\ \A u \in TaskIds : u # t => tasks'[u] = tasks[u]
      BY <1>2, <1>a, <2>1, <2>2 DEF PublishUnknown, StoreTypes, Recorded
    <2> QED
      BY <2>1, <2>3, NewTask
  <1>3. ASSUME NEW w \in Workers, Claim(w) PROVE UNCHANGED Promise!jvars
    <2>1. held[w] \in Recorded /\ held[w] \in TaskIds /\ Status(held[w]) = "queued"
      BY <1>3, <1>a, Names DEF Claim, Claimable, Holds, EmptyHanded, Recorded
    <2>2. /\ Recorded' = Recorded
          /\ \A u \in TaskIds : tasks'[u].key = tasks[u].key
          /\ tasks'[held[w]].status = "running"
          /\ \A u \in TaskIds : u # held[w] => tasks'[u].status = tasks[u].status
      BY <1>3, <1>a, <2>1, SetStatusKeeps, Basics DEF Claim, Status
    <2>3. Finished' = Finished /\ starts' = starts
      BY <1>3, <2>1, <2>2, Basics DEF Finished, Status, Claim, Recorded
    <2> QED
      BY <1>a, <2>2, <2>3, SameTasks
  <1>4. ASSUME NEW p \in Processes, StartWork(p) PROVE Promise!JobNext
    <2>1. held[p] \in Recorded /\ held[p] \in TaskIds /\ starts[held[p]] = 0
      BY <1>4, <1>a DEF StartWork, Holds, EmptyHanded, JobInv, StartsFit, Recorded
    <2>2. /\ starts'[held[p]] = 1 /\ \A u \in TaskIds : u # held[p] => starts'[u] = starts[u]
          /\ tasks' = tasks
      BY <1>4, <1>a, <2>1 DEF StartWork, StoreTypes
    <2> QED
      BY <2>1, <2>2, Started
  <1>5. ASSUME NEW p \in Processes, SaveOutcome(p) \/ SaveFailed(p)
        PROVE  Promise!JobNext \/ UNCHANGED Promise!jvars
    <2>1. held[p] \in Recorded /\ held[p] \in TaskIds /\ starts' = starts
      BY <1>5, <1>a DEF SaveOutcome, SaveFailed, Holds, EmptyHanded, Recorded
    <2>2. PICK status \in Terminal : SetStatus(held[p], status)
      BY <1>5 DEF SaveOutcome, SaveFailed, Terminal
    <2>3. /\ Recorded' = Recorded
          /\ \A u \in TaskIds : tasks'[u].key = tasks[u].key
          /\ tasks'[held[p]].status = status
          /\ \A u \in TaskIds : u # held[p] => tasks'[u].status = tasks[u].status
      BY <1>a, <2>1, <2>2, SetStatusKeeps, Basics DEF Status
    <2> QED
      BY <2>1, <2>2, <2>3, GotOutcome
  <1>6. ASSUME UNCHANGED <<tasks, starts>> PROVE UNCHANGED Promise!jvars
    BY <1>6, Unseen
  <1>7. ASSUME NEW r \in Requests, AskExtraction(r) \/ AskReview(r) PROVE UNCHANGED <<tasks, starts>>
    BY <1>7 DEF AskExtraction, AskReview, Ask, store
  <1>8. ASSUME NEW r \in Requests, ListTasks(r) \/ OutOfTasks(r) \/ ReplayTask(r) \/ Dispatch(r) \/ DispatchFails(r)
        PROVE UNCHANGED <<tasks, starts>>
    BY <1>8 DEF ListTasks, OutOfTasks, ReplayTask, Dispatch, DispatchFails, store
  <1>9. ASSUME NEW w \in Workers,
               (\E t \in TaskIds : Deliver(w, t)) \/ AlreadyClaimed(w) \/ ClaimFails(w) \/ Report(w) \/ ReportFails(w)
        PROVE UNCHANGED <<tasks, starts>>
    BY <1>9 DEF Deliver, AlreadyClaimed, ClaimFails, Report, ReportFails, store
  <1>10. ASSUME NEW p \in Processes, WriteResults(p) \/ WorkFails(p) \/ Die(p)
        PROVE UNCHANGED <<tasks, starts>>
    BY <1>10 DEF WriteResults, WorkFails, Die, store
  <1>11. CASE UNCHANGED vars
    BY <1>11, <1>6 DEF vars, store
  <1> QED
    BY <1>1, <1>2, <1>3, <1>4, <1>5, <1>6, <1>7, <1>8, <1>9, <1>10, <1>11, Names
       DEF Next, RequestStep, WorkerStep, Execute

(* JobsKeepPromise.  Whatever is redelivered, retried, raced for or half   *)
(* failed, the work behind a key starts at most once and a finished task   *)
(* is not reopened.                                                        *)
THEOREM JobsKeepPromise == Spec => KeepsJobPromise
  <1>1. Init => Promise!JobInit
    <2> SUFFICES ASSUME Init PROVE Promise!JobInit
      OBVIOUS
    <2>1. Recorded = {} /\ \A t \in TaskIds : starts[t] = 0
      BY DEF Init, Recorded
    <2>2. StartsMade = {}
      BY <2>1 DEF StartsMade
    <2> QED
      BY <2>1, <2>2 DEF Promise!JobInit, KeysWith
  <1> QED
    BY <1>1, PromiseStep, JobInvAlways, PTL DEF Spec, KeepsJobPromise, Promise!JobSpec

-----------------------------------------------------------------------------
(* Losses *)

Orphans == {t \in TaskIds : Unattended(t)}

(* StaysAttended.  A step of one process that makes a task RUNNING only by *)
(* attending to it, and stops attending to a RUNNING task only when it no  *)
(* longer is, leaves no task behind.                                       *)
LEMMA StaysAttended ==
  ASSUME NEW p \in Processes, Alone(p),
         \A t \in TaskIds : tasks'[t].status = "running" =>
            \/ tasks[t].status = "running"
            \/ p \in Workers /\ t = held'[p] /\ phase'[p] \in Attending,
         p \in Workers /\ phase[p] \in Attending =>
            \/ phase'[p] \in Attending /\ held'[p] = held[p]
            \/ tasks'[held[p]].status # "running"
  PROVE  Orphans' \subseteq Orphans
  <1> SUFFICES ASSUME NEW t \in TaskIds, tasks'[t].status = "running",
                      \A w \in Workers : phase'[w] \in Attending => held'[w] # t
               PROVE  /\ tasks[t].status = "running"
                      /\ \A w \in Workers : phase[w] \in Attending => held[w] # t
    BY DEF Orphans, Unattended, Status
  <1>1. tasks[t].status = "running"
    OBVIOUS
  <1>2. ASSUME NEW w \in Workers, phase[w] \in Attending, held[w] = t PROVE FALSE
    <2>1. w \in Processes
      BY Names
    <2>2. CASE w = p
      BY <1>2, <2>2
    <2>3. CASE w # p
      BY <1>2, <2>1, <2>3 DEF Alone
    <2> QED
      BY <2>2, <2>3
  <1> QED
    BY <1>1, <1>2

(* TasksKeptAttended.  The same for a step that changes no task.           *)
LEMMA TasksKeptAttended ==
  ASSUME NEW p \in Processes, Alone(p), tasks' = tasks,
         phase[p] \in Attending => phase'[p] \in Attending /\ held'[p] = held[p]
  PROVE  Orphans' \subseteq Orphans
  BY StaysAttended

(* OrphanStep.  Only a step that is counted as a loss leaves a task        *)
(* RUNNING with nobody to attend to it, and then one.                      *)
LEMMA OrphanStep ==
  ASSUME JobInv, [Next]_vars
  PROVE  \/ Orphans' \subseteq Orphans /\ losses' \in {losses, losses + 1}
         \/ \E t \in TaskIds : Orphans' \subseteq Orphans \cup {t} /\ losses' = losses + 1
  <1> DEFINE Goal == \/ Orphans' \subseteq Orphans /\ losses' \in {losses, losses + 1}
                     \/ \E t \in TaskIds : /\ Orphans' \subseteq Orphans \cup {t}
                                           /\ losses' = losses + 1
  <1>a. TypeOK /\ ProcessTypes /\ StoreTypes /\ \A p \in Processes : Holds(p)
    BY TypeParts DEF JobInv
  <1>b. losses \in Nat /\ Attending = {"claimed", "working", "written", "failing"}
    BY <1>a DEF StoreTypes, Attending
  <1>1. ASSUME NEW r \in Requests, AskExtraction(r) \/ AskReview(r) \/ ListTasks(r)
                                   \/ OutOfTasks(r) \/ ReplayTask(r) \/ Dispatch(r)
                                   \/ DispatchFails(r)
        PROVE  Goal
    <2>1. tasks' = tasks /\ losses' \in {losses, losses + 1}
      BY <1>1, <1>b DEF AskExtraction, AskReview, Ask, ListTasks, OutOfTasks, ReplayTask,
         Dispatch, DispatchFails, store, Lose
    <2>2. Alone(r)
      <3>1. CASE AskExtraction(r) \/ AskReview(r) \/ ListTasks(r)
        BY <3>1, <1>a, Names DEF AskExtraction, AskReview, Ask, ListTasks, Goto, ProcessTypes, Alone
      <3>2. CASE OutOfTasks(r) \/ Dispatch(r) \/ DispatchFails(r)
        BY <3>2, <1>a, Names, LeaveAlone DEF OutOfTasks, Dispatch, DispatchFails
      <3>3. CASE ReplayTask(r)
        BY <3>3, <1>a, Names DEF ReplayTask, Goto, Leave, ProcessTypes, Alone
      <3> QED
        BY <1>1, <3>1, <3>2, <3>3
    <2>3. Orphans' \subseteq Orphans
      BY <2>1, <2>2, StaysAttended, Names
    <2> QED
      BY <2>1, <2>3
  <1>2. ASSUME NEW r \in Requests, CreateTask(r) PROVE Goal
    <2>1. PICK t \in TaskIds :
            /\ tasks' = [tasks EXCEPT ![t] = [key |-> wants[r], status |-> "queued"]]
            /\ held' = [held EXCEPT ![r] = t]
      BY <1>2 DEF CreateTask
    <2>2. Alone(r) /\ losses' = losses
      BY <1>2, <1>a, <2>1, Names DEF CreateTask, Goto, ProcessTypes, Alone
    <2>3. \A u \in TaskIds : tasks'[u].status = "running" => tasks[u].status = "running"
      BY <1>a, <2>1 DEF StoreTypes
    <2> QED
      BY <2>2, <2>3, StaysAttended, Names
  <1>3. ASSUME NEW t \in TaskIds, PublishUnknown(t) PROVE Goal
    <2>1. /\ losses' = losses /\ phase' = phase /\ held' = held
          /\ tasks' = [tasks EXCEPT ![t] = [key |-> NoKey, status |-> "queued"]]
      BY <1>3 DEF PublishUnknown, process
    <2>2. \A u \in TaskIds : tasks'[u].status = "running" => tasks[u].status = "running"
      BY <1>a, <2>1 DEF StoreTypes
    <2> QED
      BY <2>1, <2>2 DEF Orphans, Unattended, Status
  <1>4. ASSUME NEW w \in Workers, (\E t \in TaskIds : Deliver(w, t)) \/ AlreadyClaimed(w)
                                  \/ ClaimFails(w) \/ Report(w) \/ ReportFails(w)
        PROVE  Goal
    <2>1. tasks' = tasks /\ losses' \in {losses, losses + 1} /\ phase[w] \notin Attending
      BY <1>4, <1>b DEF Deliver, AlreadyClaimed, ClaimFails, Report, ReportFails, store, Lose
    <2>2. Alone(w)
      BY <1>4, <1>a, Names DEF Deliver, AlreadyClaimed, ClaimFails, Report, ReportFails,
         Goto, Leave, ProcessTypes, Alone
    <2> QED
      BY <2>1, <2>2, TasksKeptAttended, Names
  <1>5. ASSUME NEW w \in Workers, Claim(w) PROVE Goal
    <2>1. /\ losses' = losses /\ phase'[w] = "claimed" /\ phase[w] = "delivered"
          /\ held' = held /\ Alone(w)
      BY <1>5, <1>a, Names DEF Claim, Goto, ProcessTypes, Alone
    <2>2. held[w] \in Recorded
      BY <1>a, <2>1, Names DEF Holds, EmptyHanded
    <2>3. \A u \in TaskIds : u # held[w] => tasks'[u].status = tasks[u].status
      BY <1>5, <1>a, <2>2, SetStatusKeeps, Basics DEF Claim, Status
    <2> QED
      BY <1>b, <2>1, <2>3, StaysAttended, Names
  <1>6. ASSUME NEW p \in Processes, StartWork(p) \/ WriteResults(p) \/ WorkFails(p) PROVE Goal
    <2>1. tasks' = tasks /\ losses' = losses /\ held' = held
      BY <1>6 DEF StartWork, WriteResults, WorkFails, store
    <2>2. Alone(p) /\ phase'[p] \in Attending
      BY <1>6, <1>a, <1>b, <2>1 DEF StartWork, WriteResults, WorkFails, Goto, ProcessTypes, Alone
    <2> QED
      BY <2>1, <2>2, TasksKeptAttended
  <1>7. ASSUME NEW p \in Processes, SaveOutcome(p) \/ SaveFailed(p) PROVE Goal
    <2>1. losses' = losses /\ held[p] \in Recorded /\ held[p] \in TaskIds
      BY <1>7, <1>a DEF SaveOutcome, SaveFailed, Holds, EmptyHanded, Recorded
    <2>2. Alone(p)
      BY <1>7, <1>a, LeaveAlone DEF SaveOutcome, SaveFailed, Goto, ProcessTypes, Alone
    <2>3. PICK status \in Terminal : SetStatus(held[p], status)
      BY <1>7 DEF SaveOutcome, SaveFailed, Terminal
    <2>4. /\ tasks'[held[p]].status \in Terminal
          /\ \A u \in TaskIds : u # held[p] => tasks'[u].status = tasks[u].status
      BY <1>a, <2>1, <2>3, SetStatusKeeps, Basics DEF Status
    <2> QED
      BY <2>1, <2>2, <2>4, StaysAttended, Basics
  <1>8. ASSUME NEW p \in Processes, Die(p) PROVE Goal
    <2>1. tasks' = tasks /\ losses' = losses + 1 /\ Alone(p)
      BY <1>8, <1>a, LeaveAlone DEF Die, store, Lose
    <2>2. CASE held[p] \in TaskIds
      <3>1. Orphans' \subseteq Orphans \cup {held[p]}
        <4> SUFFICES ASSUME NEW t \in TaskIds, t # held[p], tasks[t].status = "running",
                            \A w \in Workers : phase'[w] \in Attending => held'[w] # t
                     PROVE  \A w \in Workers : phase[w] \in Attending => held[w] # t
          BY <2>1 DEF Orphans, Unattended, Status
        <4> QED
          BY <2>1, Names DEF Alone
      <3> QED
        BY <2>1, <2>2, <3>1
    <2>3. CASE held[p] \notin TaskIds
      <3>1. phase[p] \notin Attending
        BY <1>a, <1>b, <2>3 DEF Holds, EmptyHanded, Recorded
      <3> QED
        BY <2>1, <3>1, TasksKeptAttended
    <2> QED
      BY <2>2, <2>3
  <1>9. CASE UNCHANGED vars
    BY <1>9 DEF vars, store, process, Orphans, Unattended, Status
  <1> QED
    BY <1>1, <1>2, <1>3, <1>4, <1>5, <1>6, <1>7, <1>8, <1>9, Names
       DEF Next, RequestStep, WorkerStep, Execute

(* LossesCounted.  A RUNNING task that nobody works on was left by a       *)
(* process that died: there are never more of them than losses.            *)
THEOREM LossesCounted == Spec => []UnattendedOnlyByLoss
  <1> DEFINE Bounded == Cardinality(Orphans) =< losses
  <1>1. IsFiniteSet(TaskIds) /\ \A S \in SUBSET TaskIds : IsFiniteSet(S) /\ Cardinality(S) \in Nat
    <2>1. IsFiniteSet(TaskIds)
      <3>1. 1 \in Int /\ MaxTasks \in Int
        OBVIOUS
      <3> QED
        BY <3>1, FS_Interval DEF TaskIds
    <2>2. ASSUME NEW S \in SUBSET TaskIds PROVE IsFiniteSet(S)
      BY <2>1, FS_Subset
    <2> QED
      BY <2>1, <2>2, FS_CardinalityType
  <1>2. Init => Bounded
    <2> SUFFICES ASSUME Init PROVE Bounded
      OBVIOUS
    <2>1. Orphans = {}
      BY DEF Init, Orphans, Unattended, Status, NoTask
    <2> QED
      BY <2>1, FS_EmptySet DEF Init
  <1>3. JobInv /\ Bounded /\ [Next]_vars => Bounded'
    <2> SUFFICES ASSUME JobInv, Bounded, [Next]_vars PROVE Bounded'
      OBVIOUS
    <2>1. losses \in Nat
      BY DEF JobInv, TypeOK
    <2>2. /\ IsFiniteSet(Orphans) /\ Cardinality(Orphans) \in Nat
          /\ IsFiniteSet(Orphans') /\ Cardinality(Orphans') \in Nat
      BY <1>1 DEF Orphans
    <2>3. CASE Orphans' \subseteq Orphans /\ losses' \in {losses, losses + 1}
      <3>1. Cardinality(Orphans') =< Cardinality(Orphans)
        BY <2>2, <2>3, FS_Subset
      <3> QED
        BY <2>1, <2>2, <2>3, <3>1
    <2>4. ASSUME NEW t \in TaskIds, Orphans' \subseteq Orphans \cup {t}, losses' = losses + 1
          PROVE  Bounded'
      <3>1. /\ IsFiniteSet(Orphans \cup {t})
            /\ Cardinality(Orphans \cup {t}) =< Cardinality(Orphans) + 1
            /\ Cardinality(Orphans \cup {t}) \in Nat
        <4>1. /\ IsFiniteSet(Orphans \cup {t})
              /\ \/ Cardinality(Orphans \cup {t}) = Cardinality(Orphans)
                 \/ Cardinality(Orphans \cup {t}) = Cardinality(Orphans) + 1
          BY <2>2, FS_AddElement
        <4> QED
          BY <2>2, <4>1
      <3>2. Cardinality(Orphans') =< Cardinality(Orphans \cup {t})
        BY <2>4, <3>1, FS_Subset
      <3> QED
        BY <2>1, <2>2, <2>4, <3>1, <3>2
    <2> QED
      BY <2>3, <2>4, OrphanStep
  <1>4. Bounded => UnattendedOnlyByLoss
    BY DEF Orphans, UnattendedOnlyByLoss
  <1> HIDE DEF Bounded
  <1> QED
    BY <1>2, <1>3, <1>4, JobInvAlways, PTL DEF Spec

=============================================================================

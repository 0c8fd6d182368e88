----------------------------- MODULE PolicyLoop -----------------------------
(***************************************************************************)
(* The policy loop of workers/policy: a refresh compares the source page   *)
(* with the text it stored last and drafts a proposal; an administrator    *)
(* publishes the proposal as the next snapshot, whose policy.updated event *)
(* waits in an outbox; a consumer flags the projects that rest on older    *)
(* rules and recalculates provisional tiers.                               *)
(*                                                                         *)
(* There are two wirings.  "inline" is the API process: refreshes and      *)
(* publications share one event loop, and the request that publishes hands *)
(* the pending events to the consumer itself; discards run in a thread     *)
(* pool beside it, over dictionaries without a lock.  "pubsub" is the      *)
(* cloud runtime: several processes over Firestore, a dispatcher that      *)
(* publishes the events, and a topic that delivers each at least once, in  *)
(* any order.                                                              *)
(*                                                                         *)
(* Meanwhile people work on the projects, in threads of the pool as well.  *)
(* Whoever changes a project, the consumer included, reads the whole of it *)
(* and saves the whole of it later, over what it has become.               *)
(*                                                                         *)
(* A step is one transaction, or what one thread does between two of its   *)
(* accesses to what others write.  Snapshots take effect in the order of   *)
(* their versions, and every version is effective when it is published.    *)
(***************************************************************************)
EXTENDS Naturals, Sequences, FiniteSets

CONSTANTS
    Runs,           \* refresh runs; each drafts at most one proposal
    Texts,          \* what the source page may say
    Drafts,         \* what the model may propose: [impact, p3]
    Threads,        \* requests of administrators, deliveries of the topic
    Projects,       \* numbers of projects, in the order they were created
    Busy,           \* bound: the projects people work on meanwhile, one
                    \* request at a time
    PageLimit,      \* how many projects the consumer looks at
    MostSaves,      \* how often a request saves its copy: 3 in the code
    MaxVersion,     \* bound: snapshots, the seed included
    MaxLosses       \* bound: exceptions while handling, deaths of a process

ImpactNodes == {"D1b", "D1c", "C1-a"}

ASSUME PolicyConstants ==
    /\ Drafts \subseteq [impact : (SUBSET ImpactNodes) \ {{}}, p3 : {"keep", "on", "off"}]
    /\ Projects \subseteq Nat /\ Busy \subseteq Projects
    /\ PageLimit \in Nat
    /\ MostSaves \in Nat \ {0}
    /\ MaxVersion \in Nat \ {0}
    /\ MaxLosses \in Nat

VARIABLES
    wiring,
    runs,           \* run -> its record and how far its execution has come
    source,         \* the text the source state points to
    proposals,      \* run -> the proposal it created
    copied,         \* inline: the proposals, as a publication has copied them
    discarding,     \* inline: runs whose proposal is about to be discarded
    snapshots,      \* the snapshots, by version
    outbox,         \* version -> state of its outbox row
    topic,          \* versions whose event was published to the topic
    receipts,       \* versions the consumer has a receipt for
    recalcs,        \* version and project -> state of the recalculation
    threads,        \* thread -> what it is doing
    project,        \* the projects, as far as policy is concerned
    requests,       \* project -> what a request will save of it
    heard,          \* timeline entries policy.stale: version and project
    losses

refresh == <<runs, source>>
discards == <<copied, discarding>>
policy == <<proposals, discards, snapshots, outbox, topic>>
consumer == <<receipts, recalcs>>
product == <<project, requests, heard>>
vars == <<wiring, refresh, policy, consumer, threads, product, losses>>

-----------------------------------------------------------------------------

Versions == 1..MaxVersion
Latest == Len(snapshots)
NoText == "no text"
Nobody == "nobody"

PolicyRun ==
    [status : {"none", "running", "no_change", "proposal_created", "failed"},
     at : {"nowhere", "fetching", "comparing", "drafting"},
     text : Texts \cup {NoText}]
NoRun == [status |-> "none", at |-> "nowhere", text |-> NoText]

NoDraft == [impact |-> {}, p3 |-> "keep"]
PolicyProposal ==
    [status : {"none", "pending", "published", "discarded"},
     draft : Drafts \cup {NoDraft}, version : 0..MaxVersion]
NoProposal == [status |-> "none", draft |-> NoDraft, version |-> 0]

PolicySnapshot ==
    [from : Runs \cup {Nobody}, impact : SUBSET ImpactNodes, thresholds : BOOLEAN]

(* The snapshot the answer is pinned to, 0 without one; policy_stale; and, *)
(* as history, the latest snapshot when this answer was put on record.     *)
(* Whether the tier is provisional and whether the form is frozen is not   *)
(* kept: either may be the case.                                           *)
Project == [version : 0..MaxVersion, stale : BOOLEAN, since : 0..MaxVersion]
NewProject == [version |-> 0, stale |-> FALSE, since |-> 0]
OldProject == [version |-> 1, stale |-> FALSE, since |-> 1]

(* A project as the consumer listed it. *)
Row == [p : Projects, version : Versions]

Idle == [at |-> "idle", proposal |-> Nobody, version |-> 0, queue |-> {}, page |-> {}]
(* The version is the one a publication will create, or that of the answer *)
(* the consumer has read and is about to save again.                       *)
Thread ==
    [at : {"idle", "publishing", "committing", "swapping", "committed", "fanning", "sent",
           "handling", "marking", "marked", "recalculating", "resaving", "completing",
           "handled"},
     proposal : Runs \cup {Nobody}, version : 0..MaxVersion,
     queue : SUBSET Versions, page : SUBSET Row]

(* What a request in progress will save, how often, and whether the answer *)
(* is a new one.                                                           *)
NoRequest == [saves |-> 0, new |-> FALSE, version |-> 0, stale |-> FALSE]
Request == [saves : 0..MostSaves, new : BOOLEAN, version : 0..MaxVersion, stale : BOOLEAN]

Init ==
    /\ wiring \in {"inline", "pubsub"}
    /\ runs = [r \in Runs |-> NoRun]
    /\ source \in Texts \cup {NoText}
    /\ proposals = [r \in Runs |-> NoProposal]
    /\ copied = [r \in Runs |-> NoProposal]
    /\ discarding = {}
    /\ snapshots = <<[from |-> Nobody, impact |-> {}, thresholds |-> FALSE]>>
    /\ outbox = [v \in Versions |-> "none"]
    /\ topic = {}
    /\ receipts = {}
    /\ recalcs = [key \in Versions \X Projects |-> "none"]
    /\ threads = [a \in Threads |-> Idle]
    /\ project \in [Projects -> {NewProject, OldProject}]
    /\ requests = [p \in Projects |-> NoRequest]
    /\ heard = {}
    /\ losses = 0

Least(S) == CHOOSE v \in S : \A w \in S : v <= w

-----------------------------------------------------------------------------
(* Refreshes *)

(* What shares the event loop of the API process waits for the publication *)
(* in hand: it never gives the loop up before it is done.                  *)
LoopFree == wiring = "inline" => \A b \in Threads : threads[b].at = "idle"

LaunchRun(r) ==
    /\ LoopFree
    /\ runs[r].status = "none"
    /\ runs' = [runs EXCEPT ![r] = [@ EXCEPT !.status = "running", !.at = "fetching"]]
    /\ UNCHANGED <<wiring, source, policy, consumer, threads, product, losses>>

FinishRun(r, status) ==
    runs' = [runs EXCEPT ![r] = [NoRun EXCEPT !.status = status]]

(* The first text of a source, and one equal to the stored one, is no      *)
(* change; for another the model is asked.                                 *)
IsChange(t) == source \notin {NoText, t}

(* Mutant: the source state is saved as soon as the page has been read. *)
FetchAndStore(r, t) ==
    /\ LoopFree
    /\ runs[r].at = "fetching" /\ IsChange(t)
    /\ runs' = [runs EXCEPT ![r].text = t, ![r].at = "drafting"]
    /\ source' = t
    /\ UNCHANGED <<wiring, policy, consumer, threads, product, losses>>

FetchChange(r, t) ==
    /\ LoopFree
    /\ runs[r].at = "fetching" /\ IsChange(t)
    /\ runs' = [runs EXCEPT ![r].text = t, ![r].at = "drafting"]
    /\ UNCHANGED <<wiring, source, policy, consumer, threads, product, losses>>

(* Nothing is awaited between reading the source state and saving it: on   *)
(* one event loop the two are one step.                                    *)
FetchNoChange(r, t) ==
    /\ LoopFree
    /\ runs[r].at = "fetching" /\ ~IsChange(t)
    /\ IF wiring = "inline"
       THEN FinishRun(r, "no_change") /\ source' = t
       ELSE /\ runs' = [runs EXCEPT ![r].text = t, ![r].at = "comparing"]
            /\ UNCHANGED source
    /\ UNCHANGED <<wiring, policy, consumer, threads, product, losses>>

CommitNoChange(r) ==
    /\ LoopFree
    /\ runs[r].at = "comparing"
    /\ FinishRun(r, "no_change")
    /\ source' = runs[r].text
    /\ UNCHANGED <<wiring, policy, consumer, threads, product, losses>>

CommitProposal(r, draft) ==
    /\ LoopFree
    /\ runs[r].at = "drafting"
    /\ FinishRun(r, "proposal_created")
    /\ source' = runs[r].text
    /\ proposals' = [proposals EXCEPT ![r] =
            [status |-> "pending", draft |-> draft, version |-> 0]]
    /\ UNCHANGED <<wiring, discards, snapshots, outbox, topic, consumer, threads, product, losses>>

FailRun(r) ==
    /\ LoopFree
    /\ runs[r].at # "nowhere"
    /\ FinishRun(r, "failed")
    /\ UNCHANGED <<wiring, source, policy, consumer, threads, product, losses>>

-----------------------------------------------------------------------------
(* Publication *)

Goto(a, at) == threads' = [threads EXCEPT ![a].at = at]
Leave(a) == threads' = [threads EXCEPT ![a] = Idle]

ReadProposal(a, r) ==
    /\ LoopFree /\ threads[a].at = "idle"
    /\ proposals[r].status = "pending"
    /\ threads' = [threads EXCEPT ![a] = [@ EXCEPT !.at = "publishing", !.proposal = r]]
    /\ UNCHANGED <<wiring, refresh, policy, consumer, product, losses>>

(* The next version follows the latest snapshot there is now. *)
ReadLatest(a) ==
    /\ threads[a].at = "publishing"
    /\ Latest < MaxVersion
    /\ threads' = [threads EXCEPT ![a] = [@ EXCEPT !.at = "committing", !.version = Latest + 1]]
    /\ UNCHANGED <<wiring, refresh, policy, consumer, product, losses>>

(* The merged packs are not a valid snapshot, or the bound is reached. *)
RefusePublication(a) ==
    /\ threads[a].at = "publishing"
    /\ Leave(a)
    /\ UNCHANGED <<wiring, refresh, policy, consumer, product, losses>>

(* The packs of the latest snapshot, updated with those of the draft. *)
NextSnapshot(r) ==
    LET draft == proposals[r].draft IN
    [from |-> r, impact |-> draft.impact, thresholds |->
        IF draft.p3 = "keep" THEN snapshots[Latest].thresholds ELSE draft.p3 = "on"]

(* Mutant: only the version is checked, not that the proposal is still     *)
(* pending.                                                                *)
VersionFree(r, v) == Latest < v /\ outbox[v] = "none"

Publishable(r, v) ==
    /\ proposals[r].status = "pending"
    /\ Latest < v
    /\ outbox[v] = "none"

(* What a publication writes, over the proposals it has read. *)
Publish(a, read) ==
    LET r == threads[a].proposal  v == threads[a].version IN
    /\ proposals' = [read EXCEPT ![r] = [@ EXCEPT !.status = "published", !.version = v]]
    /\ snapshots' = Append(snapshots, NextSnapshot(r))
    /\ outbox' = [outbox EXCEPT ![v] = "pending"]
    /\ Goto(a, "committed")
    /\ UNCHANGED <<wiring, refresh, discarding, topic, consumer, product, losses>>

(* Firestore checks and writes in one transaction. *)
CommitPublication(a) ==
    /\ wiring = "pubsub" /\ threads[a].at = "committing"
    /\ Publishable(threads[a].proposal, threads[a].version)
    /\ Publish(a, proposals)
    /\ UNCHANGED copied

(* In the API process the dictionary of proposals is copied, and the copy  *)
(* put in its place later.                                                 *)
CopyProposals(a) ==
    /\ wiring = "inline" /\ threads[a].at = "committing"
    /\ Publishable(threads[a].proposal, threads[a].version)
    /\ copied' = proposals
    /\ Goto(a, "swapping")
    /\ UNCHANGED <<wiring, refresh, proposals, discarding, snapshots, outbox, topic,
                   consumer, product, losses>>

SwapProposals(a) ==
    /\ threads[a].at = "swapping"
    /\ Publish(a, copied)
    /\ copied' = [r \in Runs |-> NoProposal]

PublicationConflict(a) ==
    /\ threads[a].at = "committing"
    /\ ~Publishable(threads[a].proposal, threads[a].version)
    /\ Leave(a)
    /\ UNCHANGED <<wiring, refresh, policy, consumer, product, losses>>

DiscardProposal(r) ==
    proposals' = [proposals EXCEPT ![r] = [@ EXCEPT !.status = "discarded", !.version = 0]]

Discard(r) ==
    /\ wiring = "pubsub" /\ proposals[r].status = "pending"
    /\ DiscardProposal(r)
    /\ UNCHANGED <<wiring, refresh, discards, snapshots, outbox, topic, consumer, threads,
                   product, losses>>

(* In the API process the proposal is looked at, and overwritten later, by *)
(* a thread of the pool.                                                   *)
CheckDiscard(r) ==
    /\ wiring = "inline" /\ proposals[r].status = "pending"
    /\ discarding' = discarding \cup {r}
    /\ UNCHANGED <<wiring, refresh, proposals, copied, snapshots, outbox, topic, consumer,
                   threads, product, losses>>

WriteDiscard(r) ==
    /\ r \in discarding
    /\ DiscardProposal(r)
    /\ discarding' = discarding \ {r}
    /\ UNCHANGED <<wiring, refresh, copied, snapshots, outbox, topic, consumer, threads,
                   product, losses>>

-----------------------------------------------------------------------------
(* Delivery *)

(* Mutant: only the row of this publication is looked for. *)
NewestRow == {v \in {Latest} : outbox[v] = "pending"}

PendingRows == {v \in 2..Latest : outbox[v] = "pending"}

(* The request that has published looks for pending rows, of this and of   *)
(* earlier publications; MaxVersion is less than the twenty it would take. *)
ListOutbox(a) ==
    /\ threads[a].at = "committed"
    /\ threads' = [threads EXCEPT ![a] = [Idle EXCEPT !.at = "fanning", !.queue = PendingRows]]
    /\ UNCHANGED <<wiring, refresh, policy, consumer, product, losses>>

EndFanOut(a) ==
    /\ threads[a].at = "fanning" /\ threads[a].queue = {}
    /\ Leave(a)
    /\ UNCHANGED <<wiring, refresh, policy, consumer, product, losses>>

Event(a) == Least(threads[a].queue)

(* OutboxDispatcher: the event is published, then its row is marked.  An   *)
(* exception of either leaves the row and goes on to the next.             *)
NextRow(a) ==
    threads' = [threads EXCEPT ![a] =
        [@ EXCEPT !.at = "fanning", !.queue = threads[a].queue \ {Event(a)}]]

PublishEvent(a) ==
    /\ wiring = "pubsub" /\ threads[a].at = "fanning" /\ threads[a].queue # {}
    /\ topic' = topic \cup {Event(a)}
    /\ Goto(a, "sent")
    /\ UNCHANGED <<wiring, refresh, proposals, discards, snapshots, outbox, consumer, product, losses>>

PublishEventFails(a) ==
    /\ wiring = "pubsub" /\ threads[a].at = "fanning" /\ threads[a].queue # {}
    /\ losses < MaxLosses /\ losses' = losses + 1
    /\ NextRow(a)
    /\ UNCHANGED <<wiring, refresh, policy, consumer, product>>

(* A row another dispatcher has marked is left as it is. *)
MarkPublished(a) ==
    /\ threads[a].at = "sent"
    /\ outbox' = [outbox EXCEPT ![Event(a)] = "sent"]
    /\ NextRow(a)
    /\ UNCHANGED <<wiring, refresh, proposals, discards, snapshots, topic, consumer, product, losses>>

-----------------------------------------------------------------------------
(* The consumer *)

(* Mutant: the page ends one project early. *)
PageShort(listed) ==
    {p \in listed : Cardinality({q \in listed : q < p}) + 1 < PageLimit}

(* The first projects in store order. *)
Page(listed) ==
    {p \in listed : Cardinality({q \in listed : q < p}) < PageLimit}

ListProjects ==
    {[p |-> p, version |-> project[p].version] :
        p \in Page({q \in Projects : project[q].version # 0})}

(* An event with a receipt is acknowledged and not looked at again. *)
Begin(a, v) ==
    threads' = [threads EXCEPT ![a] =
        [Idle EXCEPT !.at = IF v \in receipts THEN "handled" ELSE "handling",
                     !.queue = threads[a].queue \cup {v},
                     !.page = IF v \in receipts THEN {} ELSE ListProjects]]

HandleNext(a) ==
    /\ wiring = "inline" /\ threads[a].at = "fanning" /\ threads[a].queue # {}
    /\ Begin(a, Event(a))
    /\ UNCHANGED <<wiring, refresh, policy, consumer, product, losses>>

(* The topic may deliver an event again.  A delivery that has a receipt    *)
(* changes nothing.                                                        *)
Receive(a, v) ==
    /\ threads[a].at = "idle" /\ v \in topic \ receipts
    /\ Begin(a, v)
    /\ UNCHANGED <<wiring, refresh, policy, consumer, product, losses>>

(* The next project of the page, as it was listed. *)
Current(a) == CHOOSE row \in threads[a].page : \A other \in threads[a].page : row.p <= other.p
AtProject(a) == threads[a].at = "handling" /\ threads[a].page # {}
NextProject(a) ==
    threads' = [threads EXCEPT ![a] =
        [@ EXCEPT !.at = "handling", !.page = threads[a].page \ {Current(a)}]]

(* An earlier delivery has recalculated this project and did not get to    *)
(* record it.                                                              *)
Interrupted(a) ==
    /\ recalcs[<<Event(a), Current(a).p>>] = "started"
    /\ Current(a).version = Event(a)

Concerned(a) == ~Interrupted(a) /\ Current(a).version < Event(a)

RecordInterrupted(a) ==
    /\ AtProject(a) /\ Interrupted(a)
    /\ recalcs' = [recalcs EXCEPT ![<<Event(a), Current(a).p>>] = "completed"]
    /\ NextProject(a)
    /\ UNCHANGED <<wiring, refresh, policy, receipts, product, losses>>

PassBy(a) ==
    /\ AtProject(a) /\ ~Interrupted(a) /\ ~Concerned(a)
    /\ NextProject(a)
    /\ UNCHANGED <<wiring, refresh, policy, consumer, product, losses>>

(* Every classified project is exposed to every node of an impact; what    *)
(* the impact decides is whether a provisional tier is worked out again.   *)
MayRecalculate(v) == snapshots[v].thresholds /\ "D1c" \in snapshots[v].impact

(* An answer is on record from the save that puts it there: one that saves *)
(* a copy of it again changes nothing about that.                          *)
Since(p, version, new) ==
    IF version = 0 THEN 0
    ELSE IF new \/ version # project[p].version THEN Latest ELSE project[p].since

(* mark_policy_stale reads the project, saves it, and then records the     *)
(* event.                                                                  *)
ReadMark(a) ==
    /\ AtProject(a) /\ Concerned(a)
    /\ threads' = [threads EXCEPT ![a] =
            [@ EXCEPT !.at = "marking", !.version = project[Current(a).p].version]]
    /\ UNCHANGED <<wiring, refresh, policy, consumer, product, losses>>

SaveMark(a) ==
    LET p == Current(a).p  version == threads[a].version IN
    /\ threads[a].at = "marking"
    /\ project' = [project EXCEPT ![p] =
            [version |-> version, stale |-> TRUE, since |-> Since(p, version, FALSE)]]
    /\ threads' = [threads EXCEPT ![a] = [@ EXCEPT !.at = "marked", !.version = 0]]
    /\ UNCHANGED <<wiring, refresh, policy, consumer, requests, heard, losses>>

Record(a) ==
    /\ threads[a].at = "marked"
    /\ heard' = heard \cup {<<Event(a), Current(a).p>>}
    /\ UNCHANGED <<wiring, refresh, policy, receipts, project, requests, losses>>

MarkStale(a) == Record(a) /\ NextProject(a) /\ UNCHANGED recalcs

(* Mutant: the project is struck off the page before its tier has been     *)
(* worked out.                                                             *)
MarkAndStrike(a) ==
    /\ Record(a) /\ MayRecalculate(Event(a))
    /\ recalcs' = [recalcs EXCEPT ![<<Event(a), Current(a).p>>] = IF @ = "none" THEN "started" ELSE @]
    /\ threads' = [threads EXCEPT ![a].at = "recalculating",
                                  ![a].page = threads[a].page \ {Current(a)}]

(* The listed project is provisional as well. *)
MarkProvisional(a) ==
    /\ Record(a) /\ MayRecalculate(Event(a))
    /\ recalcs' = [recalcs EXCEPT ![<<Event(a), Current(a).p>>] = IF @ = "none" THEN "started" ELSE @]
    /\ Goto(a, "recalculating")

(* recalc_tier reads the project again.  A tier that is settled or filed   *)
(* by now is left alone.  If the answer is gone by now, or undetermined,   *)
(* the result has no place for its tier: an exception, HandlingFails.      *)
ReadRecalc(a) ==
    /\ threads[a].at = "recalculating" /\ project[Current(a).p].version # 0
    /\ threads' = [threads EXCEPT ![a] =
            [@ EXCEPT !.at = "resaving", !.version = project[Current(a).p].version]]
    /\ UNCHANGED <<wiring, refresh, policy, consumer, product, losses>>

RecalcTier(a) ==
    LET p == Current(a).p IN
    /\ threads[a].at = "resaving"
    /\ project' = [project EXCEPT ![p] =
            [version |-> Event(a), stale |-> FALSE, since |-> Since(p, threads[a].version, FALSE)]]
    /\ threads' = [threads EXCEPT ![a] = [@ EXCEPT !.at = "completing", !.version = 0]]
    /\ UNCHANGED <<wiring, refresh, policy, consumer, requests, heard, losses>>

RecalcRefused(a) ==
    /\ threads[a].at = "recalculating" /\ project[Current(a).p].version # 0
    /\ Goto(a, "completing")
    /\ UNCHANGED <<wiring, refresh, policy, consumer, product, losses>>

CompleteRecalc(a) ==
    /\ threads[a].at = "completing"
    /\ recalcs' = [recalcs EXCEPT ![<<Event(a), Current(a).p>>] = "completed"]
    /\ NextProject(a)
    /\ UNCHANGED <<wiring, refresh, policy, receipts, product, losses>>

PutReceipt(a) ==
    /\ threads[a].at = "handling" /\ threads[a].page = {}
    /\ receipts' = receipts \cup {Event(a)}
    /\ Goto(a, "handled")
    /\ UNCHANGED <<wiring, refresh, policy, recalcs, product, losses>>

(* Inline the row is marked only now, and the loop goes on to the next;    *)
(* a delivery of the topic ends.                                           *)
Acknowledged(a) ==
    /\ threads[a].at = "handled"
    /\ IF wiring = "inline"
       THEN NextRow(a) /\ outbox' = [outbox EXCEPT ![Event(a)] = "sent"]
       ELSE Leave(a) /\ UNCHANGED outbox
    /\ UNCHANGED <<wiring, refresh, proposals, discards, snapshots, topic, consumer, product, losses>>

(* The consumer is at work on its page. *)
InPage == {"handling", "marking", "marked", "recalculating", "resaving", "completing"}

(* Mutant: a delivery that ended in an exception counts as handled. *)
HandlingFailsForGood(a) ==
    /\ threads[a].at \in InPage
    /\ losses < MaxLosses /\ losses' = losses + 1
    /\ receipts' = receipts \cup {Event(a)}
    /\ Leave(a)
    /\ UNCHANGED <<wiring, refresh, policy, recalcs, product>>

(* An exception in the consumer ends the request, or the delivery. *)
HandlingFails(a) ==
    /\ threads[a].at \in InPage
    /\ losses < MaxLosses /\ losses' = losses + 1
    /\ Leave(a)
    /\ UNCHANGED <<wiring, refresh, policy, consumer, product>>

(* The processes of the cloud runtime die: what Firestore and the topic    *)
(* hold stays, refresh runs stay "running", the consumer forgets.          *)
Die ==
    /\ wiring = "pubsub"
    /\ losses < MaxLosses /\ losses' = losses + 1
    /\ threads' = [a \in Threads |-> Idle]
    /\ runs' = [r \in Runs |-> [runs[r] EXCEPT !.at = "nowhere"]]
    /\ receipts' = {}
    /\ recalcs' = [key \in Versions \X Projects |-> "none"]
    /\ requests' = [p \in Projects |-> NoRequest]
    /\ UNCHANGED <<wiring, source, policy, project, heard>>

-----------------------------------------------------------------------------
(* Work on the projects, in threads of its own *)

StartRequest(p, saves, new, version, stale) ==
    /\ requests[p].saves = 0
    /\ requests' = [requests EXCEPT ![p] =
            [saves |-> saves, new |-> new, version |-> version, stale |-> stale]]
    /\ UNCHANGED <<wiring, refresh, policy, consumer, threads, project, heard, losses>>

(* run_classification reads the project, and settles on the snapshot,      *)
(* before it asks the model.  It saves the answer, and its copy again with *)
(* each transition.                                                        *)
RunClassification(p) == StartRequest(p, MostSaves, TRUE, Latest, project[p].stale)

Reclassify(p) ==
    /\ project[p].stale /\ project[p].version # 0
    /\ StartRequest(p, 1, TRUE, Latest, FALSE)

(* begin_review_reanalysis takes the answer away. *)
Reanalyze(p) == StartRequest(p, 1, FALSE, 0, FALSE)

(* Everything else that saves a project leaves answer and flag as it has   *)
(* read them: the channels, the intent, a transition or several.           *)
Edit(p) == StartRequest(p, MostSaves, FALSE, project[p].version, project[p].stale)

(* The copy is saved over whatever the project has become. *)
SaveCopy(p) ==
    LET request == requests[p] IN
    /\ request.saves > 0
    /\ project' = [project EXCEPT ![p] =
            [version |-> request.version, stale |-> request.stale,
             since |-> Since(p, request.version, request.new)]]
    /\ requests' = [requests EXCEPT ![p] =
            IF request.saves = 1 THEN NoRequest
            ELSE [saves |-> request.saves - 1, new |-> FALSE,
                  version |-> request.version, stale |-> request.stale]]
    /\ UNCHANGED <<wiring, refresh, policy, consumer, threads, heard, losses>>

(* It is refused, it fails, or it has fewer saves to make. *)
EndRequest(p) ==
    /\ requests[p].saves > 0
    /\ requests' = [requests EXCEPT ![p] = NoRequest]
    /\ UNCHANGED <<wiring, refresh, policy, consumer, threads, project, heard, losses>>

-----------------------------------------------------------------------------

Refresh ==
    \E r \in Runs :
        \/ LaunchRun(r)
        \/ \E t \in Texts : FetchChange(r, t) \/ FetchNoChange(r, t)
        \/ CommitNoChange(r)
        \/ \E draft \in Drafts : CommitProposal(r, draft)
        \/ FailRun(r)

Administer ==
    \/ \E a \in Threads, r \in Runs : ReadProposal(a, r)
    \/ \E r \in Runs : Discard(r) \/ CheckDiscard(r) \/ WriteDiscard(r)

(* What a thread does once it has started. *)
Step(a) ==
    \/ ReadLatest(a) \/ CommitPublication(a) \/ CopyProposals(a) \/ SwapProposals(a)
    \/ PublicationConflict(a)
    \/ ListOutbox(a) \/ EndFanOut(a) \/ PublishEvent(a) \/ MarkPublished(a)
    \/ HandleNext(a)
    \/ RecordInterrupted(a) \/ PassBy(a)
    \/ ReadMark(a) \/ SaveMark(a) \/ MarkStale(a) \/ MarkProvisional(a)
    \/ ReadRecalc(a) \/ RecalcTier(a) \/ RecalcRefused(a) \/ CompleteRecalc(a) \/ PutReceipt(a) \/ Acknowledged(a)

Loss(a) == RefusePublication(a) \/ PublishEventFails(a) \/ HandlingFails(a)

Product ==
    \E p \in Busy :
        \/ RunClassification(p) \/ Reclassify(p) \/ Reanalyze(p) \/ Edit(p)
        \/ SaveCopy(p) \/ EndRequest(p)

Next ==
    \/ Refresh
    \/ Administer
    \/ \E a \in Threads : Step(a) \/ Loss(a) \/ \E v \in Versions : Receive(a, v)
    \/ Product
    \/ Die

Spec == Init /\ [][Next]_vars

-----------------------------------------------------------------------------
(* Types, and what the phases of a thread go with. *)
TypeOK ==
    /\ wiring \in {"inline", "pubsub"}
    /\ runs \in [Runs -> PolicyRun]
    /\ source \in Texts \cup {NoText}
    /\ proposals \in [Runs -> PolicyProposal]
    /\ copied \in [Runs -> PolicyProposal] /\ discarding \subseteq Runs
    /\ snapshots \in Seq(PolicySnapshot) /\ Latest \in Versions
    /\ outbox \in [Versions -> {"none", "pending", "sent"}]
    /\ topic \subseteq Versions
    /\ receipts \subseteq topic \cup 2..Latest
    /\ recalcs \in [Versions \X Projects -> {"none", "started", "completed"}]
    /\ threads \in [Threads -> Thread]
    /\ \A a \in Threads :
        /\ threads[a].queue \subseteq 2..Latest
        /\ threads[a].at \in InPage \cup {"sent", "handled"} => threads[a].queue # {}
        /\ threads[a].at \in InPage \ {"handling"} => threads[a].page # {}
    /\ project \in [Projects -> Project]
    /\ requests \in [Projects -> Request]
    /\ heard \subseteq Versions \X Projects
    /\ losses \in 0..MaxLosses

(* ChangeIsProposed.  In the API process, refreshes that overlap, fail or  *)
(* finish in another order never move the stored text of the source        *)
(* without a proposal about the new text in the same commit: no change of  *)
(* the page is taken for already dealt with.                               *)
ChangeIsProposed ==
    [][wiring = "inline" /\ source # NoText /\ source' # source =>
        \E r \in Runs :
            /\ proposals[r].status = "none" /\ proposals'[r].status = "pending"
            /\ runs[r].text = source']_vars

(* KeepsPolicyLedger.  Administrators who publish and discard at the same  *)
(* time, dispatchers that race and processes that die keep the ledger: no  *)
(* proposal becomes more than one version, always the next one, no version *)
(* is taken back, and its event is acknowledged once.  Over Firestore a    *)
(* proposal is decided once; in the API process a discard may be recorded  *)
(* of one that has been published, or undone by a publication.             *)
Ledger == INSTANCE PolicyLedger WITH
    Proposals <- Runs,
    transactional <- (wiring = "pubsub"),
    ledger <- [i \in 1..(Latest - 1) |-> snapshots[i + 1].from],
    discarded <- {r \in Runs : proposals[r].status = "discarded"},
    acknowledged <- {i \in 1..(Latest - 1) : outbox[i + 1] = "sent"}

KeepsPolicyLedger == Ledger!LedgerSpec

(* The event of v counts as delivered. *)
Delivered(v) == IF wiring = "inline" THEN outbox[v] = "sent" ELSE v \in receipts

(* AnnouncedToAll.  The project of an answer that has been on record since *)
(* before a version was published, and that is older than it, has been     *)
(* told of that version or of a later one once the version is delivered,   *)
(* whatever exceptions, deaths, repeated deliveries and people got in      *)
(* between.  In the API process, where events are handled in order, it has *)
(* been told of this very version; in the cloud a recalculation for an     *)
(* event that comes late takes a project back to rules older than some it  *)
(* was passed by for.  Only where nobody works on the project is it still  *)
(* flagged: a request that has read it before saves the flag away.  This   *)
(* is so of the projects that fit on the consumer's page however many      *)
(* there are: of the others nothing holds.                                 *)
FitsThePage(p) == Cardinality({q \in Projects : q < p}) < PageLimit
AnnouncedToAll ==
    \A v \in 2..Latest, p \in Projects :
        /\ FitsThePage(p)
        /\ Delivered(v)
        /\ project[p].version \in 1..(v - 1)
        /\ project[p].since < v
        => /\ \E w \in v..Latest : <<w, p>> \in heard
           /\ wiring = "inline" => <<v, p>> \in heard
           /\ wiring = "inline" /\ p \notin Busy => project[p].stale

(* NoEventLeftBehind.  Without a failure, every version has been sent once *)
(* nobody is at work on it.  After one "the next publish retries it"       *)
(* (admin_policy.py:175): in the API process an event that is sent leaves  *)
(* no older one pending.                                                   *)
NoEventLeftBehind ==
    /\ losses = 0 /\ (\A a \in Threads : threads[a].at = "idle") =>
            \A v \in 2..Latest : outbox[v] = "sent"
    /\ wiring = "inline" =>
            \A v, w \in 2..Latest : v < w /\ outbox[w] = "sent" => outbox[v] = "sent"

(* ReachesEveryProject.  "A subject-rule change reaches every classified   *)
(* project" (consumer.py:115): a delivered version has reached every       *)
(* project whose answer rests on an older one.                             *)
ReachesEveryProject ==
    \A v \in 2..Latest, p \in Projects :
        Delivered(v) /\ project[p].version \in 1..(v - 1) => <<v, p>> \in heard

=============================================================================

-------------------------- MODULE PolicyLoopProofs --------------------------
(***************************************************************************)
(* Proofs about PolicyLoop, for any number of runs, administrators,        *)
(* deliveries, projects, requests and publications, and either wiring.     *)
(* Six invariants, each built on those before it:                          *)
(*                                                                         *)
(*   TypeInv    the types, what a phase of a thread goes with, and that    *)
(*              nothing refers to a version that is not published;         *)
(*   OneAtWork  inline one request publishes at a time;                    *)
(*   LedgerInv  versions, proposals, the copy of them a publication puts   *)
(*              in their place, runs and outbox rows fit together: from it *)
(*              every step is a step of PolicyLedger;                      *)
(*   OutboxInv  every event that is not sent is carried by a request, as   *)
(*              long as nothing failed; inline events are sent in order;   *)
(*   ToldInv    a project that has not been told of the event a thread is  *)
(*              handling is still on the page in the thread's hands;       *)
(*   FlagInv    inline, one that is behind that event has been told of it, *)
(*              and is flagged unless people work on it, or is on that     *)
(*              page; and receipts follow the order of versions.           *)
(***************************************************************************)
EXTENDS PolicyLoop, FiniteSetTheorems, SequenceTheorems, WellFoundedInduction, TLAPS

Publishing == {"publishing", "committing", "swapping"}
AtCurrent == InPage \ {"handling"}

(* What a thread is at goes with what it holds; last is the latest         *)
(* version, copy the proposals as they have been copied.                   *)
ThreadFits(th, last, copy) ==
    /\ th.queue \subseteq 2..last
    /\ th.at \in {"sent", "handled"} \cup InPage => th.queue # {}
    /\ th.at \in AtCurrent => th.page # {}
    /\ th.at = "idle" => th = Idle
    /\ th.at \in Publishing => th.proposal \in Runs /\ th.queue = {}
    /\ th.at = "committing" => th.version <= last + 1
    /\ th.at = "swapping" =>
            /\ wiring = "inline" /\ th.version = last + 1
            /\ copy[th.proposal].status = "pending"
    /\ th.at \in {"marking", "resaving"} => th.version <= last
    /\ th.at = "resaving" => th.version # 0

(* Nothing refers to a version that is not published. *)
StateTypes ==
    /\ wiring \in {"inline", "pubsub"}
    /\ runs \in [Runs -> PolicyRun]
    /\ source \in Texts \cup {NoText}
    /\ proposals \in [Runs -> PolicyProposal]
    /\ copied \in [Runs -> PolicyProposal] /\ discarding \subseteq Runs
    /\ snapshots \in Seq(PolicySnapshot) /\ Latest \in Versions
    /\ outbox \in [Versions -> {"none", "pending", "sent"}]
    /\ topic \subseteq 2..Latest
    /\ receipts \subseteq 2..Latest
    /\ recalcs \in [Versions \X Projects -> {"none", "started", "completed"}]
    /\ project \in [Projects -> Project]
    /\ requests \in [Projects -> Request]
    /\ heard \subseteq (2..Latest) \X Projects
    /\ \A p \in Projects : project[p].version <= Latest /\ requests[p].version <= Latest
    /\ losses \in 0..MaxLosses

ThreadTypes ==
    /\ threads \in [Threads -> Thread]
    /\ \A a \in Threads : ThreadFits(threads[a], Latest, copied)

TypeInv == StateTypes /\ ThreadTypes

(* In the API process one request publishes at a time, and no event comes  *)
(* from elsewhere.                                                         *)
OneAtWork ==
    wiring = "inline" =>
        /\ topic = {}
        /\ \A a, b \in Threads : threads[a].at # "idle" /\ threads[b].at # "idle" => a = b

-----------------------------------------------------------------------------
(* Operators *)

(* A set of numbers that is not empty has a least member. *)
LEMMA SomeLeast ==
    ASSUME NEW S \in SUBSET Nat, S # {}
    PROVE  \E v \in S : \A w \in S : v <= w
<1>. DEFINE R == OpToRel(<, Nat)
<1>1. IsWellFoundedOn(R, Nat)
  BY NatLessThanWellFounded
<1>2. \A v, w \in S : w < v => <<w, v>> \in R
  BY DEF OpToRel
<1>. HIDE DEF R
<1>3. \E v \in S : \A w \in S : ~ (<<w, v>> \in R)
  BY <1>1, WFMin
<1>4. PICK v \in S : \A w \in S : ~ (w < v)
  BY <1>2, <1>3
<1>. QED  BY <1>4

(* Least picks it. *)
LEMMA LeastOf ==
    ASSUME NEW S \in SUBSET Nat, S # {}
    PROVE  Least(S) \in S /\ \A w \in S : Least(S) <= w
BY SomeLeast DEF Least

(* The event a thread is handling is one of its queue. *)
LEMMA EventOf ==
    ASSUME NEW a, threads[a].queue \in SUBSET Nat, threads[a].queue # {}
    PROVE  Event(a) \in threads[a].queue /\ \A w \in threads[a].queue : Event(a) <= w
BY LeastOf DEF Event

(* The project a thread is at is one of its page. *)
LEMMA CurrentOf ==
    ASSUME NEW a, threads[a].page \in SUBSET Row, threads[a].page # {}
    PROVE  Current(a) \in threads[a].page
<1>. DEFINE S == {row.p : row \in threads[a].page}
<1>0. \A row \in threads[a].page : row.p \in Nat
  BY PolicyConstants DEF Row
<1>1. S \in SUBSET Nat /\ S # {}
  BY <1>0
<1>2. PICK n \in S : \A m \in S : n <= m
  BY <1>1, SomeLeast
<1>3. PICK row \in threads[a].page : row.p = n
  BY <1>2
<1>4. \A other \in threads[a].page : row.p <= other.p
  BY <1>2, <1>3
<1>. QED  BY <1>3, <1>4 DEF Current

(* A project that fits the page is on it once it has an answer. *)
LEMMA FittingListed ==
    ASSUME NEW p \in Projects, FitsThePage(p), project[p].version # 0
    PROVE  [p |-> p, version |-> project[p].version] \in ListProjects
<1>. DEFINE L == {q \in Projects : project[q].version # 0}
            A == {q \in L : q < p}
            B == {q \in Projects : q < p}
<1>1. B \subseteq 0..p /\ A \subseteq B /\ p \in Nat
  <2>1. Projects \subseteq Nat
    BY PolicyConstants
  <2>2. \A q \in Nat : q < p => q \in 0..p
    BY <2>1
  <2>. QED  BY <2>1, <2>2
<1>2. IsFiniteSet(0..p)
  <2>1. 0 \in Int /\ p \in Int
    BY <1>1
  <2>. QED  BY <2>1, FS_Interval
<1>3. IsFiniteSet(B)
  BY <1>1, <1>2, FS_Subset
<1>4. Cardinality(A) <= Cardinality(B) /\ Cardinality(A) \in Nat /\ Cardinality(B) \in Nat
  <2>1. IsFiniteSet(A) /\ Cardinality(A) <= Cardinality(B)
    BY <1>1, <1>3, FS_Subset
  <2>. QED  BY <2>1, <1>3, FS_CardinalityType
<1>5. Cardinality(B) < PageLimit /\ PageLimit \in Nat
  BY PolicyConstants DEF FitsThePage
<1>6. p \in Page(L)
  BY <1>4, <1>5 DEF Page
<1>. QED  BY <1>6 DEF ListProjects

(* What is listed are projects as they are. *)
LEMMA ListedRows ==
    ASSUME TypeInv
    PROVE  /\ ListProjects \subseteq Row
           /\ \A row \in ListProjects : row.version = project[row.p].version
<1>1. \A p \in Projects : project[p].version # 0 => project[p].version \in Versions
  BY DEF TypeInv, StateTypes, Project, Versions
<1>2. \A row \in ListProjects : \E p \in Projects :
         project[p].version # 0 /\ row = [p |-> p, version |-> project[p].version]
  BY DEF ListProjects, Page
<1>. QED  BY <1>1, <1>2 DEF Row

(* What replacing fields of a thread gives. *)
LEMMA ThreadAt ==
    ASSUME NEW th \in Thread, NEW at
    PROVE  [th EXCEPT !.at = at] =
               [at |-> at, proposal |-> th.proposal, version |-> th.version, queue |-> th.queue, page |-> th.page]
BY DEF Thread

LEMMA ThreadAtProposal ==
    ASSUME NEW th \in Thread, NEW at, NEW new
    PROVE  [th EXCEPT !.at = at, !.proposal = new] =
               [at |-> at, proposal |-> new, version |-> th.version, queue |-> th.queue, page |-> th.page]
<1>. DEFINE t == [th EXCEPT !.at = at]
<1>1. t = [at |-> at, proposal |-> th.proposal, version |-> th.version, queue |-> th.queue, page |-> th.page]
  BY ThreadAt
<1>. HIDE DEF t
<1>2. [t EXCEPT !.proposal = new] =
        [at |-> at, proposal |-> new, version |-> th.version, queue |-> th.queue, page |-> th.page]
  BY <1>1
<1>. QED  BY <1>2 DEF t

LEMMA ThreadAtVersion ==
    ASSUME NEW th \in Thread, NEW at, NEW new
    PROVE  [th EXCEPT !.at = at, !.version = new] =
               [at |-> at, proposal |-> th.proposal, version |-> new, queue |-> th.queue, page |-> th.page]
<1>. DEFINE t == [th EXCEPT !.at = at]
<1>1. t = [at |-> at, proposal |-> th.proposal, version |-> th.version, queue |-> th.queue, page |-> th.page]
  BY ThreadAt
<1>. HIDE DEF t
<1>2. [t EXCEPT !.version = new] =
        [at |-> at, proposal |-> th.proposal, version |-> new, queue |-> th.queue, page |-> th.page]
  BY <1>1
<1>. QED  BY <1>2 DEF t

LEMMA ThreadAtQueue ==
    ASSUME NEW th \in Thread, NEW at, NEW new
    PROVE  [th EXCEPT !.at = at, !.queue = new] =
               [at |-> at, proposal |-> th.proposal, version |-> th.version, queue |-> new, page |-> th.page]
<1>. DEFINE t == [th EXCEPT !.at = at]
<1>1. t = [at |-> at, proposal |-> th.proposal, version |-> th.version, queue |-> th.queue, page |-> th.page]
  BY ThreadAt
<1>. HIDE DEF t
<1>2. [t EXCEPT !.queue = new] =
        [at |-> at, proposal |-> th.proposal, version |-> th.version, queue |-> new, page |-> th.page]
  BY <1>1
<1>. QED  BY <1>2 DEF t

LEMMA ThreadAtPage ==
    ASSUME NEW th \in Thread, NEW at, NEW new
    PROVE  [th EXCEPT !.at = at, !.page = new] =
               [at |-> at, proposal |-> th.proposal, version |-> th.version, queue |-> th.queue, page |-> new]
<1>. DEFINE t == [th EXCEPT !.at = at]
<1>1. t = [at |-> at, proposal |-> th.proposal, version |-> th.version, queue |-> th.queue, page |-> th.page]
  BY ThreadAt
<1>. HIDE DEF t
<1>2. [t EXCEPT !.page = new] =
        [at |-> at, proposal |-> th.proposal, version |-> th.version, queue |-> th.queue, page |-> new]
  BY <1>1
<1>. QED  BY <1>2 DEF t

-----------------------------------------------------------------------------
(* Types *)

LEMMA TypeInvTypes == TypeInv => TypeOK
<1>. SUFFICES ASSUME TypeInv PROVE TypeOK
  OBVIOUS
<1>1. Latest \in Nat /\ Latest <= MaxVersion /\ MaxVersion \in Nat
  BY PolicyConstants DEF TypeInv, StateTypes, Versions
<1>2. 2..Latest \subseteq Versions
  BY <1>1 DEF Versions
<1>3. topic \subseteq Versions /\ heard \subseteq Versions \X Projects
  BY <1>2 DEF TypeInv, StateTypes
<1>4. \A a \in Threads :
        /\ threads[a].queue \subseteq 2..Latest
        /\ threads[a].at \in InPage \cup {"sent", "handled"} => threads[a].queue # {}
        /\ threads[a].at \in InPage \ {"handling"} => threads[a].page # {}
  BY DEF TypeInv, ThreadTypes, ThreadFits, AtCurrent
<1>. QED  BY <1>3, <1>4 DEF TypeInv, StateTypes, ThreadTypes, TypeOK

(* The published versions are numbers within the bound. *)
LEMMA Numbers ==
    ASSUME TypeInv
    PROVE  /\ Latest \in Nat /\ 1 <= Latest /\ Latest <= MaxVersion /\ MaxVersion \in Nat
           /\ 2..Latest \subseteq Versions /\ 2..Latest \subseteq Nat
BY PolicyConstants DEF TypeInv, StateTypes, Versions

(* The event of a thread that has one is a published version. *)
LEMMA EventPublished ==
    ASSUME TypeInv, NEW a \in Threads, threads[a].queue # {}
    PROVE  /\ Event(a) \in threads[a].queue /\ Event(a) \in 2..Latest /\ Event(a) \in Versions
           /\ \A w \in threads[a].queue : Event(a) <= w
<1>1. threads[a].queue \subseteq 2..Latest
  BY DEF TypeInv, ThreadTypes, ThreadFits
<1>. QED  BY <1>1, EventOf, Numbers

(* The row of a thread that is at a project is of a project. *)
LEMMA CurrentListed ==
    ASSUME TypeInv, NEW a \in Threads, threads[a].page # {}
    PROVE  Current(a) \in threads[a].page /\ Current(a) \in Row /\ Current(a).p \in Projects
<1>1. threads[a].page \subseteq Row
  BY DEF TypeInv, ThreadTypes, Thread
<1>. QED  BY <1>1, CurrentOf DEF Row

LEMMA InitTypes == Init => TypeInv
<1>. SUFFICES ASSUME Init PROVE TypeInv
  OBVIOUS
<1>. USE DEF Init
<1>1. Latest = 1 /\ snapshots \in Seq(PolicySnapshot) /\ 1 \in Versions
  BY PolicyConstants DEF Latest, PolicySnapshot, Versions
<1>2. project \in [Projects -> Project] /\ \A p \in Projects : project[p].version <= Latest
  <2>1. MaxVersion \in Nat /\ 0 \in 0..MaxVersion /\ 1 \in 0..MaxVersion
    BY PolicyConstants
  <2>2. NewProject \in Project /\ NewProject.version = 0
    BY <2>1 DEF NewProject, Project
  <2>3. OldProject \in Project /\ OldProject.version = 1
    BY <2>1 DEF OldProject, Project
  <2>4. \A p \in Projects : project[p] = NewProject \/ project[p] = OldProject
    OBVIOUS
  <2>5. \A p \in Projects : project[p] \in Project
    BY <2>2, <2>3, <2>4
  <2>. QED  BY <1>1, <2>2, <2>3, <2>4, <2>5
<1>3. requests \in [Projects -> Request] /\ \A p \in Projects : requests[p].version <= Latest
  BY <1>1, PolicyConstants DEF NoRequest, Request
<1>4. /\ runs \in [Runs -> PolicyRun]
      /\ proposals \in [Runs -> PolicyProposal] /\ copied \in [Runs -> PolicyProposal]
  BY PolicyConstants DEF NoRun, PolicyRun, NoProposal, PolicyProposal, NoDraft
<1>5. losses \in 0..MaxLosses
  BY PolicyConstants
<1>6. StateTypes
  BY <1>1, <1>2, <1>3, <1>4, <1>5 DEF StateTypes
<1>7. ThreadTypes
  BY PolicyConstants DEF ThreadTypes, ThreadFits, Idle, Thread, Publishing, InPage, AtCurrent
<1>. QED  BY <1>6, <1>7 DEF TypeInv

(* One thread has moved to th; versions are only ever added. *)
LEMMA ThreadMoved ==
    ASSUME TypeInv, NEW a \in Threads, NEW th \in Thread,
           threads' = [threads EXCEPT ![a] = th],
           Latest' \in Nat, Latest <= Latest', wiring' = wiring,
           \/ Latest' = Latest /\ copied' = copied
           \/ \A b \in Threads : b # a => threads[b].at # "swapping",
           ThreadFits(th, Latest', copied')
    PROVE  ThreadTypes'
<1>1. \A b \in Threads : b # a => ThreadFits(threads[b], Latest', copied')
  BY Numbers DEF TypeInv, ThreadTypes, ThreadFits, Thread, Publishing
<1>2. \A b \in Threads : ThreadFits(threads'[b], Latest', copied')
  BY <1>1 DEF TypeInv, ThreadTypes
<1>3. \A b \in Threads : ThreadFits(threads[b], Latest, copied)'
  BY <1>2 DEF ThreadFits
<1>. QED  BY <1>3 DEF TypeInv, ThreadTypes

(* The refreshes, discarding a proposal and the work on the projects leave *)
(* the threads alone.                                                      *)
LEMMA RefreshTypes ==
    ASSUME TypeInv, Refresh
    PROVE  TypeInv' /\ UNCHANGED <<wiring, discards, snapshots, outbox, topic, consumer, threads, product, losses>>
<1>1. UNCHANGED <<wiring, discards, snapshots, outbox, topic, consumer, threads, product, losses>>
  BY DEF Refresh, LaunchRun, FetchChange, FetchNoChange, CommitNoChange, CommitProposal, FailRun,
         policy, consumer, product
<1>2. runs' \in [Runs -> PolicyRun] /\ source' \in Texts \cup {NoText}
  <2>. PICK r \in Runs :
         \/ LaunchRun(r)
         \/ \E t \in Texts : FetchChange(r, t) \/ FetchNoChange(r, t)
         \/ CommitNoChange(r)
         \/ \E draft \in Drafts : CommitProposal(r, draft)
         \/ FailRun(r)
    BY DEF Refresh
  <2>1. runs \in [Runs -> PolicyRun] /\ source \in Texts \cup {NoText}
    BY DEF TypeInv, StateTypes
  <2>. USE DEF PolicyRun, NoRun
  <2>2. CASE LaunchRun(r)
    BY <2>1, <2>2 DEF LaunchRun
  <2>3. ASSUME NEW t \in Texts, FetchChange(r, t)
        PROVE  runs' \in [Runs -> PolicyRun] /\ source' \in Texts \cup {NoText}
    BY <2>1, <2>3 DEF FetchChange
  <2>4. ASSUME NEW t \in Texts, FetchNoChange(r, t)
        PROVE  runs' \in [Runs -> PolicyRun] /\ source' \in Texts \cup {NoText}
    BY <2>1, <2>4 DEF FetchNoChange, FinishRun
  <2>5. CASE CommitNoChange(r)
    BY <2>1, <2>5 DEF CommitNoChange, FinishRun
  <2>6. ASSUME NEW draft \in Drafts, CommitProposal(r, draft)
        PROVE  runs' \in [Runs -> PolicyRun] /\ source' \in Texts \cup {NoText}
    BY <2>1, <2>6 DEF CommitProposal, FinishRun
  <2>7. CASE FailRun(r)
    BY <2>1, <2>7 DEF FailRun, FinishRun
  <2>. QED  BY <2>2, <2>3, <2>4, <2>5, <2>6, <2>7
<1>3. proposals' \in [Runs -> PolicyProposal]
  <2>1. ASSUME NEW r \in Runs, NEW draft \in Drafts, CommitProposal(r, draft)
        PROVE  proposals' \in [Runs -> PolicyProposal]
    BY <2>1, PolicyConstants DEF CommitProposal, PolicyProposal, TypeInv, StateTypes
  <2>2. proposals' = proposals \/ \E r \in Runs, draft \in Drafts : CommitProposal(r, draft)
    BY DEF Refresh, LaunchRun, FetchChange, FetchNoChange, CommitNoChange, FailRun, policy
  <2>. QED  BY <2>1, <2>2 DEF TypeInv, StateTypes
<1>4. Latest' = Latest
  BY <1>1 DEF Latest
<1>5. StateTypes'
  BY <1>1, <1>2, <1>3, <1>4 DEF TypeInv, StateTypes, discards, consumer, product
<1>6. ThreadTypes'
  BY <1>1, <1>4 DEF TypeInv, ThreadTypes, ThreadFits, discards
<1>. QED  BY <1>1, <1>5, <1>6 DEF TypeInv

LEMMA DiscardTypes ==
    ASSUME TypeInv, NEW r \in Runs, Discard(r) \/ CheckDiscard(r) \/ WriteDiscard(r)
    PROVE  /\ TypeInv'
           /\ UNCHANGED <<wiring, refresh, copied, snapshots, outbox, topic, consumer, threads, product, losses>>
<1>1. proposals' \in [Runs -> PolicyProposal]
  <2>1. proposals \in [Runs -> PolicyProposal] /\ 0 \in 0..MaxVersion
    BY PolicyConstants DEF TypeInv, StateTypes
  <2>2. proposals' = proposals \/ DiscardProposal(r)
    BY DEF Discard, CheckDiscard, WriteDiscard
  <2>3. [proposals[r] EXCEPT !.status = "discarded", !.version = 0] \in PolicyProposal
    BY <2>1 DEF PolicyProposal
  <2>. QED  BY <2>1, <2>2, <2>3 DEF DiscardProposal
<1>2. discarding' \subseteq Runs
  BY DEF Discard, CheckDiscard, WriteDiscard, discards, TypeInv, StateTypes
<1>3. UNCHANGED <<wiring, refresh, copied, snapshots, outbox, topic, consumer, threads, product, losses>>
  BY DEF Discard, CheckDiscard, WriteDiscard, discards
<1>4. Latest' = Latest
  BY <1>3 DEF Latest
<1>5. StateTypes'
  BY <1>1, <1>2, <1>3, <1>4 DEF TypeInv, StateTypes, refresh, consumer, product
<1>6. ThreadTypes'
  BY <1>3, <1>4 DEF TypeInv, ThreadTypes, ThreadFits
<1>. QED  BY <1>3, <1>5, <1>6 DEF TypeInv

(* The answer a request has saved is as it was, or settled on now.         *)
LEMMA SinceTypes ==
    ASSUME TypeInv, NEW p \in Projects, NEW version \in 0..Latest, NEW stale \in BOOLEAN, NEW new \in BOOLEAN
    PROVE  [version |-> version, stale |-> stale, since |-> Since(p, version, new)] \in Project
<1>1. Latest \in 0..MaxVersion /\ version \in 0..MaxVersion /\ 0 \in 0..MaxVersion
  BY Numbers
<1>2. project[p].since \in 0..MaxVersion
  BY DEF TypeInv, StateTypes, Project
<1>3. Since(p, version, new) \in 0..MaxVersion
  BY <1>1, <1>2 DEF Since
<1>. QED  BY <1>1, <1>3 DEF Project

LEMMA ProductTypes ==
    ASSUME TypeInv, Product
    PROVE  TypeInv' /\ UNCHANGED <<wiring, refresh, policy, consumer, threads, heard, losses>>
<1>. PICK p \in Busy : \/ RunClassification(p) \/ Reclassify(p) \/ Reanalyze(p) \/ Edit(p)
                      \/ SaveCopy(p) \/ EndRequest(p)
  BY DEF Product
<1>1. p \in Projects /\ MaxVersion \in Nat /\ MostSaves \in Nat /\ MostSaves >= 1
  BY PolicyConstants
<1>2. UNCHANGED <<wiring, refresh, policy, consumer, threads, heard, losses>>
  BY DEF RunClassification, Reclassify, Reanalyze, Edit, StartRequest, SaveCopy, EndRequest
<1>3. Latest \in 0..MaxVersion /\ Latest \in Nat /\ 0 \in 0..Latest /\ Latest \in 0..Latest
  BY Numbers
<1>4. /\ project \in [Projects -> Project] /\ requests \in [Projects -> Request]
      /\ \A q \in Projects : project[q].version <= Latest /\ requests[q].version <= Latest
  BY DEF TypeInv, StateTypes
<1>5. NoRequest \in Request /\ NoRequest.version = 0
  BY <1>1 DEF NoRequest, Request
<1>6. /\ project' \in [Projects -> Project] /\ requests' \in [Projects -> Request]
      /\ \A q \in Projects : project'[q].version <= Latest /\ requests'[q].version <= Latest
  <2>1. ASSUME NEW saves \in 0..MostSaves, NEW new \in BOOLEAN, NEW version \in 0..Latest,
               NEW stale \in BOOLEAN, StartRequest(p, saves, new, version, stale)
        PROVE  /\ project' = project /\ requests' \in [Projects -> Request]
               /\ \A q \in Projects : requests'[q].version <= Latest
    <3>. DEFINE r == [saves |-> saves, new |-> new, version |-> version, stale |-> stale]
    <3>1. r \in Request /\ r.version <= Latest
      BY <1>1, <1>3 DEF Request
    <3>2. requests' = [requests EXCEPT ![p] = r] /\ project' = project
      BY <2>1 DEF StartRequest
    <3>. HIDE DEF r
    <3>. QED  BY <1>1, <1>4, <3>1, <3>2
  <2>2. ASSUME RunClassification(p) \/ Reclassify(p) \/ Reanalyze(p) \/ Edit(p)
        PROVE  /\ project' = project /\ requests' \in [Projects -> Request]
               /\ \A q \in Projects : requests'[q].version <= Latest
    <3>1. /\ 1 \in 0..MostSaves /\ MostSaves \in 0..MostSaves
          /\ project[p].version \in 0..Latest /\ project[p].stale \in BOOLEAN
      BY <1>1, <1>3, <1>4 DEF Project
    <3>. QED  BY <1>3, <2>1, <2>2, <3>1 DEF RunClassification, Reclassify, Reanalyze, Edit
  <2>3. CASE SaveCopy(p)
    <3>. DEFINE r == requests[p]
                pr == [version |-> r.version, stale |-> r.stale, since |-> Since(p, r.version, r.new)]
                rest == [saves |-> r.saves - 1, new |-> FALSE, version |-> r.version, stale |-> r.stale]
                next == IF r.saves = 1 THEN NoRequest ELSE rest
    <3>1. /\ r.saves \in 1..MostSaves /\ r.version \in 0..MaxVersion /\ r.version \in 0..Latest
          /\ r.stale \in BOOLEAN /\ r.new \in BOOLEAN
      BY <1>1, <1>3, <1>4, <2>3 DEF SaveCopy, Request
    <3>2. pr \in Project /\ pr.version <= Latest
      BY <1>1, <1>3, <3>1, SinceTypes
    <3>3. next \in Request /\ next.version <= Latest
      BY <1>1, <1>3, <1>5, <3>1 DEF Request
    <3>4. project' = [project EXCEPT ![p] = pr] /\ requests' = [requests EXCEPT ![p] = next]
      BY <2>3 DEF SaveCopy
    <3>. HIDE DEF pr, next
    <3>. QED  BY <1>1, <1>4, <3>2, <3>3, <3>4
  <2>4. CASE EndRequest(p)
    <3>1. project' = project /\ requests' = [requests EXCEPT ![p] = NoRequest]
      BY <2>4 DEF EndRequest
    <3>. QED  BY <1>1, <1>3, <1>4, <1>5, <3>1
  <2>. QED  BY <1>4, <2>2, <2>3, <2>4
<1>7. Latest' = Latest
  BY <1>2 DEF policy, Latest
<1>8. StateTypes'
  BY <1>2, <1>6, <1>7 DEF TypeInv, StateTypes, policy, discards, refresh, consumer
<1>9. ThreadTypes'
  BY <1>2, <1>7 DEF TypeInv, ThreadTypes, ThreadFits, policy, discards
<1>. QED  BY <1>2, <1>8, <1>9 DEF TypeInv

(* A step that only moves a thread. *)
LEMMA OnlyMoves ==
    ASSUME TypeInv, NEW a \in Threads, NEW th \in Thread,
           threads' = [threads EXCEPT ![a] = th],
           ThreadFits(th, Latest, copied),
           losses' \in 0..MaxLosses,
           UNCHANGED <<wiring, refresh, policy, consumer, product>>
    PROVE  TypeInv'
<1>1. Latest' = Latest
  BY DEF policy, Latest
<1>2. ThreadTypes'
  <2>1. Latest' \in Nat /\ Latest' = Latest /\ copied' = copied /\ ThreadFits(th, Latest', copied')
    BY <1>1, Numbers DEF policy, discards
  <2>2. Latest <= Latest' /\ wiring' = wiring
    BY <1>1, Numbers
  <2>. QED  BY <2>1, <2>2, ThreadMoved
<1>3. StateTypes'
  BY <1>1 DEF TypeInv, StateTypes, refresh, policy, discards, consumer, product
<1>. QED  BY <1>2, <1>3 DEF TypeInv

LEMMA ThreadOf ==
    ASSUME TypeInv, NEW a \in Threads
    PROVE  threads[a] \in Thread /\ ThreadFits(threads[a], Latest, copied)
BY DEF TypeInv, ThreadTypes

LEMMA LossesCount ==
    ASSUME TypeInv, losses < MaxLosses /\ losses' = losses + 1
    PROVE  losses' \in 0..MaxLosses
BY PolicyConstants DEF TypeInv, StateTypes

LEMMA IdleFits ==
    ASSUME TypeInv
    PROVE  Idle \in Thread /\ ThreadFits(Idle, Latest, copied)
BY PolicyConstants DEF Idle, Thread, ThreadFits, Publishing, InPage, AtCurrent

LEMMA IdleAtQueue ==
    ASSUME NEW at, NEW queue
    PROVE  [Idle EXCEPT !.at = at, !.queue = queue] =
               [at |-> at, proposal |-> Nobody, version |-> 0, queue |-> queue, page |-> {}]
<1>1. Idle \in Thread
  BY PolicyConstants DEF Idle, Thread
<1>2. [Idle EXCEPT !.at = at, !.queue = queue] =
        [at |-> at, proposal |-> Idle.proposal, version |-> Idle.version, queue |-> queue, page |-> Idle.page]
  BY <1>1, ThreadAtQueue
<1>3. Idle.proposal = Nobody /\ Idle.version = 0 /\ Idle.page = {}
  BY DEF Idle
<1>. QED  BY <1>2, <1>3

LEMMA LeaveTypes ==
    ASSUME TypeInv, NEW a \in Threads, Leave(a), losses' \in 0..MaxLosses,
           UNCHANGED <<wiring, refresh, policy, consumer, product>>
    PROVE  TypeInv'
BY IdleFits, OnlyMoves DEF Leave

(* Publication *)
LEMMA PublicationTypes ==
    ASSUME TypeInv, NEW a \in Threads,
           \/ \E r \in Runs : ReadProposal(a, r)
           \/ ReadLatest(a) \/ RefusePublication(a) \/ PublicationConflict(a)
    PROVE  TypeInv'
<1>. DEFINE th == threads[a]
<1>1. th \in Thread /\ ThreadFits(th, Latest, copied) /\ losses \in 0..MaxLosses
  BY ThreadOf DEF TypeInv, StateTypes
<1>2. ASSUME NEW r \in Runs, ReadProposal(a, r)
      PROVE  TypeInv'
  <2>. DEFINE new == [at |-> "publishing", proposal |-> r, version |-> th.version,
                      queue |-> th.queue, page |-> th.page]
  <2>1. threads' = [threads EXCEPT ![a] = new] /\ th.at = "idle"
    BY <1>1, <1>2, ThreadAtProposal DEF ReadProposal
  <2>2. new \in Thread /\ ThreadFits(new, Latest, copied)
    BY <1>1, <2>1 DEF Thread, ThreadFits, Idle, Publishing, InPage, AtCurrent
  <2>. HIDE DEF new
  <2>3. losses' = losses /\ UNCHANGED <<wiring, refresh, policy, consumer, product>>
    BY <1>2 DEF ReadProposal
  <2>. QED  BY <1>1, <2>1, <2>2, <2>3, OnlyMoves
<1>3. CASE ReadLatest(a)
  <2>. DEFINE new == [at |-> "committing", proposal |-> th.proposal, version |-> Latest + 1,
                      queue |-> th.queue, page |-> th.page]
  <2>0. [th EXCEPT !.at = "committing", !.version = Latest + 1] = new
    BY <1>1, ThreadAtVersion
  <2>1. threads' = [threads EXCEPT ![a] = new] /\ th.at = "publishing"
    BY <1>3, <2>0 DEF ReadLatest
  <2>2. Latest + 1 \in 0..MaxVersion /\ Latest \in Nat
    BY <1>3, Numbers DEF ReadLatest
  <2>3. new \in Thread /\ ThreadFits(new, Latest, copied)
    BY <1>1, <2>1, <2>2 DEF Thread, ThreadFits, Publishing, InPage, AtCurrent
  <2>. HIDE DEF new
  <2>4. losses' = losses /\ UNCHANGED <<wiring, refresh, policy, consumer, product>>
    BY <1>3 DEF ReadLatest
  <2>. QED  BY <1>1, <2>1, <2>3, <2>4, OnlyMoves
<1>4. CASE RefusePublication(a)
  BY <1>1, <1>4, LeaveTypes DEF RefusePublication
<1>5. CASE PublicationConflict(a)
  BY <1>1, <1>5, LeaveTypes DEF PublicationConflict
<1>. QED  BY <1>2, <1>3, <1>4, <1>5

(* The copy of the proposals goes with the version it was taken for. *)
LEMMA CopyTypes ==
    ASSUME TypeInv, OneAtWork, NEW a \in Threads, CopyProposals(a)
    PROVE  TypeInv'
<1>. DEFINE th == threads[a]
            new == [at |-> "swapping", proposal |-> th.proposal, version |-> th.version,
                    queue |-> th.queue, page |-> th.page]
<1>1. th \in Thread /\ ThreadFits(th, Latest, copied) /\ th.at = "committing"
  BY ThreadOf DEF CopyProposals
<1>2. th.version = Latest + 1 /\ wiring = "inline"
  <2>1. th.version <= Latest + 1 /\ Latest < th.version
    BY <1>1 DEF ThreadFits, CopyProposals, Publishable
  <2>. QED  BY <1>1, <2>1, Numbers DEF Thread, CopyProposals
<1>9. \A b \in Threads : b # a => threads[b].at # "swapping"
  BY <1>1, <1>2 DEF OneAtWork
<1>10. proposals[th.proposal].status = "pending"
  BY DEF CopyProposals, Publishable
<1>3. [th EXCEPT !.at = "swapping"] = new
  BY <1>1, ThreadAt
<1>4. threads' = [threads EXCEPT ![a] = new]
  BY <1>3 DEF CopyProposals, Goto
<1>5. new \in Thread /\ ThreadFits(new, Latest, proposals)
  BY <1>1, <1>2, <1>10 DEF Thread, ThreadFits, Publishing, InPage, AtCurrent
<1>. HIDE DEF new
<1>6. /\ UNCHANGED <<wiring, refresh, proposals, discarding, snapshots, outbox, topic, consumer, product, losses>>
      /\ copied' = proposals
  BY DEF CopyProposals
<1>7. Latest' = Latest /\ Latest' \in Nat /\ Latest <= Latest' /\ ThreadFits(new, Latest', copied')
  BY <1>5, <1>6, Numbers DEF Latest
<1>8. ThreadTypes'
  BY <1>4, <1>5, <1>6, <1>7, <1>9, ThreadMoved
<1>. QED  BY <1>6, <1>7, <1>8 DEF TypeInv, StateTypes, refresh, consumer, product

(* What is published goes over the proposals that were read. *)
LEMMA PublishedOver ==
    ASSUME TypeInv, NEW a \in Threads, CommitPublication(a) \/ SwapProposals(a)
    PROVE  LET read == IF threads[a].at = "swapping" THEN copied ELSE proposals IN
           /\ Publish(a, read) /\ read \in [Runs -> PolicyProposal]
           /\ threads[a].at \in {"committing", "swapping"}
           /\ copied' \in [Runs -> PolicyProposal]
<1>1. CASE CommitPublication(a)
  BY <1>1 DEF CommitPublication, TypeInv, StateTypes
<1>2. CASE SwapProposals(a)
  BY <1>2, PolicyConstants DEF SwapProposals, TypeInv, StateTypes, NoProposal, NoDraft, PolicyProposal
<1>. QED  BY <1>1, <1>2

(* What a publication adds. *)
LEMMA Published ==
    ASSUME TypeInv, NEW a \in Threads, CommitPublication(a) \/ SwapProposals(a)
    PROVE  LET r == threads[a].proposal  v == threads[a].version IN
           /\ r \in Runs /\ v \in Versions /\ v = Latest + 1
           /\ Latest' = v
           /\ \A i \in 1..Latest : snapshots'[i] = snapshots[i]
           /\ snapshots'[v] = NextSnapshot(r)
           /\ snapshots' \in Seq(PolicySnapshot)
           /\ threads[a].queue = {}
<1>. DEFINE r == threads[a].proposal
            v == threads[a].version
            new == NextSnapshot(r)
<1>1. threads[a] \in Thread /\ ThreadFits(threads[a], Latest, copied) /\ threads[a].at \in {"committing", "swapping"}
  BY ThreadOf, PublishedOver
<1>2. r \in Runs /\ v \in 0..MaxVersion /\ v <= Latest + 1 /\ threads[a].queue = {}
  BY <1>1, Numbers DEF Thread, ThreadFits, Publishing
<1>3. v = Latest + 1 /\ v \in Versions
  <2>1. CASE CommitPublication(a)
    BY <1>2, <2>1, Numbers DEF CommitPublication, Publishable, Versions
  <2>2. CASE SwapProposals(a)
    BY <1>1, <1>2, <2>2, Numbers DEF SwapProposals, ThreadFits, Versions
  <2>. QED  BY <2>1, <2>2
<1>4. new \in PolicySnapshot
  <2>1. proposals[r].draft \in Drafts \cup {NoDraft}
    BY <1>2 DEF TypeInv, StateTypes, PolicyProposal
  <2>2. proposals[r].draft.impact \in SUBSET ImpactNodes
    BY <2>1, PolicyConstants DEF NoDraft
  <2>3. snapshots[Latest] \in PolicySnapshot
    BY Numbers DEF TypeInv, StateTypes, Latest
  <2>4. snapshots[Latest].thresholds \in BOOLEAN
    BY <2>3 DEF PolicySnapshot
  <2>. QED  BY <1>2, <2>2, <2>4 DEF NextSnapshot, PolicySnapshot
<1>5. snapshots' = Append(snapshots, new) /\ snapshots \in Seq(PolicySnapshot)
  BY DEF CommitPublication, SwapProposals, Publish, TypeInv, StateTypes
<1>. HIDE DEF new
<1>6. /\ Latest' = Latest + 1 /\ snapshots' \in Seq(PolicySnapshot)
      /\ \A i \in 1..Latest : snapshots'[i] = snapshots[i]
      /\ snapshots'[Latest + 1] = new
  BY <1>4, <1>5 DEF Latest
<1>. QED  BY <1>2, <1>3, <1>6 DEF new

LEMMA CommitTypes ==
    ASSUME TypeInv, OneAtWork, NEW a \in Threads, CommitPublication(a) \/ SwapProposals(a)
    PROVE  TypeInv'
<1>. DEFINE r == threads[a].proposal
            v == threads[a].version
            new == [at |-> "committed", proposal |-> r, version |-> v,
                    queue |-> threads[a].queue, page |-> threads[a].page]
<1>1. /\ r \in Runs /\ v \in Versions /\ v = Latest + 1 /\ Latest' = v
      /\ snapshots' \in Seq(PolicySnapshot) /\ threads[a].queue = {}
  BY Published
<1>2. Latest \in Nat /\ Latest <= Latest' /\ Latest' \in Versions /\ Latest' \in Nat
  BY <1>1, Numbers
<1>3. 2..Latest \subseteq 2..Latest' /\ v \in 0..MaxVersion
  BY <1>1, <1>2, Numbers DEF Versions
<1>4. PICK read \in [Runs -> PolicyProposal] : Publish(a, read)
  BY PublishedOver
<1>5. proposals' \in [Runs -> PolicyProposal] /\ outbox' \in [Versions -> {"none", "pending", "sent"}]
  <2>1. outbox \in [Versions -> {"none", "pending", "sent"}] /\ read[r] \in PolicyProposal
    BY <1>1 DEF TypeInv, StateTypes
  <2>2. proposals' = [read EXCEPT ![r] = [@ EXCEPT !.status = "published", !.version = v]]
        /\ outbox' = [outbox EXCEPT ![v] = "pending"]
    BY <1>4 DEF Publish
  <2>3. [read[r] EXCEPT !.status = "published", !.version = v] \in PolicyProposal
    BY <1>3, <2>1 DEF PolicyProposal
  <2>. QED  BY <1>1, <2>1, <2>2, <2>3
<1>6. UNCHANGED <<wiring, refresh, discarding, topic, consumer, product, losses>>
  BY <1>4 DEF Publish
<1>7. topic \subseteq 2..Latest' /\ receipts \subseteq 2..Latest' /\ heard \subseteq (2..Latest') \X Projects
  BY <1>3 DEF TypeInv, StateTypes
<1>8. \A p \in Projects : project[p].version <= Latest' /\ requests[p].version <= Latest'
  <2>1. \A p \in Projects : /\ project[p].version <= Latest /\ project[p].version \in Nat
                            /\ requests[p].version <= Latest /\ requests[p].version \in Nat
    BY PolicyConstants DEF TypeInv, StateTypes, Project, Request
  <2>. QED  BY <1>2, <2>1
<1>9. StateTypes'
  BY <1>1, <1>2, <1>5, <1>6, <1>7, <1>8, PublishedOver DEF TypeInv, StateTypes, refresh, consumer, product
<1>10. threads' = [threads EXCEPT ![a] = new] /\ new \in Thread /\ ThreadFits(new, Latest', copied')
  <2>1. threads[a] \in Thread /\ [threads[a] EXCEPT !.at = "committed"] = new
    BY ThreadOf, ThreadAt
  <2>2. threads' = [threads EXCEPT ![a] = new]
    BY <1>4, <2>1 DEF Publish, Goto
  <2>. QED  BY <1>1, <2>1, <2>2 DEF Thread, ThreadFits, InPage, AtCurrent, Publishing
<1>. HIDE DEF new
<1>11. \A b \in Threads : b # a => threads[b].at # "swapping"
  <2>1. CASE CommitPublication(a)
    <3>1. wiring # "inline"
      BY <2>1 DEF CommitPublication
    <3>. QED  BY <3>1 DEF TypeInv, ThreadTypes, ThreadFits
  <2>2. CASE SwapProposals(a)
    <3>1. wiring = "inline" /\ threads[a].at = "swapping"
      BY <2>2, ThreadOf DEF SwapProposals, ThreadFits
    <3>. QED  BY <3>1 DEF OneAtWork
  <2>. QED  BY <2>1, <2>2
<1>12. ThreadTypes'
  BY <1>2, <1>6, <1>10, <1>11, ThreadMoved
<1>. QED  BY <1>9, <1>12 DEF TypeInv

(* Looking for events to send, and the end of it. *)
LEMMA OutboxTypes ==
    ASSUME TypeInv, NEW a \in Threads,
           ListOutbox(a) \/ EndFanOut(a) \/ PublishEvent(a) \/ PublishEventFails(a) \/ MarkPublished(a)
    PROVE  TypeInv'
<1>. DEFINE th == threads[a]
<1>1. th \in Thread /\ ThreadFits(th, Latest, copied) /\ losses \in 0..MaxLosses
  BY ThreadOf DEF TypeInv, StateTypes
<1>2. CASE ListOutbox(a)
  <2>. DEFINE new == [at |-> "fanning", proposal |-> Nobody, version |-> 0,
                      queue |-> PendingRows, page |-> {}]
  <2>0. [Idle EXCEPT !.at = "fanning", !.queue = PendingRows] = new
    BY IdleAtQueue
  <2>1. threads' = [threads EXCEPT ![a] = new]
    BY <1>2, <2>0 DEF ListOutbox
  <2>2. PendingRows \in SUBSET Versions /\ PendingRows \subseteq 2..Latest
    BY Numbers DEF PendingRows
  <2>3. new \in Thread /\ ThreadFits(new, Latest, copied)
    BY <2>2, PolicyConstants DEF Thread, ThreadFits, Publishing, InPage, AtCurrent
  <2>. HIDE DEF new
  <2>4. losses' = losses /\ UNCHANGED <<wiring, refresh, policy, consumer, product>>
    BY <1>2 DEF ListOutbox
  <2>. QED  BY <1>1, <2>1, <2>3, <2>4, OnlyMoves
<1>3. CASE EndFanOut(a)
  BY <1>1, <1>3, LeaveTypes DEF EndFanOut
<1>4. CASE PublishEvent(a)
  <2>. DEFINE new == [at |-> "sent", proposal |-> th.proposal, version |-> th.version,
                      queue |-> th.queue, page |-> th.page]
  <2>0. [th EXCEPT !.at = "sent"] = new
    BY <1>1, ThreadAt
  <2>1. threads' = [threads EXCEPT ![a] = new] /\ th.queue # {}
    BY <1>4, <2>0 DEF PublishEvent, Goto
  <2>2. new \in Thread /\ ThreadFits(new, Latest, copied)
    BY <1>1, <2>1 DEF Thread, ThreadFits, Publishing, InPage, AtCurrent
  <2>. HIDE DEF new
  <2>3. topic' \subseteq 2..Latest
    BY <1>4, <2>1, EventPublished DEF PublishEvent, TypeInv, StateTypes
  <2>4. UNCHANGED <<wiring, refresh, proposals, discards, snapshots, outbox, consumer, product, losses>>
    BY <1>4 DEF PublishEvent
  <2>5. Latest' = Latest
    BY <2>4 DEF Latest
  <2>6. ThreadTypes'
    <3>1. Latest' \in Nat /\ Latest' = Latest /\ Latest <= Latest' /\ ThreadFits(new, Latest', copied') /\ wiring' = wiring /\ copied' = copied
      BY <2>2, <2>4, <2>5, Numbers DEF discards
    <3>. QED  BY <2>1, <2>2, <3>1, ThreadMoved
  <2>. QED  BY <2>3, <2>4, <2>5, <2>6 DEF TypeInv, StateTypes, refresh, discards, consumer, product
<1>5. ASSUME NextRow(a), th.queue # {}, losses' \in 0..MaxLosses,
             UNCHANGED <<wiring, refresh, proposals, discards, snapshots, topic, consumer, product>>,
             outbox' \in [Versions -> {"none", "pending", "sent"}]
      PROVE  TypeInv'
  <2>. DEFINE rest == th.queue \ {Event(a)}
              new == [at |-> "fanning", proposal |-> th.proposal, version |-> th.version,
                      queue |-> rest, page |-> th.page]
  <2>0. [th EXCEPT !.at = "fanning", !.queue = rest] = new
    BY <1>1, ThreadAtQueue
  <2>1. threads' = [threads EXCEPT ![a] = new]
    BY <1>5, <2>0 DEF NextRow
  <2>2. new \in Thread /\ ThreadFits(new, Latest, copied)
    BY <1>1 DEF Thread, ThreadFits, Publishing, InPage, AtCurrent
  <2>. HIDE DEF new
  <2>3. Latest' = Latest
    BY <1>5 DEF Latest
  <2>4. ThreadTypes'
    <3>1. Latest' \in Nat /\ Latest' = Latest /\ Latest <= Latest' /\ ThreadFits(new, Latest', copied') /\ wiring' = wiring /\ copied' = copied
      BY <1>5, <2>2, <2>3, Numbers DEF discards
    <3>. QED  BY <2>1, <2>2, <3>1, ThreadMoved
  <2>. QED  BY <1>5, <2>3, <2>4 DEF TypeInv, StateTypes, refresh, discards, consumer, product
<1>6. outbox \in [Versions -> {"none", "pending", "sent"}]
  BY DEF TypeInv, StateTypes
<1>7. CASE PublishEventFails(a)
  <2>1. UNCHANGED <<wiring, refresh, proposals, discards, snapshots, topic, consumer, product>>
        /\ outbox' = outbox /\ NextRow(a) /\ th.queue # {} /\ losses' \in 0..MaxLosses
    BY <1>7, LossesCount DEF PublishEventFails, policy
  <2>. QED  BY <1>5, <1>6, <2>1
<1>8. CASE MarkPublished(a)
  <2>1. th.queue # {}
    BY <1>1, <1>8 DEF MarkPublished, ThreadFits
  <2>2. outbox' \in [Versions -> {"none", "pending", "sent"}]
    BY <1>6, <1>8, <2>1, EventPublished DEF MarkPublished
  <2>. QED  BY <1>1, <1>5, <1>8, <2>1, <2>2 DEF MarkPublished
<1>. QED  BY <1>2, <1>3, <1>4, <1>7, <1>8

(* What a thread holds when it begins with an event. *)
Begun(a, v) ==
    [at |-> IF v \in receipts THEN "handled" ELSE "handling",
     proposal |-> Nobody, version |-> 0, queue |-> threads[a].queue \cup {v},
     page |-> IF v \in receipts THEN {} ELSE ListProjects]

LEMMA BeginTypes ==
    ASSUME TypeInv, NEW a \in Threads, NEW v \in 2..Latest, Begin(a, v), losses' = losses,
           UNCHANGED <<wiring, refresh, policy, consumer, product>>
    PROVE  TypeInv' /\ threads' = [threads EXCEPT ![a] = Begun(a, v)]
<1>. DEFINE new == Begun(a, v)
<1>0. [Idle EXCEPT !.at = new.at, !.queue = new.queue, !.page = new.page] = new
  <2>. DEFINE one == [at |-> new.at, proposal |-> Nobody, version |-> 0, queue |-> new.queue, page |-> {}]
  <2>1. [Idle EXCEPT !.at = new.at, !.queue = new.queue] = one
    BY IdleAtQueue
  <2>2. [one EXCEPT !.page = new.page] = new
    BY DEF Begun
  <2>. HIDE DEF one
  <2>. QED  BY <2>1, <2>2
<1>1. threads' = [threads EXCEPT ![a] = new]
  BY <1>0 DEF Begin, Begun
<1>2. threads[a] \in Thread /\ ThreadFits(threads[a], Latest, copied) /\ losses \in 0..MaxLosses
  BY ThreadOf DEF TypeInv, StateTypes
<1>3. ListProjects \in SUBSET Row /\ v \in Versions
  BY ListedRows, Numbers
<1>4. threads[a].queue \cup {v} \in SUBSET Versions /\ threads[a].queue \cup {v} \subseteq 2..Latest
  BY <1>2, <1>3 DEF ThreadFits, Thread
<1>5. new \in Thread /\ ThreadFits(new, Latest, copied)
  BY <1>3, <1>4, PolicyConstants DEF Begun, Thread, ThreadFits, Publishing, InPage, AtCurrent
<1>. HIDE DEF new
<1>. QED  BY <1>1, <1>2, <1>5, OnlyMoves DEF new

LEMMA ThreadMovedOnly ==
    ASSUME TypeInv, NEW a \in Threads, NEW th \in Thread,
           threads' = [threads EXCEPT ![a] = th],
           ThreadFits(th, Latest, copied), UNCHANGED <<wiring, copied, snapshots>>
    PROVE  ThreadTypes' /\ Latest' = Latest
<1>1. Latest' = Latest
  BY DEF Latest
<1>2. Latest' \in Nat /\ Latest <= Latest' /\ ThreadFits(th, Latest', copied')
  BY <1>1, Numbers
<1>. QED  BY <1>1, <1>2, ThreadMoved

(* The event and the project in the hands of a thread. *)
LEMMA InHands ==
    ASSUME TypeInv, NEW a \in Threads
    PROVE  /\ threads[a].at \in {"sent", "handled"} \cup InPage =>
                /\ threads[a].queue # {} /\ Event(a) \in threads[a].queue
                /\ Event(a) \in 2..Latest /\ Event(a) \in Versions
           /\ threads[a].at \in AtCurrent \/ AtProject(a) =>
                /\ threads[a].page # {}
                /\ Current(a) \in threads[a].page /\ Current(a) \in Row /\ Current(a).p \in Projects
<1>1. ThreadFits(threads[a], Latest, copied)
  BY ThreadOf
<1>. QED  BY <1>1, EventPublished, CurrentListed DEF ThreadFits, AtProject

(* The project a thread is at is struck off its page, or kept. *)
Struck(a) ==
    [at |-> "handling", proposal |-> threads[a].proposal, version |-> threads[a].version,
     queue |-> threads[a].queue, page |-> threads[a].page \ {Current(a)}]

LEMMA StruckFits ==
    ASSUME TypeInv, NEW a \in Threads, NextProject(a), threads[a].at \in InPage
    PROVE  /\ threads' = [threads EXCEPT ![a] = Struck(a)]
           /\ Struck(a) \in Thread /\ ThreadFits(Struck(a), Latest, copied)
<1>. DEFINE th == threads[a]  rest == th.page \ {Current(a)}
<1>1. th \in Thread /\ ThreadFits(th, Latest, copied)
  BY ThreadOf
<1>2. [th EXCEPT !.at = "handling", !.page = rest] = Struck(a)
  BY <1>1, ThreadAtPage DEF Struck
<1>3. threads' = [threads EXCEPT ![a] = Struck(a)]
  BY <1>2 DEF NextProject
<1>4. Struck(a) \in Thread /\ ThreadFits(Struck(a), Latest, copied)
  BY <1>1 DEF Struck, Thread, ThreadFits, Publishing, InPage, AtCurrent
<1>. QED  BY <1>3, <1>4

Moved(a, at, n) ==
    [at |-> at, proposal |-> threads[a].proposal, version |-> n,
     queue |-> threads[a].queue, page |-> threads[a].page]

LEMMA MovedFits ==
    ASSUME TypeInv, NEW a \in Threads, NEW at \in AtCurrent \cup {"handled"}, NEW n, n \in 0..MaxVersion,
           \/ Goto(a, at) /\ n = threads[a].version
           \/ threads' = [threads EXCEPT ![a] = [@ EXCEPT !.at = at, !.version = n]],
           threads[a].at \in InPage, at \in AtCurrent => threads[a].page # {},
           at \in {"marking", "resaving"} => n <= Latest, at = "resaving" => n # 0
    PROVE  /\ threads' = [threads EXCEPT ![a] = Moved(a, at, n)]
           /\ Moved(a, at, n) \in Thread /\ ThreadFits(Moved(a, at, n), Latest, copied)
<1>. DEFINE th == threads[a]
<1>1. th \in Thread /\ ThreadFits(th, Latest, copied)
  BY ThreadOf
<1>2. [th EXCEPT !.at = at, !.version = n] = Moved(a, at, n)
  <2>1. th \in Thread
    BY <1>1
  <2>. HIDE DEF th
  <2>2. [th EXCEPT !.at = at, !.version = n] =
          [at |-> at, proposal |-> th.proposal, version |-> n, queue |-> th.queue, page |-> th.page]
    BY ONLY <2>1, ThreadAtVersion
  <2>. QED  BY <2>2 DEF Moved, th
<1>3. n = th.version => [th EXCEPT !.at = at] = Moved(a, at, n)
  BY <1>1, ThreadAt DEF Moved
<1>4. threads' = [threads EXCEPT ![a] = Moved(a, at, n)]
  BY <1>2, <1>3 DEF Goto
<1>5. Moved(a, at, n) \in Thread
  BY <1>1 DEF Moved, Thread, InPage, AtCurrent
<1>6. ThreadFits(Moved(a, at, n), Latest, copied)
  BY <1>1 DEF Moved, ThreadFits, Publishing, InPage, AtCurrent
<1>. QED  BY <1>4, <1>5, <1>6

(* The steps of the consumer from one project of the page to the next. *)
LEMMA PageTypes ==
    ASSUME TypeInv, NEW a \in Threads,
           RecordInterrupted(a) \/ PassBy(a) \/ CompleteRecalc(a)
    PROVE  TypeInv'
<1>1. threads[a].at \in InPage /\ NextProject(a) /\ (threads[a].at \in AtCurrent \/ AtProject(a))
  BY DEF RecordInterrupted, PassBy, CompleteRecalc, AtProject, InPage, AtCurrent
<1>2. UNCHANGED <<wiring, refresh, policy, receipts, product, losses>>
  BY DEF RecordInterrupted, PassBy, CompleteRecalc, consumer
<1>3. recalcs' \in [Versions \X Projects -> {"none", "started", "completed"}]
  <2>1. recalcs' = recalcs \/ recalcs' = [recalcs EXCEPT ![<<Event(a), Current(a).p>>] = "completed"]
    BY DEF RecordInterrupted, PassBy, CompleteRecalc, consumer
  <2>. QED  BY <2>1 DEF TypeInv, StateTypes
<1>4. ThreadTypes' /\ Latest' = Latest
  BY <1>1, <1>2, StruckFits, ThreadMovedOnly DEF policy, discards
<1>. QED  BY <1>2, <1>3, <1>4 DEF TypeInv, StateTypes, refresh, policy, discards, product

(* Reading a project and saving it with its flag. *)
LEMMA MarkTypes ==
    ASSUME TypeInv, NEW a \in Threads, ReadMark(a) \/ SaveMark(a)
    PROVE  TypeInv'
<1>. DEFINE p == Current(a).p
<1>1. threads[a].at \in InPage /\ (threads[a].at \in AtCurrent \/ AtProject(a))
  BY DEF ReadMark, SaveMark, AtProject, InPage, AtCurrent
<1>2. p \in Projects /\ threads[a].page # {} /\ threads[a].at \in InPage
  BY <1>1, InHands DEF AtProject, InPage, AtCurrent
<1>3. /\ project \in [Projects -> Project] /\ \A q \in Projects : project[q].version <= Latest
      /\ Latest \in Nat
  BY Numbers DEF TypeInv, StateTypes
<1>4. CASE ReadMark(a)
  <2>. DEFINE n == project[p].version
  <2>1. n \in 0..MaxVersion /\ n <= Latest
    BY <1>2, <1>3 DEF Project
  <2>2. threads' = [threads EXCEPT ![a] = [@ EXCEPT !.at = "marking", !.version = n]]
        /\ UNCHANGED <<wiring, refresh, policy, consumer, product, losses>>
    BY <1>4 DEF ReadMark
  <2>. HIDE DEF n
  <2>3. "marking" \in AtCurrent /\ losses \in 0..MaxLosses
    BY DEF AtCurrent, InPage, TypeInv, StateTypes
  <2>4. /\ threads' = [threads EXCEPT ![a] = Moved(a, "marking", n)]
        /\ Moved(a, "marking", n) \in Thread /\ ThreadFits(Moved(a, "marking", n), Latest, copied)
    BY <1>2, <2>1, <2>2, <2>3, MovedFits
  <2>. QED  BY <2>2, <2>3, <2>4, OnlyMoves
<1>5. CASE SaveMark(a)
  <2>. DEFINE n == threads[a].version
              pr == [version |-> n, stale |-> TRUE, since |-> Since(p, n, FALSE)]
  <2>1. n \in 0..Latest
    <3>1. threads[a] \in Thread /\ ThreadFits(threads[a], Latest, copied) /\ threads[a].at = "marking"
      BY <1>5, ThreadOf DEF SaveMark
    <3>. QED  BY <1>3, <3>1, PolicyConstants DEF Thread, ThreadFits
  <2>2. pr \in Project /\ pr.version <= Latest
    <3>1. TRUE \in BOOLEAN /\ FALSE \in BOOLEAN
      OBVIOUS
    <3>2. pr \in Project
      BY <1>2, <2>1, <3>1, SinceTypes
    <3>. QED  BY <1>3, <2>1, <3>2
  <2>3. /\ project' = [project EXCEPT ![p] = pr]
        /\ threads' = [threads EXCEPT ![a] = [@ EXCEPT !.at = "marked", !.version = 0]]
        /\ UNCHANGED <<wiring, refresh, policy, consumer, requests, heard, losses>>
    BY <1>5 DEF SaveMark
  <2>. HIDE DEF pr, n
  <2>4. project' \in [Projects -> Project] /\ \A q \in Projects : project'[q].version <= Latest
    BY <1>2, <1>3, <2>2, <2>3
  <2>5. "marked" \in AtCurrent /\ 0 \in 0..MaxVersion
    BY PolicyConstants DEF AtCurrent, InPage
  <2>6. /\ threads' = [threads EXCEPT ![a] = Moved(a, "marked", 0)]
        /\ Moved(a, "marked", 0) \in Thread /\ ThreadFits(Moved(a, "marked", 0), Latest, copied)
    BY <1>2, <2>3, <2>5, MovedFits
  <2>7. ThreadTypes' /\ Latest' = Latest
    BY <2>3, <2>6, ThreadMovedOnly DEF policy, discards
  <2>. QED  BY <2>3, <2>4, <2>7 DEF TypeInv, StateTypes, refresh, policy, discards, consumer
<1>. QED  BY <1>4, <1>5

(* The event is recorded. *)
LEMMA RecordTypes ==
    ASSUME TypeInv, NEW a \in Threads, MarkStale(a) \/ MarkProvisional(a)
    PROVE  TypeInv'
<1>. DEFINE v == Event(a)  p == Current(a).p
<1>1. Record(a) /\ threads[a].at \in AtCurrent /\ threads[a].at \in InPage
  BY DEF MarkStale, MarkProvisional, Record, InPage, AtCurrent
<1>2. v \in 2..Latest /\ p \in Projects /\ threads[a].page # {}
  BY <1>1, InHands
<1>3. heard' \subseteq (2..Latest) \X Projects
  BY <1>1, <1>2 DEF Record, TypeInv, StateTypes
<1>4. recalcs' \in [Versions \X Projects -> {"none", "started", "completed"}]
  <2>1. \/ recalcs' = recalcs
        \/ recalcs' = [recalcs EXCEPT ![<<v, p>>] = IF recalcs[<<v, p>>] = "none" THEN "started" ELSE recalcs[<<v, p>>]]
    BY DEF MarkStale, MarkProvisional
  <2>2. <<v, p>> \in Versions \X Projects
    BY <1>2, Numbers
  <2>. QED  BY <2>1, <2>2 DEF TypeInv, StateTypes
<1>5. UNCHANGED <<wiring, refresh, policy, receipts, project, requests, losses>>
  BY <1>1 DEF Record
<1>6. ThreadTypes' /\ Latest' = Latest
  <2>1. CASE MarkStale(a)
    <3>1. NextProject(a)
      BY <2>1 DEF MarkStale
    <3>. QED  BY <1>1, <1>5, <3>1, StruckFits, ThreadMovedOnly DEF policy, discards
  <2>2. CASE MarkProvisional(a)
    <3>. DEFINE n == threads[a].version
    <3>1. Goto(a, "recalculating") /\ n \in 0..MaxVersion /\ "recalculating" \in AtCurrent
      BY <2>2, ThreadOf DEF MarkProvisional, Thread, AtCurrent, InPage
    <3>2. /\ threads' = [threads EXCEPT ![a] = Moved(a, "recalculating", n)]
          /\ Moved(a, "recalculating", n) \in Thread /\ ThreadFits(Moved(a, "recalculating", n), Latest, copied)
      BY <1>1, <1>2, <3>1, MovedFits
    <3>. QED  BY <1>5, <3>2, ThreadMovedOnly DEF policy, discards
  <2>. QED  BY <2>1, <2>2
<1>. QED  BY <1>3, <1>4, <1>5, <1>6 DEF TypeInv, StateTypes, refresh, policy, discards

LEMMA RecalcTypes ==
    ASSUME TypeInv, NEW a \in Threads, ReadRecalc(a) \/ RecalcTier(a) \/ RecalcRefused(a)
    PROVE  TypeInv'
<1>. DEFINE v == Event(a)  p == Current(a).p
<1>1. threads[a].at \in InPage /\ threads[a].at \in AtCurrent
  BY DEF ReadRecalc, RecalcTier, RecalcRefused, InPage, AtCurrent
<1>2. v \in 2..Latest /\ v \in Versions /\ p \in Projects /\ threads[a].page # {}
  BY <1>1, InHands
<1>3. /\ project \in [Projects -> Project] /\ \A q \in Projects : project[q].version <= Latest
      /\ Latest \in Nat /\ losses \in 0..MaxLosses
  BY Numbers DEF TypeInv, StateTypes
<1>4. CASE ReadRecalc(a)
  <2>. DEFINE n == project[p].version
  <2>1. n \in 0..MaxVersion /\ n <= Latest /\ n # 0
    BY <1>2, <1>3, <1>4 DEF Project, ReadRecalc
  <2>2. threads' = [threads EXCEPT ![a] = [@ EXCEPT !.at = "resaving", !.version = n]]
        /\ UNCHANGED <<wiring, refresh, policy, consumer, product, losses>>
    BY <1>4 DEF ReadRecalc
  <2>. HIDE DEF n
  <2>3. "resaving" \in AtCurrent
    BY DEF AtCurrent, InPage
  <2>4. /\ threads' = [threads EXCEPT ![a] = Moved(a, "resaving", n)]
        /\ Moved(a, "resaving", n) \in Thread /\ ThreadFits(Moved(a, "resaving", n), Latest, copied)
    BY <1>1, <1>2, <2>1, <2>2, <2>3, MovedFits
  <2>. QED  BY <1>3, <2>2, <2>4, OnlyMoves
<1>5. CASE RecalcTier(a)
  <2>. DEFINE n == threads[a].version
              pr == [version |-> v, stale |-> FALSE, since |-> Since(p, n, FALSE)]
  <2>1. n \in 0..Latest /\ v \in 0..Latest
    <3>1. threads[a] \in Thread /\ ThreadFits(threads[a], Latest, copied) /\ threads[a].at = "resaving"
      BY <1>5, ThreadOf DEF RecalcTier
    <3>. QED  BY <1>2, <1>3, <3>1, PolicyConstants DEF Thread, ThreadFits
  <2>2. pr \in Project /\ pr.version <= Latest
    <3>1. [version |-> n, stale |-> FALSE, since |-> Since(p, n, FALSE)] \in Project
      BY <1>2, <2>1, SinceTypes
    <3>2. v \in 0..MaxVersion /\ v <= Latest
      BY <1>3, <2>1, Numbers
    <3>. QED  BY <3>1, <3>2 DEF Project
  <2>3. /\ project' = [project EXCEPT ![p] = pr]
        /\ threads' = [threads EXCEPT ![a] = [@ EXCEPT !.at = "completing", !.version = 0]]
        /\ UNCHANGED <<wiring, refresh, policy, consumer, requests, heard, losses>>
    BY <1>5 DEF RecalcTier
  <2>. HIDE DEF pr, n
  <2>4. project' \in [Projects -> Project] /\ \A q \in Projects : project'[q].version <= Latest
    BY <1>2, <1>3, <2>2, <2>3
  <2>5. "completing" \in AtCurrent /\ 0 \in 0..MaxVersion
    BY PolicyConstants DEF AtCurrent, InPage
  <2>6. /\ threads' = [threads EXCEPT ![a] = Moved(a, "completing", 0)]
        /\ Moved(a, "completing", 0) \in Thread /\ ThreadFits(Moved(a, "completing", 0), Latest, copied)
    BY <1>1, <1>2, <2>3, <2>5, MovedFits
  <2>7. ThreadTypes' /\ Latest' = Latest
    BY <2>3, <2>6, ThreadMovedOnly DEF policy, discards
  <2>. QED  BY <2>3, <2>4, <2>7 DEF TypeInv, StateTypes, refresh, policy, discards, consumer
<1>6. CASE RecalcRefused(a)
  <2>. DEFINE n == threads[a].version
  <2>1. Goto(a, "completing") /\ n \in 0..MaxVersion /\ "completing" \in AtCurrent
        /\ UNCHANGED <<wiring, refresh, policy, consumer, product, losses>>
    BY <1>6, ThreadOf DEF RecalcRefused, Thread, AtCurrent, InPage
  <2>2. /\ threads' = [threads EXCEPT ![a] = Moved(a, "completing", n)]
        /\ Moved(a, "completing", n) \in Thread /\ ThreadFits(Moved(a, "completing", n), Latest, copied)
    BY <1>1, <1>2, <2>1, MovedFits
  <2>. QED  BY <1>3, <2>1, <2>2, OnlyMoves
<1>. QED  BY <1>4, <1>5, <1>6

(* The end of an event. *)
LEMMA EndTypes ==
    ASSUME TypeInv, NEW a \in Threads, PutReceipt(a) \/ Acknowledged(a) \/ HandlingFails(a)
    PROVE  TypeInv'
<1>1. CASE PutReceipt(a)
  <2>1. threads[a].at \in InPage
    BY <1>1 DEF PutReceipt, InPage
  <2>2. ThreadTypes' /\ Latest' = Latest
    <3>. DEFINE n == threads[a].version
    <3>1. /\ Goto(a, "handled") /\ n \in 0..MaxVersion /\ UNCHANGED <<wiring, copied, snapshots>>
          /\ "handled" \in AtCurrent \cup {"handled"} /\ "handled" \notin AtCurrent
      BY <1>1, ThreadOf DEF PutReceipt, Thread, AtCurrent, InPage, policy, discards
    <3>2. /\ threads' = [threads EXCEPT ![a] = Moved(a, "handled", n)]
          /\ Moved(a, "handled", n) \in Thread /\ ThreadFits(Moved(a, "handled", n), Latest, copied)
      BY <2>1, <3>1, MovedFits
    <3>. QED  BY <3>1, <3>2, ThreadMovedOnly
  <2>3. receipts' \subseteq 2..Latest
    BY <1>1, <2>1, InHands DEF PutReceipt, TypeInv, StateTypes
  <2>4. UNCHANGED <<wiring, refresh, policy, recalcs, product, losses>>
    BY <1>1 DEF PutReceipt
  <2>. QED  BY <2>2, <2>3, <2>4 DEF TypeInv, StateTypes, refresh, policy, discards, product
<1>2. CASE Acknowledged(a)
  <2>1. CASE wiring = "inline"
    <3>1. threads[a].queue # {} /\ Event(a) \in Versions
      BY <1>2, InHands DEF Acknowledged
    <3>2. outbox' \in [Versions -> {"none", "pending", "sent"}]
      BY <1>2, <2>1, <3>1 DEF Acknowledged, TypeInv, StateTypes
    <3>. DEFINE th == threads[a]
                rest == th.queue \ {Event(a)}
                new == [at |-> "fanning", proposal |-> th.proposal, version |-> th.version,
                        queue |-> rest, page |-> th.page]
    <3>3. th \in Thread /\ ThreadFits(th, Latest, copied)
      BY ThreadOf
    <3>4. [th EXCEPT !.at = "fanning", !.queue = rest] = new
      BY <3>3, ThreadAtQueue
    <3>5. threads' = [threads EXCEPT ![a] = new]
      BY <1>2, <2>1, <3>4 DEF Acknowledged, NextRow
    <3>6. new \in Thread /\ ThreadFits(new, Latest, copied)
      BY <3>3 DEF Thread, ThreadFits, Publishing, InPage, AtCurrent
    <3>. HIDE DEF new
    <3>7. UNCHANGED <<wiring, refresh, proposals, discards, snapshots, topic, consumer, product, losses>>
      BY <1>2 DEF Acknowledged
    <3>8. ThreadTypes' /\ Latest' = Latest
      BY <3>5, <3>6, <3>7, ThreadMovedOnly DEF discards
    <3>. QED  BY <3>2, <3>7, <3>8 DEF TypeInv, StateTypes, refresh, discards, consumer, product
  <2>2. CASE wiring # "inline"
    <3>1. Leave(a) /\ losses' = losses /\ UNCHANGED <<wiring, refresh, policy, consumer, product>>
      BY <1>2, <2>2 DEF Acknowledged, policy
    <3>2. losses \in 0..MaxLosses
      BY DEF TypeInv, StateTypes
    <3>. QED  BY <3>1, <3>2, LeaveTypes
  <2>. QED  BY <2>1, <2>2
<1>3. CASE HandlingFails(a)
  BY <1>3, LossesCount, LeaveTypes DEF HandlingFails
<1>. QED  BY <1>1, <1>2, <1>3

LEMMA DieTypes ==
    ASSUME TypeInv, Die
    PROVE  TypeInv'
<1>1. runs' \in [Runs -> PolicyRun]
  BY DEF Die, TypeInv, StateTypes, PolicyRun
<1>2. Latest' = Latest /\ UNCHANGED <<wiring, source, policy, project, heard>>
  BY DEF Die, policy, Latest
<1>3. ThreadTypes'
  <2>1. Idle \in Thread /\ ThreadFits(Idle, Latest, copied)'
    BY <1>2, IdleFits DEF ThreadFits, policy, discards
  <2>. QED  BY <2>1 DEF Die, ThreadTypes
<1>4. requests' \in [Projects -> Request] /\ \A p \in Projects : requests'[p].version <= Latest
  BY PolicyConstants, Numbers DEF Die, NoRequest, Request
<1>5. losses' \in 0..MaxLosses /\ receipts' = {}
      /\ recalcs' \in [Versions \X Projects -> {"none", "started", "completed"}]
  BY LossesCount DEF Die
<1>. QED  BY <1>1, <1>2, <1>3, <1>4, <1>5 DEF TypeInv, StateTypes, policy, discards

LEMMA StepTypes ==
    ASSUME TypeInv, OneAtWork, [Next]_vars
    PROVE  TypeInv'
<1>1. CASE Refresh
  BY <1>1, RefreshTypes
<1>2. CASE Administer
  BY <1>2, PublicationTypes, DiscardTypes DEF Administer
<1>3. ASSUME NEW a \in Threads, Step(a) \/ Loss(a)
      PROVE  TypeInv'
  <2>1. CASE ReadLatest(a) \/ RefusePublication(a) \/ PublicationConflict(a)
    BY <2>1, PublicationTypes
  <2>2. CASE CommitPublication(a) \/ CopyProposals(a) \/ SwapProposals(a)
    BY <2>2, CommitTypes, CopyTypes
  <2>3. CASE ListOutbox(a) \/ EndFanOut(a) \/ PublishEvent(a) \/ PublishEventFails(a) \/ MarkPublished(a)
    BY <2>3, OutboxTypes
  <2>4. CASE HandleNext(a)
    <3>1. /\ Begin(a, Event(a)) /\ threads[a].queue # {} /\ losses' = losses
          /\ UNCHANGED <<wiring, refresh, policy, consumer, product>>
      BY <2>4 DEF HandleNext
    <3>2. Event(a) \in 2..Latest
      BY <3>1, EventPublished
    <3>. QED  BY <3>1, <3>2, BeginTypes
  <2>5. CASE RecordInterrupted(a) \/ PassBy(a) \/ CompleteRecalc(a)
    BY <2>5, PageTypes
  <2>6. CASE ReadMark(a) \/ SaveMark(a) \/ MarkStale(a) \/ MarkProvisional(a)
    BY <2>6, MarkTypes, RecordTypes
  <2>7. CASE ReadRecalc(a) \/ RecalcTier(a) \/ RecalcRefused(a)
    BY <2>7, RecalcTypes
  <2>8. CASE PutReceipt(a) \/ Acknowledged(a) \/ HandlingFails(a)
    BY <2>8, EndTypes
  <2>. QED  BY <1>3, <2>1, <2>2, <2>3, <2>4, <2>5, <2>6, <2>7, <2>8 DEF Step, Loss
<1>4. ASSUME NEW a \in Threads, NEW v \in Versions, Receive(a, v)
      PROVE  TypeInv'
  <2>1. v \in 2..Latest
    BY <1>4 DEF Receive, TypeInv, StateTypes
  <2>2. Begin(a, v) /\ losses' = losses /\ UNCHANGED <<wiring, refresh, policy, consumer, product>>
    BY <1>4 DEF Receive
  <2>. QED  BY <2>1, <2>2, BeginTypes
<1>5. CASE Product
  BY <1>5, ProductTypes
<1>6. CASE Die
  BY <1>6, DieTypes
<1>7. CASE UNCHANGED vars
  <2>1. Latest' = Latest
    BY <1>7 DEF vars, policy, Latest
  <2>2. StateTypes'
    BY <1>7, <2>1 DEF TypeInv, StateTypes, vars, refresh, policy, discards, consumer, product
  <2>3. ThreadTypes'
    BY <1>7, <2>1 DEF TypeInv, ThreadTypes, ThreadFits, vars, policy, discards
  <2>. QED  BY <2>2, <2>3 DEF TypeInv
<1>. QED  BY <1>1, <1>2, <1>3, <1>4, <1>5, <1>6, <1>7 DEF Next

Others(a) == \A b \in Threads : b # a => threads'[b] = threads[b]

(* One thread moves that is at work already, that stops, or that starts    *)
(* where nobody is.                                                        *)
LEMMA OneMoves ==
    ASSUME OneAtWork, NEW a \in Threads, Others(a), wiring' = wiring,
           wiring = "inline" =>
               /\ topic' = topic
               /\ threads[a].at # "idle" \/ threads'[a].at = "idle" \/ LoopFree
    PROVE  OneAtWork'
<1>. SUFFICES ASSUME wiring = "inline"
              PROVE  /\ topic' = {}
                     /\ \A b, c \in Threads :
                            threads'[b].at # "idle" /\ threads'[c].at # "idle" => b = c
  BY DEF OneAtWork
<1>. QED  BY DEF OneAtWork, Others, LoopFree

(* What a thread does leaves the others alone. *)
LEMMA StepOthers ==
    ASSUME TypeInv, NEW a \in Threads, Step(a) \/ Loss(a)
    PROVE  /\ Others(a) /\ threads[a].at # "idle" /\ wiring' = wiring
           /\ wiring = "inline" => topic' = topic
<1>0. threads \in [Threads -> Thread]
  BY DEF TypeInv, ThreadTypes
<1>. DEFINE Good == /\ \E th : threads' = [threads EXCEPT ![a] = th]
                    /\ threads[a].at # "idle" /\ wiring' = wiring
                    /\ wiring = "inline" => topic' = topic
<1>1. CASE ReadLatest(a) \/ RefusePublication(a) \/ PublicationConflict(a)
  <2>1. Good
    BY <1>1 DEF ReadLatest, RefusePublication, PublicationConflict, Leave, policy
  <2>. QED  BY <1>0, <2>1 DEF Others
<1>2. CASE CommitPublication(a) \/ CopyProposals(a) \/ SwapProposals(a)
  <2>1. Good
    BY <1>2 DEF CommitPublication, CopyProposals, SwapProposals, Publish, Goto
  <2>. QED  BY <1>0, <2>1 DEF Others
<1>3. CASE ListOutbox(a) \/ EndFanOut(a) \/ PublishEvent(a) \/ PublishEventFails(a) \/ MarkPublished(a)
  <2>1. Good
    BY <1>3 DEF ListOutbox, EndFanOut, PublishEvent, PublishEventFails, MarkPublished, NextRow, Goto, Leave, policy
  <2>. QED  BY <1>0, <2>1 DEF Others
<1>4. CASE HandleNext(a) \/ RecordInterrupted(a) \/ PassBy(a) \/ CompleteRecalc(a)
  <2>1. Good
    BY <1>4 DEF HandleNext, Begin, RecordInterrupted, PassBy, CompleteRecalc, AtProject, NextProject, policy
  <2>. QED  BY <1>0, <2>1 DEF Others
<1>5. CASE ReadMark(a) \/ SaveMark(a) \/ MarkStale(a) \/ MarkProvisional(a)
  <2>1. Good
    BY <1>5 DEF ReadMark, SaveMark, MarkStale, MarkProvisional, Record, AtProject, NextProject, Goto, policy
  <2>. QED  BY <1>0, <2>1 DEF Others
<1>6. CASE ReadRecalc(a) \/ RecalcTier(a) \/ RecalcRefused(a)
  <2>1. Good
    BY <1>6 DEF ReadRecalc, RecalcTier, RecalcRefused, Goto, policy
  <2>. QED  BY <1>0, <2>1 DEF Others
<1>7. CASE PutReceipt(a) \/ Acknowledged(a) \/ HandlingFails(a)
  <2>1. Good
    BY <1>7 DEF PutReceipt, Acknowledged, HandlingFails, InPage, NextRow, Goto, Leave, policy
  <2>. QED  BY <1>0, <2>1 DEF Others
<1>. QED  BY <1>1, <1>2, <1>3, <1>4, <1>5, <1>6, <1>7 DEF Step, Loss

LEMMA StepAtWork ==
    ASSUME TypeInv, OneAtWork, [Next]_vars
    PROVE  OneAtWork'
<1>0. threads \in [Threads -> Thread]
  BY DEF TypeInv, ThreadTypes
<1>1. CASE UNCHANGED <<wiring, topic, threads>>
  BY <1>1 DEF OneAtWork
<1>2. ASSUME Refresh \/ Product
      PROVE  UNCHANGED <<wiring, topic, threads>>
  BY <1>2, RefreshTypes, ProductTypes DEF policy
<1>3. ASSUME NEW r \in Runs, Discard(r) \/ CheckDiscard(r) \/ WriteDiscard(r)
      PROVE  UNCHANGED <<wiring, topic, threads>>
  BY <1>3, DiscardTypes
<1>4. ASSUME NEW a \in Threads, NEW r \in Runs, ReadProposal(a, r)
      PROVE  OneAtWork'
  <2>1. /\ LoopFree /\ wiring' = wiring /\ topic' = topic
        /\ \E th : threads' = [threads EXCEPT ![a] = th]
    BY <1>4 DEF ReadProposal, policy
  <2>2. Others(a)
    BY <1>0, <2>1 DEF Others
  <2>. QED  BY <2>1, <2>2, OneMoves
<1>5. ASSUME NEW a \in Threads, Step(a) \/ Loss(a)
      PROVE  OneAtWork'
  BY <1>5, StepOthers, OneMoves
<1>6. ASSUME NEW a \in Threads, NEW v \in Versions, Receive(a, v)
      PROVE  OneAtWork'
  <2>1. wiring' = wiring /\ wiring # "inline"
    BY <1>6 DEF Receive, OneAtWork
  <2>. QED  BY <2>1 DEF OneAtWork
<1>7. CASE Die
  BY <1>7 DEF Die, OneAtWork
<1>8. CASE UNCHANGED vars
  BY <1>1, <1>8 DEF vars, policy
<1>. QED  BY <1>1, <1>2, <1>3, <1>4, <1>5, <1>6, <1>7, <1>8 DEF Next, Administer

LEMMA InitAtWork == Init => OneAtWork
BY DEF Init, OneAtWork, Idle

THEOREM TypesFit == Spec => [](TypeInv /\ OneAtWork)
BY InitTypes, InitAtWork, StepTypes, StepAtWork, PTL DEF Spec

(* Types of the policy loop: what is in a thread's hands is published, and *)
(* a thread that handles an event or a project has one.                    *)
THEOREM LoopTypesCorrect == Spec => []TypeOK
BY TypesFit, TypeInvTypes, PTL

-----------------------------------------------------------------------------
(* Runs, proposals, versions and rows *)

(* A run has created its proposal when it is over; inline the stored text  *)
(* is never compared in one step and saved in another.                     *)
Over(r) == runs[r].status # "none" /\ runs[r].at = "nowhere"
RunFits(r) ==
    /\ (proposals[r].status # "none" \/ copied[r].status # "none") => Over(r)
    /\ r \in discarding => wiring = "inline" /\ Over(r)
    /\ wiring = "inline" => runs[r].at # "comparing"

(* A version comes of a proposal that has been published, or discarded     *)
(* although it was; the published versions have a row in the outbox, and   *)
(* no others.                                                              *)
Decided(read) ==
    \A i \in 2..Latest :
        snapshots[i].from \in Runs /\ read[snapshots[i].from].status \in {"published", "discarded"}

Numbered ==
    /\ Decided(proposals)
    /\ \A v \in Versions : outbox[v] = "none" <=> v \notin 2..Latest

(* While the proposals are copied, none is added or published; some may be *)
(* discarded.                                                              *)
CopyFits ==
    (\E r \in Runs : copied[r].status # "none") =>
        /\ wiring = "inline"
        /\ Decided(copied)
        /\ \A r \in Runs : copied[r].status = "discarded" => proposals[r].status = "discarded"

LedgerInv == TypeInv /\ OneAtWork /\ Numbered /\ CopyFits /\ \A r \in Runs : RunFits(r)

(* The steps that touch them. *)
ledgerVars == <<wiring, runs, source, proposals, discards, snapshots, outbox>>
DiscardStep(r) == Discard(r) \/ CheckDiscard(r) \/ WriteDiscard(r)
PublicationStep(a) == CommitPublication(a) \/ SwapProposals(a)

LEMMA LedgerSteps ==
    ASSUME [Next]_vars
    PROVE  \/ Refresh \/ Die
           \/ \E r \in Runs : DiscardStep(r)
           \/ \E a \in Threads : \/ CopyProposals(a) \/ PublicationStep(a)
                               \/ MarkPublished(a) \/ Acknowledged(a)
           \/ UNCHANGED ledgerVars
<1>. USE DEF ledgerVars, refresh, policy
<1>1. ASSUME NEW a \in Threads, NEW r \in Runs, ReadProposal(a, r)
      PROVE  UNCHANGED ledgerVars
  BY <1>1 DEF ReadProposal
<1>2. ASSUME NEW a \in Threads,
             ReadLatest(a) \/ PublicationConflict(a) \/ ListOutbox(a) \/ EndFanOut(a) \/ PublishEvent(a)
      PROVE  UNCHANGED ledgerVars
  BY <1>2 DEF ReadLatest, PublicationConflict, ListOutbox, EndFanOut, PublishEvent
<1>3. ASSUME NEW a \in Threads, Loss(a)
      PROVE  UNCHANGED ledgerVars
  BY <1>3 DEF Loss, RefusePublication, PublishEventFails, HandlingFails
<1>4. ASSUME NEW a \in Threads,
             \/ HandleNext(a) \/ RecordInterrupted(a) \/ PassBy(a)
             \/ ReadMark(a) \/ SaveMark(a) \/ MarkStale(a) \/ MarkProvisional(a)
      PROVE  UNCHANGED ledgerVars
  BY <1>4 DEF HandleNext, RecordInterrupted, PassBy, ReadMark, SaveMark, MarkStale, MarkProvisional, Record
<1>5. ASSUME NEW a \in Threads,
             ReadRecalc(a) \/ RecalcTier(a) \/ RecalcRefused(a) \/ CompleteRecalc(a) \/ PutReceipt(a)
      PROVE  UNCHANGED ledgerVars
  BY <1>5 DEF ReadRecalc, RecalcTier, RecalcRefused, CompleteRecalc, PutReceipt
<1>6. ASSUME NEW a \in Threads, NEW v \in Versions, Receive(a, v)
      PROVE  UNCHANGED ledgerVars
  BY <1>6 DEF Receive
<1>7. ASSUME Product
      PROVE  UNCHANGED ledgerVars
  BY <1>7 DEF Product, RunClassification, Reclassify, Reanalyze, Edit, StartRequest, SaveCopy, EndRequest
<1>8. CASE UNCHANGED vars
  BY <1>8 DEF vars
<1>. QED  BY <1>1, <1>2, <1>3, <1>4, <1>5, <1>6, <1>7, <1>8 DEF Next, Administer, Step, DiscardStep, PublicationStep

LEMMA InitLedger == Init => LedgerInv
<1>. SUFFICES ASSUME Init PROVE LedgerInv
  OBVIOUS
<1>1. TypeInv /\ OneAtWork
  BY InitTypes, InitAtWork
<1>2. Latest = 1
  BY DEF Init, Latest
<1>3. \A v \in 2..Latest : FALSE
  BY <1>2
<1>4. Numbered
  BY <1>3 DEF Init, Numbered, Decided
<1>5. CopyFits
  BY DEF Init, CopyFits, NoProposal
<1>6. \A r \in Runs : RunFits(r)
  BY DEF Init, RunFits, NoProposal, NoRun
<1>. QED  BY <1>1, <1>4, <1>5, <1>6 DEF LedgerInv

(* A refresh gives a proposal to a run that had none. *)
LEMMA RefreshLedger ==
    ASSUME LedgerInv, Refresh
    PROVE  /\ \A r \in Runs : RunFits(r)'
           /\ \A r \in Runs : \/ proposals'[r] = proposals[r]
                              \/ proposals[r].status = "none" /\ proposals'[r].status = "pending"
           /\ wiring = "inline" /\ source # NoText /\ source' # source =>
                  \E r \in Runs :
                      /\ proposals[r].status = "none" /\ proposals'[r].status = "pending"
                      /\ runs[r].text = source'
<1>. PICK r \in Runs :
       \/ LaunchRun(r)
       \/ \E t \in Texts : FetchChange(r, t) \/ FetchNoChange(r, t)
       \/ CommitNoChange(r)
       \/ \E draft \in Drafts : CommitProposal(r, draft)
       \/ FailRun(r)
  BY DEF Refresh
<1>. DEFINE Goal ==
           /\ \A s \in Runs : RunFits(s)'
           /\ \A s \in Runs : \/ proposals'[s] = proposals[s]
                              \/ proposals[s].status = "none" /\ proposals'[s].status = "pending"
           /\ wiring = "inline" /\ source # NoText /\ source' # source =>
                  \E s \in Runs :
                      /\ proposals[s].status = "none" /\ proposals'[s].status = "pending"
                      /\ runs[s].text = source'
<1>0. /\ runs \in [Runs -> PolicyRun] /\ proposals \in [Runs -> PolicyProposal]
      /\ \A s \in Runs : RunFits(s)
  BY DEF LedgerInv, TypeInv, StateTypes
<1>a. ASSUME NEW status \in {"no_change", "proposal_created", "failed"}, FinishRun(r, status)
      PROVE  /\ runs'[r].status # "none" /\ runs'[r].at = "nowhere"
             /\ \A s \in Runs : s # r => runs'[s] = runs[s]
  BY <1>a, <1>0 DEF FinishRun, NoRun
<1>1. CASE LaunchRun(r)
  <2>1. /\ runs'[r].status = "running" /\ runs'[r].at = "fetching" /\ runs[r].status = "none"
        /\ \A s \in Runs : s # r => runs'[s] = runs[s]
    BY <1>0, <1>1 DEF LaunchRun, PolicyRun
  <2>2. UNCHANGED <<wiring, source, proposals, copied, discarding>>
    BY <1>1 DEF LaunchRun, policy, discards
  <2>3. \A s \in Runs : RunFits(s)'
    BY <1>0, <2>1, <2>2 DEF RunFits, Over
  <2>. QED  BY <2>2, <2>3
<1>2. ASSUME NEW t \in Texts, FetchChange(r, t)
      PROVE  Goal
  <2>1. /\ runs'[r].status = runs[r].status /\ runs'[r].at = "drafting" /\ runs[r].at = "fetching"
        /\ \A s \in Runs : s # r => runs'[s] = runs[s]
    BY <1>0, <1>2 DEF FetchChange, PolicyRun
  <2>2. UNCHANGED <<wiring, source, proposals, copied, discarding>>
    BY <1>2 DEF FetchChange, policy, discards
  <2>3. \A s \in Runs : RunFits(s)'
    BY <1>0, <2>1, <2>2 DEF RunFits, Over
  <2>. QED  BY <2>2, <2>3
<1>3. ASSUME NEW t \in Texts, FetchNoChange(r, t)
      PROVE  Goal
  <2>1. UNCHANGED <<wiring, proposals, copied, discarding>> /\ runs[r].at = "fetching" /\ source \in {NoText, t}
    BY <1>3 DEF FetchNoChange, IsChange, policy, discards
  <2>2. CASE wiring = "inline"
    <3>1. FinishRun(r, "no_change") /\ source' = t
      BY <1>3, <2>2 DEF FetchNoChange
    <3>2. \A s \in Runs : RunFits(s)'
      BY <1>0, <1>a, <2>1, <3>1 DEF RunFits, Over
    <3>. QED  BY <2>1, <3>1, <3>2
  <2>3. CASE wiring # "inline"
    <3>1. /\ runs'[r].at = "comparing" /\ source' = source
          /\ \A s \in Runs : s # r => runs'[s] = runs[s]
      BY <1>0, <1>3, <2>3 DEF FetchNoChange, PolicyRun
    <3>2. \A s \in Runs : RunFits(s)'
      BY <1>0, <2>1, <2>3, <3>1 DEF RunFits, Over
    <3>. QED  BY <2>1, <2>3, <3>2
  <2>. QED  BY <2>2, <2>3
<1>4. CASE CommitNoChange(r) \/ FailRun(r)
  <2>1. UNCHANGED <<wiring, proposals, copied, discarding>> /\ \E status \in {"no_change", "failed"} : FinishRun(r, status)
    BY <1>4 DEF CommitNoChange, FailRun, policy, discards
  <2>2. \A s \in Runs : RunFits(s)'
    BY <1>0, <1>a, <2>1 DEF RunFits, Over
  <2>3. wiring = "inline" => source' = source
    BY <1>0, <1>4 DEF CommitNoChange, FailRun, RunFits, Over
  <2>. QED  BY <2>1, <2>2, <2>3
<1>5. ASSUME NEW draft \in Drafts, CommitProposal(r, draft)
      PROVE  Goal
  <2>1. UNCHANGED <<wiring, copied, discarding>> /\ FinishRun(r, "proposal_created") /\ runs[r].at = "drafting"
        /\ source' = runs[r].text
    BY <1>5 DEF CommitProposal, discards
  <2>2. /\ proposals[r].status = "none" /\ proposals'[r].status = "pending"
        /\ \A s \in Runs : s # r => proposals'[s] = proposals[s]
    BY <1>0, <1>5, <2>1 DEF CommitProposal, RunFits, Over
  <2>3. \A s \in Runs : RunFits(s)'
    BY <1>0, <1>a, <2>1, <2>2 DEF RunFits, Over
  <2>. QED  BY <2>1, <2>2, <2>3
<1>. QED  BY <1>1, <1>2, <1>3, <1>4, <1>5

(* As long as nothing is published and nothing decided is taken back,      *)
(* versions and proposals fit together.                                    *)
LEMMA NumberedKept ==
    ASSUME LedgerInv, UNCHANGED <<snapshots, outbox>>,
           \A r \in Runs : proposals[r].status \in {"published", "discarded"} =>
                              proposals'[r].status \in {"published", "discarded"}
    PROVE  Numbered'
<1>1. Latest' = Latest
  BY DEF Latest
<1>. QED  BY <1>1 DEF LedgerInv, Numbered, Decided

LEMMA CopyKept ==
    ASSUME LedgerInv, UNCHANGED <<wiring, copied, snapshots>>,
           \A r \in Runs : proposals[r].status = "discarded" => proposals'[r].status = "discarded"
    PROVE  CopyFits'
<1>1. Latest' = Latest
  BY DEF Latest
<1>2. Decided(copied) => Decided(copied)'
  BY <1>1 DEF Decided
<1>. QED  BY <1>2 DEF LedgerInv, CopyFits

LEMMA CopyLedger ==
    ASSUME LedgerInv, NEW a \in Threads, CopyProposals(a)
    PROVE  /\ LedgerInv'
           /\ UNCHANGED <<wiring, runs, source, proposals, discarding, snapshots, outbox>>
<1>1. /\ UNCHANGED <<wiring, runs, source, proposals, discarding, snapshots, outbox, topic>>
      /\ copied' = proposals /\ wiring = "inline"
  BY DEF CopyProposals, refresh
<1>2. TypeInv' /\ OneAtWork'
  <2>1. Step(a)
    BY DEF Step
  <2>2. [Next]_vars
    BY <2>1 DEF Next
  <2>. QED  BY <2>2, CopyTypes, StepAtWork DEF LedgerInv
<1>3. Numbered'
  BY <1>1, NumberedKept
<1>4. CopyFits'
  <2>1. Latest' = Latest
    BY <1>1 DEF Latest
  <2>2. Decided(copied)'
    BY <1>1, <2>1 DEF LedgerInv, Numbered, Decided
  <2>. QED  BY <1>1, <2>2 DEF CopyFits
<1>5. \A r \in Runs : RunFits(r)'
  BY <1>1 DEF LedgerInv, RunFits, Over
<1>. QED  BY <1>1, <1>2, <1>3, <1>4, <1>5 DEF LedgerInv

(* What a publication does to proposals, versions and rows. *)
LEMMA CommitLedger ==
    ASSUME LedgerInv, NEW a \in Threads, PublicationStep(a)
    PROVE  LET r == threads[a].proposal  v == threads[a].version IN
           /\ proposals'[r].status = "published"
           /\ \A i \in 2..Latest : snapshots[i].from # r
           /\ \A s \in Runs : proposals'[s].status = "discarded" => proposals[s].status = "discarded"
           /\ wiring = "pubsub" =>
                /\ proposals[r].status = "pending"
                /\ \A s \in Runs : s # r => proposals'[s] = proposals[s]
           /\ outbox'[v] = "pending"
           /\ \A w \in Versions : w # v => outbox'[w] = outbox[w]
           /\ UNCHANGED <<wiring, runs, source>>
           /\ LedgerInv'
<1>. DEFINE r == threads[a].proposal
            v == threads[a].version
            read == IF threads[a].at = "swapping" THEN copied ELSE proposals
<1>0. TypeInv /\ OneAtWork /\ wiring \in {"inline", "pubsub"}
  BY DEF LedgerInv, TypeInv, StateTypes
<1>1. /\ r \in Runs /\ v \in Versions /\ v = Latest + 1 /\ Latest' = v
      /\ \A i \in 1..Latest : snapshots'[i] = snapshots[i]
      /\ snapshots'[v] = NextSnapshot(r)
  BY <1>0, Published DEF PublicationStep
<1>2. /\ Publish(a, read) /\ read \in [Runs -> PolicyProposal]
      /\ threads[a].at \in {"committing", "swapping"}
  BY <1>0, PublishedOver DEF PublicationStep
<1>3. read[r].status = "pending"
  <2>1. CASE CommitPublication(a)
    BY <2>1 DEF CommitPublication, Publishable
  <2>2. CASE SwapProposals(a)
    BY <1>0, <2>2, ThreadOf DEF SwapProposals, ThreadFits
  <2>. QED  BY <2>1, <2>2 DEF PublicationStep
<1>4. /\ Decided(read)
      /\ \A s \in Runs : read[s].status = "discarded" => proposals[s].status = "discarded"
      /\ \A s \in Runs : read[s].status # "none" => Over(s)
  <2>1. CASE threads[a].at = "swapping"
    <3>1. CopyFits /\ copied[r].status # "none"
      BY <1>3, <2>1 DEF LedgerInv
    <3>2. \A s \in Runs : copied[s].status # "none" => Over(s)
      BY DEF LedgerInv, RunFits
    <3>. QED  BY <1>1, <2>1, <3>1, <3>2 DEF CopyFits
  <2>2. CASE threads[a].at # "swapping"
    BY <2>2 DEF LedgerInv, Numbered, RunFits
  <2>. QED  BY <2>1, <2>2
<1>. HIDE DEF read
<1>5. /\ proposals' = [read EXCEPT ![r] = [@ EXCEPT !.status = "published", !.version = v]]
      /\ outbox' = [outbox EXCEPT ![v] = "pending"]
      /\ UNCHANGED <<wiring, runs, source, discarding>>
  BY <1>2 DEF Publish, refresh
<1>6. proposals'[r].status = "published" /\ \A s \in Runs : s # r => proposals'[s] = read[s]
  BY <1>1, <1>2, <1>5 DEF PolicyProposal
<1>7. outbox'[v] = "pending" /\ \A w \in Versions : w # v => outbox'[w] = outbox[w]
  BY <1>0, <1>1, <1>5 DEF TypeInv, StateTypes
<1>8. \A i \in 2..Latest : snapshots[i].from # r
  BY <1>3, <1>4 DEF Decided
<1>9. \A s \in Runs : proposals'[s].status = "discarded" => proposals[s].status = "discarded"
  <2>1. ASSUME NEW s \in Runs, proposals'[s].status = "discarded"
        PROVE  proposals[s].status = "discarded"
    <3>1. s # r
      BY <1>6, <2>1
    <3>. QED  BY <1>4, <1>6, <2>1, <3>1
  <2>. QED  BY <2>1
<1>10. wiring = "pubsub" => read = proposals
  <2>1. threads[a].at = "swapping" => wiring = "inline"
    BY <1>0, ThreadOf DEF ThreadFits
  <2>. QED  BY <2>1 DEF read
<1>11. Numbered'
  <2>1. Latest \in Nat
    BY <1>0, Numbers
  <2>2. ASSUME NEW i \in 2..Latest'
        PROVE  snapshots'[i].from \in Runs /\ proposals'[snapshots'[i].from].status \in {"published", "discarded"}
    <3>1. CASE i = v
      <4>1. snapshots'[v].from = r
        BY <1>1 DEF NextSnapshot
      <4>. QED  BY <1>1, <1>6, <3>1, <4>1
    <3>2. CASE i # v
      <4>1. i \in 2..Latest /\ i \in 1..Latest
        BY <1>1, <2>1, <3>2
      <4>2. snapshots[i].from \in Runs /\ read[snapshots[i].from].status \in {"published", "discarded"}
        BY <1>4, <4>1 DEF Decided
      <4>3. snapshots'[i] = snapshots[i] /\ snapshots[i].from # r
        BY <1>1, <1>8, <4>1
      <4>. QED  BY <1>6, <4>2, <4>3
    <3>. QED  BY <3>1, <3>2
  <2>3. ASSUME NEW w \in Versions
        PROVE  outbox'[w] = "none" <=> w \notin 2..Latest'
    <3>1. outbox[w] = "none" <=> w \notin 2..Latest
      BY DEF LedgerInv, Numbered
    <3>2. w \in 2..Latest' <=> w = v \/ w \in 2..Latest
      BY <1>0, <1>1, <2>1, Numbers DEF Versions
    <3>. QED  BY <1>7, <3>1, <3>2
  <2>. QED  BY <2>2, <2>3 DEF Numbered, Decided
<1>12. \A s \in Runs : copied'[s].status = "none"
  <2>1. CASE CommitPublication(a)
    <3>1. copied' = copied /\ wiring # "inline"
      BY <2>1 DEF CommitPublication
    <3>. QED  BY <3>1 DEF LedgerInv, CopyFits
  <2>2. CASE SwapProposals(a)
    BY <2>2 DEF SwapProposals, NoProposal
  <2>. QED  BY <2>1, <2>2 DEF PublicationStep
<1>13. CopyFits'
  BY <1>12 DEF CopyFits
<1>14. \A s \in Runs : RunFits(s)'
  <2>1. ASSUME NEW s \in Runs
        PROVE  RunFits(s)'
    <3>1. proposals'[s].status # "none" => Over(s)
      BY <1>3, <1>4, <1>6
    <3>. QED  BY <1>5, <1>12, <3>1 DEF LedgerInv, RunFits, Over
  <2>. QED  BY <2>1
<1>15. TypeInv' /\ OneAtWork'
  <2>1. Step(a)
    BY DEF Step, PublicationStep
  <2>2. [Next]_vars
    BY <2>1 DEF Next
  <2>. QED  BY <1>0, <2>2, StepTypes, StepAtWork
<1>. QED  BY <1>3, <1>5, <1>6, <1>7, <1>8, <1>9, <1>10, <1>11, <1>13, <1>14, <1>15 DEF LedgerInv

(* A row that is marked is one of a published version. *)
LEMMA MarkLedger ==
    ASSUME LedgerInv, NEW a \in Threads, MarkPublished(a) \/ Acknowledged(a)
    PROVE  /\ UNCHANGED <<wiring, runs, source, proposals, discards, snapshots>>
           /\ Event(a) \in 2..Latest
           /\ outbox' = outbox \/ outbox' = [outbox EXCEPT ![Event(a)] = "sent"]
           /\ Numbered'
<1>1. /\ UNCHANGED <<wiring, runs, source, proposals, discards, snapshots>>
      /\ outbox' = outbox \/ outbox' = [outbox EXCEPT ![Event(a)] = "sent"]
      /\ threads[a].at \in {"sent", "handled"}
  BY DEF MarkPublished, Acknowledged, refresh
<1>2. Event(a) \in 2..Latest /\ Latest' = Latest
  BY <1>1, InHands DEF LedgerInv, Latest
<1>3. \A v \in Versions : outbox'[v] = outbox[v] \/ (v = Event(a) /\ outbox'[v] = "sent")
  <2>1. outbox \in [Versions -> {"none", "pending", "sent"}]
    BY DEF LedgerInv, TypeInv, StateTypes
  <2>. QED  BY <1>1, <2>1
<1>4. Numbered'
  BY <1>1, <1>2, <1>3 DEF LedgerInv, Numbered, Decided
<1>. QED  BY <1>1, <1>2, <1>4

(* What a discard does to the proposals. *)
LEMMA DiscardLedger ==
    ASSUME LedgerInv, NEW r \in Runs, DiscardStep(r)
    PROVE  /\ UNCHANGED <<wiring, runs, source, copied, snapshots, outbox>>
           /\ \/ proposals' = proposals
              \/ /\ proposals'[r].status = "discarded" /\ \A s \in Runs : s # r => proposals'[s] = proposals[s]
                 /\ wiring = "pubsub" => proposals[r].status = "pending"
           /\ \A s \in Runs : RunFits(s)'
<1>0. proposals \in [Runs -> PolicyProposal] /\ RunFits(r) /\ wiring \in {"inline", "pubsub"}
  BY DEF LedgerInv, TypeInv, StateTypes
<1>1. UNCHANGED <<wiring, runs, source, copied, snapshots, outbox>>
  BY DiscardTypes DEF DiscardStep, LedgerInv, refresh
<1>2. ASSUME DiscardProposal(r)
      PROVE  proposals'[r].status = "discarded" /\ \A s \in Runs : s # r => proposals'[s] = proposals[s]
  BY <1>0, <1>2 DEF DiscardProposal, PolicyProposal
<1>3. CASE Discard(r)
  <2>1. /\ DiscardProposal(r) /\ proposals[r].status = "pending" /\ discarding' = discarding
    BY <1>3 DEF Discard, discards
  <2>2. Over(r)
    BY <1>0, <2>1 DEF RunFits
  <2>3. \A s \in Runs : RunFits(s)'
    BY <1>1, <1>2, <2>1, <2>2 DEF LedgerInv, RunFits, Over
  <2>. QED  BY <1>1, <1>2, <2>1, <2>3
<1>4. CASE CheckDiscard(r)
  <2>1. /\ proposals' = proposals /\ proposals[r].status = "pending" /\ wiring = "inline"
        /\ discarding' = discarding \cup {r}
    BY <1>4 DEF CheckDiscard
  <2>2. Over(r)
    BY <1>0, <2>1 DEF RunFits
  <2>3. \A s \in Runs : RunFits(s)'
    BY <1>1, <2>1, <2>2 DEF LedgerInv, RunFits, Over
  <2>. QED  BY <1>1, <2>1, <2>3
<1>5. CASE WriteDiscard(r)
  <2>1. DiscardProposal(r) /\ r \in discarding /\ discarding' = discarding \ {r}
    BY <1>5 DEF WriteDiscard
  <2>2. Over(r) /\ wiring = "inline"
    BY <1>0, <2>1 DEF RunFits
  <2>3. \A s \in Runs : RunFits(s)'
    BY <1>1, <1>2, <2>1, <2>2 DEF LedgerInv, RunFits, Over
  <2>. QED  BY <1>1, <1>2, <2>1, <2>2, <2>3
<1>. QED  BY <1>3, <1>4, <1>5 DEF DiscardStep

LEMMA StepLedger ==
    ASSUME LedgerInv, [Next]_vars
    PROVE  LedgerInv'
<1>1. TypeInv' /\ OneAtWork'
  BY StepTypes, StepAtWork DEF LedgerInv
<1>2. CASE Refresh
  <2>1. UNCHANGED <<wiring, copied, snapshots, outbox>>
    BY <1>2, RefreshTypes DEF LedgerInv, discards
  <2>2. \A r \in Runs : \/ proposals'[r] = proposals[r]
                        \/ proposals[r].status = "none" /\ proposals'[r].status = "pending"
    BY <1>2, RefreshLedger
  <2>3. Numbered' /\ CopyFits'
    BY <2>1, <2>2, NumberedKept, CopyKept
  <2>. QED  BY <1>1, <1>2, <2>3, RefreshLedger DEF LedgerInv
<1>3. CASE Die
  <2>1. /\ UNCHANGED <<wiring, proposals, copied, discarding, snapshots, outbox>>
        /\ \A r \in Runs : runs'[r].status = runs[r].status /\ runs'[r].at = "nowhere"
    BY <1>3 DEF Die, policy, discards, LedgerInv, TypeInv, StateTypes, PolicyRun
  <2>2. \A r \in Runs : RunFits(r)'
    BY <2>1 DEF LedgerInv, RunFits, Over
  <2>. QED  BY <1>1, <2>1, <2>2, NumberedKept, CopyKept DEF LedgerInv
<1>4. ASSUME NEW r \in Runs, DiscardStep(r)
      PROVE  LedgerInv'
  <2>1. UNCHANGED <<wiring, runs, copied, snapshots, outbox>> /\ \A s \in Runs : RunFits(s)'
    BY <1>4, DiscardLedger
  <2>2. \A s \in Runs : \/ proposals'[s] = proposals[s] \/ proposals'[s].status = "discarded"
    BY <1>4, DiscardLedger
  <2>3. Numbered' /\ CopyFits'
    BY <2>1, <2>2, NumberedKept, CopyKept
  <2>. QED  BY <1>1, <2>1, <2>3 DEF LedgerInv
<1>5. ASSUME NEW a \in Threads, CopyProposals(a) \/ PublicationStep(a)
      PROVE  LedgerInv'
  BY <1>5, CopyLedger, CommitLedger
<1>6. ASSUME NEW a \in Threads, MarkPublished(a) \/ Acknowledged(a)
      PROVE  LedgerInv'
  <2>1. UNCHANGED <<wiring, runs, proposals, copied, discarding, snapshots>> /\ Numbered'
    BY <1>6, MarkLedger DEF discards
  <2>2. \A r \in Runs : RunFits(r)'
    BY <2>1 DEF LedgerInv, RunFits, Over
  <2>. QED  BY <1>1, <2>1, <2>2, CopyKept DEF LedgerInv
<1>7. CASE UNCHANGED ledgerVars
  <2>1. UNCHANGED <<wiring, runs, proposals, copied, discarding, snapshots, outbox>>
    BY <1>7 DEF ledgerVars, discards
  <2>2. \A s \in Runs : RunFits(s)'
    BY <2>1 DEF LedgerInv, RunFits, Over
  <2>. QED  BY <1>1, <2>1, <2>2, NumberedKept, CopyKept DEF LedgerInv
<1>. QED  BY <1>2, <1>3, <1>4, <1>5, <1>6, <1>7, LedgerSteps

THEOREM LedgerFits == Spec => []LedgerInv
BY InitLedger, StepLedger, PTL DEF Spec

(* ChangeIsProposed: in the API process the stored text of the source      *)
(* moves only in the commit of a proposal about the new text, however      *)
(* refreshes overlap.                                                      *)
THEOREM EveryChangeIsProposed == Spec => ChangeIsProposed
<1>. DEFINE Step1 == wiring = "inline" /\ source # NoText /\ source' # source =>
        \E r \in Runs :
            /\ proposals[r].status = "none" /\ proposals'[r].status = "pending"
            /\ runs[r].text = source'
<1>1. ASSUME LedgerInv, [Next]_vars
      PROVE  [Step1]_vars
  <2>1. CASE Refresh
    BY <1>1, <2>1, RefreshLedger
  <2>2. CASE Die \/ UNCHANGED ledgerVars
    <3>1. source' = source
      BY <2>2 DEF Die, ledgerVars
    <3>. QED  BY <3>1
  <2>3. ASSUME NEW r \in Runs, DiscardStep(r)
        PROVE  source' = source
    BY <1>1, <2>3, DiscardLedger
  <2>4. ASSUME NEW a \in Threads, CopyProposals(a) \/ PublicationStep(a)
        PROVE  source' = source
    BY <1>1, <2>4, CopyLedger, CommitLedger
  <2>5. ASSUME NEW a \in Threads, MarkPublished(a) \/ Acknowledged(a)
        PROVE  source' = source
    BY <1>1, <2>5, MarkLedger
  <2>. QED  BY <1>1, <2>1, <2>2, <2>3, <2>4, <2>5, LedgerSteps
<1>. QED  BY <1>1, LedgerFits, PTL DEF Spec, ChangeIsProposed

-----------------------------------------------------------------------------
(* The ledger *)

(* A sequence with one element more. *)
LEMMA Extended ==
    ASSUME NEW n \in Nat, NEW S, NEW f \in [1..n -> S], NEW g \in [1..(n + 1) -> S],
           \A i \in 1..n : g[i] = f[i]
    PROVE  g = Append(f, g[n + 1])
<1>1. f \in Seq(S) /\ Len(f) = n /\ g \in Seq(S) /\ Len(g) = n + 1
  BY SeqDef
<1>. DEFINE h == Append(f, g[n + 1])
<1>2. h \in Seq(S) /\ Len(h) = n + 1 /\ h[n + 1] = g[n + 1]
      /\ \A i \in 1..n : h[i] = f[i]
  BY <1>1
<1>. HIDE DEF h
<1>3. \A i \in 1..(n + 1) : g[i] = h[i]
  BY <1>2
<1>4. g = h
  BY <1>1, <1>2, <1>3, SeqEqual
<1>. QED  BY <1>4 DEF h

(* The ledger of the snapshots, as PolicyLoop maps it. *)
PublishedRuns == [i \in 1..(Latest - 1) |-> snapshots[i + 1].from]
DiscardedRuns == {r \in Runs : proposals[r].status = "discarded"}
SentRows == {i \in 1..(Latest - 1) : outbox[i + 1] = "sent"}

LEMMA Mapped ==
    /\ Ledger!LedgerInit <=>
            PublishedRuns = << >> /\ DiscardedRuns = {} /\ SentRows = {}
    /\ \A r : Ledger!RecordPublication(r) <=>
            /\ \A i \in DOMAIN PublishedRuns : PublishedRuns[i] # r
            /\ PublishedRuns' = Append(PublishedRuns, r)
            /\ IF wiring = "pubsub"
               THEN r \notin DiscardedRuns /\ DiscardedRuns' = DiscardedRuns
               ELSE DiscardedRuns' \in SUBSET DiscardedRuns
            /\ (wiring = "pubsub")' = (wiring = "pubsub") /\ SentRows' = SentRows
    /\ \A r : Ledger!RecordDiscard(r) <=>
            /\ r \notin DiscardedRuns
            /\ wiring = "pubsub" => \A i \in DOMAIN PublishedRuns : PublishedRuns[i] # r
            /\ DiscardedRuns' = DiscardedRuns \cup {r}
            /\ (wiring = "pubsub")' = (wiring = "pubsub")
            /\ PublishedRuns' = PublishedRuns /\ SentRows' = SentRows
    /\ \A i : Ledger!Acknowledge(i) <=>
            /\ i \in DOMAIN PublishedRuns /\ i \notin SentRows
            /\ SentRows' = SentRows \cup {i}
            /\ (wiring = "pubsub")' = (wiring = "pubsub")
            /\ PublishedRuns' = PublishedRuns /\ DiscardedRuns' = DiscardedRuns
    /\ UNCHANGED Ledger!lvars <=>
            /\ (wiring = "pubsub")' = (wiring = "pubsub")
            /\ PublishedRuns' = PublishedRuns /\ DiscardedRuns' = DiscardedRuns /\ SentRows' = SentRows
BY DEF Ledger!LedgerInit, Ledger!Unpublished, Ledger!RecordPublication, Ledger!RecordDiscard,
       Ledger!Acknowledge, Ledger!lvars, PublishedRuns, DiscardedRuns, SentRows

LEMMA MappedNext ==
    ASSUME \/ \E r \in Runs : Ledger!RecordPublication(r) \/ Ledger!RecordDiscard(r)
           \/ \E i \in DOMAIN PublishedRuns : Ledger!Acknowledge(i)
           \/ UNCHANGED Ledger!lvars
    PROVE  [Ledger!LedgerNext]_(Ledger!lvars)
BY DEF Ledger!LedgerNext, PublishedRuns

LEMMA InitMapped == Init => Ledger!LedgerInit
<1>. SUFFICES ASSUME Init PROVE Ledger!LedgerInit
  OBVIOUS
<1>1. Latest = 1 /\ 1..(Latest - 1) = {}
  BY DEF Init, Latest
<1>2. PublishedRuns = << >>
  BY <1>1 DEF PublishedRuns
<1>3. DiscardedRuns = {} /\ SentRows = {}
  BY <1>1 DEF Init, DiscardedRuns, SentRows, NoProposal
<1>. QED  BY <1>2, <1>3, Mapped

(* Who is pending has not been published; nor has one that is published    *)
(* now.                                                                    *)
LEMMA NotPublished ==
    ASSUME LedgerInv, NEW r \in Runs, \A i \in 2..Latest : snapshots[i].from # r
    PROVE  \A i \in DOMAIN PublishedRuns : PublishedRuns[i] # r
<1>1. ASSUME NEW i \in DOMAIN PublishedRuns
      PROVE  PublishedRuns[i] # r
  <2>1. i \in 1..(Latest - 1) /\ Latest \in Nat
    BY <1>1, Numbers DEF LedgerInv, PublishedRuns
  <2>2. i + 1 \in 2..Latest
    BY <2>1
  <2>. QED  BY <2>1, <2>2 DEF PublishedRuns
<1>. QED  BY <1>1

LEMMA CommitMapped ==
    ASSUME LedgerInv, NEW a \in Threads, PublicationStep(a),
           NEW r \in Runs, r = threads[a].proposal
    PROVE  Ledger!RecordPublication(r)
<1>. DEFINE v == threads[a].version
            n == Latest - 1
<1>1. /\ r \in Runs /\ v \in Versions /\ v = Latest + 1 /\ Latest' = v
      /\ \A i \in 1..Latest : snapshots'[i] = snapshots[i]
      /\ snapshots'[v] = NextSnapshot(r)
  BY Published DEF LedgerInv, PublicationStep
<1>2. /\ proposals'[r].status = "published"
      /\ \A i \in 2..Latest : snapshots[i].from # r
      /\ \A s \in Runs : proposals'[s].status = "discarded" => proposals[s].status = "discarded"
      /\ wiring = "pubsub" =>
           /\ proposals[r].status = "pending"
           /\ \A s \in Runs : s # r => proposals'[s] = proposals[s]
      /\ outbox'[v] = "pending"
      /\ \A w \in Versions : w # v => outbox'[w] = outbox[w]
      /\ wiring' = wiring /\ LedgerInv'
  BY CommitLedger
<1>3. /\ Latest \in Nat /\ 1 <= Latest /\ n \in Nat /\ Latest' = n + 2 /\ Latest = n + 1
      /\ 1..Latest \subseteq Versions
  BY <1>1, Numbers DEF LedgerInv, Versions
<1>4. PublishedRuns' = Append(PublishedRuns, r)
  <2>. DEFINE f == PublishedRuns
              g == PublishedRuns'
  <2>1. ASSUME NEW i \in 1..n
        PROVE  f[i] \in Runs /\ g[i] = f[i]
    <3>1. i + 1 \in 2..Latest /\ i + 1 \in 1..Latest /\ i \in 1..(Latest' - 1)
      BY <1>3
    <3>. QED  BY <1>1, <3>1 DEF LedgerInv, Numbered, Decided, PublishedRuns
  <2>2. g[n + 1] = r
    <3>1. n + 1 \in 1..(Latest' - 1) /\ (n + 1) + 1 = v
      BY <1>1, <1>3
    <3>2. g[n + 1] = snapshots'[v].from
      BY <3>1 DEF PublishedRuns
    <3>. QED  BY <1>1, <3>2 DEF NextSnapshot
  <2>3. DOMAIN f = 1..n /\ DOMAIN g = 1..(n + 1)
    BY <1>3 DEF PublishedRuns
  <2>4. f \in [1..n -> Runs] /\ g \in [1..(n + 1) -> Runs]
    <3>1. \A i \in 1..(n + 1) : g[i] \in Runs
      BY <1>1, <1>3, <2>1, <2>2
    <3>2. f = [i \in DOMAIN f |-> f[i]] /\ g = [i \in DOMAIN g |-> g[i]]
      BY DEF PublishedRuns
    <3>. HIDE DEF f, g
    <3>. QED  BY <2>1, <2>3, <3>1, <3>2
  <2>. HIDE DEF f, g
  <2>5. g = Append(f, g[n + 1])
    BY <1>3, <2>1, <2>4, Extended
  <2>. QED  BY <2>2, <2>5 DEF f, g
<1>5. /\ DiscardedRuns' \in SUBSET DiscardedRuns
      /\ wiring = "pubsub" => r \notin DiscardedRuns /\ DiscardedRuns' = DiscardedRuns
  BY <1>1, <1>2 DEF DiscardedRuns
<1>6. SentRows' = SentRows
  <2>1. \A i \in 1..n : i \in 1..(Latest' - 1) /\ i + 1 \in Versions /\ i + 1 # v
    BY <1>1, <1>3
  <2>2. \A i \in 1..n : outbox'[i + 1] = outbox[i + 1]
    BY <1>2, <2>1
  <2>3. \A i \in 1..(Latest' - 1) : i \in 1..n \/ i + 1 = v
    BY <1>1, <1>3
  <2>4. outbox'[v] # "sent"
    BY <1>2
  <2>5. ASSUME NEW i \in SentRows
        PROVE  i \in SentRows'
    BY <2>1, <2>2, <2>5 DEF SentRows
  <2>6. ASSUME NEW i \in SentRows'
        PROVE  i \in SentRows
    <3>1. i \in 1..(Latest' - 1) /\ outbox'[i + 1] = "sent"
      BY <2>6 DEF SentRows
    <3>. QED  BY <2>2, <2>3, <2>4, <3>1 DEF SentRows
  <2>. QED  BY <2>5, <2>6
<1>7. \A i \in DOMAIN PublishedRuns : PublishedRuns[i] # r
  BY <1>2, NotPublished
<1>8. (wiring = "pubsub")' = (wiring = "pubsub")
  BY <1>2
<1>. QED  BY <1>4, <1>5, <1>6, <1>7, <1>8, Mapped

LEMMA DiscardMapped ==
    ASSUME LedgerInv, NEW r \in Runs, DiscardStep(r)
    PROVE  UNCHANGED Ledger!lvars \/ Ledger!RecordDiscard(r)
<1>1. /\ UNCHANGED <<wiring, snapshots, outbox>>
      /\ \/ proposals' = proposals
         \/ /\ proposals'[r].status = "discarded" /\ \A s \in Runs : s # r => proposals'[s] = proposals[s]
            /\ wiring = "pubsub" => proposals[r].status = "pending"
  BY DiscardLedger
<1>2. PublishedRuns' = PublishedRuns /\ SentRows' = SentRows /\ (wiring = "pubsub")' = (wiring = "pubsub")
  BY <1>1 DEF PublishedRuns, SentRows, Latest
<1>3. CASE DiscardedRuns' = DiscardedRuns
  BY <1>2, <1>3, Mapped
<1>4. CASE DiscardedRuns' # DiscardedRuns
  <2>1. DiscardedRuns' = DiscardedRuns \cup {r} /\ r \notin DiscardedRuns
    BY <1>1, <1>4 DEF DiscardedRuns
  <2>2. wiring = "pubsub" => \A i \in 2..Latest : snapshots[i].from # r
    <3>1. wiring = "pubsub" => proposals[r].status = "pending"
      BY <1>1, <1>4 DEF DiscardedRuns
    <3>. QED  BY <3>1 DEF LedgerInv, Numbered, Decided
  <2>3. wiring = "pubsub" => \A i \in DOMAIN PublishedRuns : PublishedRuns[i] # r
    BY <2>2, NotPublished
  <2>. QED  BY <1>2, <2>1, <2>3, Mapped
<1>. QED  BY <1>3, <1>4

LEMMA MarkMapped ==
    ASSUME LedgerInv, NEW a \in Threads, MarkPublished(a) \/ Acknowledged(a)
    PROVE  UNCHANGED Ledger!lvars \/ \E i \in DOMAIN PublishedRuns : Ledger!Acknowledge(i)
<1>. DEFINE v == Event(a)
            i == v - 1
<1>1. /\ UNCHANGED <<wiring, proposals, snapshots>> /\ v \in 2..Latest
      /\ outbox' = outbox \/ outbox' = [outbox EXCEPT ![v] = "sent"]
  BY MarkLedger
<1>. HIDE DEF v
<1>2. Latest \in Nat /\ 2..Latest \subseteq Versions
  BY Numbers DEF LedgerInv
<1>3. i \in 1..(Latest - 1) /\ i + 1 = v /\ DOMAIN PublishedRuns = 1..(Latest - 1)
  BY <1>1, <1>2 DEF PublishedRuns
<1>4. /\ PublishedRuns' = PublishedRuns /\ DiscardedRuns' = DiscardedRuns /\ Latest' = Latest
      /\ (wiring = "pubsub")' = (wiring = "pubsub")
  BY <1>1 DEF PublishedRuns, DiscardedRuns, Latest
<1>5. CASE outbox' = outbox
  BY <1>4, <1>5, Mapped DEF SentRows
<1>6. CASE outbox' = [outbox EXCEPT ![v] = "sent"]
  <2>1. outbox'[v] = "sent" /\ \A w \in Versions : w # v => outbox'[w] = outbox[w]
    BY <1>1, <1>2, <1>6 DEF LedgerInv, TypeInv, StateTypes
  <2>2. \A j \in 1..(Latest - 1) : j + 1 \in Versions /\ (j # i => j + 1 # v)
    BY <1>2, <1>3
  <2>3. SentRows' = SentRows \cup {i}
    BY <1>3, <1>4, <2>1, <2>2 DEF SentRows
  <2>4. CASE i \in SentRows
    BY <1>4, <2>3, <2>4, Mapped
  <2>5. CASE i \notin SentRows
    BY <1>3, <1>4, <2>3, <2>5, Mapped
  <2>. QED  BY <2>4, <2>5
<1>. QED  BY <1>1, <1>5, <1>6

LEMMA LedgerStep ==
    ASSUME LedgerInv, [Next]_vars
    PROVE  [Ledger!LedgerNext]_(Ledger!lvars)
<1>1. CASE Refresh
  <2>1. UNCHANGED <<wiring, snapshots, outbox>>
    BY <1>1, RefreshTypes DEF LedgerInv
  <2>2. \A r \in Runs : (proposals'[r].status = "discarded") <=> (proposals[r].status = "discarded")
    BY <1>1, RefreshLedger
  <2>3. UNCHANGED Ledger!lvars
    BY <2>1, <2>2, Mapped DEF PublishedRuns, DiscardedRuns, SentRows, Latest
  <2>. QED  BY <2>3, MappedNext
<1>2. CASE Die \/ UNCHANGED ledgerVars
  <2>1. UNCHANGED <<wiring, proposals, snapshots, outbox>>
    BY <1>2 DEF Die, policy, ledgerVars
  <2>2. UNCHANGED Ledger!lvars
    BY <2>1, Mapped DEF PublishedRuns, DiscardedRuns, SentRows, Latest
  <2>. QED  BY <2>2, MappedNext
<1>3. ASSUME NEW r \in Runs, DiscardStep(r)
      PROVE  [Ledger!LedgerNext]_(Ledger!lvars)
  BY <1>3, DiscardMapped, MappedNext
<1>4. ASSUME NEW a \in Threads, CopyProposals(a)
      PROVE  [Ledger!LedgerNext]_(Ledger!lvars)
  <2>1. UNCHANGED <<wiring, proposals, snapshots, outbox>>
    BY <1>4, CopyLedger
  <2>2. UNCHANGED Ledger!lvars
    BY <2>1, Mapped DEF PublishedRuns, DiscardedRuns, SentRows, Latest
  <2>. QED  BY <2>2, MappedNext
<1>6. ASSUME NEW a \in Threads, PublicationStep(a)
      PROVE  [Ledger!LedgerNext]_(Ledger!lvars)
  <2>1. PICK r \in Runs : r = threads[a].proposal
    BY <1>6, Published DEF LedgerInv, PublicationStep
  <2>2. Ledger!RecordPublication(r)
    BY <1>6, <2>1, CommitMapped
  <2>. QED  BY <2>2, MappedNext
<1>5. ASSUME NEW a \in Threads, MarkPublished(a) \/ Acknowledged(a)
      PROVE  [Ledger!LedgerNext]_(Ledger!lvars)
  BY <1>5, MarkMapped, MappedNext
<1>. QED  BY <1>1, <1>2, <1>3, <1>4, <1>5, <1>6, LedgerSteps

(* KeepsPolicyLedger: whatever administrators, dispatchers and consumers   *)
(* do at the same time, and whoever dies, a published proposal is the next *)
(* version and stays it, no proposal becomes two, and the event of a       *)
(* version is acknowledged once; over Firestore none is decided twice.     *)
THEOREM LedgerIsKept == Spec => KeepsPolicyLedger
BY InitMapped, LedgerStep, LedgerFits, PTL DEF Spec, KeepsPolicyLedger, Ledger!LedgerSpec

-----------------------------------------------------------------------------
(* What the steps of a thread do to it *)

LEMMA GotoEffect ==
    ASSUME TypeInv, NEW a \in Threads, NEW at, Goto(a, at)
    PROVE  /\ threads'[a].at = at /\ threads'[a].queue = threads[a].queue
           /\ threads'[a].page = threads[a].page /\ Others(a)
<1>1. threads \in [Threads -> Thread] /\ threads[a] \in Thread
  BY DEF TypeInv, ThreadTypes
<1>. DEFINE new == [at |-> at, proposal |-> threads[a].proposal, version |-> threads[a].version,
                    queue |-> threads[a].queue, page |-> threads[a].page]
<1>2. [threads[a] EXCEPT !.at = at] = new
  BY <1>1, ThreadAt
<1>3. threads' = [threads EXCEPT ![a] = new]
  BY <1>2 DEF Goto
<1>4. threads'[a] = new /\ Others(a)
  BY <1>1, <1>3 DEF Others
<1>. QED  BY <1>4

LEMMA GotoVersionEffect ==
    ASSUME TypeInv, NEW a \in Threads, NEW at, NEW n,
           threads' = [threads EXCEPT ![a] = [@ EXCEPT !.at = at, !.version = n]]
    PROVE  /\ threads'[a].at = at /\ threads'[a].queue = threads[a].queue
           /\ threads'[a].version = n
           /\ threads'[a].page = threads[a].page /\ Others(a)
<1>1. threads \in [Threads -> Thread] /\ threads[a] \in Thread
  BY DEF TypeInv, ThreadTypes
<1>. DEFINE new == [at |-> at, proposal |-> threads[a].proposal, version |-> n,
                    queue |-> threads[a].queue, page |-> threads[a].page]
<1>2. [threads[a] EXCEPT !.at = at, !.version = n] = new
  BY <1>1, ThreadAtVersion
<1>3. threads' = [threads EXCEPT ![a] = new]
  BY <1>2
<1>4. threads'[a] = new /\ Others(a)
  BY <1>1, <1>3 DEF Others
<1>. QED  BY <1>4

LEMMA LeaveEffect ==
    ASSUME TypeInv, NEW a \in Threads, Leave(a)
    PROVE  threads'[a] = Idle /\ Others(a)
BY DEF Leave, TypeInv, ThreadTypes, Others

LEMMA NextRowEffect ==
    ASSUME TypeInv, NEW a \in Threads, NextRow(a)
    PROVE  /\ threads'[a].at = "fanning" /\ threads'[a].queue = threads[a].queue \ {Event(a)}
           /\ Others(a)
<1>1. threads \in [Threads -> Thread] /\ threads[a] \in Thread
  BY DEF TypeInv, ThreadTypes
<1>. DEFINE rest == threads[a].queue \ {Event(a)}
            new == [at |-> "fanning", proposal |-> threads[a].proposal, version |-> threads[a].version,
                    queue |-> rest, page |-> threads[a].page]
<1>2. [threads[a] EXCEPT !.at = "fanning", !.queue = rest] = new
  BY <1>1, ThreadAtQueue
<1>3. threads' = [threads EXCEPT ![a] = new]
  BY <1>2 DEF NextRow
<1>4. threads'[a] = new /\ Others(a)
  BY <1>1, <1>3 DEF Others
<1>. QED  BY <1>4

LEMMA NextProjectEffect ==
    ASSUME TypeInv, NEW a \in Threads, NextProject(a), threads[a].at \in InPage
    PROVE  /\ threads'[a].at = "handling" /\ threads'[a].queue = threads[a].queue
           /\ threads'[a].page = threads[a].page \ {Current(a)} /\ Others(a)
<1>1. threads \in [Threads -> Thread]
  BY DEF TypeInv, ThreadTypes
<1>2. threads' = [threads EXCEPT ![a] = Struck(a)]
  BY StruckFits
<1>3. threads'[a] = Struck(a) /\ Others(a)
  BY <1>1, <1>2 DEF Others
<1>. QED  BY <1>3 DEF Struck

LEMMA BeginEffect ==
    ASSUME TypeInv, NEW a \in Threads, NEW v \in 2..Latest, Begin(a, v), losses' = losses,
           UNCHANGED <<wiring, refresh, policy, consumer, product>>
    PROVE  threads'[a] = Begun(a, v) /\ Others(a)
BY BeginTypes DEF TypeInv, ThreadTypes, Others

(* The event of a thread whose queue stays is the same event. *)
LEMMA SameEvent ==
    ASSUME NEW a \in Threads, threads'[a].queue = threads[a].queue
    PROVE  Event(a)' = Event(a)
BY DEF Event, Least

LEMMA SameCurrent ==
    ASSUME NEW a \in Threads, threads'[a].page = threads[a].page
    PROVE  Current(a)' = Current(a)
BY DEF Current

(* The steps from the listing of the projects to the receipt. *)
PageStep(a) ==
    \/ RecordInterrupted(a) \/ PassBy(a)
    \/ ReadMark(a) \/ SaveMark(a) \/ MarkStale(a) \/ MarkProvisional(a)
    \/ ReadRecalc(a) \/ RecalcTier(a) \/ RecalcRefused(a) \/ CompleteRecalc(a) \/ PutReceipt(a)

LEMMA PageEffect ==
    ASSUME TypeInv, NEW a \in Threads, PageStep(a)
    PROVE  /\ threads[a].at \in InPage /\ threads'[a].at \in InPage \cup {"handled"}
           /\ threads'[a].queue = threads[a].queue /\ Others(a)
           /\ UNCHANGED <<wiring, refresh, policy, requests, losses>>
<1>1. CASE RecordInterrupted(a) \/ PassBy(a) \/ CompleteRecalc(a)
  <2>1. /\ threads[a].at \in InPage /\ NextProject(a)
        /\ UNCHANGED <<wiring, refresh, policy, requests, losses>>
    BY <1>1 DEF RecordInterrupted, PassBy, CompleteRecalc, AtProject, InPage, product
  <2>. QED  BY <2>1, NextProjectEffect DEF InPage
<1>2. CASE MarkStale(a)
  <2>1. /\ threads[a].at \in InPage /\ NextProject(a)
        /\ UNCHANGED <<wiring, refresh, policy, requests, losses>>
    BY <1>2 DEF MarkStale, Record, InPage
  <2>. QED  BY <2>1, NextProjectEffect DEF InPage
<1>3. CASE MarkProvisional(a) \/ RecalcRefused(a) \/ PutReceipt(a)
  <2>1. PICK at \in {"recalculating", "completing", "handled"} : Goto(a, at)
    BY <1>3 DEF MarkProvisional, RecalcRefused, PutReceipt
  <2>2. threads[a].at \in InPage /\ UNCHANGED <<wiring, refresh, policy, requests, losses>>
    BY <1>3 DEF MarkProvisional, Record, RecalcRefused, PutReceipt, InPage, product
  <2>. QED  BY <2>1, <2>2, GotoEffect DEF InPage
<1>4. CASE ReadMark(a) \/ SaveMark(a) \/ ReadRecalc(a) \/ RecalcTier(a)
  <2>1. PICK at \in {"marking", "marked", "resaving", "completing"}, n \in {0, project[Current(a).p].version} :
             threads' = [threads EXCEPT ![a] = [@ EXCEPT !.at = at, !.version = n]]
    BY <1>4 DEF ReadMark, SaveMark, ReadRecalc, RecalcTier
  <2>2. threads[a].at \in InPage /\ UNCHANGED <<wiring, refresh, policy, requests, losses>>
    BY <1>4 DEF ReadMark, SaveMark, ReadRecalc, RecalcTier, AtProject, InPage, product
  <2>. QED  BY <2>1, <2>2, GotoVersionEffect DEF InPage
<1>. QED  BY <1>1, <1>2, <1>3, <1>4 DEF PageStep

-----------------------------------------------------------------------------
(* Who carries an event that is not sent *)

InEvent == {"fanning", "handled"} \cup InPage

Carries(th, v) ==
    \/ th.at = "committed"
    \/ v \in th.queue /\ (th.at \in {"fanning", "sent"} \/ wiring = "inline")

(* Without a failure somebody carries every event that is not sent. *)
Carried ==
    losses = 0 => \A v \in 2..Latest :
        outbox[v] = "sent" \/ \E a \in Threads : Carries(threads[a], v)

(* Inline the queue of the one request are the pending rows. *)
PendingInHands ==
    \A a \in Threads :
        /\ threads[a].at # "sent"
        /\ threads[a].at \in InEvent => threads[a].queue = PendingRows

SentInOrder ==
    \A v, w \in 2..Latest : v < w /\ outbox[w] = "sent" => outbox[v] = "sent"

OutboxInv ==
    LedgerInv /\ Carried /\ (wiring = "inline" => PendingInHands /\ SentInOrder)

LEMMA InitOutbox == Init => OutboxInv
<1>. SUFFICES ASSUME Init PROVE OutboxInv
  OBVIOUS
<1>1. LedgerInv
  BY InitLedger
<1>2. \A v \in 2..Latest : FALSE
  BY DEF Init, Latest
<1>3. PendingInHands
  BY DEF Init, PendingInHands, Idle, InEvent, InPage
<1>. QED  BY <1>1, <1>2, <1>3 DEF OutboxInv, Carried, SentInOrder

(* A row that is neither sent nor absent is pending. *)
LEMMA RowOf ==
    ASSUME LedgerInv
    PROVE  /\ \A v \in 2..Latest : outbox[v] = "sent" \/ v \in PendingRows
           /\ PendingRows = {v \in 2..Latest : outbox[v] # "sent"}
<1>1. 2..Latest \subseteq Versions
  BY Numbers DEF LedgerInv
<1>2. \A v \in 2..Latest : outbox[v] \in {"pending", "sent"}
  BY <1>1 DEF LedgerInv, Numbered, TypeInv, StateTypes
<1>. QED  BY <1>2 DEF PendingRows

(* One thread moves, the rows stay. *)
LEMMA RowsStay ==
    ASSUME OutboxInv, LedgerInv', NEW a \in Threads, Others(a),
           UNCHANGED <<wiring, snapshots, outbox>>,
           losses' = 0 => losses = 0 /\ \A v \in 2..Latest :
               outbox[v] # "sent" /\ Carries(threads[a], v) => Carries(threads'[a], v),
           wiring = "inline" =>
               /\ threads'[a].at # "sent"
               /\ threads'[a].at \in InEvent => threads'[a].queue = PendingRows
    PROVE  OutboxInv'
<1>1. Latest' = Latest /\ PendingRows' = PendingRows
  BY DEF Latest, PendingRows
<1>2. Carried'
  <2>. SUFFICES ASSUME losses' = 0, NEW v \in 2..Latest, outbox[v] # "sent"
                PROVE  \E b \in Threads : Carries(threads[b], v)'
    BY <1>1 DEF Carried
  <2>1. PICK b \in Threads : Carries(threads[b], v)
    BY DEF OutboxInv, Carried
  <2>2. CASE b = a
    <3>1. Carries(threads'[a], v)
      BY <2>1, <2>2
    <3>. QED  BY <3>1 DEF Carries
  <2>3. CASE b # a
    BY <2>1, <2>3 DEF Others, Carries
  <2>. QED  BY <2>2, <2>3
<1>3. CASE wiring = "inline"
  <2>1. PendingInHands /\ SentInOrder
    BY <1>3 DEF OutboxInv
  <2>2. PendingInHands'
    <3>1. ASSUME NEW b \in Threads
          PROVE  /\ threads'[b].at # "sent"
                 /\ threads'[b].at \in InEvent => threads'[b].queue = PendingRows
      BY <1>3, <2>1, <3>1 DEF PendingInHands, Others
    <3>. QED  BY <1>1, <3>1 DEF PendingInHands
  <2>3. SentInOrder'
    BY <1>1, <2>1 DEF SentInOrder
  <2>. QED  BY <1>2, <2>2, <2>3 DEF OutboxInv
<1>4. CASE wiring # "inline"
  BY <1>2, <1>4 DEF OutboxInv
<1>. QED  BY <1>3, <1>4

(* Nobody's thread moves, the rows stay. *)
LEMMA NobodyMoves ==
    ASSUME OutboxInv, LedgerInv', UNCHANGED <<wiring, snapshots, outbox, threads, losses>>
    PROVE  OutboxInv'
<1>1. Latest' = Latest /\ PendingRows' = PendingRows
  BY DEF Latest, PendingRows
<1>2. Carried'
  BY <1>1 DEF OutboxInv, Carried, Carries
<1>3. wiring = "inline" => PendingInHands' /\ SentInOrder'
  BY <1>1 DEF OutboxInv, PendingInHands, SentInOrder
<1>. QED  BY <1>2, <1>3 DEF OutboxInv

(* Inline a thread that is not idle is the only one. *)
LEMMA Alone ==
    ASSUME OutboxInv, wiring = "inline", NEW a \in Threads, threads[a].at # "idle"
    PROVE  \A b \in Threads : b # a => threads[b].at = "idle"
BY DEF OutboxInv, LedgerInv, OneAtWork

(* A thread before its commit carries nothing. *)
LEMMA EmptyHands ==
    ASSUME TypeInv, NEW a \in Threads, threads[a].at \in {"idle"} \cup Publishing
    PROVE  threads[a].queue = {} /\ \A v : ~ Carries(threads[a], v)
BY ThreadOf DEF ThreadFits, Idle, Carries, Publishing

LEMMA PublicationOutbox ==
    ASSUME OutboxInv, LedgerInv', NEW a \in Threads,
           \/ \E r \in Runs : ReadProposal(a, r)
           \/ ReadLatest(a) \/ RefusePublication(a) \/ PublicationConflict(a) \/ CopyProposals(a)
    PROVE  OutboxInv'
<1>0. TypeInv /\ threads \in [Threads -> Thread] /\ threads[a] \in Thread
  BY DEF OutboxInv, LedgerInv, TypeInv, ThreadTypes
<1>1. /\ threads[a].at \in {"idle"} \cup Publishing
      /\ UNCHANGED <<wiring, snapshots, outbox, topic, losses>>
  BY DEF ReadProposal, ReadLatest, RefusePublication, PublicationConflict, CopyProposals, Publishing, policy
<1>2. threads'[a].at \in {"idle"} \cup Publishing /\ Others(a)
  <2>1. CASE \E r \in Runs : ReadProposal(a, r)
    <3>1. PICK r \in Runs : threads' = [threads EXCEPT ![a] = [@ EXCEPT !.at = "publishing", !.proposal = r]]
      BY <2>1 DEF ReadProposal
    <3>2. threads'[a] = [threads[a] EXCEPT !.at = "publishing", !.proposal = r] /\ Others(a)
      BY <1>0, <3>1 DEF Others
    <3>3. threads'[a].at = "publishing"
      BY <1>0, <3>2, ThreadAtProposal
    <3>. QED  BY <3>2, <3>3 DEF Publishing
  <2>2. CASE ReadLatest(a)
    <3>1. threads'[a] = [threads[a] EXCEPT !.at = "committing", !.version = Latest + 1] /\ Others(a)
      BY <1>0, <2>2 DEF ReadLatest, Others
    <3>2. threads'[a].at = "committing"
      BY <1>0, <3>1, ThreadAtVersion
    <3>. QED  BY <3>1, <3>2 DEF Publishing
  <2>3. CASE RefusePublication(a) \/ PublicationConflict(a)
    BY <1>0, <2>3, LeaveEffect DEF RefusePublication, PublicationConflict, Idle
  <2>4. CASE CopyProposals(a)
    BY <1>0, <2>4, GotoEffect DEF CopyProposals, Publishing
  <2>. QED  BY <2>1, <2>2, <2>3, <2>4
<1>3. \A v : ~ Carries(threads[a], v)
  BY <1>0, <1>1, EmptyHands
<1>. QED  BY <1>1, <1>2, <1>3, RowsStay DEF Publishing, InEvent, InPage

LEMMA LeavingOutbox ==
    ASSUME OutboxInv, LedgerInv', NEW a \in Threads, HandlingFails(a) \/ EndFanOut(a)
    PROVE  OutboxInv'
<1>0. TypeInv
  BY DEF OutboxInv, LedgerInv
<1>1. Leave(a) /\ UNCHANGED <<wiring, snapshots, outbox, topic>>
  BY DEF HandlingFails, EndFanOut, policy
<1>2. threads'[a].at = "idle" /\ Others(a)
  BY <1>0, <1>1, LeaveEffect DEF Idle
<1>3. losses' = 0 => losses = 0 /\ \A v : ~ Carries(threads[a], v)
  <2>1. CASE HandlingFails(a)
    <3>1. losses' = losses + 1 /\ losses \in Nat
      BY <1>0, <2>1, PolicyConstants DEF HandlingFails, TypeInv, StateTypes
    <3>. QED  BY <3>1
  <2>2. CASE EndFanOut(a)
    BY <2>2 DEF EndFanOut, Carries
  <2>. QED  BY <2>1, <2>2
<1>. QED  BY <1>1, <1>2, <1>3, RowsStay DEF InEvent, InPage

LEMMA ListOutboxOutbox ==
    ASSUME OutboxInv, LedgerInv', NEW a \in Threads, ListOutbox(a)
    PROVE  OutboxInv'
<1>0. TypeInv /\ threads \in [Threads -> Thread] /\ LedgerInv
  BY DEF OutboxInv, LedgerInv, TypeInv, ThreadTypes
<1>1. UNCHANGED <<wiring, snapshots, outbox, topic, losses>> /\ threads[a].at = "committed"
      /\ threads' = [threads EXCEPT ![a] = [Idle EXCEPT !.at = "fanning", !.queue = PendingRows]]
  BY DEF ListOutbox, policy
<1>2. threads'[a] = [Idle EXCEPT !.at = "fanning", !.queue = PendingRows] /\ Others(a)
  BY <1>0, <1>1 DEF Others
<1>3. threads'[a].at = "fanning" /\ threads'[a].queue = PendingRows
  BY <1>2, IdleAtQueue
<1>4. \A v \in 2..Latest : outbox[v] # "sent" => Carries(threads'[a], v)
  BY <1>0, <1>3, RowOf DEF Carries
<1>. QED  BY <1>1, <1>2, <1>3, <1>4, RowsStay

LEMMA PublishOutbox ==
    ASSUME OutboxInv, LedgerInv', NEW a \in Threads, PublishEvent(a) \/ PublishEventFails(a)
    PROVE  OutboxInv'
<1>0. TypeInv
  BY DEF OutboxInv, LedgerInv
<1>1. wiring = "pubsub" /\ UNCHANGED <<wiring, snapshots, outbox>> /\ threads[a].at = "fanning"
  BY DEF PublishEvent, PublishEventFails, policy
<1>2. CASE PublishEvent(a)
  <2>1. /\ threads'[a].at = "sent" /\ threads'[a].queue = threads[a].queue /\ Others(a)
        /\ losses' = losses
    BY <1>0, <1>2, GotoEffect DEF PublishEvent
  <2>2. \A v : Carries(threads[a], v) => Carries(threads'[a], v)
    BY <1>1, <2>1 DEF Carries
  <2>. QED  BY <1>1, <2>1, <2>2, RowsStay
<1>3. CASE PublishEventFails(a)
  <2>1. losses' = losses + 1 /\ losses \in Nat
    BY <1>0, <1>3, PolicyConstants DEF PublishEventFails, TypeInv, StateTypes
  <2>2. losses' # 0
    BY <2>1
  <2>3. Others(a)
    BY <1>0, <1>3, NextRowEffect DEF PublishEventFails
  <2>. QED  BY <1>1, <2>2, <2>3, RowsStay
<1>. QED  BY <1>2, <1>3

LEMMA BeginOutbox ==
    ASSUME OutboxInv, LedgerInv', NEW a \in Threads,
           HandleNext(a) \/ \E v \in Versions : Receive(a, v)
    PROVE  OutboxInv'
<1>0. TypeInv
  BY DEF OutboxInv, LedgerInv
<1>1. UNCHANGED <<wiring, snapshots, outbox, topic, losses>>
  BY DEF HandleNext, Receive, policy
<1>2. CASE HandleNext(a)
  <2>1. /\ Begin(a, Event(a)) /\ wiring = "inline" /\ threads[a].at = "fanning" /\ threads[a].queue # {}
        /\ UNCHANGED <<wiring, refresh, policy, consumer, product, losses>>
    BY <1>2 DEF HandleNext
  <2>2. Event(a) \in threads[a].queue /\ Event(a) \in 2..Latest
    BY <1>0, <2>1, EventPublished
  <2>3. threads'[a] = Begun(a, Event(a)) /\ Others(a)
    BY <1>0, <2>1, <2>2, BeginEffect
  <2>4. threads'[a].at \in {"handled", "handling"} /\ threads'[a].queue = threads[a].queue
    BY <2>2, <2>3 DEF Begun
  <2>5. threads[a].queue = PendingRows
    BY <2>1 DEF OutboxInv, PendingInHands, InEvent
  <2>6. \A v : Carries(threads[a], v) => Carries(threads'[a], v)
    BY <2>1, <2>4 DEF Carries
  <2>. QED  BY <1>1, <2>3, <2>4, <2>5, <2>6, RowsStay
<1>3. ASSUME NEW v \in Versions, Receive(a, v)
      PROVE  OutboxInv'
  <2>1. /\ Begin(a, v) /\ v \in topic /\ threads[a].at = "idle"
        /\ UNCHANGED <<wiring, refresh, policy, consumer, product, losses>>
    BY <1>3 DEF Receive
  <2>2. v \in 2..Latest /\ wiring # "inline"
    BY <1>0, <2>1 DEF TypeInv, StateTypes, OutboxInv, LedgerInv, OneAtWork
  <2>3. Others(a)
    BY <1>0, <2>1, <2>2, BeginEffect
  <2>4. \A w : ~ Carries(threads[a], w)
    BY <1>0, <2>1, EmptyHands
  <2>. QED  BY <1>1, <2>2, <2>3, <2>4, RowsStay
<1>. QED  BY <1>2, <1>3

LEMMA PageOutbox ==
    ASSUME OutboxInv, LedgerInv', NEW a \in Threads, PageStep(a)
    PROVE  OutboxInv'
<1>0. TypeInv
  BY DEF OutboxInv, LedgerInv
<1>1. /\ threads[a].at \in InPage /\ threads'[a].at \in InPage \cup {"handled"}
      /\ threads'[a].queue = threads[a].queue /\ Others(a)
      /\ UNCHANGED <<wiring, snapshots, outbox, topic, losses>>
  BY <1>0, PageEffect DEF policy
<1>2. \A v : Carries(threads[a], v) => Carries(threads'[a], v)
  BY <1>1 DEF Carries, InPage
<1>3. wiring = "inline" =>
        threads'[a].queue = PendingRows /\ threads'[a].at # "sent"
  BY <1>1 DEF OutboxInv, PendingInHands, InEvent, InPage
<1>. QED  BY <1>1, <1>2, <1>3, RowsStay

LEMMA CommitOutbox ==
    ASSUME OutboxInv, LedgerInv', NEW a \in Threads, PublicationStep(a)
    PROVE  OutboxInv'
<1>. DEFINE n == threads[a].version
<1>0. TypeInv /\ LedgerInv
  BY DEF OutboxInv, LedgerInv
<1>1. n \in Versions /\ n = Latest + 1 /\ Latest' = n /\ Latest \in Nat /\ 2..Latest \subseteq Versions
  BY <1>0, Published, Numbers DEF PublicationStep
<1>2. outbox'[n] = "pending" /\ \A w \in Versions : w # n => outbox'[w] = outbox[w]
  BY <1>0, CommitLedger
<1>3. /\ UNCHANGED <<wiring, topic, losses>> /\ threads[a].at # "idle"
      /\ Goto(a, "committed")
  BY DEF PublicationStep, CommitPublication, SwapProposals, Publish
<1>4. threads'[a].at = "committed" /\ Others(a)
  BY <1>0, <1>3, GotoEffect
<1>. HIDE DEF n
<1>5. Carried'
  BY <1>4 DEF Carried, Carries
<1>6. CASE wiring = "inline"
  <2>1. PendingInHands /\ SentInOrder /\ \A b \in Threads : b # a => threads[b].at = "idle"
    BY <1>3, <1>6, Alone DEF OutboxInv
  <2>2. PendingInHands'
    <3>1. \A b \in Threads : b # a => threads'[b].at = "idle"
      BY <1>4, <2>1 DEF Others
    <3>. QED  BY <1>3, <1>4, <2>1, <3>1 DEF PendingInHands, InEvent, InPage
  <2>3. SentInOrder'
    <3>. SUFFICES ASSUME NEW v \in 2..Latest', NEW w \in 2..Latest', v < w, outbox'[w] = "sent"
                  PROVE  outbox'[v] = "sent"
      BY DEF SentInOrder
    <3>1. w # n /\ w \in 2..Latest /\ v \in 2..Latest /\ v # n
      BY <1>1, <1>2
    <3>2. outbox'[w] = outbox[w] /\ outbox'[v] = outbox[v]
      BY <1>1, <1>2, <3>1
    <3>. QED  BY <2>1, <3>1, <3>2 DEF SentInOrder
  <2>. QED  BY <1>5, <2>2, <2>3 DEF OutboxInv
<1>7. CASE wiring # "inline"
  BY <1>3, <1>5, <1>7 DEF OutboxInv
<1>. QED  BY <1>6, <1>7

(* The row of the event in a thread's hands is marked. *)
LEMMA RowMarked ==
    ASSUME OutboxInv, LedgerInv', NEW a \in Threads,
           threads[a].at \in {"sent", "handled"},
           threads[a].at = "handled" => wiring = "inline",
           NextRow(a), outbox' = [outbox EXCEPT ![Event(a)] = "sent"],
           UNCHANGED <<wiring, snapshots, topic, losses>>
    PROVE  OutboxInv'
<1>. DEFINE e == Event(a)
<1>0. TypeInv /\ LedgerInv
  BY DEF OutboxInv, LedgerInv
<1>1. e \in threads[a].queue /\ e \in 2..Latest /\ \A w \in threads[a].queue : e <= w
  BY <1>0, ThreadOf, EventPublished DEF ThreadFits
<1>2. threads'[a].at = "fanning" /\ threads'[a].queue = threads[a].queue \ {e} /\ Others(a)
  BY <1>0, NextRowEffect
<1>3. Latest' = Latest /\ Latest \in Nat /\ 2..Latest \subseteq Versions
  BY <1>0, Numbers DEF Latest
<1>. HIDE DEF e
<1>4. outbox'[e] = "sent" /\ \A w \in 2..Latest : w # e => outbox'[w] = outbox[w]
  BY <1>0, <1>1, <1>3 DEF e, TypeInv, StateTypes
<1>5. Carried'
  <2>. SUFFICES ASSUME losses' = 0, NEW v \in 2..Latest, outbox'[v] # "sent"
                PROVE  \E b \in Threads : Carries(threads[b], v)'
    BY <1>3 DEF Carried
  <2>1. v # e /\ outbox[v] # "sent"
    BY <1>4
  <2>2. PICK b \in Threads : Carries(threads[b], v)
    BY <2>1 DEF OutboxInv, Carried
  <2>3. CASE b = a
    <3>1. v \in threads'[a].queue
      BY <1>2, <2>1, <2>2, <2>3 DEF Carries
    <3>. QED  BY <1>2, <3>1 DEF Carries
  <2>4. CASE b # a
    BY <1>2, <2>2, <2>4 DEF Others, Carries
  <2>. QED  BY <2>3, <2>4
<1>6. CASE wiring = "inline"
  <2>1. PendingInHands /\ SentInOrder /\ \A b \in Threads : b # a => threads[b].at = "idle"
    BY <1>6, Alone DEF OutboxInv
  <2>2. threads[a].queue = PendingRows
    BY <2>1 DEF PendingInHands, InEvent
  <2>3. PendingRows' = PendingRows \ {e}
    <3>1. PendingRows' = {v \in 2..Latest : outbox'[v] = "pending"}
      BY <1>3 DEF PendingRows
    <3>2. \A v : v \in PendingRows' <=> v \in PendingRows \ {e}
      BY <1>4, <3>1 DEF PendingRows
    <3>. QED  BY <3>2
  <2>4. PendingInHands'
    <3>1. \A b \in Threads : b # a => threads'[b].at = "idle"
      BY <1>2, <2>1 DEF Others
    <3>2. threads'[a].queue = PendingRows'
      BY <1>2, <2>1, <2>2, <2>3 DEF PendingInHands
    <3>. QED  BY <1>2, <3>1, <3>2 DEF PendingInHands, InEvent, InPage
  <2>5. SentInOrder'
    <3>. SUFFICES ASSUME NEW v \in 2..Latest, NEW w \in 2..Latest, v < w, outbox'[w] = "sent", v # e
                  PROVE  outbox[v] = "sent"
      BY <1>3, <1>4 DEF SentInOrder
    <3>1. CASE w = e
      <4>1. v \notin PendingRows
        BY <1>1, <2>2, <3>1
      <4>. QED  BY <1>0, <4>1, RowOf
    <3>2. CASE w # e
      BY <1>4, <2>1, <3>2 DEF SentInOrder
    <3>. QED  BY <3>1, <3>2
  <2>. QED  BY <1>5, <2>4, <2>5 DEF OutboxInv
<1>7. CASE wiring # "inline"
  BY <1>5, <1>7 DEF OutboxInv
<1>. QED  BY <1>6, <1>7

LEMMA EndOutbox ==
    ASSUME OutboxInv, LedgerInv', NEW a \in Threads, MarkPublished(a) \/ Acknowledged(a)
    PROVE  OutboxInv'
<1>1. CASE MarkPublished(a)
  BY <1>1, RowMarked DEF MarkPublished
<1>2. CASE Acknowledged(a) /\ wiring = "inline"
  BY <1>2, RowMarked DEF Acknowledged
<1>3. CASE Acknowledged(a) /\ wiring # "inline"
  <2>1. Leave(a) /\ UNCHANGED <<wiring, snapshots, outbox, losses>> /\ threads[a].at = "handled"
    BY <1>3 DEF Acknowledged
  <2>2. Others(a)
    BY <2>1, LeaveEffect DEF OutboxInv, LedgerInv
  <2>3. \A v : ~ Carries(threads[a], v)
    BY <1>3, <2>1 DEF Carries
  <2>. QED  BY <1>3, <2>1, <2>2, <2>3, RowsStay
<1>. QED  BY <1>1, <1>2, <1>3

LEMMA StepOutbox ==
    ASSUME OutboxInv, [Next]_vars
    PROVE  OutboxInv'
<1>0. LedgerInv' /\ LedgerInv /\ TypeInv
  BY StepLedger DEF OutboxInv, LedgerInv
<1>1. CASE Refresh
  BY <1>0, <1>1, RefreshTypes, NobodyMoves DEF policy
<1>2. CASE Administer
  <2>1. ASSUME NEW r \in Runs, Discard(r) \/ CheckDiscard(r) \/ WriteDiscard(r)
        PROVE  OutboxInv'
    BY <1>0, <2>1, NobodyMoves, DiscardTypes
  <2>. QED  BY <1>0, <1>2, <2>1, PublicationOutbox DEF Administer
<1>3. ASSUME NEW a \in Threads, Step(a) \/ Loss(a)
      PROVE  OutboxInv'
  <2>1. CASE ReadLatest(a) \/ RefusePublication(a) \/ PublicationConflict(a) \/ CopyProposals(a)
    BY <1>0, <2>1, PublicationOutbox
  <2>2. CASE PublicationStep(a)
    BY <1>0, <2>2, CommitOutbox
  <2>3. CASE ListOutbox(a)
    BY <1>0, <2>3, ListOutboxOutbox
  <2>4. CASE PublishEvent(a) \/ PublishEventFails(a)
    BY <1>0, <2>4, PublishOutbox
  <2>5. CASE MarkPublished(a) \/ Acknowledged(a)
    BY <1>0, <2>5, EndOutbox
  <2>6. CASE HandleNext(a)
    BY <1>0, <2>6, BeginOutbox
  <2>7. CASE PageStep(a)
    BY <1>0, <2>7, PageOutbox
  <2>8. CASE HandlingFails(a) \/ EndFanOut(a)
    BY <1>0, <2>8, LeavingOutbox
  <2>. QED  BY <1>3, <2>1, <2>2, <2>3, <2>4, <2>5, <2>6, <2>7, <2>8 DEF Step, Loss, PageStep, PublicationStep
<1>4. ASSUME NEW a \in Threads, NEW v \in Versions, Receive(a, v)
      PROVE  OutboxInv'
  BY <1>0, <1>4, BeginOutbox
<1>5. CASE Product
  <2>1. UNCHANGED <<wiring, snapshots, outbox, topic, threads, losses>>
    BY <1>0, <1>5, ProductTypes DEF policy
  <2>. QED  BY <1>0, <2>1, NobodyMoves
<1>6. CASE Die
  <2>1. losses' = losses + 1 /\ losses \in Nat /\ wiring' # "inline"
    BY <1>0, <1>6, PolicyConstants DEF Die, TypeInv, StateTypes
  <2>2. losses' # 0
    BY <2>1
  <2>. QED  BY <1>0, <2>1, <2>2 DEF OutboxInv, Carried
<1>7. CASE UNCHANGED vars
  BY <1>0, <1>7, NobodyMoves DEF vars, policy
<1>. QED  BY <1>1, <1>2, <1>3, <1>4, <1>5, <1>6, <1>7 DEF Next

THEOREM OutboxFits == Spec => []OutboxInv
BY InitOutbox, StepOutbox, PTL DEF Spec

(* NoEventLeftBehind: without a failure every version has been sent once   *)
(* nobody is at work on it, and in the API process an event that is sent   *)
(* leaves no older one pending, whatever failed.                           *)
THEOREM NoEventIsLeftBehind == Spec => []NoEventLeftBehind
<1>1. OutboxInv => NoEventLeftBehind
  <2>. SUFFICES ASSUME OutboxInv PROVE NoEventLeftBehind
    OBVIOUS
  <2>1. ASSUME losses = 0, \A a \in Threads : threads[a].at = "idle", NEW v \in 2..Latest
        PROVE  outbox[v] = "sent"
    <3>1. \A a \in Threads : ~ Carries(threads[a], v)
      BY <2>1, EmptyHands DEF OutboxInv, LedgerInv
    <3>. QED  BY <2>1, <3>1 DEF OutboxInv, Carried
  <2>2. wiring = "inline" => SentInOrder
    BY DEF OutboxInv
  <2>. QED  BY <2>1, <2>2 DEF NoEventLeftBehind, SentInOrder
<1>. QED  BY <1>1, OutboxFits, PTL

-----------------------------------------------------------------------------
(* Who has been told *)

(* From here on the project a thread is at has been told of its event. *)
Announced == {"recalculating", "resaving", "completing"}

Told(v, p) == \E w \in v..Latest : <<w, p>> \in heard

(* The answer of the project was on record when v was published, and it    *)
(* has heard neither of v nor of a later version.                          *)
Unaware(v, p) ==
    project[p].version # 0 /\ project[p].since < v /\ ~Told(v, p)

OnPage(a, v, p) == \E row \in threads[a].page : row.p = p /\ row.version < v

(* Such a project still rests on a version before v: it takes a            *)
(* recalculation, which tells it, to leave it behind.                      *)
OlderThan ==
    \A v \in 2..Latest, p \in Projects : Unaware(v, p) => project[p].version < v

StartedIsTold ==
    \A v \in Versions, p \in Projects :
        recalcs[<<v, p>>] = "started" => <<v, p>> \in heard

(* What a receipt stands for. *)
ReceiptIsTold ==
    \A v \in receipts, p \in Projects : FitsThePage(p) => ~Unaware(v, p)

(* Whom a thread still has to tell is on its page. *)
ThreadTells(a) ==
    /\ threads[a].at \in Announced => <<Event(a), Current(a).p>> \in heard
    /\ threads[a].at \in InPage =>
            \A p \in Projects :
                FitsThePage(p) /\ Unaware(Event(a), p) => OnPage(a, Event(a), p)
    /\ threads[a].at = "handled" => Event(a) \in receipts

ToldInv ==
    /\ TypeInv /\ OneAtWork
    /\ OlderThan /\ StartedIsTold /\ ReceiptIsTold
    /\ \A a \in Threads : ThreadTells(a)

LEMMA InitTold == Init => ToldInv
<1>. SUFFICES ASSUME Init PROVE ToldInv
  OBVIOUS
<1>1. TypeInv /\ OneAtWork
  BY InitTypes, InitAtWork
<1>2. \A v \in 2..Latest : FALSE
  BY DEF Init, Latest
<1>3. \A a \in Threads : threads[a].at = "idle"
  BY DEF Init, Idle
<1>4. \A v \in Versions, p \in Projects : recalcs[<<v, p>>] = "none"
  BY DEF Init
<1>5. StartedIsTold /\ ReceiptIsTold
  BY <1>4 DEF Init, StartedIsTold, ReceiptIsTold
<1>6. \A a \in Threads : ThreadTells(a)
  BY <1>3 DEF ThreadTells, Announced, InPage
<1>. QED  BY <1>1, <1>2, <1>5, <1>6 DEF ToldInv, OlderThan

(* The steps that touch a project or its timeline. *)
LEMMA ProjectSteps ==
    ASSUME [Next]_vars
    PROVE  \/ \E a \in Threads : SaveMark(a) \/ RecalcTier(a) \/ MarkStale(a) \/ MarkProvisional(a)
           \/ \E p \in Busy : SaveCopy(p)
           \/ UNCHANGED <<project, heard>>
<1>. USE DEF product
<1>1. Refresh => UNCHANGED <<project, heard>>
  BY DEF Refresh, LaunchRun, FetchChange, FetchNoChange, CommitNoChange, CommitProposal, FailRun
<1>2. Administer => UNCHANGED <<project, heard>>
  BY DEF Administer, ReadProposal, Discard, CheckDiscard, WriteDiscard
<1>3. ASSUME NEW a \in Threads,
             \/ ReadLatest(a) \/ CommitPublication(a) \/ CopyProposals(a) \/ SwapProposals(a)
             \/ PublicationConflict(a)
             \/ ListOutbox(a) \/ EndFanOut(a) \/ PublishEvent(a) \/ MarkPublished(a)
      PROVE  UNCHANGED <<project, heard>>
  BY <1>3 DEF ReadLatest, CommitPublication, CopyProposals, SwapProposals, Publish, PublicationConflict,
              ListOutbox, EndFanOut, PublishEvent, MarkPublished
<1>4. ASSUME NEW a \in Threads,
             \/ HandleNext(a) \/ RecordInterrupted(a) \/ PassBy(a) \/ ReadMark(a) \/ ReadRecalc(a)
             \/ RecalcRefused(a) \/ CompleteRecalc(a) \/ PutReceipt(a) \/ Acknowledged(a)
      PROVE  UNCHANGED <<project, heard>>
  BY <1>4 DEF HandleNext, RecordInterrupted, PassBy, ReadMark, ReadRecalc, RecalcRefused, CompleteRecalc,
              PutReceipt, Acknowledged
<1>5. ASSUME NEW a \in Threads, Loss(a) \/ \E v \in Versions : Receive(a, v)
      PROVE  UNCHANGED <<project, heard>>
  BY <1>5 DEF Loss, RefusePublication, PublishEventFails, HandlingFails, Receive
<1>6. ASSUME NEW p \in Busy, RunClassification(p) \/ Reclassify(p) \/ Reanalyze(p) \/ Edit(p) \/ EndRequest(p)
      PROVE  UNCHANGED <<project, heard>>
  BY <1>6 DEF RunClassification, Reclassify, Reanalyze, Edit, StartRequest, EndRequest
<1>7. Die \/ UNCHANGED vars => UNCHANGED <<project, heard>>
  BY DEF Die, vars
<1>. QED  BY <1>1, <1>2, <1>3, <1>4, <1>5, <1>6, <1>7 DEF Next, Step, Product

(* What those steps do to a project. *)
LEMMA ProjectEffect ==
    ASSUME TypeInv, [Next]_vars, NEW p \in Projects
    PROVE  \/ UNCHANGED <<project[p], heard>>
           \/ \E a \in Threads :
                /\ threads[a].at = "marked" /\ project' = project
                /\ heard' = heard \cup {<<Event(a), Current(a).p>>}
           \/ /\ project'[p].version = project[p].version /\ project'[p].since = project[p].since
              /\ heard' = heard /\ (p \in Busy \/ project'[p].stale = TRUE)
           \/ \E a \in Threads :
                /\ threads[a].at = "resaving" /\ p = Current(a).p /\ project[p].version # 0
                /\ project'[p].version = Event(a) /\ project'[p].since = project[p].since
                /\ heard' = heard
           \/ /\ project'[p].version = 0 /\ project'[p].since = 0 /\ heard' = heard
              /\ \/ p \in Busy
                 \/ \E a \in Threads : threads[a].at = "marking" /\ p = Current(a).p
           \/ /\ project'[p].since = Latest /\ heard' = heard
              /\ \/ p \in Busy
                 \/ \E a \in Threads :
                      /\ threads[a].at \in {"marking", "resaving"} /\ p = Current(a).p
                      /\ threads[a].version # project[p].version
<1>0. Busy \subseteq Projects /\ project \in [Projects -> Project]
  BY PolicyConstants DEF TypeInv, StateTypes
<1>1. ASSUME NEW a \in Threads, MarkStale(a) \/ MarkProvisional(a)
      PROVE  /\ threads[a].at = "marked" /\ project' = project
             /\ heard' = heard \cup {<<Event(a), Current(a).p>>}
  BY <1>1 DEF MarkStale, MarkProvisional, Record
<1>2. ASSUME NEW a \in Threads, SaveMark(a) \/ RecalcTier(a)
      PROVE  /\ threads[a].at \in {"marking", "resaving"} /\ heard' = heard
             /\ Current(a).p \in Projects /\ threads[a].version \in Nat
             /\ threads[a].at = "resaving" => threads[a].version # 0
             /\ SaveMark(a) => threads[a].at = "marking"
             /\ RecalcTier(a) => threads[a].at = "resaving"
  <2>1. threads[a].at \in {"marking", "resaving"} /\ heard' = heard
        /\ (SaveMark(a) => threads[a].at = "marking") /\ (RecalcTier(a) => threads[a].at = "resaving")
    BY <1>2 DEF SaveMark, RecalcTier
  <2>2. Current(a).p \in Projects
    BY <2>1, InHands DEF AtCurrent, InPage
  <2>3. threads[a].version \in 0..MaxVersion /\ (threads[a].at = "resaving" => threads[a].version # 0)
    BY ThreadOf DEF Thread, ThreadFits
  <2>. QED  BY <2>1, <2>2, <2>3
<1>3. ASSUME NEW a \in Threads, SaveMark(a)
      PROVE  \/ UNCHANGED <<project[p], heard>>
             \/ /\ p = Current(a).p /\ threads[a].at = "marking" /\ heard' = heard
                /\ project'[p].version = threads[a].version /\ project'[p].stale = TRUE
                /\ \/ threads[a].version = 0 /\ project'[p].since = 0
                   \/ project'[p].since = Latest /\ threads[a].version # project[p].version
                   \/ threads[a].version = project[p].version /\ project'[p].since = project[p].since
  <2>1. PICK q \in Projects, n \in Nat : q = Current(a).p /\ n = threads[a].version
    BY <1>2, <1>3
  <2>2. PICK pr : pr = [version |-> n, stale |-> TRUE, since |-> Since(q, n, FALSE)]
    OBVIOUS
  <2>3. project' = [project EXCEPT ![q] = pr]
    BY <1>3, <2>1, <2>2 DEF SaveMark
  <2>4. p # q => project'[p] = project[p]
    BY <1>0, <2>3
  <2>5. p = q => project'[p] = pr
    BY <1>0, <2>3
  <2>6. /\ pr.version = n /\ pr.stale = TRUE
        /\ \/ n = 0 /\ pr.since = 0
           \/ pr.since = Latest /\ n # project[q].version
           \/ n = project[q].version /\ pr.since = project[q].since
    BY <2>2 DEF Since
  <2>. QED  BY <1>2, <1>3, <2>1, <2>4, <2>5, <2>6
<1>4. ASSUME NEW a \in Threads, RecalcTier(a)
      PROVE  \/ UNCHANGED <<project[p], heard>>
             \/ /\ p = Current(a).p /\ threads[a].at = "resaving" /\ heard' = heard
                /\ project'[p].version = Event(a) /\ threads[a].version # 0
                /\ \/ project'[p].since = Latest /\ threads[a].version # project[p].version
                   \/ threads[a].version = project[p].version /\ project'[p].since = project[p].since
  <2>1. PICK q \in Projects, n \in Nat, v \in Versions :
             q = Current(a).p /\ n = threads[a].version /\ v = Event(a)
    <3>1. Event(a) \in Versions
      BY <1>2, <1>4, InHands DEF InPage
    <3>. QED  BY <1>2, <1>4, <3>1
  <2>2. PICK pr : pr = [version |-> v, stale |-> FALSE, since |-> Since(q, n, FALSE)]
    OBVIOUS
  <2>3. project' = [project EXCEPT ![q] = pr]
    BY <1>4, <2>1, <2>2 DEF RecalcTier
  <2>4. p # q => project'[p] = project[p]
    BY <1>0, <2>3
  <2>5. p = q => project'[p] = pr
    BY <1>0, <2>3
  <2>6. /\ pr.version = v
        /\ \/ n = 0
           \/ pr.since = Latest /\ n # project[q].version
           \/ n = project[q].version /\ pr.since = project[q].since
    BY <2>2 DEF Since
  <2>. QED  BY <1>2, <1>4, <2>1, <2>4, <2>5, <2>6
<1>5. ASSUME NEW q \in Busy, SaveCopy(q)
      PROVE  \/ UNCHANGED <<project[p], heard>>
             \/ /\ p \in Busy /\ heard' = heard
                /\ \/ project'[p].version = 0 /\ project'[p].since = 0
                   \/ project'[p].since = Latest
                   \/ project'[p].version = project[p].version /\ project'[p].since = project[p].since
  <2>. DEFINE n == requests[q].version
  <2>1. PICK pr : pr = [version |-> n, stale |-> requests[q].stale, since |-> Since(q, n, requests[q].new)]
    OBVIOUS
  <2>2. project' = [project EXCEPT ![q] = pr] /\ heard' = heard
    BY <1>5, <2>1 DEF SaveCopy
  <2>3. p # q => project'[p] = project[p]
    BY <1>0, <2>2
  <2>4. p = q => project'[p] = pr
    BY <1>0, <2>2
  <2>5. /\ pr.version = n
        /\ \/ n = 0 /\ pr.since = 0
           \/ pr.since = Latest
           \/ n = project[q].version /\ pr.since = project[q].since
    BY <2>1 DEF Since
  <2>. QED  BY <1>5, <2>2, <2>3, <2>4, <2>5
<1>6. CASE UNCHANGED <<project, heard>>
  BY <1>6
<1>7. CASE \E a \in Threads : SaveMark(a)
  BY <1>3, <1>7
<1>8. CASE \E a \in Threads : RecalcTier(a)
  BY <1>4, <1>8
<1>9. CASE \E q \in Busy : SaveCopy(q)
  BY <1>5, <1>9
<1>10. CASE \E a \in Threads : MarkStale(a) \/ MarkProvisional(a)
  BY <1>1, <1>10
<1>. QED  BY <1>6, <1>7, <1>8, <1>9, <1>10, ProjectSteps

(* The latest version only grows, and not while projects are touched. *)
LEMMA LatestGrows ==
    ASSUME TypeInv, [Next]_vars
    PROVE  /\ Latest \in Nat /\ Latest' \in Nat /\ Latest <= Latest'
           /\ Latest' = Latest \/ (Latest' = Latest + 1 /\ UNCHANGED <<project, heard>>)
<1>0. Latest \in Nat
  BY Numbers
<1>1. ASSUME NEW a \in Threads, PublicationStep(a)
      PROVE  Latest' = Latest + 1 /\ UNCHANGED <<project, heard>>
  <2>1. Latest' = Latest + 1
    BY <1>1, Published DEF PublicationStep
  <2>2. UNCHANGED <<project, heard>>
    BY <1>1 DEF PublicationStep, CommitPublication, SwapProposals, Publish, product
  <2>. QED  BY <2>1, <2>2
<1>2. ASSUME UNCHANGED snapshots
      PROVE  Latest' = Latest
  BY <1>2 DEF Latest
<1>3. ASSUME NEW a \in Threads, CopyProposals(a) \/ MarkPublished(a) \/ Acknowledged(a)
      PROVE  UNCHANGED snapshots
  BY <1>3 DEF CopyProposals, MarkPublished, Acknowledged
<1>4. Refresh => UNCHANGED snapshots
  BY DEF Refresh, LaunchRun, FetchChange, FetchNoChange, CommitNoChange, CommitProposal, FailRun, policy
<1>5. Die \/ UNCHANGED ledgerVars \/ (\E r \in Runs : DiscardStep(r)) => UNCHANGED snapshots
  BY DEF Die, DiscardStep, Discard, CheckDiscard, WriteDiscard, policy, ledgerVars
<1>6. UNCHANGED snapshots \/ \E a \in Threads : PublicationStep(a)
  BY <1>3, <1>4, <1>5, LedgerSteps
<1>. QED  BY <1>0, <1>1, <1>2, <1>6

(* Who has been told of a version stays told of it. *)
LEMMA ToldStays ==
    ASSUME TypeInv, [Next]_vars
    PROVE  /\ heard \subseteq heard'
           /\ \A v \in Nat, p \in Projects : Told(v, p) => Told(v, p)'
<1>1. heard \subseteq heard'
  <2>1. CASE Projects = {}
    <3>1. heard = {}
      BY <2>1 DEF TypeInv, StateTypes
    <3>. QED  BY <3>1
  <2>2. CASE Projects # {}
    BY <2>2, ProjectEffect
  <2>. QED  BY <2>1, <2>2
<1>2. \A v \in Nat : v..Latest \subseteq v..(Latest')
  BY LatestGrows
<1>. QED  BY <1>1, <1>2 DEF Told

(* Nobody becomes unaware of a version that is published, and only a       *)
(* recalculation moves one who is.                                         *)
LEMMA NoMoreUnaware ==
    ASSUME TypeInv, [Next]_vars, NEW v \in 2..Latest, NEW p \in Projects, Unaware(v, p)'
    PROVE  /\ Unaware(v, p)
           /\ \/ project'[p].version = project[p].version
              \/ \E a \in Threads :
                    /\ threads[a].at = "resaving" /\ p = Current(a).p
                    /\ project'[p].version = Event(a)
<1>0. v \in Nat /\ v <= Latest /\ Latest \in Nat
  BY Numbers
<1>1. project'[p].version # 0 /\ project'[p].since < v /\ ~Told(v, p)'
  BY DEF Unaware
<1>2. ~Told(v, p)
  BY <1>0, <1>1, ToldStays
<1>3. project'[p].since # Latest
  BY <1>0, <1>1
<1>4. CASE UNCHANGED <<project[p], heard>>
  BY <1>1, <1>2, <1>4 DEF Unaware
<1>5. ASSUME project'[p].version = project[p].version, project'[p].since = project[p].since
      PROVE  Unaware(v, p) /\ project'[p].version = project[p].version
  BY <1>1, <1>2, <1>5 DEF Unaware
<1>6. ASSUME NEW a \in Threads,
             /\ threads[a].at = "resaving" /\ p = Current(a).p /\ project[p].version # 0
             /\ project'[p].version = Event(a) /\ project'[p].since = project[p].since
      PROVE  /\ Unaware(v, p)
             /\ threads[a].at = "resaving" /\ p = Current(a).p /\ project'[p].version = Event(a)
  BY <1>1, <1>2, <1>6 DEF Unaware
<1>. QED  BY <1>1, <1>3, <1>4, <1>5, <1>6, ProjectEffect

LEMMA OlderThanKept ==
    ASSUME ToldInv, [Next]_vars
    PROVE  OlderThan'
<1>0. TypeInv /\ OlderThan
  BY DEF ToldInv
<1>. SUFFICES ASSUME NEW v \in 2..(Latest'), NEW p \in Projects, Unaware(v, p)'
              PROVE  project'[p].version < v
  BY DEF OlderThan
<1>1. project[p] \in Project /\ project[p].version <= Latest /\ project[p].version \in Nat
  BY <1>0, Numbers DEF TypeInv, StateTypes, Project
<1>2. CASE v \in 2..Latest
  <2>1. Unaware(v, p) /\ project[p].version < v
    BY <1>0, <1>2, NoMoreUnaware DEF OlderThan
  <2>2. ASSUME NEW a \in Threads, threads[a].at = "resaving", p = Current(a).p,
               project'[p].version = Event(a)
        PROVE  project'[p].version < v
    <3>1. <<Event(a), p>> \in heard
      BY <2>2 DEF ToldInv, ThreadTells, Announced
    <3>2. Event(a) \in 2..Latest
      BY <1>0, <2>2, InHands DEF InPage
    <3>3. Event(a) \notin v..Latest
      BY <2>1, <3>1 DEF Unaware, Told
    <3>. QED  BY <1>0, <1>2, <2>2, <3>2, <3>3, Numbers
  <2>. QED  BY <1>0, <1>2, <2>1, <2>2, NoMoreUnaware
<1>3. CASE v \notin 2..Latest
  <2>1. v = Latest + 1 /\ Latest' # Latest
    BY <1>0, <1>3, LatestGrows
  <2>2. project' = project
    BY <1>0, <2>1, LatestGrows
  <2>. QED  BY <1>0, <1>1, <2>1, <2>2, Numbers
<1>. QED  BY <1>2, <1>3


(* The steps that touch what the consumer keeps. *)
LEMMA ConsumerSteps ==
    ASSUME [Next]_vars
    PROVE  \/ \E a \in Threads : PageStep(a)
           \/ Die
           \/ UNCHANGED consumer
<1>1. Refresh \/ Administer \/ Product \/ UNCHANGED vars => UNCHANGED consumer
  BY DEF Refresh, LaunchRun, FetchChange, FetchNoChange, CommitNoChange, CommitProposal, FailRun,
         Administer, ReadProposal, Discard, CheckDiscard, WriteDiscard, vars,
         Product, RunClassification, Reclassify, Reanalyze, Edit, StartRequest, SaveCopy, EndRequest
<1>2. ASSUME NEW a \in Threads, Loss(a) \/ \E v \in Versions : Receive(a, v)
      PROVE  UNCHANGED consumer
  BY <1>2 DEF Loss, RefusePublication, PublishEventFails, HandlingFails, Receive
<1>3. ASSUME NEW a \in Threads, Step(a)
      PROVE  PageStep(a) \/ UNCHANGED consumer
  BY <1>3 DEF Step, PageStep, ReadLatest, CommitPublication, CopyProposals, SwapProposals, Publish,
              PublicationConflict, ListOutbox, EndFanOut, PublishEvent, MarkPublished, HandleNext, Acknowledged
<1>. QED  BY <1>1, <1>2, <1>3 DEF Next

(* What a step on the page does to what the consumer keeps. *)
LEMMA PageRecords ==
    ASSUME TypeInv, NEW a \in Threads, PageStep(a)
    PROVE  /\ \A key \in Versions \X Projects :
                \/ recalcs'[key] = recalcs[key]
                \/ recalcs'[key] = "completed"
                \/ key = <<Event(a), Current(a).p>> /\ heard' = heard \cup {key}
           /\ \/ receipts' = receipts
              \/ /\ threads[a].at = "handling" /\ threads[a].page = {}
                 /\ receipts' = receipts \cup {Event(a)}
                 /\ threads'[a].at = "handled" /\ UNCHANGED product
<1>0. recalcs \in [Versions \X Projects -> {"none", "started", "completed"}]
  BY DEF TypeInv, StateTypes
<1>1. CASE RecordInterrupted(a) \/ CompleteRecalc(a)
  BY <1>0, <1>1 DEF RecordInterrupted, CompleteRecalc
<1>2. CASE \/ PassBy(a) \/ ReadMark(a) \/ SaveMark(a) \/ MarkStale(a)
           \/ ReadRecalc(a) \/ RecalcTier(a) \/ RecalcRefused(a)
  BY <1>2 DEF PassBy, ReadMark, SaveMark, MarkStale, Record, ReadRecalc, RecalcTier, RecalcRefused, consumer
<1>3. CASE MarkProvisional(a)
  BY <1>0, <1>3 DEF MarkProvisional, Record
<1>4. CASE PutReceipt(a)
  <2>1. threads'[a].at = "handled"
    BY <1>4, GotoEffect DEF PutReceipt
  <2>. QED  BY <1>4, <2>1 DEF PutReceipt
<1>. QED  BY <1>1, <1>2, <1>3, <1>4 DEF PageStep

LEMMA StartedKept ==
    ASSUME ToldInv, [Next]_vars
    PROVE  StartedIsTold'
<1>0. TypeInv /\ StartedIsTold
  BY DEF ToldInv
<1>1. heard \subseteq heard'
  BY <1>0, ToldStays
<1>2. ASSUME NEW a \in Threads, PageStep(a)
      PROVE  StartedIsTold'
  BY <1>0, <1>1, <1>2, PageRecords DEF StartedIsTold
<1>3. CASE Die
  BY <1>3 DEF Die, StartedIsTold
<1>4. CASE UNCHANGED consumer
  BY <1>0, <1>1, <1>4 DEF consumer, StartedIsTold
<1>. QED  BY <1>2, <1>3, <1>4, ConsumerSteps


LEMMA ReceiptsKept ==
    ASSUME ToldInv, [Next]_vars
    PROVE  ReceiptIsTold'
<1>0. TypeInv /\ ReceiptIsTold /\ receipts \subseteq 2..Latest
  BY DEF ToldInv, TypeInv, StateTypes
<1>1. ASSUME receipts' \subseteq receipts
      PROVE  ReceiptIsTold'
  <2>. SUFFICES ASSUME NEW v \in receipts', NEW p \in Projects, FitsThePage(p)'
                PROVE  ~Unaware(v, p)'
    BY DEF ReceiptIsTold
  <2>1. FitsThePage(p)
    BY DEF FitsThePage
  <2>. QED  BY <1>0, <1>1, <2>1, NoMoreUnaware DEF ReceiptIsTold
<1>2. ASSUME NEW a \in Threads, threads[a].at = "handling", threads[a].page = {},
             receipts' = receipts \cup {Event(a)}
      PROVE  ReceiptIsTold'
  <2>1. Event(a) \in 2..Latest
    BY <1>0, <1>2, InHands DEF InPage
  <2>2. \A p \in Projects : FitsThePage(p) => ~Unaware(Event(a), p)
    BY <1>2 DEF ToldInv, ThreadTells, OnPage, InPage
  <2>. SUFFICES ASSUME NEW v \in receipts', NEW p \in Projects, FitsThePage(p)'
                PROVE  ~Unaware(v, p)'
    BY DEF ReceiptIsTold
  <2>3. FitsThePage(p)
    BY DEF FitsThePage
  <2>4. CASE v \in receipts
    BY <1>0, <2>3, <2>4, NoMoreUnaware DEF ReceiptIsTold
  <2>5. CASE v \notin receipts
    <3>1. v = Event(a) /\ v \in 2..Latest
      BY <1>2, <2>1, <2>5
    <3>2. ~Unaware(v, p)
      BY <2>2, <2>3, <3>1
    <3>. QED  BY <1>0, <3>1, <3>2, NoMoreUnaware
  <2>. QED  BY <2>4, <2>5
<1>3. CASE Die
  BY <1>1, <1>3 DEF Die
<1>4. CASE UNCHANGED consumer
  BY <1>1, <1>4 DEF consumer
<1>5. ASSUME NEW a \in Threads, PageStep(a)
      PROVE  ReceiptIsTold'
  BY <1>0, <1>1, <1>2, <1>5, PageRecords
<1>. QED  BY <1>3, <1>4, <1>5, ConsumerSteps

(* What a thread has to have done and to hold, once its event is known. *)
LEMMA TellsIf ==
    ASSUME NEW b \in Threads, NEW v, Event(b)' = v,
           threads'[b].at \in Announced => <<v, Current(b)'.p>> \in heard',
           threads'[b].at \in InPage => \A p \in Projects :
                FitsThePage(p) /\ Unaware(v, p)' =>
                    \E row \in threads'[b].page : row.p = p /\ row.version < v,
           threads'[b].at = "handled" => v \in receipts'
    PROVE  ThreadTells(b)'
BY DEF ThreadTells, OnPage, FitsThePage, Unaware, Told

LEMMA TellsOtherwise ==
    ASSUME NEW b \in Threads, threads'[b].at \notin InPage \cup {"handled"}
    PROVE  ThreadTells(b)'
BY DEF ThreadTells, InPage, Announced

(* A thread that does not move tells as before. *)
LEMMA TellsAsBefore ==
    ASSUME ToldInv, [Next]_vars, NEW b \in Threads, threads'[b] = threads[b], receipts \subseteq receipts'
    PROVE  ThreadTells(b)'
<1>0. TypeInv /\ ThreadTells(b)
  BY DEF ToldInv
<1>1. CASE threads[b].at \notin InPage \cup {"handled"}
  BY <1>1, TellsOtherwise
<1>2. CASE threads[b].at \in InPage \cup {"handled"}
  <2>1. Event(b) \in 2..Latest
    BY <1>0, <1>2, InHands
  <2>2. PICK v \in 2..Latest : v = Event(b)
    BY <2>1
  <2>3. Event(b)' = v /\ Current(b)' = Current(b)
    BY <2>2, SameEvent, SameCurrent
  <2>4. heard \subseteq heard'
    BY <1>0, ToldStays
  <2>5. threads'[b].at \in Announced => <<v, Current(b)'.p>> \in heard'
    BY <1>0, <2>2, <2>3, <2>4 DEF ThreadTells
  <2>6. ASSUME threads'[b].at \in InPage, NEW p \in Projects, FitsThePage(p), Unaware(v, p)'
        PROVE  \E row \in threads'[b].page : row.p = p /\ row.version < v
    <3>1. Unaware(v, p)
      BY <1>0, <2>6, NoMoreUnaware
    <3>. QED  BY <1>0, <2>2, <2>6, <3>1 DEF ThreadTells, OnPage
  <2>7. threads'[b].at = "handled" => v \in receipts'
    BY <1>0, <2>2 DEF ThreadTells
  <2>. QED  BY <2>3, <2>5, <2>6, <2>7, TellsIf
<1>. QED  BY <1>1, <1>2

(* A thread that begins has the oldest event of its queue in hand, and has *)
(* listed the projects for it.                                             *)
LEMMA BeginsWith ==
    ASSUME TypeInv, NEW a \in Threads, HandleNext(a) \/ \E v \in Versions : Receive(a, v)
    PROVE  /\ Others(a) /\ UNCHANGED <<wiring, refresh, policy, consumer, product, losses>>
           /\ \E v \in 2..Latest :
                /\ Event(a)' = v
                /\ v \in receipts => threads'[a].at = "handled"
                /\ v \notin receipts => threads'[a].at = "handling" /\ threads'[a].page = ListProjects
<1>1. PICK v \in 2..Latest :
        /\ Begin(a, v) /\ threads[a].queue \cup {v} \subseteq Nat
        /\ \A w \in threads[a].queue : v <= w
        /\ UNCHANGED <<wiring, refresh, policy, consumer, product, losses>>
  <2>1. ASSUME HandleNext(a)
        PROVE  /\ Begin(a, Event(a)) /\ Event(a) \in 2..Latest /\ threads[a].queue \subseteq Nat
               /\ \A w \in threads[a].queue : Event(a) <= w
               /\ UNCHANGED <<wiring, refresh, policy, consumer, product, losses>>
    BY <2>1, EventPublished, ThreadOf, Numbers DEF HandleNext, ThreadFits
  <2>2. ASSUME NEW v \in Versions, Receive(a, v)
        PROVE  /\ Begin(a, v) /\ v \in 2..Latest /\ threads[a].queue = {}
               /\ UNCHANGED <<wiring, refresh, policy, consumer, product, losses>>
    <3>1. threads[a] = Idle /\ v \in topic
      BY <2>2, ThreadOf DEF Receive, ThreadFits
    <3>. QED  BY <2>2, <3>1 DEF Receive, Idle, TypeInv, StateTypes
  <2>3. CASE HandleNext(a)
    <3>1. PICK v \in 2..Latest : v = Event(a)
      BY <2>1, <2>3
    <3>. QED  BY <2>1, <2>3, <3>1, Numbers
  <2>4. CASE \E v \in Versions : Receive(a, v)
    BY <2>2, <2>4, Numbers
  <2>. QED  BY <2>3, <2>4
<1>2. threads'[a] = Begun(a, v) /\ Others(a)
  BY <1>1, BeginEffect
<1>3. /\ threads'[a].queue = threads[a].queue \cup {v}
      /\ v \in receipts => threads'[a].at = "handled"
      /\ v \notin receipts => threads'[a].at = "handling" /\ threads'[a].page = ListProjects
  BY <1>2 DEF Begun
<1>4. Event(a)' = v
  <2>1. Event(a)' = Least(threads'[a].queue)
    BY DEF Event, Least
  <2>2. threads'[a].queue \in SUBSET Nat /\ v \in threads'[a].queue
    BY <1>1, <1>3
  <2>3. \A w \in threads'[a].queue : v <= w
    BY <1>1, <1>3
  <2>4. Least(threads'[a].queue) \in threads'[a].queue /\ Least(threads'[a].queue) <= v
    BY <2>2, LeastOf
  <2>. QED  BY <1>1, <2>1, <2>2, <2>3, <2>4
<1>. QED  BY <1>1, <1>2, <1>3, <1>4

LEMMA BeginTells ==
    ASSUME ToldInv, [Next]_vars, NEW a \in Threads,
           HandleNext(a) \/ \E v \in Versions : Receive(a, v)
    PROVE  ThreadTells(a)' /\ Others(a) /\ UNCHANGED consumer
<1>0. TypeInv /\ OlderThan
  BY DEF ToldInv
<1>1. Others(a) /\ UNCHANGED consumer
  BY <1>0, BeginsWith
<1>2. PICK v \in 2..Latest :
        /\ Event(a)' = v
        /\ v \in receipts => threads'[a].at = "handled"
        /\ v \notin receipts => threads'[a].at = "handling" /\ threads'[a].page = ListProjects
  BY <1>0, BeginsWith
<1>3. ASSUME threads'[a].at \in InPage, NEW p \in Projects, FitsThePage(p), Unaware(v, p)'
      PROVE  \E row \in threads'[a].page : row.p = p /\ row.version < v
  <2>1. Unaware(v, p)
    BY <1>0, <1>3, NoMoreUnaware
  <2>2. project[p].version < v /\ project[p].version # 0
    BY <1>0, <2>1 DEF OlderThan, Unaware
  <2>3. threads'[a].page = ListProjects
    BY <1>2, <1>3 DEF InPage
  <2>4. [p |-> p, version |-> project[p].version] \in ListProjects
    BY <1>3, <2>2, FittingListed
  <2>. QED  BY <2>2, <2>3, <2>4
<1>4. /\ threads'[a].at \notin Announced
      /\ threads'[a].at = "handled" => v \in receipts'
  BY <1>1, <1>2 DEF Announced, consumer
<1>. QED  BY <1>1, <1>2, <1>3, <1>4, TellsIf

(* Who is struck off the page has been told, or is past the event. *)
LEMMA StruckTold ==
    ASSUME ToldInv, NEW a \in Threads,
           RecordInterrupted(a) \/ PassBy(a) \/ MarkStale(a) \/ CompleteRecalc(a)
    PROVE  /\ NextProject(a) /\ threads[a].at \in InPage /\ threads[a].page # {}
           /\ \/ <<Event(a), Current(a).p>> \in heard'
              \/ ~(Current(a).version < Event(a))
<1>0. TypeInv
  BY DEF ToldInv
<1>1. NextProject(a) /\ threads[a].at \in InPage /\ (threads[a].at \in AtCurrent \/ AtProject(a))
  BY DEF RecordInterrupted, PassBy, MarkStale, Record, CompleteRecalc, AtProject, InPage, AtCurrent
<1>2. Event(a) \in Versions /\ Current(a).p \in Projects /\ threads[a].page # {}
  BY <1>0, <1>1, InHands
<1>3. CASE RecordInterrupted(a)
  <2>1. recalcs[<<Event(a), Current(a).p>>] = "started" /\ heard' = heard
    BY <1>3 DEF RecordInterrupted, Interrupted, product
  <2>. QED  BY <1>1, <1>2, <2>1 DEF ToldInv, StartedIsTold
<1>4. CASE PassBy(a)
  BY <1>1, <1>2, <1>4 DEF PassBy, Concerned
<1>5. CASE MarkStale(a)
  BY <1>1, <1>2, <1>5 DEF MarkStale, Record
<1>6. CASE CompleteRecalc(a)
  BY <1>1, <1>2, <1>6 DEF CompleteRecalc, product, ToldInv, ThreadTells, Announced
<1>. QED  BY <1>3, <1>4, <1>5, <1>6

(* The steps at one project. *)
Moves(a) ==
    \/ ReadMark(a) \/ SaveMark(a) \/ MarkProvisional(a)
    \/ ReadRecalc(a) \/ RecalcTier(a) \/ RecalcRefused(a)

LEMMA MovesEffect ==
    ASSUME TypeInv, NEW a \in Threads, Moves(a)
    PROVE  /\ threads'[a].at \in AtCurrent /\ threads'[a].page = threads[a].page
           /\ Current(a)' = Current(a) /\ Current(a).p \in Projects
           /\ ReadMark(a) => threads'[a].at = "marking"
           /\ SaveMark(a) => threads'[a].at = "marked"
           /\ threads'[a].at \in Announced \/ SaveMark(a) \/ ReadMark(a)
           /\ threads'[a].at \in Announced => MarkProvisional(a) \/ threads[a].at \in Announced
<1>1. /\ threads'[a].at \in AtCurrent /\ threads'[a].page = threads[a].page
      /\ ReadMark(a) => threads'[a].at = "marking"
      /\ SaveMark(a) => threads'[a].at = "marked"
      /\ threads'[a].at \in Announced \/ SaveMark(a) \/ ReadMark(a)
      /\ threads'[a].at \in Announced => MarkProvisional(a) \/ threads[a].at \in Announced
  <2>1. ASSUME NEW at, Goto(a, at)
        PROVE  threads'[a].at = at /\ threads'[a].page = threads[a].page
    BY <2>1, GotoEffect
  <2>2. ASSUME NEW at, NEW n, threads' = [threads EXCEPT ![a] = [@ EXCEPT !.at = at, !.version = n]]
        PROVE  threads'[a].at = at /\ threads'[a].page = threads[a].page
    BY <2>2, GotoVersionEffect
  <2>3. CASE ReadMark(a)
    <3>1. PICK n : threads' = [threads EXCEPT ![a] = [@ EXCEPT !.at = "marking", !.version = n]]
      BY <2>3 DEF ReadMark
    <3>2. threads'[a].at = "marking" /\ threads'[a].page = threads[a].page
      BY <2>2, <3>1
    <3>3. ~SaveMark(a)
      BY <2>3 DEF ReadMark, SaveMark, AtProject
    <3>. QED  BY <2>3, <3>2, <3>3 DEF AtCurrent, InPage, Announced
  <2>4. CASE SaveMark(a)
    <3>1. threads' = [threads EXCEPT ![a] = [@ EXCEPT !.at = "marked", !.version = 0]]
      BY <2>4 DEF SaveMark
    <3>2. threads'[a].at = "marked" /\ threads'[a].page = threads[a].page
      BY <2>2, <3>1
    <3>3. ~ReadMark(a)
      BY <2>4 DEF ReadMark, SaveMark, AtProject
    <3>. QED  BY <2>4, <3>2, <3>3 DEF AtCurrent, InPage, Announced
  <2>5. CASE MarkProvisional(a)
    <3>1. threads'[a].at = "recalculating" /\ threads'[a].page = threads[a].page
      BY <2>1, <2>5 DEF MarkProvisional
    <3>2. ~ReadMark(a) /\ ~SaveMark(a)
      BY <2>5 DEF MarkProvisional, Record, ReadMark, SaveMark, AtProject
    <3>. QED  BY <2>5, <3>1, <3>2 DEF AtCurrent, InPage, Announced
  <2>6. CASE ReadRecalc(a) \/ RecalcTier(a) \/ RecalcRefused(a)
    <3>1. threads[a].at \in {"recalculating", "resaving"}
      BY <2>6 DEF ReadRecalc, RecalcTier, RecalcRefused
    <3>2. threads'[a].at \in {"resaving", "completing"} /\ threads'[a].page = threads[a].page
      <4>1. CASE ReadRecalc(a)
        <5>1. PICK n : threads' = [threads EXCEPT ![a] = [@ EXCEPT !.at = "resaving", !.version = n]]
          BY <4>1 DEF ReadRecalc
        <5>. QED  BY <2>2, <5>1
      <4>2. CASE RecalcTier(a)
        <5>1. threads' = [threads EXCEPT ![a] = [@ EXCEPT !.at = "completing", !.version = 0]]
          BY <4>2 DEF RecalcTier
        <5>. QED  BY <2>2, <5>1
      <4>3. CASE RecalcRefused(a)
        BY <2>1, <4>3 DEF RecalcRefused
      <4>. QED  BY <2>6, <4>1, <4>2, <4>3
    <3>3. ~ReadMark(a) /\ ~SaveMark(a)
      BY <3>1 DEF ReadMark, SaveMark, AtProject
    <3>. QED  BY <3>1, <3>2, <3>3 DEF AtCurrent, InPage, Announced
  <2>. QED  BY <2>3, <2>4, <2>5, <2>6 DEF Moves
<1>2. Current(a).p \in Projects
  <2>1. threads[a].at \in AtCurrent \/ AtProject(a)
    BY DEF Moves, ReadMark, SaveMark, MarkProvisional, Record, ReadRecalc, RecalcTier, RecalcRefused,
           AtCurrent, InPage
  <2>. QED  BY <2>1, InHands
<1>. QED  BY <1>1, <1>2, SameCurrent

LEMMA PageTells ==
    ASSUME ToldInv, [Next]_vars, NEW a \in Threads, PageStep(a)
    PROVE  ThreadTells(a)'
<1>0. TypeInv /\ ThreadTells(a)
  BY DEF ToldInv
<1>1. /\ threads[a].at \in InPage /\ threads'[a].queue = threads[a].queue
  BY <1>0, PageEffect
<1>2. Event(a) \in 2..Latest
  BY <1>0, <1>1, InHands
<1>3. PICK v \in 2..Latest : v = Event(a)
  BY <1>2
<1>4. Event(a)' = v /\ heard \subseteq heard'
  BY <1>0, <1>1, <1>3, SameEvent, ToldStays
<1>5. ASSUME NEW p \in Projects, FitsThePage(p), Unaware(v, p)'
      PROVE  Unaware(v, p) /\ \E row \in threads[a].page : row.p = p /\ row.version < v
  <2>1. Unaware(v, p)
    BY <1>0, <1>5, NoMoreUnaware
  <2>. QED  BY <1>0, <1>1, <1>3, <1>5, <2>1 DEF ThreadTells, OnPage
<1>6. CASE RecordInterrupted(a) \/ PassBy(a) \/ MarkStale(a) \/ CompleteRecalc(a)
  <2>1. /\ NextProject(a) /\ threads[a].page # {}
        /\ <<v, Current(a).p>> \in heard' \/ ~(Current(a).version < v)
    BY <1>3, <1>6, StruckTold
  <2>2. threads'[a].at = "handling" /\ threads'[a].page = threads[a].page \ {Current(a)}
    BY <1>0, <1>1, <2>1, NextProjectEffect
  <2>3. ASSUME NEW p \in Projects, FitsThePage(p), Unaware(v, p)'
        PROVE  \E row \in threads'[a].page : row.p = p /\ row.version < v
    <3>1. PICK row \in threads[a].page : row.p = p /\ row.version < v
      BY <1>5, <2>3
    <3>2. v \in v..(Latest')
      BY <1>0, LatestGrows, Numbers
    <3>3. <<v, p>> \notin heard'
      BY <2>3, <3>2 DEF Unaware, Told
    <3>4. row # Current(a)
      BY <2>1, <3>1, <3>3
    <3>. QED  BY <2>2, <3>1, <3>4
  <2>4. threads'[a].at \notin Announced /\ threads'[a].at # "handled"
    BY <2>2 DEF Announced
  <2>. QED  BY <1>4, <2>3, <2>4, TellsIf
<1>7. CASE Moves(a)
  <2>1. /\ threads'[a].at \in AtCurrent /\ threads'[a].page = threads[a].page
        /\ Current(a)' = Current(a)
        /\ threads'[a].at \in Announced => MarkProvisional(a) \/ threads[a].at \in Announced
    BY <1>0, <1>7, MovesEffect
  <2>2. threads'[a].at \in Announced => <<v, Current(a)'.p>> \in heard'
    <3>1. MarkProvisional(a) => <<v, Current(a).p>> \in heard'
      BY <1>3 DEF MarkProvisional, Record
    <3>2. threads[a].at \in Announced => <<v, Current(a).p>> \in heard'
      BY <1>0, <1>3, <1>4 DEF ThreadTells
    <3>. QED  BY <2>1, <3>1, <3>2
  <2>3. ASSUME NEW p \in Projects, FitsThePage(p), Unaware(v, p)'
        PROVE  \E row \in threads'[a].page : row.p = p /\ row.version < v
    BY <1>5, <2>1, <2>3
  <2>4. threads'[a].at # "handled"
    BY <2>1 DEF AtCurrent, InPage
  <2>. QED  BY <1>4, <2>2, <2>3, <2>4, TellsIf
<1>8. CASE PutReceipt(a)
  <2>1. Goto(a, "handled") /\ receipts' = receipts \cup {v}
    BY <1>3, <1>8 DEF PutReceipt
  <2>2. threads'[a].at = "handled"
    BY <1>0, <2>1, GotoEffect
  <2>3. threads'[a].at \notin InPage /\ threads'[a].at \notin Announced /\ v \in receipts'
    BY <2>1, <2>2 DEF InPage, Announced
  <2>. QED  BY <1>4, <2>3, TellsIf
<1>. QED  BY <1>6, <1>7, <1>8 DEF PageStep, Moves

(* Every other step of a thread leads it away from the page, or leaves it. *)
LEMMA OtherSteps ==
    ASSUME TypeInv, NEW a \in Threads,
           \/ \E r \in Runs : ReadProposal(a, r)
           \/ ReadLatest(a) \/ CopyProposals(a) \/ PublicationStep(a) \/ PublicationConflict(a)
           \/ ListOutbox(a) \/ EndFanOut(a) \/ PublishEvent(a) \/ MarkPublished(a)
           \/ Acknowledged(a) \/ Loss(a)
    PROVE  Others(a) /\ threads'[a].at \notin InPage \cup {"handled"} /\ UNCHANGED consumer
<1>1. ASSUME Leave(a)
      PROVE  Others(a) /\ threads'[a].at \notin InPage \cup {"handled"}
  BY <1>1, LeaveEffect DEF Idle, InPage
<1>2. ASSUME NextRow(a)
      PROVE  Others(a) /\ threads'[a].at \notin InPage \cup {"handled"}
  BY <1>2, NextRowEffect DEF InPage
<1>3. ASSUME NEW at \in {"swapping", "committed", "sent"}, Goto(a, at)
      PROVE  Others(a) /\ threads'[a].at \notin InPage \cup {"handled"}
  BY <1>3, GotoEffect DEF InPage
<1>4. CASE \/ PublicationConflict(a) \/ EndFanOut(a) \/ Loss(a)
  BY <1>1, <1>2, <1>4 DEF PublicationConflict, EndFanOut, Loss, RefusePublication, PublishEventFails, HandlingFails
<1>5. CASE Acknowledged(a) \/ MarkPublished(a)
  BY <1>1, <1>2, <1>5 DEF Acknowledged, MarkPublished
<1>6. CASE CopyProposals(a) \/ PublicationStep(a) \/ PublishEvent(a)
  BY <1>3, <1>6 DEF CopyProposals, PublicationStep, CommitPublication, SwapProposals, Publish, PublishEvent
<1>7. CASE ListOutbox(a)
  <2>1. threads' = [threads EXCEPT ![a] = [Idle EXCEPT !.at = "fanning", !.queue = PendingRows]]
        /\ UNCHANGED consumer
    BY <1>7 DEF ListOutbox
  <2>2. threads' = [threads EXCEPT ![a] = [at |-> "fanning", proposal |-> Nobody, version |-> 0,
                                           queue |-> PendingRows, page |-> {}]]
    BY <2>1, IdleAtQueue
  <2>. QED  BY <2>1, <2>2 DEF TypeInv, ThreadTypes, Others, InPage
<1>8. CASE \E r \in Runs : ReadProposal(a, r)
  <2>1. PICK r \in Runs : ReadProposal(a, r)
    BY <1>8
  <2>2. threads' = [threads EXCEPT ![a] = [@ EXCEPT !.at = "publishing", !.proposal = r]] /\ UNCHANGED consumer
    BY <2>1 DEF ReadProposal
  <2>3. [threads[a] EXCEPT !.at = "publishing", !.proposal = r] =
           [at |-> "publishing", proposal |-> r, version |-> threads[a].version,
            queue |-> threads[a].queue, page |-> threads[a].page]
    BY ThreadOf, ThreadAtProposal
  <2>. QED  BY <2>2, <2>3 DEF TypeInv, ThreadTypes, Others, InPage
<1>9. CASE ReadLatest(a)
  <2>1. threads' = [threads EXCEPT ![a] = [@ EXCEPT !.at = "committing", !.version = Latest + 1]]
        /\ UNCHANGED consumer
    BY <1>9 DEF ReadLatest
  <2>2. [threads[a] EXCEPT !.at = "committing", !.version = Latest + 1] =
           [at |-> "committing", proposal |-> threads[a].proposal, version |-> Latest + 1,
            queue |-> threads[a].queue, page |-> threads[a].page]
    BY ThreadOf, ThreadAtVersion
  <2>. QED  BY <2>1, <2>2 DEF TypeInv, ThreadTypes, Others, InPage
<1>. QED  BY <1>4, <1>5, <1>6, <1>7, <1>8, <1>9


LEMMA StepTold ==
    ASSUME ToldInv, [Next]_vars
    PROVE  ToldInv'
<1>0. TypeInv /\ TypeInv' /\ OneAtWork'
  BY StepTypes, StepAtWork DEF ToldInv
<1>1. OlderThan' /\ StartedIsTold' /\ ReceiptIsTold'
  BY OlderThanKept, StartedKept, ReceiptsKept
<1>2. ASSUME NEW a \in Threads, ThreadTells(a)', Others(a), receipts \subseteq receipts'
      PROVE  \A b \in Threads : ThreadTells(b)'
  <2>. SUFFICES ASSUME NEW b \in Threads, b # a
                PROVE  ThreadTells(b)'
    BY <1>2
  <2>. QED  BY <1>2, TellsAsBefore DEF Others
<1>3. ASSUME UNCHANGED <<threads, consumer>>
      PROVE  \A b \in Threads : ThreadTells(b)'
  BY <1>3, TellsAsBefore DEF consumer
<1>4. ASSUME NEW a \in Threads,
             \/ \E r \in Runs : ReadProposal(a, r)
             \/ ReadLatest(a) \/ CopyProposals(a) \/ PublicationStep(a) \/ PublicationConflict(a)
             \/ ListOutbox(a) \/ EndFanOut(a) \/ PublishEvent(a) \/ MarkPublished(a)
             \/ Acknowledged(a) \/ Loss(a)
      PROVE  \A b \in Threads : ThreadTells(b)'
  <2>1. Others(a) /\ threads'[a].at \notin InPage \cup {"handled"} /\ UNCHANGED consumer
    BY <1>0, <1>4, OtherSteps
  <2>2. ThreadTells(a)'
    BY <2>1, TellsOtherwise
  <2>3. receipts \subseteq receipts'
    BY <2>1 DEF consumer
  <2>. QED  BY <1>2, <2>1, <2>2, <2>3
<1>5. ASSUME NEW a \in Threads, HandleNext(a) \/ \E v \in Versions : Receive(a, v)
      PROVE  \A b \in Threads : ThreadTells(b)'
  BY <1>2, <1>5, BeginTells DEF consumer
<1>6. ASSUME NEW a \in Threads, PageStep(a)
      PROVE  \A b \in Threads : ThreadTells(b)'
  <2>1. Others(a) /\ receipts \subseteq receipts'
    BY <1>0, <1>6, PageEffect, PageRecords
  <2>. QED  BY <1>2, <1>6, <2>1, PageTells
<1>7. ASSUME Refresh \/ (\E r \in Runs : DiscardStep(r)) \/ Product \/ UNCHANGED vars
      PROVE  \A b \in Threads : ThreadTells(b)'
  <2>1. UNCHANGED <<threads, consumer>>
    BY <1>0, <1>7, RefreshTypes, DiscardTypes, ProductTypes DEF DiscardStep, vars
  <2>. QED  BY <1>3, <2>1
<1>8. ASSUME Die
      PROVE  \A b \in Threads : ThreadTells(b)'
  <2>1. \A b \in Threads : threads'[b].at = "idle"
    BY <1>8 DEF Die, Idle
  <2>2. \A b \in Threads : threads'[b].at \notin InPage \cup {"handled"}
    BY <2>1 DEF InPage
  <2>. QED  BY <2>2, TellsOtherwise
<1>9. \A b \in Threads : ThreadTells(b)'
  BY <1>4, <1>5, <1>6, <1>7, <1>8 DEF Next, Administer, Step, PageStep, PublicationStep, DiscardStep
<1>. QED  BY <1>0, <1>1, <1>9 DEF ToldInv

THEOREM TellingFits == Spec => []ToldInv
BY InitTold, StepTold, PTL DEF Spec

-----------------------------------------------------------------------------
(* Who is flagged, in the API process *)

(* The answer of the project was on record when v was published, and rests *)
(* on older rules.                                                         *)
Behind(v, p) ==
    project[p].version # 0 /\ project[p].version < v /\ project[p].since < v

(* A request that has read the project before may save the flag away. *)
Held(p) == p \notin Busy => project[p].stale = TRUE
Flagged(v, p) == <<v, p>> \in heard /\ Held(p)

(* Receipts and rows follow the order of the versions. *)
HandledInOrder ==
    \A v \in 2..Latest :
        /\ outbox[v] = "sent" => v \in receipts
        /\ v \in receipts => \A u \in 2..Latest : u < v => outbox[u] = "sent"

ReceiptIsFlagged ==
    \A v \in receipts, p \in Projects : FitsThePage(p) /\ Behind(v, p) => Flagged(v, p)

ThreadFlags(a) ==
    /\ threads[a].at = "marked" =>
            (Behind(Event(a), Current(a).p) => Held(Current(a).p))
    /\ threads[a].at \in Announced =>
            (Behind(Event(a), Current(a).p) => Flagged(Event(a), Current(a).p))
    /\ threads[a].at \in InPage =>
            \A p \in Projects :
                FitsThePage(p) /\ Behind(Event(a), p) =>
                    Flagged(Event(a), p) \/ OnPage(a, Event(a), p)

FlagInv ==
    /\ OutboxInv /\ ToldInv
    /\ wiring = "inline" =>
        HandledInOrder /\ ReceiptIsFlagged /\ \A a \in Threads : ThreadFlags(a)

LEMMA InitFlags == Init => FlagInv
<1>. SUFFICES ASSUME Init PROVE FlagInv
  OBVIOUS
<1>1. OutboxInv /\ ToldInv
  BY InitOutbox, InitTold
<1>2. \A v \in 2..Latest : FALSE
  BY DEF Init, Latest
<1>3. \A a \in Threads : threads[a].at = "idle"
  BY DEF Init, Idle
<1>4. \A a \in Threads : ThreadFlags(a)
  BY <1>3 DEF ThreadFlags, Announced, InPage
<1>5. ReceiptIsFlagged
  BY DEF Init, ReceiptIsFlagged
<1>. QED  BY <1>1, <1>2, <1>4, <1>5 DEF FlagInv, HandledInOrder

(* Nobody falls behind a version that is published, and who is flagged     *)
(* stays flagged, unless a recalculation for an older event comes late.    *)
LEMMA FlagKept ==
    ASSUME TypeInv, [Next]_vars, NEW v \in 2..Latest, NEW p \in Projects, Behind(v, p)',
           \A a \in Threads : threads[a].at = "resaving" => ~(Event(a) < v)
    PROVE  /\ Behind(v, p) /\ (Held(p) => Held(p)')
           /\ Flagged(v, p) => Flagged(v, p)'
<1>0. v \in Nat /\ v <= Latest /\ Latest \in Nat
  BY Numbers
<1>1. project'[p].version # 0 /\ project'[p].version < v /\ project'[p].since < v
  BY DEF Behind
<1>2. project'[p].since # Latest /\ heard \subseteq heard'
  BY <1>0, <1>1, ToldStays
<1>3. ASSUME project'[p] = project[p]
      PROVE  Behind(v, p) /\ (Held(p) => Held(p)')
  BY <1>1, <1>3 DEF Behind, Held
<1>4. ASSUME project'[p].version = project[p].version, project'[p].since = project[p].since,
             p \in Busy \/ project'[p].stale = TRUE
      PROVE  Behind(v, p) /\ (Held(p) => Held(p)')
  BY <1>1, <1>4 DEF Behind, Held
<1>5. ASSUME NEW a \in Threads,
             threads[a].at = "resaving" /\ project'[p].version = Event(a)
      PROVE  FALSE
  BY <1>1, <1>5
<1>6. Behind(v, p) /\ (Held(p) => Held(p)')
  BY <1>1, <1>2, <1>3, <1>4, <1>5, ProjectEffect
<1>. QED  BY <1>2, <1>6 DEF Flagged

(* Inline the event in hand is the oldest that is pending. *)
LEMMA InOrder ==
    ASSUME OutboxInv, wiring = "inline", NEW a \in Threads, threads[a].at \in InPage \cup {"handled"}
    PROVE  /\ Event(a) \in 2..Latest /\ outbox[Event(a)] # "sent"
           /\ \A u \in 2..Latest : u < Event(a) => outbox[u] = "sent"
<1>0. TypeInv /\ LedgerInv
  BY DEF OutboxInv, LedgerInv
<1>1. threads[a].queue = PendingRows
  BY DEF OutboxInv, PendingInHands, InEvent
<1>2. threads[a].queue # {}
  BY <1>0, InHands
<1>3. Event(a) \in threads[a].queue /\ Event(a) \in 2..Latest /\ \A w \in threads[a].queue : Event(a) <= w
  BY <1>0, <1>2, EventPublished
<1>4. outbox[Event(a)] # "sent"
  BY <1>1, <1>3 DEF PendingRows
<1>5. ASSUME NEW u \in 2..Latest, u < Event(a)
      PROVE  outbox[u] = "sent"
  <2>1. u \notin threads[a].queue
    BY <1>0, <1>3, <1>5, Numbers
  <2>. QED  BY <1>0, <1>1, <2>1, RowOf
<1>. QED  BY <1>3, <1>4, <1>5

(* So a recalculation never is for an event older than one with a receipt, *)
(* nor than the one another thread has in hand.                            *)
LEMMA NothingLate ==
    ASSUME FlagInv, wiring = "inline", NEW v \in 2..Latest,
           v \in receipts \/ \E b \in Threads : threads[b].at \in InPage /\ v = Event(b)
    PROVE  \A a \in Threads : threads[a].at = "resaving" => ~(Event(a) < v)
<1>. SUFFICES ASSUME NEW a \in Threads, threads[a].at = "resaving"
              PROVE  ~(Event(a) < v)
  OBVIOUS
<1>1. OutboxInv /\ HandledInOrder
  BY DEF FlagInv
<1>2. threads[a].at \in InPage
  BY DEF InPage
<1>3. Event(a) \in 2..Latest /\ outbox[Event(a)] # "sent"
  BY <1>1, <1>2, InOrder
<1>4. CASE v \in receipts
  BY <1>1, <1>3, <1>4 DEF HandledInOrder
<1>5. ASSUME NEW b \in Threads, threads[b].at \in InPage, v = Event(b)
      PROVE  ~(Event(a) < v)
  <2>1. a = b
    BY <1>1, <1>2, <1>5 DEF OutboxInv, LedgerInv, OneAtWork, InPage
  <2>. QED  BY <1>3, <1>5, <2>1
<1>. QED  BY <1>4, <1>5


(* Receipts and rows change with a receipt, a mark or a publication. *)
LEMMA RecordSteps ==
    ASSUME TypeInv, [Next]_vars
    PROVE  \/ \E a \in Threads : PublicationStep(a)
           \/ \E a \in Threads : MarkPublished(a) \/ Acknowledged(a)
           \/ \E a \in Threads :
                /\ threads[a].at = "handling" /\ threads[a].page = {}
                /\ receipts' = receipts \cup {Event(a)} /\ UNCHANGED <<snapshots, outbox, product>>
           \/ Die
           \/ UNCHANGED <<snapshots, outbox, receipts>>
<1>1. ASSUME NEW a \in Threads, PageStep(a)
      PROVE  /\ UNCHANGED <<snapshots, outbox>>
             /\ \/ receipts' = receipts
                \/ /\ threads[a].at = "handling" /\ threads[a].page = {}
                   /\ receipts' = receipts \cup {Event(a)} /\ UNCHANGED product
  BY <1>1, PageEffect, PageRecords DEF policy
<1>2. Refresh => UNCHANGED <<snapshots, outbox, receipts>>
  BY RefreshTypes DEF consumer
<1>3. \/ \E r \in Runs : DiscardStep(r)
      \/ \E a \in Threads : CopyProposals(a)
      => UNCHANGED <<snapshots, outbox, receipts>>
  BY DiscardTypes DEF DiscardStep, CopyProposals, consumer
<1>4. UNCHANGED ledgerVars => UNCHANGED <<snapshots, outbox>>
  BY DEF ledgerVars
<1>5. UNCHANGED consumer => UNCHANGED receipts
  BY DEF consumer
<1>. QED  BY <1>1, <1>2, <1>3, <1>4, <1>5, LedgerSteps, ConsumerSteps

LEMMA OrderKept ==
    ASSUME FlagInv, [Next]_vars, wiring = "inline"
    PROVE  HandledInOrder'
<1>0. TypeInv /\ LedgerInv /\ OutboxInv /\ HandledInOrder /\ receipts \subseteq 2..Latest
  BY DEF FlagInv, OutboxInv, LedgerInv, TypeInv, StateTypes
<1>1. ASSUME NEW a \in Threads, PublicationStep(a)
      PROVE  HandledInOrder'
  <2>1. /\ threads[a].version = Latest + 1 /\ Latest' = Latest + 1
        /\ outbox'[Latest + 1] = "pending"
        /\ \A w \in Versions : w # Latest + 1 => outbox'[w] = outbox[w]
    BY <1>0, <1>1, Published, CommitLedger DEF PublicationStep
  <2>2. receipts' = receipts
    BY <1>1 DEF PublicationStep, CommitPublication, SwapProposals, Publish, consumer
  <2>3. \A w \in 2..(Latest') : w # Latest + 1 => w \in 2..Latest /\ outbox'[w] = outbox[w]
    BY <1>0, <2>1, Numbers
  <2>4. \A w \in 2..(Latest') : w \in receipts => w # Latest + 1
    BY <1>0, Numbers
  <2>5. \A u, w \in 2..(Latest') : u < w => u # Latest + 1
    BY <1>0, <2>1, Numbers
  <2>. QED  BY <1>0, <2>1, <2>2, <2>3, <2>4, <2>5 DEF HandledInOrder
<1>2. ASSUME NEW a \in Threads, MarkPublished(a) \/ Acknowledged(a)
      PROVE  HandledInOrder'
  <2>1. threads[a].at # "sent"
    BY <1>0 DEF OutboxInv, PendingInHands
  <2>2. threads[a].at = "handled" /\ receipts' = receipts
    BY <1>2, <2>1 DEF MarkPublished, Acknowledged, consumer
  <2>3. Event(a) \in receipts /\ Event(a) \in 2..Latest
    BY <1>0, <2>2, InHands DEF FlagInv, ToldInv, ThreadTells
  <2>4. outbox' = outbox \/ outbox' = [outbox EXCEPT ![Event(a)] = "sent"]
    BY <1>0, <1>2, MarkLedger
  <2>5. Latest' = Latest
    BY <1>0, <1>2, MarkLedger DEF Latest
  <2>6. outbox \in [Versions -> {"none", "pending", "sent"}] /\ 2..Latest \subseteq Versions
    BY <1>0, Numbers DEF TypeInv, StateTypes
  <2>7. \A w \in 2..Latest :
          /\ outbox[w] = "sent" => outbox'[w] = "sent"
          /\ outbox'[w] = "sent" => outbox[w] = "sent" \/ w = Event(a)
    BY <2>4, <2>6
  <2>. QED  BY <1>0, <2>2, <2>3, <2>5, <2>7 DEF HandledInOrder
<1>3. ASSUME NEW a \in Threads, threads[a].at = "handling", receipts' = receipts \cup {Event(a)},
             UNCHANGED <<snapshots, outbox>>
      PROVE  HandledInOrder'
  <2>1. Latest' = Latest
    BY <1>3 DEF Latest
  <2>2. \A u \in 2..Latest : u < Event(a) => outbox[u] = "sent"
    BY <1>0, <1>3, InOrder DEF InPage
  <2>. QED  BY <1>0, <1>3, <2>1, <2>2 DEF HandledInOrder
<1>4. ASSUME UNCHANGED <<snapshots, outbox, receipts>>
      PROVE  HandledInOrder'
  BY <1>0, <1>4 DEF HandledInOrder, Latest
<1>5. ~Die
  BY DEF Die
<1>. QED  BY <1>0, <1>1, <1>2, <1>3, <1>4, <1>5, RecordSteps

LEMMA ReceiptFlagsKept ==
    ASSUME FlagInv, [Next]_vars, wiring = "inline"
    PROVE  ReceiptIsFlagged'
<1>0. /\ TypeInv /\ OutboxInv /\ ReceiptIsFlagged /\ receipts \subseteq 2..Latest
      /\ \A a \in Threads : ThreadFlags(a)
  BY DEF FlagInv, ToldInv, TypeInv, StateTypes
<1>1. ASSUME NEW v \in receipts, NEW p \in Projects, FitsThePage(p), Behind(v, p)'
      PROVE  Flagged(v, p)'
  <2>1. v \in 2..Latest
    BY <1>0
  <2>2. \A a \in Threads : threads[a].at = "resaving" => ~(Event(a) < v)
    BY <1>1, <2>1, NothingLate
  <2>3. Behind(v, p) /\ (Flagged(v, p) => Flagged(v, p)')
    BY <1>0, <1>1, <2>1, <2>2, FlagKept
  <2>. QED  BY <1>0, <1>1, <2>3 DEF ReceiptIsFlagged
<1>2. ASSUME receipts' \subseteq receipts
      PROVE  ReceiptIsFlagged'
  BY <1>1, <1>2 DEF ReceiptIsFlagged, FitsThePage
<1>3. ASSUME NEW a \in Threads, threads[a].at = "handling", threads[a].page = {},
             receipts' = receipts \cup {Event(a)}, UNCHANGED product
      PROVE  ReceiptIsFlagged'
  <2>1. \A p \in Projects : FitsThePage(p) /\ Behind(Event(a), p) => Flagged(Event(a), p)
    BY <1>0, <1>3 DEF ThreadFlags, OnPage, InPage
  <2>2. \A v \in receipts', p \in Projects : FitsThePage(p) /\ Behind(v, p) => Flagged(v, p)
    BY <1>0, <1>3, <2>1 DEF ReceiptIsFlagged
  <2>3. project' = project /\ heard' = heard
    BY <1>3 DEF product
  <2>. QED  BY <2>2, <2>3 DEF ReceiptIsFlagged, Behind, Flagged, Held, FitsThePage
<1>4. ASSUME NEW a \in Threads, PublicationStep(a) \/ MarkPublished(a) \/ Acknowledged(a)
      PROVE  receipts' = receipts
  BY <1>4 DEF PublicationStep, CommitPublication, SwapProposals, Publish, MarkPublished, Acknowledged, consumer
<1>5. ~Die
  BY DEF Die
<1>. QED  BY <1>0, <1>2, <1>3, <1>4, <1>5, RecordSteps

LEMMA FlagsIf ==
    ASSUME NEW b \in Threads, NEW v, Event(b)' = v,
           threads'[b].at \in AtCurrent => Current(b)'.p \in Projects,
           threads'[b].at = "marked" => \A q \in Projects :
                q = Current(b)'.p /\ Behind(v, q)' => Held(q)',
           threads'[b].at \in Announced => \A q \in Projects :
                q = Current(b)'.p /\ Behind(v, q)' => Flagged(v, q)',
           threads'[b].at \in InPage => \A p \in Projects :
                FitsThePage(p) /\ Behind(v, p)' =>
                    Flagged(v, p)' \/ \E row \in threads'[b].page : row.p = p /\ row.version < v
    PROVE  ThreadFlags(b)'
<1>1. PICK q : q = Current(b)'.p
  OBVIOUS
<1>2. threads'[b].at \in Announced \cup {"marked"} => q \in Projects
  BY <1>1 DEF Announced, AtCurrent, InPage
<1>3. threads'[b].at = "marked" => (Behind(v, q)' => Held(q)')
  BY <1>1, <1>2
<1>4. threads'[b].at \in Announced => (Behind(v, q)' => Flagged(v, q)')
  BY <1>1, <1>2
<1>. QED  BY <1>1, <1>3, <1>4 DEF ThreadFlags, OnPage, FitsThePage, Behind, Flagged, Held

LEMMA FlagsOtherwise ==
    ASSUME NEW b \in Threads, threads'[b].at \notin InPage
    PROVE  ThreadFlags(b)'
BY DEF ThreadFlags, InPage, Announced


(* The thread at a page: its event, and what holds of a project that is    *)
(* behind that event after the step.                                       *)
LEMMA StillBehind ==
    ASSUME FlagInv, [Next]_vars, wiring = "inline", NEW b \in Threads, threads[b].at \in InPage
    PROVE  \E v \in 2..Latest :
             /\ v = Event(b)
             /\ threads[b].at = "marked" => \A p \in Projects :
                  p = Current(b).p /\ Behind(v, p)' => Held(p)'
             /\ threads[b].at \in Announced => \A p \in Projects :
                  p = Current(b).p /\ Behind(v, p)' => Flagged(v, p)'
             /\ \A p \in Projects : FitsThePage(p) /\ Behind(v, p)' =>
                  Flagged(v, p)' \/ \E row \in threads[b].page : row.p = p /\ row.version < v
<1>0. TypeInv /\ ThreadFlags(b)
  BY DEF FlagInv, ToldInv
<1>1. Event(b) \in 2..Latest
  BY <1>0, InHands
<1>2. PICK v \in 2..Latest : v = Event(b)
  BY <1>1
<1>3. \A a \in Threads : threads[a].at = "resaving" => ~(Event(a) < v)
  BY <1>2, NothingLate
<1>4. \A p \in Projects : Behind(v, p)' =>
        Behind(v, p) /\ (Held(p) => Held(p)') /\ (Flagged(v, p) => Flagged(v, p)')
  BY <1>0, <1>3, FlagKept
<1>5. ASSUME threads[b].at = "marked", NEW p \in Projects, p = Current(b).p, Behind(v, p)'
      PROVE  Held(p)'
  BY <1>0, <1>2, <1>4, <1>5 DEF ThreadFlags
<1>6. ASSUME threads[b].at \in Announced, NEW p \in Projects, p = Current(b).p, Behind(v, p)'
      PROVE  Flagged(v, p)'
  BY <1>0, <1>2, <1>4, <1>6 DEF ThreadFlags
<1>7. ASSUME NEW p \in Projects, FitsThePage(p), Behind(v, p)'
      PROVE  Flagged(v, p)' \/ \E row \in threads[b].page : row.p = p /\ row.version < v
  BY <1>0, <1>2, <1>4, <1>7 DEF ThreadFlags, OnPage
<1>. QED  BY <1>2, <1>5, <1>6, <1>7

LEMMA FlagsAsBefore ==
    ASSUME FlagInv, [Next]_vars, wiring = "inline", NEW b \in Threads, threads'[b] = threads[b]
    PROVE  ThreadFlags(b)'
<1>1. CASE threads[b].at \notin InPage
  BY <1>1, FlagsOtherwise
<1>2. CASE threads[b].at \in InPage
  <2>1. PICK v \in 2..Latest :
             /\ v = Event(b)
             /\ threads[b].at = "marked" => \A p \in Projects :
                  p = Current(b).p /\ Behind(v, p)' => Held(p)'
             /\ threads[b].at \in Announced => \A p \in Projects :
                  p = Current(b).p /\ Behind(v, p)' => Flagged(v, p)'
             /\ \A p \in Projects : FitsThePage(p) /\ Behind(v, p)' =>
                  Flagged(v, p)' \/ \E row \in threads[b].page : row.p = p /\ row.version < v
    BY <1>2, StillBehind
  <2>2. Event(b)' = v /\ Current(b)' = Current(b)
    BY <2>1, SameEvent, SameCurrent
  <2>3. threads[b].at \in AtCurrent => Current(b).p \in Projects
    BY InHands DEF FlagInv, ToldInv
  <2>. QED  BY <2>1, <2>2, <2>3, FlagsIf
<1>. QED  BY <1>1, <1>2

LEMMA BeginFlags ==
    ASSUME FlagInv, [Next]_vars, NEW a \in Threads,
           HandleNext(a) \/ \E v \in Versions : Receive(a, v)
    PROVE  ThreadFlags(a)'
<1>0. TypeInv
  BY DEF FlagInv, ToldInv
<1>1. UNCHANGED product
  BY <1>0, BeginsWith
<1>2. PICK v \in 2..Latest :
        /\ Event(a)' = v
        /\ v \in receipts => threads'[a].at = "handled"
        /\ v \notin receipts => threads'[a].at = "handling" /\ threads'[a].page = ListProjects
  BY <1>0, BeginsWith
<1>3. ASSUME threads'[a].at \in InPage, NEW p \in Projects, FitsThePage(p), Behind(v, p)'
      PROVE  \E row \in threads'[a].page : row.p = p /\ row.version < v
  <2>1. project[p].version < v /\ project[p].version # 0
    BY <1>1, <1>3 DEF Behind, product
  <2>2. threads'[a].page = ListProjects
    BY <1>2, <1>3 DEF InPage
  <2>3. [p |-> p, version |-> project[p].version] \in ListProjects
    BY <1>3, <2>1, FittingListed
  <2>. QED  BY <2>1, <2>2, <2>3
<1>4. threads'[a].at \notin AtCurrent /\ threads'[a].at \notin Announced /\ threads'[a].at # "marked"
  BY <1>2 DEF AtCurrent, Announced, InPage
<1>. QED  BY <1>2, <1>3, <1>4, FlagsIf

(* The project that is recorded is flagged; the one that is saved is held. *)
LEMMA FlagEffect ==
    ASSUME FlagInv, wiring = "inline", NEW a \in Threads,
           NEW v, v = Event(a), NEW q \in Projects, q = Current(a).p
    PROVE  /\ (MarkStale(a) \/ MarkProvisional(a)) /\ Behind(v, q)' => Flagged(v, q)'
           /\ SaveMark(a) => Held(q)'
<1>1. ASSUME MarkStale(a) \/ MarkProvisional(a), Behind(v, q)'
      PROVE  Flagged(v, q)'
  <2>1. threads[a].at = "marked" /\ heard' = heard \cup {<<v, q>>} /\ project' = project
    BY <1>1 DEF MarkStale, MarkProvisional, Record
  <2>2. Behind(v, q)
    BY <1>1, <2>1 DEF Behind
  <2>3. Held(q)
    BY <2>1, <2>2 DEF FlagInv, ThreadFlags
  <2>. QED  BY <2>1, <2>3 DEF Flagged, Held
<1>2. ASSUME SaveMark(a)
      PROVE  Held(q)'
  <2>0. project \in [Projects -> Project]
    BY DEF FlagInv, ToldInv, TypeInv, StateTypes
  <2>1. PICK pr : pr = [version |-> threads[a].version, stale |-> TRUE,
                        since |-> Since(q, threads[a].version, FALSE)]
    OBVIOUS
  <2>2. project' = [project EXCEPT ![q] = pr] /\ pr.stale = TRUE
    BY <1>2, <2>1 DEF SaveMark
  <2>3. project'[q] = pr
    BY <2>0, <2>2
  <2>. QED  BY <2>2, <2>3 DEF Held
<1>. QED  BY <1>1, <1>2

LEMMA PageFlags ==
    ASSUME FlagInv, [Next]_vars, wiring = "inline", NEW a \in Threads, PageStep(a)
    PROVE  ThreadFlags(a)'
<1>0. TypeInv /\ ToldInv
  BY DEF FlagInv, ToldInv
<1>1. threads[a].at \in InPage /\ threads'[a].queue = threads[a].queue
  BY <1>0, PageEffect
<1>2. PICK v \in 2..Latest :
         /\ v = Event(a)
         /\ threads[a].at = "marked" => \A p \in Projects :
              p = Current(a).p /\ Behind(v, p)' => Held(p)'
         /\ threads[a].at \in Announced => \A p \in Projects :
              p = Current(a).p /\ Behind(v, p)' => Flagged(v, p)'
         /\ \A p \in Projects : FitsThePage(p) /\ Behind(v, p)' =>
              Flagged(v, p)' \/ \E row \in threads[a].page : row.p = p /\ row.version < v
  BY <1>1, StillBehind
<1>3. Event(a)' = v
  BY <1>1, <1>2, SameEvent
<1>4. CASE RecordInterrupted(a) \/ PassBy(a) \/ MarkStale(a) \/ CompleteRecalc(a)
  <2>1. NextProject(a) /\ threads[a].page # {}
    BY <1>0, <1>4, StruckTold
  <2>2. threads'[a].at = "handling" /\ threads'[a].page = threads[a].page \ {Current(a)}
    BY <1>0, <1>1, <2>1, NextProjectEffect
  <2>3. \/ ~(Current(a).version < v)
        \/ \A p \in Projects : p = Current(a).p /\ Behind(v, p)' => Flagged(v, p)'
    <3>1. CASE RecordInterrupted(a) \/ PassBy(a)
      <4>1. Current(a).version = v \/ ~(Current(a).version < v)
        BY <1>2, <3>1 DEF RecordInterrupted, Interrupted, PassBy, Concerned
      <4>. QED  BY <1>0, <4>1, Numbers
    <3>2. CASE MarkStale(a)
      BY <1>2, <3>2, FlagEffect
    <3>3. CASE CompleteRecalc(a)
      BY <1>2, <3>3 DEF CompleteRecalc, Announced
    <3>. QED  BY <1>4, <3>1, <3>2, <3>3
  <2>4. ASSUME NEW p \in Projects, FitsThePage(p), Behind(v, p)'
        PROVE  Flagged(v, p)' \/ \E row \in threads'[a].page : row.p = p /\ row.version < v
    BY <1>2, <2>2, <2>3, <2>4
  <2>5. threads'[a].at \notin AtCurrent /\ threads'[a].at \notin Announced /\ threads'[a].at # "marked"
    BY <2>2 DEF AtCurrent, Announced
  <2>. QED  BY <1>3, <2>4, <2>5, FlagsIf
<1>5. CASE Moves(a)
  <2>1. /\ threads'[a].at \in AtCurrent /\ threads'[a].page = threads[a].page
        /\ Current(a)' = Current(a) /\ Current(a).p \in Projects
        /\ threads'[a].at \in Announced => MarkProvisional(a) \/ threads[a].at \in Announced
        /\ threads'[a].at = "marked" => SaveMark(a)
    <3>1. /\ threads'[a].at \in AtCurrent /\ threads'[a].page = threads[a].page
          /\ Current(a)' = Current(a) /\ Current(a).p \in Projects
          /\ threads'[a].at \in Announced => MarkProvisional(a) \/ threads[a].at \in Announced
          /\ ReadMark(a) => threads'[a].at = "marking"
          /\ threads'[a].at \in Announced \/ SaveMark(a) \/ ReadMark(a)
      BY <1>0, <1>5, MovesEffect
    <3>. QED  BY <3>1 DEF Announced
  <2>2. ASSUME threads'[a].at = "marked", NEW q \in Projects, q = Current(a).p, Behind(v, q)'
        PROVE  Held(q)'
    BY <1>2, <2>1, <2>2, FlagEffect
  <2>3. ASSUME threads'[a].at \in Announced, NEW q \in Projects, q = Current(a).p, Behind(v, q)'
        PROVE  Flagged(v, q)'
    BY <1>2, <2>1, <2>3, FlagEffect
  <2>4. ASSUME NEW p \in Projects, FitsThePage(p), Behind(v, p)'
        PROVE  Flagged(v, p)' \/ \E row \in threads'[a].page : row.p = p /\ row.version < v
    BY <1>2, <2>1, <2>4
  <2>. QED  BY <1>3, <2>1, <2>2, <2>3, <2>4, FlagsIf
<1>6. CASE PutReceipt(a)
  <2>1. threads'[a].at = "handled"
    BY <1>0, <1>6, GotoEffect DEF PutReceipt
  <2>. QED  BY <2>1, FlagsOtherwise DEF InPage
<1>. QED  BY <1>4, <1>5, <1>6 DEF PageStep, Moves

(* The wiring is chosen once. *)
LEMMA WiringKept ==
    ASSUME TypeInv, [Next]_vars
    PROVE  UNCHANGED wiring
<1>1. ASSUME NEW a \in Threads,
             MarkPublished(a) \/ Acknowledged(a) \/ CopyProposals(a) \/ PublicationStep(a)
      PROVE  UNCHANGED wiring
  BY <1>1 DEF MarkPublished, Acknowledged, CopyProposals, PublicationStep, CommitPublication,
              SwapProposals, Publish
<1>2. Die \/ Refresh \/ UNCHANGED ledgerVars \/ (\E r \in Runs : DiscardStep(r)) => UNCHANGED wiring
  BY RefreshTypes DEF Die, DiscardStep, Discard, CheckDiscard, WriteDiscard, ledgerVars
<1>. QED  BY <1>1, <1>2, LedgerSteps

LEMMA StepFlags ==
    ASSUME FlagInv, [Next]_vars
    PROVE  FlagInv'
<1>0. OutboxInv' /\ ToldInv' /\ TypeInv
  BY StepOutbox, StepTold DEF FlagInv, ToldInv
<1>. SUFFICES ASSUME wiring' = "inline"
              PROVE  HandledInOrder' /\ ReceiptIsFlagged' /\ \A b \in Threads : ThreadFlags(b)'
  BY <1>0 DEF FlagInv
<1>1. wiring = "inline" /\ ~Die
  BY <1>0, WiringKept DEF Die
<1>2. HandledInOrder' /\ ReceiptIsFlagged'
  BY <1>1, OrderKept, ReceiptFlagsKept
<1>3. ASSUME NEW a \in Threads, ThreadFlags(a)', Others(a)
      PROVE  \A b \in Threads : ThreadFlags(b)'
  BY <1>1, <1>3, FlagsAsBefore DEF Others
<1>4. ASSUME NEW a \in Threads,
             \/ \E r \in Runs : ReadProposal(a, r)
             \/ ReadLatest(a) \/ CopyProposals(a) \/ PublicationStep(a) \/ PublicationConflict(a)
             \/ ListOutbox(a) \/ EndFanOut(a) \/ PublishEvent(a) \/ MarkPublished(a)
             \/ Acknowledged(a) \/ Loss(a)
      PROVE  \A b \in Threads : ThreadFlags(b)'
  <2>1. Others(a) /\ threads'[a].at \notin InPage \cup {"handled"}
    BY <1>0, <1>4, OtherSteps
  <2>2. ThreadFlags(a)'
    BY <2>1, FlagsOtherwise
  <2>. QED  BY <1>3, <2>1, <2>2
<1>5. ASSUME NEW a \in Threads, HandleNext(a) \/ \E v \in Versions : Receive(a, v)
      PROVE  \A b \in Threads : ThreadFlags(b)'
  <2>1. Others(a)
    BY <1>0, <1>5, BeginsWith
  <2>2. ThreadFlags(a)'
    BY <1>5, BeginFlags
  <2>. QED  BY <1>3, <2>1, <2>2
<1>6. ASSUME NEW a \in Threads, PageStep(a)
      PROVE  \A b \in Threads : ThreadFlags(b)'
  <2>1. Others(a)
    BY <1>0, <1>6, PageEffect
  <2>2. ThreadFlags(a)'
    BY <1>1, <1>6, PageFlags
  <2>. QED  BY <1>3, <2>1, <2>2
<1>7. ASSUME Refresh \/ (\E r \in Runs : DiscardStep(r)) \/ Product \/ UNCHANGED vars
      PROVE  \A b \in Threads : ThreadFlags(b)'
  <2>1. UNCHANGED threads
    BY <1>0, <1>7, RefreshTypes, DiscardTypes, ProductTypes DEF DiscardStep, vars
  <2>. QED  BY <1>1, <2>1, FlagsAsBefore
<1>8. \A b \in Threads : ThreadFlags(b)'
  BY <1>1, <1>4, <1>5, <1>6, <1>7 DEF Next, Administer, Step, PageStep, PublicationStep, DiscardStep
<1>. QED  BY <1>2, <1>8

THEOREM FlagsFit == Spec => []FlagInv
BY InitFlags, StepFlags, PTL DEF Spec

(* AnnouncedToAll: once a version is delivered, a project that fits on the *)
(* consumer's page and rests on an answer that was on record and is older  *)
(* has been told of it or of a later one; in the API process of this very  *)
(* version, and where nobody works on the project it is still flagged.     *)
THEOREM AllAreAnnounced == Spec => []AnnouncedToAll
<1>1. FlagInv => AnnouncedToAll
  <2>. SUFFICES ASSUME FlagInv, NEW v \in 2..Latest, NEW p \in Projects,
                       FitsThePage(p), Delivered(v),
                       project[p].version \in 1..(v - 1), project[p].since < v
                PROVE  /\ \E w \in v..Latest : <<w, p>> \in heard
                       /\ wiring = "inline" => <<v, p>> \in heard
                       /\ wiring = "inline" /\ p \notin Busy => project[p].stale
    BY DEF AnnouncedToAll
  <2>1. TypeInv /\ ReceiptIsTold /\ project[p] \in Project
    BY DEF FlagInv, ToldInv, TypeInv, StateTypes
  <2>2. project[p].version # 0 /\ project[p].version < v
    BY <2>1, Numbers
  <2>3. v \in receipts
    BY DEF Delivered, FlagInv, HandledInOrder
  <2>4. \E w \in v..Latest : <<w, p>> \in heard
    BY <2>1, <2>2, <2>3 DEF ReceiptIsTold, Unaware, Told
  <2>5. ASSUME wiring = "inline"
        PROVE  <<v, p>> \in heard /\ (p \notin Busy => project[p].stale)
    <3>1. Flagged(v, p)
      BY <2>2, <2>3, <2>5 DEF FlagInv, ReceiptIsFlagged, Behind
    <3>2. <<v, p>> \in heard
      BY <3>1 DEF Flagged
    <3>3. p \notin Busy => project[p].stale = TRUE
      BY <3>1 DEF Flagged, Held
    <3>4. p \notin Busy => project[p].stale
      BY <3>3, Zenon
    <3>. QED  BY <3>2, <3>4
  <2>. QED  BY <2>4, <2>5
<1>. QED  BY <1>1, FlagsFit, PTL

-----------------------------------------------------------------------------
(* Where the claim of the code holds *)

(* Nobody works on the projects meanwhile, and the page has room for all.  *)
Undisturbed == Busy = {} /\ \A p \in Projects : FitsThePage(p)

(* Then every answer was on record before the first publication, and what  *)
(* the consumer has read of a project is what it still is.                 *)
Rereads == {"marking", "resaving"}
SettledEarly == \A p \in Projects : project[p].since <= 1
ReadsTheCurrent ==
    \A a \in Threads :
        threads[a].at \in Rereads => threads[a].version = project[Current(a).p].version
Quiet == wiring = "inline" => SettledEarly /\ ReadsTheCurrent

LEMMA ReadEffect ==
    ASSUME TypeInv, NEW a \in Threads, ReadMark(a) \/ ReadRecalc(a)
    PROVE  /\ threads'[a].version = project[Current(a).p].version
           /\ threads'[a].page = threads[a].page /\ project' = project
<1>1. ASSUME NEW at, NEW n, threads' = [threads EXCEPT ![a] = [@ EXCEPT !.at = at, !.version = n]]
      PROVE  threads'[a].version = n /\ threads'[a].page = threads[a].page
  BY <1>1, GotoVersionEffect
<1>2. PICK n : n = project[Current(a).p].version
  OBVIOUS
<1>3. PICK at \in {"marking", "resaving"} :
           threads' = [threads EXCEPT ![a] = [@ EXCEPT !.at = at, !.version = n]]
  BY <1>2 DEF ReadMark, ReadRecalc
<1>4. threads'[a].version = n /\ threads'[a].page = threads[a].page
  BY <1>1, <1>3
<1>. QED  BY <1>2, <1>4 DEF ReadMark, ReadRecalc, product

(* Where a thread comes from that has read a project. *)
LEMMA JustRead ==
    ASSUME TypeInv, [Next]_vars, wiring = "inline", NEW b \in Threads,
           threads'[b].at \in Rereads, threads'[b] # threads[b]
    PROVE  /\ threads'[b].version = project[Current(b).p].version
           /\ threads'[b].page = threads[b].page /\ project' = project
<1>1. ASSUME NEW a \in Threads, Others(a)
      PROVE  a = b
  BY <1>1 DEF Others
<1>2. ASSUME NEW a \in Threads,
             \/ \E r \in Runs : ReadProposal(a, r)
             \/ ReadLatest(a) \/ CopyProposals(a) \/ PublicationStep(a) \/ PublicationConflict(a)
             \/ ListOutbox(a) \/ EndFanOut(a) \/ PublishEvent(a) \/ MarkPublished(a)
             \/ Acknowledged(a) \/ Loss(a)
      PROVE  FALSE
  BY <1>1, <1>2, OtherSteps DEF Rereads, InPage
<1>3. ASSUME NEW a \in Threads, HandleNext(a) \/ \E v \in Versions : Receive(a, v)
      PROVE  FALSE
  BY <1>1, <1>3, BeginsWith DEF Rereads
<1>4. Refresh \/ (\E r \in Runs : DiscardStep(r)) \/ Product \/ UNCHANGED vars => FALSE
  BY RefreshTypes, DiscardTypes, ProductTypes DEF DiscardStep, vars
<1>5. ASSUME NEW a \in Threads, PageStep(a)
      PROVE  PageStep(b)
  BY <1>1, <1>5, PageEffect
<1>6. PageStep(b)
  BY <1>2, <1>3, <1>4, <1>5 DEF Next, Administer, Step, PageStep, PublicationStep, DiscardStep, Die
<1>7. ASSUME NEW at, at \notin Rereads, Goto(b, at)
      PROVE  FALSE
  BY <1>7, GotoEffect
<1>8. ASSUME NextProject(b), threads[b].at \in InPage
      PROVE  FALSE
  BY <1>8, NextProjectEffect DEF Rereads
<1>9. CASE RecordInterrupted(b) \/ PassBy(b) \/ MarkStale(b) \/ CompleteRecalc(b)
  BY <1>8, <1>9 DEF RecordInterrupted, PassBy, MarkStale, Record, CompleteRecalc, AtProject, InPage
<1>10. CASE MarkProvisional(b) \/ RecalcRefused(b) \/ PutReceipt(b)
  BY <1>7, <1>10 DEF MarkProvisional, RecalcRefused, PutReceipt, Rereads
<1>11. CASE SaveMark(b) \/ RecalcTier(b)
  <2>1. PICK at \in {"marked", "completing"} :
             threads' = [threads EXCEPT ![b] = [@ EXCEPT !.at = at, !.version = 0]]
    BY <1>11 DEF SaveMark, RecalcTier
  <2>2. threads'[b].at = at
    BY <2>1, GotoVersionEffect
  <2>. QED  BY <2>1, <2>2 DEF Rereads
<1>12. CASE ReadMark(b) \/ ReadRecalc(b)
  BY <1>12, ReadEffect
<1>. QED  BY <1>6, <1>9, <1>10, <1>11, <1>12 DEF PageStep

LEMMA QuietKept ==
    ASSUME Busy = {}, TypeInv, OneAtWork, Quiet, [Next]_vars
    PROVE  Quiet'
<1>. SUFFICES ASSUME wiring' = "inline"
              PROVE  SettledEarly' /\ ReadsTheCurrent'
  BY DEF Quiet
<1>0. wiring = "inline" /\ SettledEarly /\ ReadsTheCurrent
  BY WiringKept DEF Quiet
<1>1. SettledEarly'
  <2>. SUFFICES ASSUME NEW p \in Projects
                PROVE  project'[p].since <= 1
    BY DEF SettledEarly
  <2>0. ASSUME NEW a \in Threads, threads[a].at \in {"marking", "resaving"}
        PROVE  threads[a].version = project[Current(a).p].version
    BY <1>0, <2>0 DEF ReadsTheCurrent, Rereads
  <2>1. project'[p].since = project[p].since \/ project'[p].since = 0
    <3>1. CASE UNCHANGED <<project[p], heard>> \/ project' = project
      BY <3>1
    <3>2. ASSUME \E a \in Threads :
                    /\ threads[a].at \in {"marking", "resaving"} /\ p = Current(a).p
                    /\ threads[a].version # project[p].version
          PROVE  FALSE
      BY <2>0, <3>2
    <3>. QED  BY <3>1, <3>2, ProjectEffect
  <2>2. project[p].since <= 1
    BY <1>0 DEF SettledEarly
  <2>. QED  BY <2>1, <2>2
<1>2. ReadsTheCurrent'
  <2>. SUFFICES ASSUME NEW b \in Threads, threads'[b].at \in Rereads
                PROVE  threads'[b].version = project'[Current(b)'.p].version
    BY DEF ReadsTheCurrent
  <2>1. CASE threads'[b] # threads[b]
    <3>1. /\ threads'[b].version = project[Current(b).p].version
          /\ threads'[b].page = threads[b].page /\ project' = project
      BY <1>0, <2>1, JustRead
    <3>. QED  BY <3>1, SameCurrent
  <2>2. CASE threads'[b] = threads[b]
    <3>1. threads[b].at \in Rereads /\ Current(b)' = Current(b)
      BY <2>2, SameCurrent
    <3>2. ASSUME NEW a \in Threads, SaveMark(a) \/ RecalcTier(a)
          PROVE  FALSE
      <4>1. threads[a].at \in Rereads
        BY <3>2 DEF SaveMark, RecalcTier, Rereads
      <4>2. a = b
        BY <1>0, <3>1, <4>1 DEF OneAtWork, Rereads
      <4>3. PICK at \in {"marked", "completing"} :
                 threads' = [threads EXCEPT ![a] = [@ EXCEPT !.at = at, !.version = 0]]
        BY <3>2 DEF SaveMark, RecalcTier
      <4>4. threads'[a].at = at
        BY <4>3, GotoVersionEffect
      <4>. QED  BY <4>2, <4>3, <4>4 DEF Rereads
    <3>3. project' = project
      BY <3>2, ProjectSteps DEF MarkStale, MarkProvisional, Record
    <3>. QED  BY <1>0, <2>2, <3>1, <3>3 DEF ReadsTheCurrent
  <2>. QED  BY <2>1, <2>2
<1>. QED  BY <1>1, <1>2

(* ReachesEveryProject is violated where a classification is in progress   *)
(* or events come out of order.  In the API process, where they come in    *)
(* order, the sentence of consumer.py:115 is true of projects nobody works *)
(* on meanwhile, as long as the page has room for all of them.             *)
THEOREM ReachesTheUndisturbed ==
    Undisturbed => (Spec => [](wiring = "inline" => ReachesEveryProject))
<1>. SUFFICES ASSUME Undisturbed
              PROVE  Spec => [](wiring = "inline" => ReachesEveryProject)
  OBVIOUS
<1>1. Init => Quiet
  BY DEF Init, Quiet, SettledEarly, ReadsTheCurrent, Rereads, Idle, NewProject, OldProject
<1>2. Quiet /\ TypeInv /\ OneAtWork /\ [Next]_vars => Quiet'
  BY QuietKept DEF Undisturbed
<1>3. TypeInv /\ Quiet /\ AnnouncedToAll => (wiring = "inline" => ReachesEveryProject)
  <2>. SUFFICES ASSUME TypeInv, Quiet, AnnouncedToAll, wiring = "inline",
                       NEW v \in 2..Latest, NEW p \in Projects,
                       Delivered(v), project[p].version \in 1..(v - 1)
                PROVE  <<v, p>> \in heard
    BY DEF ReachesEveryProject
  <2>1. project[p].since <= 1 /\ project[p].since \in Nat
    BY DEF Quiet, SettledEarly, TypeInv, StateTypes, Project
  <2>2. project[p].since < v
    BY <2>1, Numbers
  <2>. QED  BY <2>2 DEF AnnouncedToAll, Undisturbed
<1>. QED  BY <1>1, <1>2, <1>3, TypesFit, AllAreAnnounced, PTL DEF Spec

=============================================================================

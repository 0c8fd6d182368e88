------------------------ MODULE DurableStoresProofs ------------------------
(***************************************************************************)
(* Proofs about DurableStores, for any number of threads, documents, calls *)
(* and ordinals.  What is proved about ordinals holds when the threads of  *)
(* an SQLite store share one connection ("One connection, guarded by a     *)
(* lock", store/sqlite.py): next_ordinal is not exclusive over two.        *)
(***************************************************************************)
EXTENDS DurableStores, FiniteSetTheorems, TLAPS

SharedConnection == \A p, q \in Threads : Connection[p] = Connection[q]

(* What a thread that has come this far in a call knows of it.             *)
InPut(p) == phase[p] \in {"find", "draw", "read", "write"}
PhaseFits(p) ==
    /\ phase[p] \notin {"idle", "stage", "staged", "release"} => Durable
    /\ phase[p] \in {"stage", "staged", "release"} => backend # "firestore"
    /\ phase[p] = "read" => backend = "sqlite" /\ counter \in Ordinals
    /\ phase[p] = "delete" => backend = "firestore"
    /\ phase[p] = "write" => call[p].ordinal \in 1..counter
    /\ phase[p] = "find" => call[p].doc # Nothing
    /\ InPut(p) => (call[p].doc # Nothing <=> call[p].line = NoLine)
    /\ call[p].line # NoLine => InPut(p) /\ ~Loading(p)
    /\ call[p].doc # Nothing => call[p].value \in Values
    /\ Loading(p) => InPut(p) \/ phase[p] \in {"clear", "delete"}
    /\ phase[p] \in {"clear", "delete"} => Loading(p) /\ call[p].left = call[p].set
    /\ call[p].left \subseteq call[p].set
    /\ phase[p] = "idle" => call[p] = NoCall

(* Every ordinal in the store has been drawn. *)
Drawn ==
    /\ \A d \in Docs : Stored(d) => rows[d].ordinal =< counter
    /\ \A o \in Ordinals : audit[o] # NoLine => o =< counter

(* Each line and each spending of the ticket has a call of its own.        *)
Spending == {p \in Threads : phase[p] = "spend"}
Counted ==
    /\ begun + (IF analyzing THEN 1 ELSE 0) =< calls
    /\ IF Durable
       THEN IsFiniteSet(Spending) /\ spends + Cardinality(Spending) =< calls
       ELSE spends = IF spent THEN 1 ELSE 0

CallInv == TypeOK /\ (\A p \in Threads : PhaseFits(p)) /\ Drawn /\ Counted

(* A line is stored once, and not yet while its call is going on.          *)
LinesOnce ==
    /\ \A o, q \in Ordinals : audit[o] # NoLine /\ audit[o] = audit[q] => o = q
    /\ \A o \in Ordinals : audit[o] =< begun
    /\ \A p \in Threads : call[p].line # NoLine =>
        /\ call[p].line =< begun
        /\ \A o \in Ordinals : audit[o] # call[p].line
        /\ \A q \in Threads : call[q].line = call[p].line => q = p

(* A thread between drawing an ordinal, or finding the one of its document *)
(* and writing with it, owns it: nothing else is stored under it, and no   *)
(* other thread holds it but one that saves the same document.             *)
Holding(p) == phase[p] \in {"read", "write"}
OrdinalOf(p) == IF phase[p] = "read" THEN counter ELSE call[p].ordinal
SameDoc(p, q) == call[p].doc # Nothing /\ call[p].doc = call[q].doc
OrdinalsOwned ==
    \A p \in Threads : Holding(p) =>
        /\ audit[OrdinalOf(p)] = NoLine
        /\ \A d \in Docs : Stored(d) /\ rows[d].ordinal = OrdinalOf(p) => call[p].doc = d
        /\ \A q \in Threads : Holding(q) /\ OrdinalOf(q) = OrdinalOf(p) => q = p \/ SameDoc(p, q)

OrdinalInv == OrdinalsDistinct /\ OrdinalsOwned /\ LinesOnce /\ KeptLinesStay

(* Of the loads that have returned or are going on there is one nobody has *)
(* deleted anything of since it began to put, or one that deletes still.   *)
Whole(set) == set \subseteq Registry
Deleting(p) == Loading(p) /\ phase[p] \in {"clear", "delete"}
Undisturbed(p) ==
    /\ Loading(p) /\ InPut(p)
    /\ Whole(call[p].set \ (call[p].left \cup {call[p].doc}))
LoadInv ==
    \/ failed
    \/ loaded = {} /\ \A p \in Threads : ~Loading(p)
    \/ \E set \in loaded : Whole(set)
    \/ \E p \in Threads : Deleting(p) \/ Undisturbed(p)

-----------------------------------------------------------------------------
(* Numbering a finite set in the order of its places. *)

Rank(S, place, x) == Cardinality({y \in S : place[y] =< place[x]})

(* Ranks.  Ranks count from one and keep the order of the places.          *)
LEMMA Ranks ==
    ASSUME NEW S, IsFiniteSet(S), NEW place \in [S -> Nat]
    PROVE  /\ Cardinality(S) \in Nat
           /\ \A x \in S : Rank(S, place, x) \in 1..Cardinality(S)
           /\ \A x, y \in S :
                place[x] < place[y] => Rank(S, place, x) < Rank(S, place, y)
<1> DEFINE Below(x) == {y \in S : place[y] =< place[x]}
<1>1. Cardinality(S) \in Nat
  BY FS_CardinalityType
<1>2. ASSUME NEW x \in S
      PROVE  /\ IsFiniteSet(Below(x)) /\ Cardinality(Below(x)) \in 1..Cardinality(S)
  <2>1. Below(x) \in SUBSET S /\ x \in Below(x)
    OBVIOUS
  <2>2. IsFiniteSet(Below(x)) /\ Cardinality(Below(x)) =< Cardinality(S)
    BY <2>1, FS_Subset
  <2>3. Cardinality(Below(x)) \in Nat /\ Cardinality(Below(x)) # 0
    BY <2>1, <2>2, FS_CardinalityType, FS_EmptySet
  <2> QED
    BY <1>1, <2>2, <2>3
<1>3. ASSUME NEW x \in S, NEW y \in S, place[x] < place[y]
      PROVE  Cardinality(Below(x)) < Cardinality(Below(y))
  <2>1. Below(x) \in SUBSET Below(y) /\ y \in Below(y) /\ y \notin Below(x)
    BY <1>3
  <2>2. Cardinality(Below(x)) =< Cardinality(Below(y))
        /\ Cardinality(Below(x)) # Cardinality(Below(y))
    BY <1>2, <2>1, FS_Subset
  <2>3. Cardinality(Below(x)) \in Int /\ Cardinality(Below(y)) \in Int
    BY <1>1, <1>2
  <2> HIDE DEF Below
  <2> QED
    BY <2>2, <2>3
<1> QED
  BY <1>1, <1>2, <1>3 DEF Rank

-----------------------------------------------------------------------------
(* What each step does to the call it belongs to. *)

USE StoreConstants

LEMMA Basics ==
    /\ \A r \in Row : r # NoRow /\ r.ordinal \in Ordinals
    /\ Nothing \notin Docs /\ NoLine \notin Lines
    /\ NoCall \in Call
    /\ NoCall.doc = Nothing /\ NoCall.line = NoLine /\ NoCall.set = {} /\ NoCall.left = {}
    /\ NoRow.ordinal = 0
<1>1. \A r \in Row : r # NoRow /\ r.ordinal \in Ordinals
  BY DEF Row, NoRow, Ordinals
<1>2. NoCall \in Call
  BY DEF NoCall, Call
<1> QED
  BY <1>1, <1>2 DEF NoCall, NoRow, Nothing, Docs, NoLine, Lines

(* Thread p has moved, alone. *)
Moved(p) ==
    /\ phase' \in [Threads -> Phases] /\ call' \in [Threads -> Call]
    /\ \A q \in Threads : q # p => phase'[q] = phase[q] /\ call'[q] = call[q]
    /\ PhaseFits(p)'

(* OthersFit.  A step that draws no ordinal back leaves the other calls as *)
(* they were.                                                              *)
LEMMA OthersFit ==
    ASSUME CallInv, NEW p \in Threads, Moved(p),
           backend' = backend, counter' \in counter..MaxOrdinal
    PROVE  \A q \in Threads : PhaseFits(q)'
<1> SUFFICES ASSUME NEW q \in Threads, q # p PROVE PhaseFits(q)'
  BY DEF Moved
<1>1. phase'[q] = phase[q] /\ call'[q] = call[q] /\ PhaseFits(q) /\ counter \in Nat
  BY DEF Moved, CallInv, TypeOK
<1>2. InPut(q)' = InPut(q) /\ Loading(q)' = Loading(q) /\ Durable' = Durable
  BY <1>1 DEF InPut, Loading, Durable
<1>3. phase[q] = "read" => counter' \in Ordinals
  BY <1>1 DEF PhaseFits, Ordinals
<1>4. phase[q] = "write" => call[q].ordinal \in 1..counter'
  BY <1>1 DEF PhaseFits
<1> QED
  BY <1>1, <1>2, <1>3, <1>4 DEF PhaseFits

LEMMA ReturnMoves ==
    ASSUME CallInv, NEW p \in Threads, Return(p)
    PROVE  Moved(p) /\ phase'[p] = "idle" /\ call'[p] = NoCall
<1>1. phase' \in [Threads -> Phases] /\ phase'[p] = "idle"
  BY DEF Return, Goto, CallInv, TypeOK, Phases
<1>2. call' \in [Threads -> Call] /\ call'[p] = NoCall
  BY Basics DEF Return, CallInv, TypeOK
<1>3. \A q \in Threads : q # p => phase'[q] = phase[q] /\ call'[q] = call[q]
  BY DEF Return, Goto, CallInv, TypeOK
<1>4. PhaseFits(p)'
  BY <1>1, <1>2, Basics DEF PhaseFits, InPut, Loading
<1> QED
  BY <1>1, <1>2, <1>3, <1>4 DEF Moved

(* A step to a new phase that leaves what the call knows. *)
LEMMA GotoMoves ==
    ASSUME CallInv, NEW p \in Threads, NEW ph \in Phases, Goto(p, ph), call' = call
    PROVE  /\ phase'[p] = ph /\ call'[p] = call[p]
           /\ PhaseFits(p)' => Moved(p)
BY DEF Goto, CallInv, TypeOK, Moved

(* One that learns something more. *)
LEMMA LearnMoves ==
    ASSUME CallInv, NEW p \in Threads, NEW ph \in Phases, Goto(p, ph),
           NEW c \in Call, call' = [call EXCEPT ![p] = c]
    PROVE  /\ phase'[p] = ph /\ call'[p] = c
           /\ PhaseFits(p)' => Moved(p)
BY DEF Goto, CallInv, TypeOK, Moved

LEMMA NextOfLoadMoves ==
    ASSUME CallInv, NEW p \in Threads, NextOfLoad(p), Durable, backend' = backend,
           Loading(p) \/ call[p].left = {}, call[p].line = NoLine
    PROVE  /\ Moved(p) /\ phase'[p] \in {"idle", "find"} /\ call'[p].line = NoLine
           /\ loaded' \subseteq SUBSET Institutions
<1>0. call[p] \in Call /\ call \in [Threads -> Call] /\ loaded \subseteq SUBSET Institutions
  BY DEF CallInv, TypeOK
<1>1. CASE call[p].left = {}
  <2>1. Return(p) /\ loaded' = loaded \cup ({call[p].set} \ {{}})
    BY <1>1 DEF NextOfLoad
  <2>2. call[p].set \in SUBSET Institutions
    BY <1>0 DEF Call
  <2> QED
    BY <1>0, <2>1, <2>2, ReturnMoves, Basics
<1>2. CASE call[p].left # {}
  <2>1. PICK i \in call[p].left, v \in Values :
            call' = [call EXCEPT ![p].doc = i, ![p].value = v, ![p].ordinal = 0,
                                 ![p].left = @ \ {i}]
    BY <1>2 DEF NextOfLoad
  <2> DEFINE c == [call[p] EXCEPT !.doc = i, !.value = v, !.ordinal = 0,
                                  !.left = call[p].left \ {i}]
  <2>2. i \in Institutions
    BY <1>0 DEF Call
  <2>3. c \in Call
    BY <1>0, <2>2 DEF Call, Docs
  <2>4. call' = [call EXCEPT ![p] = c] /\ Goto(p, "find") /\ loaded' = loaded
    BY <1>0, <1>2, <2>1 DEF NextOfLoad
  <2>5. c.doc = i /\ c.value = v /\ c.line = NoLine /\ c.set = call[p].set
        /\ c.left = call[p].left \ {i} /\ call[p].left \subseteq call[p].set
    BY <1>0 DEF Call, CallInv, PhaseFits
  <2>6. Loading(p) /\ "find" \in Phases
    BY <1>2 DEF Phases
  <2> HIDE DEF c
  <2>7. phase'[p] = "find" /\ call'[p] = c
    BY <2>3, <2>4, <2>6, LearnMoves
  <2>8. PhaseFits(p)'
    BY <2>2, <2>5, <2>6, <2>7, Basics DEF PhaseFits, InPut, Loading, Durable, Docs
  <2> QED
    BY <1>0, <2>3, <2>4, <2>5, <2>6, <2>7, <2>8, LearnMoves
<1> QED
  BY <1>1, <1>2

StoreTypes ==
    /\ backend \in Backends
    /\ counter \in 0..MaxOrdinal
    /\ rows \in [Docs -> Row \cup {NoRow}]
    /\ audit \in [Ordinals -> Lines \cup {NoLine}]
    /\ spent \in BOOLEAN /\ analyzing \in BOOLEAN /\ failed \in BOOLEAN
    /\ calls \in 0..MaxCalls /\ begun \in 0..calls /\ kept \subseteq Lines
    /\ spends \in 0..(IF Durable THEN calls ELSE 1)
    /\ loaded \subseteq SUBSET Institutions

LEMMA TypeParts ==
    /\ TypeOK => StoreTypes /\ phase \in [Threads -> Phases] /\ call \in [Threads -> Call]
    /\ (TypeOK <=> StoreTypes /\ phase \in [Threads -> Phases] /\ call \in [Threads -> Call])'
BY DEF TypeOK, StoreTypes

(* What is left to show of a step of thread p.                             *)
LEMMA StepFits ==
    ASSUME CallInv, NEW p \in Threads, Moved(p), StoreTypes', Drawn', Counted',
           backend' = backend, counter' \in counter..MaxOrdinal
    PROVE  CallInv'
BY OthersFit, TypeParts DEF CallInv, Moved

(* Steps that neither begin nor end the spending of a ticket. *)
LEMMA SpendingKept ==
    ASSUME CallInv, NEW p \in Threads, Moved(p), phase'[p] # "spend",
           backend' = backend, spent' = spent, spends' = spends,
           calls' \in calls..MaxCalls, begun' \in Nat,
           begun' + (IF analyzing' THEN 1 ELSE 0) =< calls'
    PROVE  Counted' /\ spends' \in 0..(IF Durable' THEN calls' ELSE 1)
<1>1. Spending' \in SUBSET Spending
  BY DEF Spending, Moved
<1>2. /\ calls \in Nat /\ spends \in Nat /\ Durable' = Durable
      /\ spends \in 0..(IF Durable THEN calls ELSE 1) /\ calls' \in Nat /\ calls =< calls'
  BY DEF CallInv, TypeOK, Durable
<1>3. CASE Durable
  <2>1. /\ IsFiniteSet(Spending') /\ Cardinality(Spending') =< Cardinality(Spending)
        /\ Cardinality(Spending) \in Nat /\ Cardinality(Spending') \in Nat
        /\ spends + Cardinality(Spending) =< calls
    BY <1>1, <1>3, FS_Subset, FS_CardinalityType DEF CallInv, Counted
  <2>2. spends' + Cardinality(Spending') =< calls'
    BY <1>2, <2>1
  <2>3. begun' + (IF analyzing' THEN 1 ELSE 0) =< calls'
    OBVIOUS
  <2>4. spends' \in 0..calls'
    BY <1>2, <1>3
  <2> QED
    BY <1>2, <1>3, <2>1, <2>2, <2>3, <2>4 DEF Counted
<1>4. CASE ~Durable
  BY <1>2, <1>4 DEF CallInv, Counted
<1> QED
  BY <1>3, <1>4

LEMMA StoreFacts ==
    ASSUME CallInv
    PROVE  /\ StoreTypes /\ calls \in Nat /\ begun \in Nat /\ spends \in Nat /\ counter \in Nat
           /\ begun + (IF analyzing THEN 1 ELSE 0) =< calls /\ calls =< MaxCalls
           /\ \A d \in Docs : Stored(d) => rows[d] \in Row /\ rows[d].ordinal \in 1..counter
           /\ \A o \in Ordinals : audit[o] # NoLine => o \in 1..counter
           /\ \A p \in Threads : PhaseFits(p) /\ call[p] \in Call /\ phase[p] \in Phases
<1>1. TypeOK /\ Drawn /\ Counted /\ \A p \in Threads : PhaseFits(p)
  BY DEF CallInv
<1>2. \A d \in Docs : Stored(d) => rows[d] \in Row /\ rows[d].ordinal \in 1..counter
  BY <1>1, Basics DEF TypeOK, Drawn, Stored, Ordinals
<1>3. \A o \in Ordinals : audit[o] # NoLine => o \in 1..counter
  BY <1>1 DEF TypeOK, Drawn, Ordinals
<1>4. begun + (IF analyzing THEN 1 ELSE 0) =< calls
  BY <1>1 DEF Counted
<1> QED
  BY <1>1, <1>2, <1>3, <1>4, TypeParts DEF TypeOK

(* Quiet.  Steps of a call that change nothing but its own state.          *)
Quiet(p) ==
    /\ UNCHANGED <<backend, durable, begun, kept, spends>>
    /\ calls' \in calls..MaxCalls /\ failed' \in BOOLEAN
    /\ loaded' \subseteq SUBSET Institutions
    /\ phase'[p] # "spend"

LEMMA QuietFits ==
    ASSUME CallInv, NEW p \in Threads, Moved(p), Quiet(p)
    PROVE  CallInv'
<1>1. Counted' /\ spends' \in 0..(IF Durable' THEN calls' ELSE 1)
  BY StoreFacts, SpendingKept DEF Quiet, durable
<1>2. StoreTypes'
  BY <1>1, StoreFacts DEF Quiet, durable, StoreTypes
<1>3. Drawn'
  BY DEF Quiet, durable, Drawn, CallInv, Stored
<1> QED
  BY <1>1, <1>2, <1>3, StepFits, StoreFacts DEF Quiet, durable, StoreTypes

-----------------------------------------------------------------------------
(* One lemma for each action: it moves its thread, and keeps the types.    *)

LEMMA DrawFits ==
    ASSUME CallInv, NEW p \in Threads, Draw(p)
    PROVE  CallInv' /\ Moved(p)
<1>1. /\ phase[p] = "draw" /\ counter' = counter + 1 /\ counter' \in 1..MaxOrdinal
      /\ PhaseFits(p) /\ Durable /\ counter \in Nat /\ call[p] \in Call
      /\ UNCHANGED <<backend, calls, rows, audit, spent, analyzing, begun, kept, spends, loaded, failed>>
  BY StoreFacts DEF Draw, At, PhaseFits, StoreTypes, history
<1>2. ASSUME backend = "sqlite" PROVE Moved(p)
  <2>1. Goto(p, "read") /\ call' = call /\ "read" \in Phases
    BY <1>2 DEF Draw, Phases
  <2>2. phase'[p] = "read" /\ call'[p] = call[p]
    BY <2>1, GotoMoves
  <2>3. PhaseFits(p)'
    BY <1>1, <1>2, <2>2 DEF PhaseFits, InPut, Loading, Durable, Ordinals
  <2> QED
    BY <2>1, <2>2, <2>3, GotoMoves
<1>3. ASSUME backend # "sqlite" PROVE Moved(p)
  <2> DEFINE c == [call[p] EXCEPT !.ordinal = counter + 1]
  <2>1. c \in Call /\ c.ordinal = counter + 1 /\ c.doc = call[p].doc /\ c.line = call[p].line
        /\ c.value = call[p].value /\ c.set = call[p].set /\ c.left = call[p].left
    BY <1>1 DEF Call, Ordinals
  <2>2. Goto(p, "write") /\ call' = [call EXCEPT ![p] = c] /\ "write" \in Phases
    BY <1>3 DEF Draw, Phases
  <2> HIDE DEF c
  <2>3. phase'[p] = "write" /\ call'[p] = c
    BY <2>1, <2>2, LearnMoves
  <2>4. PhaseFits(p)'
    BY <1>1, <2>1, <2>3 DEF PhaseFits, InPut, Loading, Durable
  <2> QED
    BY <2>1, <2>2, <2>3, <2>4, LearnMoves
<1>4. Moved(p) /\ phase'[p] # "spend"
  <2>1. phase'[p] \in {"read", "write"}
    BY <1>1, StoreFacts DEF Draw, Goto, CallInv, TypeOK
  <2> QED
    BY <2>1, <1>2, <1>3
<1>5. Counted' /\ spends' \in 0..(IF Durable' THEN calls' ELSE 1)
  BY <1>1, <1>4, StoreFacts, SpendingKept
<1>6. StoreTypes'
  BY <1>1, <1>5, StoreFacts DEF StoreTypes
<1>7. Drawn'
  BY <1>1, StoreFacts DEF Drawn, Stored, CallInv
<1> QED
  BY <1>1, <1>4, <1>5, <1>6, <1>7, StepFits

LEMMA ReadOrdinalFits ==
    ASSUME CallInv, NEW p \in Threads, ReadOrdinal(p)
    PROVE  CallInv' /\ Moved(p)
<1>1. /\ phase[p] = "read" /\ PhaseFits(p) /\ call[p] \in Call /\ counter \in Ordinals
      /\ UNCHANGED <<backend, calls, durable, history>> /\ counter' = counter
  BY StoreFacts DEF ReadOrdinal, PhaseFits, durable
<1> DEFINE c == [call[p] EXCEPT !.ordinal = counter]
<1>2. c \in Call /\ c.ordinal = counter /\ c.doc = call[p].doc /\ c.line = call[p].line
      /\ c.value = call[p].value /\ c.set = call[p].set /\ c.left = call[p].left
  BY <1>1 DEF Call
<1>3. Goto(p, "write") /\ call' = [call EXCEPT ![p] = c] /\ "write" \in Phases
  BY DEF ReadOrdinal, Phases
<1> HIDE DEF c
<1>4. phase'[p] = "write" /\ call'[p] = c
  BY <1>2, <1>3, LearnMoves
<1>5. PhaseFits(p)'
  BY <1>1, <1>2, <1>4 DEF PhaseFits, InPut, Loading, Durable, Ordinals
<1>6. Moved(p)
  BY <1>2, <1>3, <1>5, LearnMoves
<1>7. Quiet(p)
  BY <1>1, <1>4, StoreFacts DEF Quiet, history, durable, StoreTypes
<1> QED
  BY <1>6, <1>7, QuietFits

LEMMA UpsertTypes ==
    ASSUME CallInv, NEW d \in Docs, NEW o \in 1..MaxOrdinal, NEW v \in Values,
           Upsert(d, o, v)
    PROVE  /\ rows' \in [Docs -> Row \cup {NoRow}] /\ Stored(d)'
           /\ rows'[d].ordinal = IF Stored(d) /\ backend # "firestore" THEN rows[d].ordinal ELSE o
           /\ \A e \in Docs : e # d => rows'[e] = rows[e]
<1>1. rows \in [Docs -> Row \cup {NoRow}]
  BY DEF CallInv, TypeOK
<1>2. [ordinal |-> o, value |-> v] \in Row
  BY DEF Row, Ordinals
<1>3. Stored(d) => rows[d] \in Row /\ [rows[d] EXCEPT !.value = v] \in Row
                   /\ [rows[d] EXCEPT !.value = v].ordinal = rows[d].ordinal
  BY <1>1 DEF Row, Stored
<1> QED
  BY <1>1, <1>2, <1>3, Basics DEF Upsert, Stored

LEMMA SaveDraftFits ==
    ASSUME CallInv, NEW p \in Threads, NEW f \in Forms, NEW v \in Values, SaveDraft(p, f, v)
    PROVE  CallInv' /\ Moved(p)
<1>1. /\ phase[p] = "idle" /\ calls' = calls + 1 /\ calls' \in 1..MaxCalls
      /\ UNCHANGED <<backend, audit, spent, analyzing, begun, kept, spends, loaded, failed>>
      /\ PhaseFits(p) /\ call[p] \in Call /\ f \in Docs
  BY StoreFacts DEF SaveDraft, Starts, At, history, Docs
<1>2. CASE Durable
  <2> DEFINE c == [call[p] EXCEPT !.doc = f, !.value = v]
  <2>1. c \in Call /\ c.doc = f /\ c.line = call[p].line /\ c.value = v /\ c.set = call[p].set
        /\ c.left = call[p].left
    BY <1>1 DEF Call
  <2>2. Goto(p, "find") /\ call' = [call EXCEPT ![p] = c] /\ "find" \in Phases
        /\ UNCHANGED <<counter, rows>>
    BY <1>2 DEF SaveDraft, Phases
  <2> HIDE DEF c
  <2>3. phase'[p] = "find" /\ call'[p] = c
    BY <2>1, <2>2, LearnMoves
  <2>4. PhaseFits(p)'
    BY <1>1, <1>2, <2>1, <2>3, Basics DEF PhaseFits, InPut, Loading, Durable
  <2>5. Moved(p)
    BY <2>1, <2>2, <2>4, LearnMoves
  <2>6. Quiet(p)
    BY <1>1, <2>2, <2>3, StoreFacts DEF Quiet, durable, StoreTypes
  <2> QED
    BY <2>5, <2>6, QuietFits
<1>3. CASE ~Durable
  <2>1. /\ Stored(f) \/ counter < MaxOrdinal
        /\ counter' = IF Stored(f) THEN counter ELSE counter + 1
        /\ Upsert(f, counter + 1, v) /\ UNCHANGED <<phase, call>>
        /\ backend = "memory"
    BY <1>3, StoreFacts DEF SaveDraft, StoreTypes, Durable, Backends
  <2>2. Moved(p) /\ phase'[p] # "spend"
    BY <1>1, <2>1, StoreFacts DEF Moved, CallInv, TypeOK, PhaseFits, InPut, Loading, Durable
  <2>3. counter' \in counter..MaxOrdinal /\ (Stored(f) \/ counter + 1 \in 1..counter')
    BY <2>1, StoreFacts DEF StoreTypes
  <2>4. /\ rows' \in [Docs -> Row \cup {NoRow}]
        /\ \A d \in Docs : Stored(d)' => rows'[d].ordinal =< counter'
    <3>1. CASE Stored(f)
      <4>1. rows' = [rows EXCEPT ![f] = [@ EXCEPT !.value = v]]
        BY <3>1, <2>1 DEF Upsert
      <4>2. rows[f] \in Row /\ [rows[f] EXCEPT !.value = v] \in Row
            /\ [rows[f] EXCEPT !.value = v].ordinal = rows[f].ordinal
        BY <1>1, <3>1, StoreFacts DEF Row
      <4>3. rows \in [Docs -> Row \cup {NoRow}]
        BY DEF CallInv, TypeOK
      <4> QED
        BY <1>1, <2>1, <3>1, <4>1, <4>2, <4>3, StoreFacts DEF Stored
    <3>2. CASE ~Stored(f)
      <4>1. counter + 1 \in 1..MaxOrdinal /\ counter' = counter + 1
        BY <2>1, <2>3, <3>2, StoreFacts
      <4>2. /\ rows' \in [Docs -> Row \cup {NoRow}] /\ rows'[f].ordinal = counter + 1
            /\ \A e \in Docs : e # f => rows'[e] = rows[e]
        BY <1>1, <2>1, <3>2, <4>1, UpsertTypes
      <4> QED
        BY <2>3, <4>1, <4>2, StoreFacts DEF Stored
    <3> QED
      BY <3>1, <3>2
  <2>5. Counted' /\ spends' \in 0..(IF Durable' THEN calls' ELSE 1)
    BY <1>1, <2>2, StoreFacts, SpendingKept
  <2>6. StoreTypes'
    BY <1>1, <2>3, <2>4, <2>5, StoreFacts DEF StoreTypes
  <2>7. Drawn'
    BY <1>1, <2>3, <2>4, StoreFacts DEF Drawn
  <2> QED
    BY <1>1, <2>2, <2>3, <2>5, <2>6, <2>7, StepFits
<1> QED
  BY <1>2, <1>3

LEMMA FindOrdinalFits ==
    ASSUME CallInv, NEW p \in Threads, FindOrdinal(p)
    PROVE  CallInv' /\ Moved(p)
<1>1. /\ phase[p] = "find" /\ PhaseFits(p) /\ call[p] \in Call /\ call[p].doc \in Docs
      /\ UNCHANGED <<backend, calls, durable, history>>
      /\ Durable /\ counter' = counter
  BY StoreFacts DEF FindOrdinal, At, PhaseFits, durable, Call
<1>2. ASSUME Stored(call[p].doc) PROVE Moved(p) /\ phase'[p] = "write"
  <2> DEFINE c == [call[p] EXCEPT !.ordinal = rows[call[p].doc].ordinal]
  <2>1. rows[call[p].doc].ordinal \in 1..counter /\ rows[call[p].doc].ordinal \in Ordinals
    BY <1>1, <1>2, StoreFacts, Basics
  <2>2. c \in Call /\ c.ordinal = rows[call[p].doc].ordinal /\ c.doc = call[p].doc
        /\ c.line = call[p].line /\ c.value = call[p].value /\ c.set = call[p].set /\ c.left = call[p].left
    BY <1>1, <2>1 DEF Call
  <2>3. Goto(p, "write") /\ call' = [call EXCEPT ![p] = c] /\ "write" \in Phases
    BY <1>2 DEF FindOrdinal, Phases
  <2> HIDE DEF c
  <2>4. phase'[p] = "write" /\ call'[p] = c
    BY <2>2, <2>3, LearnMoves
  <2>5. PhaseFits(p)'
    BY <1>1, <2>1, <2>2, <2>4 DEF PhaseFits, InPut, Loading, Durable
  <2> QED
    BY <2>2, <2>3, <2>4, <2>5, LearnMoves
<1>3. ASSUME ~Stored(call[p].doc) PROVE Moved(p) /\ phase'[p] = "draw"
  <2>1. Goto(p, "draw") /\ call' = call /\ "draw" \in Phases
    BY <1>3 DEF FindOrdinal, Phases
  <2>2. phase'[p] = "draw" /\ call'[p] = call[p]
    BY <2>1, GotoMoves
  <2>3. PhaseFits(p)'
    BY <1>1, <2>2 DEF PhaseFits, InPut, Loading, Durable
  <2> QED
    BY <2>1, <2>2, <2>3, GotoMoves
<1>4. Moved(p) /\ phase'[p] # "spend"
  BY <1>2, <1>3
<1>5. Quiet(p)
  BY <1>1, <1>4, StoreFacts DEF Quiet, history, durable, StoreTypes
<1> QED
  BY <1>4, <1>5, QuietFits

LEMMA WriteRowFits ==
    ASSUME CallInv, NEW p \in Threads, WriteRow(p)
    PROVE  CallInv' /\ Moved(p)
<1>1. /\ phase[p] = "write" /\ PhaseFits(p) /\ call[p] \in Call /\ call[p].doc \in Docs
      /\ call[p].value \in Values /\ call[p].line = NoLine /\ Durable
      /\ call[p].ordinal \in 1..counter
      /\ Upsert(call[p].doc, call[p].ordinal, call[p].value) /\ NextOfLoad(p)
      /\ UNCHANGED <<backend, calls, counter, audit, spent, analyzing, begun, kept, spends, failed>>
  BY StoreFacts DEF WriteRow, At, PhaseFits, Call, InPut
<1>2. Loading(p) \/ call[p].left = {}
  <2>1. call[p].left \subseteq call[p].set
    BY <1>1 DEF PhaseFits
  <2> QED
    BY <2>1 DEF Loading
<1>3. Moved(p) /\ phase'[p] # "spend" /\ loaded' \subseteq SUBSET Institutions
  BY <1>1, <1>2, NextOfLoadMoves
<1>4. counter \in 0..MaxOrdinal /\ call[p].ordinal \in 1..MaxOrdinal
  BY <1>1, StoreFacts DEF StoreTypes
<1>5. /\ rows' \in [Docs -> Row \cup {NoRow}]
      /\ \A d \in Docs : Stored(d)' => rows'[d].ordinal =< counter
  <2>1. /\ rows' \in [Docs -> Row \cup {NoRow}]
        /\ rows'[call[p].doc].ordinal = IF Stored(call[p].doc) /\ backend # "firestore"
                                        THEN rows[call[p].doc].ordinal ELSE call[p].ordinal
        /\ \A e \in Docs : e # call[p].doc => rows'[e] = rows[e]
    BY <1>1, <1>4, UpsertTypes
  <2> QED
    BY <1>1, <2>1, StoreFacts DEF Stored
<1>6. Counted' /\ spends' \in 0..(IF Durable' THEN calls' ELSE 1)
  BY <1>1, <1>3, StoreFacts, SpendingKept
<1>7. StoreTypes'
  BY <1>1, <1>3, <1>5, <1>6, StoreFacts DEF StoreTypes
<1>8. Drawn'
  BY <1>1, <1>5, StoreFacts DEF Drawn
<1> QED
  BY <1>1, <1>3, <1>4, <1>6, <1>7, <1>8, StepFits

LEMMA AppendFits ==
    ASSUME CallInv, NEW p \in Threads, Append(p)
    PROVE  CallInv' /\ Moved(p)
<1>1. /\ phase[p] = "idle" /\ calls' = calls + 1 /\ calls' \in 1..MaxCalls
      /\ begun' = begun + 1 /\ begun + 1 \in Lines /\ begun + 1 =< calls'
      /\ UNCHANGED <<backend, rows, spent, analyzing, spends, loaded, failed>>
      /\ PhaseFits(p) /\ call[p] \in Call
  BY StoreFacts DEF Append, Starts, At, Lines
<1>2. begun' + (IF analyzing' THEN 1 ELSE 0) =< calls'
  BY <1>1, StoreFacts
<1>3. ASSUME Durable
      PROVE  Moved(p) /\ phase'[p] # "spend" /\ UNCHANGED <<counter, audit, kept>>
  <2> DEFINE c == [call[p] EXCEPT !.line = begun + 1]
  <2>1. c \in Call /\ c.line = begun + 1 /\ c.doc = call[p].doc
        /\ c.value = call[p].value /\ c.set = call[p].set /\ c.left = call[p].left
    BY <1>1 DEF Call
  <2>2. Goto(p, "draw") /\ call' = [call EXCEPT ![p] = c] /\ "draw" \in Phases
        /\ UNCHANGED <<counter, audit, kept>>
    BY <1>3 DEF Append, Phases
  <2>3. call[p].doc = Nothing
    BY <1>1, Basics DEF PhaseFits
  <2> HIDE DEF c
  <2>4. phase'[p] = "draw" /\ call'[p] = c
    BY <2>1, <2>2, LearnMoves
  <2>5. PhaseFits(p)'
    BY <1>1, <1>3, <2>1, <2>3, <2>4, Basics DEF PhaseFits, InPut, Loading, Durable
  <2> QED
    BY <2>1, <2>2, <2>4, <2>5, LearnMoves
<1>4. ASSUME ~Durable
      PROVE  /\ Moved(p) /\ phase'[p] # "spend" /\ counter' \in counter..MaxOrdinal
             /\ audit' \in [Ordinals -> Lines \cup {NoLine}] /\ kept' \subseteq Lines
             /\ \A o \in Ordinals : audit'[o] # NoLine => o =< counter'
  <2>1. /\ counter < MaxOrdinal /\ counter' = counter + 1
        /\ audit' = [audit EXCEPT ![counter + 1] = begun + 1]
        /\ kept' = kept \cup {begun + 1}
        /\ UNCHANGED <<phase, call>>
    BY <1>4 DEF Append
  <2>2. Moved(p) /\ phase'[p] # "spend"
    BY <1>1, <2>1, StoreFacts DEF Moved, CallInv, TypeOK, PhaseFits, InPut, Loading, Durable
  <2>3. counter \in 0..MaxOrdinal /\ audit \in [Ordinals -> Lines \cup {NoLine}] /\ kept \subseteq Lines
    BY StoreFacts DEF StoreTypes
  <2> QED
    BY <1>1, <2>1, <2>2, <2>3, StoreFacts DEF Ordinals
<1>5. /\ Moved(p) /\ phase'[p] # "spend" /\ counter' \in counter..MaxOrdinal
      /\ audit' \in [Ordinals -> Lines \cup {NoLine}] /\ kept' \subseteq Lines
      /\ \A o \in Ordinals : audit'[o] # NoLine => o =< counter'
  <2>1. counter \in counter..MaxOrdinal /\ audit \in [Ordinals -> Lines \cup {NoLine}]
        /\ kept \subseteq Lines /\ \A o \in Ordinals : audit[o] # NoLine => o =< counter
    BY StoreFacts DEF StoreTypes
  <2> QED
    BY <1>3, <1>4, <2>1
<1>6. Counted' /\ spends' \in 0..(IF Durable' THEN calls' ELSE 1)
  BY <1>1, <1>2, <1>5, StoreFacts, SpendingKept
<1>7. StoreTypes'
  BY <1>1, <1>5, <1>6, StoreFacts DEF StoreTypes
<1>8. Drawn'
  <2>1. counter' \in Nat /\ counter =< counter'
    BY <1>5, StoreFacts
  <2> QED
    BY <1>1, <1>5, <2>1, StoreFacts DEF Drawn, Stored
<1> QED
  BY <1>1, <1>5, <1>6, <1>7, <1>8, StepFits

LEMMA WriteLineFits ==
    ASSUME CallInv, NEW p \in Threads, WriteLine(p)
    PROVE  CallInv' /\ Moved(p)
<1>1. /\ phase[p] = "write" /\ call[p].line # NoLine /\ call[p] \in Call
      /\ audit' = [audit EXCEPT ![call[p].ordinal] = call[p].line]
      /\ kept' = kept \cup {call[p].line} /\ Return(p)
      /\ UNCHANGED <<backend, calls, counter, rows, spent, analyzing, begun, spends, loaded, failed>>
      /\ call[p].ordinal \in 1..counter
  BY StoreFacts DEF WriteLine, At, PhaseFits
<1>2. call[p].line \in Lines
  BY <1>1 DEF Call
<1>3. Moved(p) /\ phase'[p] # "spend"
  BY <1>1, ReturnMoves
<1>4. /\ audit' \in [Ordinals -> Lines \cup {NoLine}] /\ kept' \subseteq Lines
      /\ counter \in 0..MaxOrdinal
      /\ \A o \in Ordinals : audit'[o] # NoLine => o =< counter
  <2>1. /\ audit \in [Ordinals -> Lines \cup {NoLine}] /\ kept \subseteq Lines
        /\ counter \in 0..MaxOrdinal /\ call[p].ordinal =< counter
    BY <1>1, StoreFacts DEF StoreTypes
  <2>2. audit' \in [Ordinals -> Lines \cup {NoLine}] /\ kept' \subseteq Lines
    BY <1>1, <1>2, <2>1
  <2>3. ASSUME NEW o \in Ordinals, audit'[o] # NoLine PROVE o =< counter
    <3>1. CASE o = call[p].ordinal
      BY <2>1, <3>1
    <3>2. CASE o # call[p].ordinal
      BY <1>1, <2>1, <2>3, <3>2, StoreFacts
    <3> QED
      BY <3>1, <3>2
  <2> QED
    BY <2>1, <2>2, <2>3
<1>5. Counted' /\ spends' \in 0..(IF Durable' THEN calls' ELSE 1)
  BY <1>1, <1>3, StoreFacts, SpendingKept
<1>6. StoreTypes'
  BY <1>1, <1>4, <1>5, StoreFacts DEF StoreTypes
<1>7. Drawn'
  BY <1>1, <1>4, StoreFacts DEF Drawn, Stored
<1> QED
  BY <1>1, <1>3, <1>4, <1>5, <1>6, <1>7, StepFits

LEMMA ConsumeFits ==
    ASSUME CallInv, NEW p \in Threads, Consume(p)
    PROVE  CallInv' /\ Moved(p)
<1>1. /\ phase[p] = "idle" /\ calls' = calls + 1 /\ calls' \in 1..MaxCalls
      /\ UNCHANGED <<backend, counter, rows, audit, analyzing, call, begun, kept, loaded, failed>>
      /\ PhaseFits(p) /\ call[p] = NoCall /\ Durable' = Durable
  BY StoreFacts DEF Consume, Starts, At, PhaseFits, Durable
<1>2. ASSUME NEW ph \in Phases, Goto(p, ph), ph \in {"idle", "spend"}, ph = "spend" => Durable
      PROVE  Moved(p) /\ phase'[p] = ph
  <2>1. phase'[p] = ph /\ call'[p] = NoCall
    BY <1>1, <1>2, GotoMoves
  <2>2. PhaseFits(p)'
    BY <1>1, <1>2, <2>1, Basics DEF PhaseFits, InPut, Loading
  <2> QED
    BY <1>1, <1>2, <2>1, <2>2, GotoMoves
<1>3. StoreTypes /\ begun' + (IF analyzing' THEN 1 ELSE 0) =< calls' /\ Drawn'
  BY <1>1, StoreFacts DEF CallInv, Drawn, Stored
<1>4. CASE spent
  <2>1. Goto(p, "idle") /\ "idle" \in Phases /\ UNCHANGED <<spent, spends>>
    BY <1>4 DEF Consume, Phases
  <2>2. Moved(p) /\ phase'[p] = "idle"
    BY <1>2, <2>1
  <2>3. Quiet(p)
    BY <1>1, <1>3, <2>1, <2>2, StoreFacts DEF Quiet, durable, StoreTypes
  <2> QED
    BY <2>2, <2>3, QuietFits
<1>5. CASE ~spent /\ Durable
  <2>1. Goto(p, "spend") /\ "spend" \in Phases /\ UNCHANGED <<spent, spends>>
    BY <1>5 DEF Consume, Phases
  <2>2. Moved(p) /\ phase'[p] = "spend"
    BY <1>2, <1>5, <2>1
  <2>3. Spending' = Spending \cup {p} /\ p \notin Spending
    BY <1>1, <2>2 DEF Moved, Spending
  <2>4. /\ IsFiniteSet(Spending') /\ Cardinality(Spending') = Cardinality(Spending) + 1
        /\ spends + Cardinality(Spending) =< calls /\ Cardinality(Spending) \in Nat
    BY <1>5, <2>3, FS_AddElement, FS_CardinalityType DEF CallInv, Counted
  <2>5. Counted' /\ spends' \in 0..calls'
    BY <1>1, <1>3, <1>5, <2>1, <2>4, StoreFacts DEF Counted
  <2>6. StoreTypes'
    BY <1>1, <1>3, <1>5, <2>1, <2>5, StoreFacts DEF StoreTypes
  <2> QED
    BY <1>1, <1>3, <2>2, <2>5, <2>6, StepFits, StoreFacts DEF StoreTypes
<1>6. CASE ~spent /\ ~Durable
  <2>1. spent' = TRUE /\ spends' = spends + 1 /\ phase' = phase
    BY <1>6 DEF Consume
  <2>2. Moved(p)
    BY <1>1, <2>1, StoreFacts DEF Moved, CallInv, TypeOK, PhaseFits, InPut, Loading
  <2>3. spends = 0 /\ spends' = 1
    BY <1>6, <2>1 DEF CallInv, Counted
  <2>4. Counted' /\ spends' \in 0..1
    BY <1>1, <1>3, <1>6, <2>1, <2>3 DEF Counted
  <2>5. StoreTypes'
    BY <1>1, <1>3, <1>6, <2>1, <2>4, StoreFacts DEF StoreTypes
  <2> QED
    BY <1>1, <1>3, <2>2, <2>4, <2>5, StepFits, StoreFacts DEF StoreTypes
<1> QED
  BY <1>4, <1>5, <1>6

LEMMA SpendFits ==
    ASSUME CallInv, NEW p \in Threads, Spend(p)
    PROVE  CallInv' /\ Moved(p)
<1>1. /\ phase[p] = "spend" /\ Durable /\ Durable' = Durable
      /\ spent' = TRUE /\ spends' = spends + 1 /\ Return(p)
      /\ UNCHANGED <<backend, calls, counter, rows, audit, analyzing, begun, kept, loaded, failed>>
  BY StoreFacts DEF Spend, At, PhaseFits, Durable
<1>2. Moved(p) /\ phase'[p] = "idle"
  BY <1>1, ReturnMoves
<1>3. Spending' = Spending \ {p} /\ p \in Spending
  BY <1>1, <1>2 DEF Moved, Spending
<1>4. /\ IsFiniteSet(Spending') /\ Cardinality(Spending') = Cardinality(Spending) - 1
      /\ spends + Cardinality(Spending) =< calls
      /\ Cardinality(Spending) \in Nat /\ Cardinality(Spending') \in Nat
  BY <1>1, <1>3, FS_RemoveElement, FS_CardinalityType DEF CallInv, Counted
<1>5. Counted' /\ spends' \in 0..calls'
  BY <1>1, <1>4, StoreFacts DEF Counted
<1>6. StoreTypes'
  BY <1>1, <1>5, StoreFacts DEF StoreTypes
<1>7. Drawn'
  BY <1>1 DEF CallInv, Drawn, Stored
<1> QED
  BY <1>1, <1>2, <1>5, <1>6, <1>7, StepFits, StoreFacts DEF StoreTypes

LEMMA LoadInstitutionsFits ==
    ASSUME CallInv, NEW p \in Threads, NEW set \in (SUBSET Institutions) \ {{}},
           LoadInstitutions(p, set)
    PROVE  CallInv' /\ Moved(p)
<1>1. /\ phase[p] = "idle" /\ calls' = calls + 1 /\ calls' \in 1..MaxCalls
      /\ UNCHANGED <<backend, audit, spent, analyzing, begun, kept, spends, failed>>
      /\ PhaseFits(p) /\ call[p] \in Call /\ call[p] = NoCall /\ Durable' = Durable
  BY StoreFacts DEF LoadInstitutions, Starts, At, PhaseFits, Durable
<1>2. CASE Durable
  <2> DEFINE c == [call[p] EXCEPT !.set = set, !.left = set]
  <2>0. set \in SUBSET Institutions /\ set # {}
    OBVIOUS
  <2>1. c \in Call /\ c.doc = Nothing /\ c.line = NoLine /\ c.set = set /\ c.left = set
    BY <1>1, <2>0, Basics DEF Call
  <2>2. Goto(p, "clear") /\ call' = [call EXCEPT ![p] = c] /\ "clear" \in Phases
        /\ UNCHANGED <<counter, rows, loaded>>
    BY <1>2 DEF LoadInstitutions, Phases
  <2> HIDE DEF c
  <2>3. phase'[p] = "clear" /\ call'[p] = c
    BY <2>1, <2>2, LearnMoves
  <2>4. PhaseFits(p)'
    BY <1>1, <1>2, <2>0, <2>1, <2>3 DEF PhaseFits, InPut, Loading
  <2>5. Moved(p)
    BY <2>1, <2>2, <2>4, LearnMoves
  <2>6. Quiet(p)
    BY <1>1, <2>2, <2>3, StoreFacts DEF Quiet, durable, StoreTypes
  <2> QED
    BY <2>5, <2>6, QuietFits
<1>3. CASE ~Durable
  <2>1. /\ counter + Cardinality(set) =< MaxOrdinal
        /\ counter' = counter + Cardinality(set)
        /\ loaded' = loaded \cup {set}
        /\ UNCHANGED <<phase, call>>
    BY <1>3 DEF LoadInstitutions
  <2>2. PICK n \in [set -> counter + 1..counter + Cardinality(set)], v \in Values :
            rows' = [d \in Docs |->
                        CASE d \in Forms -> rows[d]
                          [] d \in set -> [ordinal |-> n[d], value |-> v]
                          [] OTHER -> NoRow]
    BY <1>3 DEF LoadInstitutions
  <2>3. Cardinality(set) \in Nat /\ counter' \in counter..MaxOrdinal
    BY <2>1, FS_Subset, FS_CardinalityType, StoreFacts
  <2>4. Moved(p) /\ phase'[p] # "spend"
    BY <1>1, <2>1, StoreFacts DEF Moved, CallInv, TypeOK, PhaseFits, InPut, Loading
  <2>5. \A d \in Docs : /\ rows'[d] \in Row \cup {NoRow}
                        /\ Stored(d)' => rows'[d].ordinal =< counter'
    <3> SUFFICES ASSUME NEW d \in Docs
                 PROVE  rows'[d] \in Row \cup {NoRow} /\ (Stored(d)' => rows'[d].ordinal =< counter')
      OBVIOUS
    <3>1. CASE d \in Forms
      <4>1. rows'[d] = rows[d]
        BY <2>2, <3>1
      <4>2. rows[d] \in Row \cup {NoRow} /\ (Stored(d) => rows[d].ordinal \in 1..counter)
        BY StoreFacts DEF StoreTypes
      <4> QED
        BY <2>3, <4>1, <4>2, StoreFacts DEF Stored
    <3>2. CASE d \in set /\ d \notin Forms
      <4>1. rows'[d] = [ordinal |-> n[d], value |-> v]
        BY <2>2, <3>2
      <4>2. n[d] \in counter + 1..counter + Cardinality(set)
        BY <3>2
      <4>3. n[d] \in Ordinals /\ n[d] =< counter'
        BY <2>1, <2>3, <4>2, StoreFacts DEF Ordinals
      <4>4. [ordinal |-> n[d], value |-> v] \in Row
        BY <4>3 DEF Row
      <4> QED
        BY <4>1, <4>3, <4>4
    <3>3. CASE d \notin set /\ d \notin Forms
      <4>1. rows'[d] = NoRow
        BY <2>2, <3>3
      <4> QED
        BY <4>1 DEF Stored
    <3> QED
      BY <3>1, <3>2, <3>3
  <2>6. Counted' /\ spends' \in 0..(IF Durable' THEN calls' ELSE 1)
    BY <1>1, <2>4, StoreFacts, SpendingKept
  <2>7. rows' \in [Docs -> Row \cup {NoRow}]
    BY <2>2, <2>5
  <2>8. StoreTypes'
    BY <1>1, <2>1, <2>3, <2>6, <2>7, StoreFacts DEF StoreTypes
  <2>9. Drawn'
    BY <1>1, <2>3, <2>5, StoreFacts DEF Drawn
  <2> QED
    BY <1>1, <2>3, <2>4, <2>6, <2>8, <2>9, StepFits
<1> QED
  BY <1>2, <1>3

LEMMA ClearRegistryFits ==
    ASSUME CallInv, NEW p \in Threads, ClearRegistry(p)
    PROVE  CallInv' /\ Moved(p)
<1>1. /\ phase[p] = "clear" /\ PhaseFits(p) /\ call[p] \in Call /\ Durable /\ Loading(p)
      /\ UNCHANGED <<backend, calls, counter, audit, spent, analyzing, begun, kept, spends, failed>>
      /\ call[p].line = NoLine
  BY StoreFacts DEF ClearRegistry, At, PhaseFits, InPut
<1>2. CASE backend = "sqlite"
  <2>1. rows' = [d \in Docs |-> IF d \in Institutions THEN NoRow ELSE rows[d]] /\ NextOfLoad(p)
    BY <1>2 DEF ClearRegistry
  <2>2. Moved(p) /\ phase'[p] # "spend" /\ loaded' \subseteq SUBSET Institutions
    BY <1>1, <2>1, NextOfLoadMoves
  <2>3. rows' \in [Docs -> Row \cup {NoRow}] /\ \A d \in Docs : Stored(d)' => rows'[d] = rows[d]
    BY <2>1, StoreFacts DEF StoreTypes, Stored
  <2>4. Counted' /\ spends' \in 0..(IF Durable' THEN calls' ELSE 1)
    BY <1>1, <2>2, StoreFacts, SpendingKept
  <2>5. StoreTypes'
    BY <1>1, <2>2, <2>3, <2>4, StoreFacts DEF StoreTypes
  <2>6. Drawn'
    BY <1>1, <2>3 DEF CallInv, Drawn, Stored
  <2> QED
    BY <1>1, <2>2, <2>4, <2>5, <2>6, StepFits, StoreFacts DEF StoreTypes
<1>3. CASE backend # "sqlite"
  <2> DEFINE c == [call[p] EXCEPT !.doomed = Registry]
  <2>1. c \in Call /\ c.doc = call[p].doc /\ c.line = call[p].line /\ c.value = call[p].value
        /\ c.set = call[p].set /\ c.left = call[p].left
    BY <1>1 DEF Call, Registry
  <2>2. Goto(p, "delete") /\ call' = [call EXCEPT ![p] = c] /\ "delete" \in Phases
        /\ UNCHANGED <<rows, loaded>>
    BY <1>3 DEF ClearRegistry, Phases
  <2> HIDE DEF c
  <2>3. phase'[p] = "delete" /\ call'[p] = c
    BY <2>1, <2>2, LearnMoves
  <2>4. PhaseFits(p)'
    BY <1>1, <1>3, <2>1, <2>3 DEF PhaseFits, InPut, Loading, Durable
  <2>5. Moved(p)
    BY <2>1, <2>2, <2>4, LearnMoves
  <2>6. Quiet(p)
    BY <1>1, <2>2, <2>3, StoreFacts DEF Quiet, durable, StoreTypes
  <2> QED
    BY <2>5, <2>6, QuietFits
<1> QED
  BY <1>2, <1>3

LEMMA DeleteInstitutionFits ==
    ASSUME CallInv, NEW p \in Threads, DeleteInstitution(p)
    PROVE  CallInv' /\ Moved(p)
<1>1. /\ phase[p] = "delete" /\ PhaseFits(p) /\ call[p] \in Call /\ Durable /\ Loading(p)
      /\ UNCHANGED <<backend, calls, counter, audit, spent, analyzing, begun, kept, spends, failed>>
      /\ call[p].line = NoLine
  BY StoreFacts DEF DeleteInstitution, PhaseFits, InPut
<1>2. CASE call[p].doomed = {}
  <2>1. NextOfLoad(p) /\ rows' = rows
    BY <1>2 DEF DeleteInstitution
  <2>2. Moved(p) /\ phase'[p] # "spend" /\ loaded' \subseteq SUBSET Institutions
    BY <1>1, <2>1, NextOfLoadMoves
  <2>3. Quiet(p)
    BY <1>1, <2>1, <2>2, StoreFacts DEF Quiet, durable, StoreTypes
  <2> QED
    BY <2>2, <2>3, QuietFits
<1>3. CASE call[p].doomed # {}
  <2>1. PICK i \in call[p].doomed :
            /\ rows' = [rows EXCEPT ![i] = NoRow]
            /\ call' = [call EXCEPT ![p].doomed = @ \ {i}]
            /\ UNCHANGED <<phase, loaded>>
    BY <1>3 DEF DeleteInstitution
  <2> DEFINE c == [call[p] EXCEPT !.doomed = call[p].doomed \ {i}]
  <2>2. c \in Call /\ c.doc = call[p].doc /\ c.line = call[p].line /\ c.value = call[p].value
        /\ c.set = call[p].set /\ c.left = call[p].left
    BY <1>1 DEF Call
  <2>3. call' = [call EXCEPT ![p] = c]
    BY <2>1
  <2> HIDE DEF c
  <2>4. phase'[p] = "delete" /\ call'[p] = c
    BY <1>1, <2>1, <2>2, <2>3 DEF CallInv, TypeOK
  <2>5. PhaseFits(p)'
    BY <1>1, <2>2, <2>4 DEF PhaseFits, InPut, Loading, Durable
  <2>6. Moved(p)
    <3>1. phase \in [Threads -> Phases] /\ call \in [Threads -> Call]
      BY DEF CallInv, TypeOK
    <3>2. phase' \in [Threads -> Phases] /\ call' \in [Threads -> Call]
      BY <2>1, <2>2, <2>3, <3>1
    <3>3. \A q \in Threads : q # p => phase'[q] = phase[q] /\ call'[q] = call[q]
      BY <2>1, <2>3, <3>1
    <3> QED
      BY <2>5, <3>2, <3>3 DEF Moved
  <2>7. rows' \in [Docs -> Row \cup {NoRow}] /\ \A d \in Docs : Stored(d)' => rows'[d] = rows[d]
    BY <2>1, StoreFacts DEF StoreTypes, Stored
  <2>8. Counted' /\ spends' \in 0..(IF Durable' THEN calls' ELSE 1)
    BY <1>1, <2>4, <2>6, StoreFacts, SpendingKept
  <2>9. StoreTypes'
    BY <1>1, <2>1, <2>7, <2>8, StoreFacts DEF StoreTypes
  <2>10. Drawn'
    BY <1>1, <2>7 DEF CallInv, Drawn, Stored
  <2> QED
    BY <1>1, <2>6, <2>8, <2>9, <2>10, StepFits, StoreFacts DEF StoreTypes
<1> QED
  BY <1>2, <1>3

LEMMA ClaimSessionFits ==
    ASSUME CallInv, NEW p \in Threads, ClaimSession(p)
    PROVE  CallInv' /\ Moved(p)
<1>1. /\ phase[p] = "idle" /\ calls' = calls + 1 /\ calls' \in 1..MaxCalls
      /\ backend # "firestore" /\ ~analyzing /\ analyzing' = TRUE
      /\ Goto(p, "stage") /\ "stage" \in Phases
      /\ UNCHANGED <<backend, counter, rows, audit, spent, call, begun, kept, spends, loaded, failed>>
      /\ call[p] = NoCall
  BY StoreFacts DEF ClaimSession, Starts, At, PhaseFits, Phases, history
<1>2. phase'[p] = "stage" /\ call'[p] = NoCall
  BY <1>1, GotoMoves
<1>3. PhaseFits(p)'
  BY <1>1, <1>2, Basics DEF PhaseFits, InPut, Loading
<1>4. Moved(p)
  BY <1>1, <1>3, GotoMoves
<1>5. begun' + (IF analyzing' THEN 1 ELSE 0) =< calls'
  BY <1>1, StoreFacts
<1>6. Counted' /\ spends' \in 0..(IF Durable' THEN calls' ELSE 1)
  BY <1>1, <1>2, <1>4, <1>5, StoreFacts, SpendingKept
<1>7. StoreTypes'
  BY <1>1, <1>6, StoreFacts DEF StoreTypes
<1>8. Drawn'
  BY <1>1 DEF CallInv, Drawn, Stored
<1> QED
  BY <1>1, <1>4, <1>6, <1>7, <1>8, StepFits, StoreFacts DEF StoreTypes

LEMMA StageFits ==
    ASSUME CallInv, NEW p \in Threads, Stage(p)
    PROVE  CallInv' /\ Moved(p)
<1>1. /\ phase[p] = "stage" /\ PhaseFits(p) /\ call[p] \in Call
      /\ UNCHANGED <<backend, calls, durable, history>>
  BY StoreFacts DEF Stage, At
<1> DEFINE c == [call[p] EXCEPT !.rows = [f \in Forms |-> rows[f]], !.audit = audit]
<1>2. c \in Call /\ c.doc = call[p].doc /\ c.line = call[p].line /\ c.value = call[p].value
      /\ c.set = call[p].set /\ c.left = call[p].left
  BY <1>1, StoreFacts DEF Call, StoreTypes, Docs
<1>3. Goto(p, "staged") /\ call' = [call EXCEPT ![p] = c] /\ "staged" \in Phases
  BY DEF Stage, Phases
<1> HIDE DEF c
<1>4. phase'[p] = "staged" /\ call'[p] = c
  BY <1>2, <1>3, LearnMoves
<1>5. PhaseFits(p)'
  BY <1>1, <1>2, <1>4 DEF PhaseFits, InPut, Loading, Durable
<1>6. Moved(p)
  BY <1>2, <1>3, <1>5, LearnMoves
<1>7. Quiet(p)
  BY <1>1, <1>4, StoreFacts DEF Quiet, history, durable, StoreTypes
<1> QED
  BY <1>6, <1>7, QuietFits

(* A thread that has staged and gives its session back. *)
LEMMA ToRelease ==
    ASSUME CallInv, NEW p \in Threads, phase[p] = "staged", Goto(p, "release"), call' = call,
           UNCHANGED <<backend, calls, durable, history>>
    PROVE  CallInv' /\ Moved(p)
<1>1. PhaseFits(p) /\ "release" \in Phases /\ phase'[p] = "release" /\ call'[p] = call[p]
  BY StoreFacts, GotoMoves DEF Phases
<1>2. PhaseFits(p)'
  BY <1>1 DEF PhaseFits, InPut, Loading, Durable
<1>3. Moved(p)
  BY <1>1, <1>2, GotoMoves
<1>4. Quiet(p)
  BY <1>1, StoreFacts DEF Quiet, history, durable, StoreTypes
<1> QED
  BY <1>3, <1>4, QuietFits

LEMMA ReleaseFits ==
    ASSUME CallInv, NEW p \in Threads, Release(p)
    PROVE  CallInv' /\ Moved(p)
<1>1. /\ analyzing' = FALSE /\ Return(p)
      /\ UNCHANGED <<backend, calls, counter, rows, audit, spent, begun, kept, spends, loaded, failed>>
  BY DEF Release, history
<1>2. Moved(p) /\ phase'[p] # "spend"
  BY <1>1, ReturnMoves
<1>3. Counted' /\ spends' \in 0..(IF Durable' THEN calls' ELSE 1)
  BY <1>1, <1>2, StoreFacts, SpendingKept
<1>4. StoreTypes'
  BY <1>1, <1>3, StoreFacts DEF StoreTypes
<1>5. Drawn'
  BY <1>1 DEF CallInv, Drawn, Stored
<1> QED
  BY <1>1, <1>2, <1>3, <1>4, <1>5, StepFits, StoreFacts DEF StoreTypes

LEMMA FailsFits ==
    ASSUME CallInv, NEW p \in Threads, Fails(p)
    PROVE  CallInv' /\ Moved(p)
<1>1. /\ failed' = TRUE /\ Return(p)
      /\ UNCHANGED <<backend, calls, durable, begun, kept, spends, loaded>>
  BY DEF Fails
<1>2. Moved(p) /\ phase'[p] = "idle"
  BY <1>1, ReturnMoves
<1>3. Quiet(p)
  BY <1>1, <1>2, StoreFacts DEF Quiet, durable, StoreTypes
<1> QED
  BY <1>2, <1>3, QuietFits

LEMMA StutterFits ==
    ASSUME CallInv, UNCHANGED vars
    PROVE  CallInv' /\ \A p \in Threads : Moved(p)
<1>1. UNCHANGED <<backend, calls, counter, rows, audit, spent, analyzing, phase, call,
                  begun, kept, spends, loaded, failed>>
  BY DEF vars, durable, history
<1>2. \A p \in Threads : PhaseFits(p)'
  BY <1>1, StoreFacts DEF PhaseFits, InPut, Loading, Durable
<1>3. TypeOK'
  BY <1>1 DEF CallInv, TypeOK, Durable
<1>4. Drawn' /\ Counted'
  BY <1>1 DEF CallInv, Drawn, Stored, Counted, Durable, Spending
<1> QED
  BY <1>1, <1>2, <1>3, <1>4 DEF CallInv, Moved, TypeOK

(* NewOrdinals.  A publication numbers what it stages with ordinals of its *)
(* own, the drafts before the lines, and keeps the order of each.          *)
LEMMA NewOrdinals ==
    ASSUME CallInv, NEW p \in Threads, NEW f \in Forms
    PROVE  /\ FirstLine(p, f) \in Nat /\ LastOrdinal(p, f) \in Nat
           /\ counter =< FirstLine(p, f) /\ FirstLine(p, f) < LastOrdinal(p, f)
           /\ \A g \in StagedDrafts(p, f) :
                DraftPlace(p, g) \in Nat /\ NewDraftOrdinal(p, f, g) \in counter + 1..FirstLine(p, f)
           /\ \A g, h \in StagedDrafts(p, f) :
                DraftPlace(p, g) < DraftPlace(p, h)
                => NewDraftOrdinal(p, f, g) < NewDraftOrdinal(p, f, h)
           /\ \A o \in StagedLines(p) :
                NewLineOrdinal(p, f, o) \in FirstLine(p, f) + 1..LastOrdinal(p, f) - 1
           /\ \A o, q \in StagedLines(p) :
                o < q => NewLineOrdinal(p, f, o) < NewLineOrdinal(p, f, q)
<1> DEFINE D == StagedDrafts(p, f)
           L == StagedLines(p)
           dplace == [g \in D |-> DraftPlace(p, g)]
           lplace == [o \in L |-> o]
<1>1. counter \in Nat /\ call[p] \in Call
  BY StoreFacts
<1>2. IsFiniteSet(D) /\ IsFiniteSet(L) /\ L \subseteq Nat
  <2>1. D \in SUBSET Forms /\ L \in SUBSET Ordinals
    BY DEF StagedDrafts, StagedLines
  <2>2. IsFiniteSet(Ordinals) /\ Ordinals \subseteq Nat
    BY FS_Interval DEF Ordinals
  <2> QED
    BY <2>1, <2>2, FS_Subset
<1>3. \A g \in D : DraftPlace(p, g) \in Nat
  <2> SUFFICES ASSUME NEW g \in D PROVE DraftPlace(p, g) \in Nat
    OBVIOUS
  <2>1. call[p].rows[g] \in Row \cup {NoRow}
    BY <1>1 DEF Call, StagedDrafts
  <2>2. call[p].rows[g] # NoRow => call[p].rows[g].ordinal \in Ordinals
    BY <2>1, Basics
  <2> QED
    BY <2>2 DEF DraftPlace, Ordinals
<1>4. dplace \in [D -> Nat] /\ lplace \in [L -> Nat]
  BY <1>2, <1>3
<1>5. \A g \in D : NewDraftOrdinal(p, f, g) = counter + Rank(D, dplace, g)
  BY DEF NewDraftOrdinal, Rank
<1>6. \A o \in L : NewLineOrdinal(p, f, o) = FirstLine(p, f) + Rank(L, lplace, o)
  BY DEF NewLineOrdinal, Rank
<1>7. /\ Cardinality(D) \in Nat
      /\ \A g \in D : Rank(D, dplace, g) \in 1..Cardinality(D)
      /\ \A g, h \in D :
            DraftPlace(p, g) < DraftPlace(p, h) => Rank(D, dplace, g) < Rank(D, dplace, h)
  <2>1. \A g \in D : dplace[g] = DraftPlace(p, g)
    OBVIOUS
  <2> HIDE DEF D, dplace
  <2> QED
    BY <1>2, <1>4, <2>1, Ranks
<1>8. /\ Cardinality(L) \in Nat
      /\ \A o \in L : Rank(L, lplace, o) \in 1..Cardinality(L)
      /\ \A o, q \in L : o < q => Rank(L, lplace, o) < Rank(L, lplace, q)
  <2>1. \A o \in L : lplace[o] = o
    OBVIOUS
  <2> HIDE DEF L, lplace
  <2> QED
    BY <1>2, <1>4, <2>1, Ranks
<1>9. FirstLine(p, f) = counter + Cardinality(D) /\ LastOrdinal(p, f) = FirstLine(p, f) + Cardinality(L) + 1
  BY DEF FirstLine, LastOrdinal
<1> HIDE DEF D, L, dplace, lplace
<1>10. /\ FirstLine(p, f) \in Nat /\ LastOrdinal(p, f) \in Nat
       /\ counter =< FirstLine(p, f) /\ FirstLine(p, f) < LastOrdinal(p, f)
  BY <1>1, <1>7, <1>8, <1>9
<1>11. /\ \A g \in D : NewDraftOrdinal(p, f, g) \in counter + 1..FirstLine(p, f)
       /\ \A g, h \in D : DraftPlace(p, g) < DraftPlace(p, h)
                => NewDraftOrdinal(p, f, g) < NewDraftOrdinal(p, f, h)
  BY <1>1, <1>5, <1>7, <1>9
<1>12. /\ \A o \in L : NewLineOrdinal(p, f, o) \in FirstLine(p, f) + 1..LastOrdinal(p, f) - 1
       /\ \A o, q \in L : o < q => NewLineOrdinal(p, f, o) < NewLineOrdinal(p, f, q)
  BY <1>6, <1>8, <1>9, <1>10
<1> QED
  BY <1>3, <1>10, <1>11, <1>12 DEF D, L

(* Published.  What a publication stores, and what it leaves.              *)
LEMMA Published ==
    ASSUME CallInv, NEW p \in Threads, NEW f \in Forms, NEW v \in Values,
           LastOrdinal(p, f) =< MaxOrdinal, Replace(p, f, v), begun + 1 \in Lines
    PROVE  /\ counter' = LastOrdinal(p, f) /\ counter' \in counter + 1..MaxOrdinal
           /\ rows' \in [Docs -> Row \cup {NoRow}]
           /\ audit' \in [Ordinals -> Lines \cup {NoLine}]
           /\ \A d \in StagedDrafts(p, f) : rows'[d].ordinal = NewDraftOrdinal(p, f, d)
           /\ \A d \in Docs \ StagedDrafts(p, f) : rows'[d] = rows[d]
           /\ audit'[LastOrdinal(p, f)] = begun + 1 /\ LastOrdinal(p, f) \in Ordinals
           /\ \A q \in StagedLines(p) :
                /\ NewLineOrdinal(p, f, q) \in Ordinals
                /\ audit'[NewLineOrdinal(p, f, q)] = call[p].audit[q]
           /\ \A o \in Ordinals : audit'[o] # NoLine =>
                \/ o = LastOrdinal(p, f) /\ audit'[o] = begun + 1
                \/ \E q \in StagedLines(p) :
                        o = NewLineOrdinal(p, f, q) /\ audit'[o] = call[p].audit[q]
<1> DEFINE last == LastOrdinal(p, f)
           line(q) == NewLineOrdinal(p, f, q)
<1>1. /\ counter \in Nat /\ call[p] \in Call /\ MaxOrdinal \in Nat
      /\ rows \in [Docs -> Row \cup {NoRow}]
  BY StoreFacts DEF StoreTypes
<1>2. /\ FirstLine(p, f) \in Nat /\ last \in Nat /\ counter =< FirstLine(p, f) /\ FirstLine(p, f) < last
      /\ \A g \in StagedDrafts(p, f) : NewDraftOrdinal(p, f, g) \in counter + 1..FirstLine(p, f)
      /\ \A o \in StagedLines(p) : line(o) \in FirstLine(p, f) + 1..last - 1
      /\ \A o, q \in StagedLines(p) : o < q => line(o) < line(q)
  BY NewOrdinals
<1>3. last \in Ordinals /\ \A q \in StagedLines(p) : line(q) \in Ordinals /\ line(q) < last
  BY <1>1, <1>2 DEF Ordinals
<1>4. \A o, q \in StagedLines(p) : line(o) = line(q) => o = q
  <2>1. StagedLines(p) \subseteq Int /\ \A o \in StagedLines(p) : line(o) \in Int
    BY <1>2 DEF StagedLines, Ordinals
  <2> HIDE DEF line
  <2> QED
    BY <1>2, <2>1
<1>5. /\ counter' = last
      /\ rows' = [d \in Docs |->
            IF d \in StagedDrafts(p, f)
            THEN [ordinal |-> NewDraftOrdinal(p, f, d),
                  value |-> IF d = f THEN v ELSE call[p].rows[d].value]
            ELSE rows[d]]
      /\ audit' = [o \in Ordinals |->
            IF o = last THEN begun + 1
            ELSE IF \E q \in StagedLines(p) : line(q) = o
            THEN call[p].audit[CHOOSE q \in StagedLines(p) : line(q) = o]
            ELSE NoLine]
  BY DEF Replace
<1> HIDE DEF last, line
<1>6. \A d \in StagedDrafts(p, f) : rows'[d] \in Row /\ rows'[d].ordinal = NewDraftOrdinal(p, f, d)
  <2> SUFFICES ASSUME NEW d \in StagedDrafts(p, f)
               PROVE  rows'[d] \in Row /\ rows'[d].ordinal = NewDraftOrdinal(p, f, d)
    OBVIOUS
  <2>1. d \in Forms /\ d \in Docs /\ NewDraftOrdinal(p, f, d) \in Ordinals
    BY <1>1, <1>2, <1>3 DEF StagedDrafts, Docs, Ordinals
  <2>2. d # f => call[p].rows[d].value \in Values
    <3>1. d # f => call[p].rows[d] \in Row
      BY <1>1, <2>1 DEF Call, StagedDrafts
    <3> QED
      BY <3>1 DEF Row
  <2>3. rows'[d] = [ordinal |-> NewDraftOrdinal(p, f, d),
                    value |-> IF d = f THEN v ELSE call[p].rows[d].value]
    BY <1>5, <2>1
  <2> QED
    BY <2>1, <2>2, <2>3 DEF Row
<1>7. \A d \in Docs \ StagedDrafts(p, f) : rows'[d] = rows[d]
  BY <1>5
<1>8. rows' \in [Docs -> Row \cup {NoRow}]
  BY <1>1, <1>5, <1>6, <1>7
<1>9. \A q \in StagedLines(p) : audit'[line(q)] = call[p].audit[q]
  <2> SUFFICES ASSUME NEW q \in StagedLines(p) PROVE audit'[line(q)] = call[p].audit[q]
    OBVIOUS
  <2>1. (CHOOSE x \in StagedLines(p) : line(x) = line(q)) = q
    BY <1>4
  <2>2. line(q) \in Ordinals /\ line(q) # last
    BY <1>2, <1>3
  <2> QED
    BY <1>5, <2>1, <2>2
<1>10. \A o \in Ordinals : audit'[o] # NoLine =>
        \/ o = last /\ audit'[o] = begun + 1
        \/ \E q \in StagedLines(p) : o = line(q) /\ audit'[o] = call[p].audit[q]
  BY <1>3, <1>5, <1>9
<1>11. \A q \in StagedLines(p) : call[p].audit[q] \in Lines
  BY <1>1 DEF Call, StagedLines
<1>12. audit' \in [Ordinals -> Lines \cup {NoLine}]
  <2>1. \A o \in Ordinals : audit'[o] \in Lines \cup {NoLine}
    BY <1>10, <1>11
  <2> QED
    BY <1>5, <2>1
<1>13. audit'[last] = begun + 1
  BY <1>3, <1>5
<1>14. counter' \in counter + 1..MaxOrdinal
  BY <1>1, <1>2, <1>3, <1>5 DEF Ordinals
<1> QED
  BY <1>3, <1>5, <1>6, <1>7, <1>8, <1>9, <1>10, <1>12, <1>13, <1>14 DEF last, line

LEMMA PublishFits ==
    ASSUME CallInv, NEW p \in Threads, Publish(p)
    PROVE  CallInv' /\ Moved(p)
<1>1. /\ phase[p] = "staged" /\ UNCHANGED <<backend, calls, spent, spends, loaded, failed>>
  BY DEF Publish, At
<1>2. CASE analyzing /\ Unchanged(p)
  <2>1. PICK f \in Forms, v \in Values : LastOrdinal(p, f) =< MaxOrdinal /\ Replace(p, f, v)
    BY <1>2 DEF Publish
  <2>2. begun' = begun + 1 /\ kept' = kept \cup {begun + 1} /\ analyzing' = FALSE /\ Return(p)
    BY <1>2 DEF Publish
  <2>3. begun + 1 \in Lines /\ begun + 1 =< calls
    BY <1>2, StoreFacts DEF Lines
  <2>4. Moved(p) /\ phase'[p] # "spend"
    BY <2>2, ReturnMoves
  <2>5. /\ counter' = LastOrdinal(p, f) /\ counter' \in counter + 1..MaxOrdinal
        /\ rows' \in [Docs -> Row \cup {NoRow}]
        /\ audit' \in [Ordinals -> Lines \cup {NoLine}]
        /\ \A d \in StagedDrafts(p, f) : rows'[d].ordinal = NewDraftOrdinal(p, f, d)
        /\ \A d \in Docs \ StagedDrafts(p, f) : rows'[d] = rows[d]
        /\ \A o \in Ordinals : audit'[o] # NoLine =>
                o = LastOrdinal(p, f) \/ \E q \in StagedLines(p) : o = NewLineOrdinal(p, f, q)
    BY <2>1, <2>3, Published
  <2>6. /\ FirstLine(p, f) \in Nat /\ FirstLine(p, f) < counter' /\ counter' \in Nat
        /\ \A g \in StagedDrafts(p, f) : NewDraftOrdinal(p, f, g) \in counter + 1..FirstLine(p, f)
        /\ \A o \in StagedLines(p) : NewLineOrdinal(p, f, o) \in FirstLine(p, f) + 1..counter' - 1
    BY <2>5, NewOrdinals
  <2>7. \A d \in Docs : Stored(d)' => rows'[d].ordinal =< counter'
    <3> SUFFICES ASSUME NEW d \in Docs, Stored(d)' PROVE rows'[d].ordinal =< counter'
      OBVIOUS
    <3>1. CASE d \in StagedDrafts(p, f)
      BY <2>5, <2>6, <3>1, StoreFacts
    <3>2. CASE d \notin StagedDrafts(p, f)
      BY <2>5, <2>6, <3>2, StoreFacts DEF Stored
    <3> QED
      BY <3>1, <3>2
  <2>8. \A o \in Ordinals : audit'[o] # NoLine => o =< counter'
    BY <2>5, <2>6
  <2>9. begun' \in Nat /\ begun' + (IF analyzing' THEN 1 ELSE 0) =< calls' /\ begun' \in 0..calls
    BY <1>1, <2>2, <2>3, StoreFacts
  <2>10. Counted' /\ spends' \in 0..(IF Durable' THEN calls' ELSE 1)
    BY <1>1, <2>4, <2>9, StoreFacts, SpendingKept
  <2>11. StoreTypes'
    <3>1. counter' \in 0..MaxOrdinal /\ kept' \subseteq Lines
      BY <2>2, <2>3, <2>5, StoreFacts DEF StoreTypes
    <3> QED
      BY <1>1, <2>2, <2>5, <2>9, <2>10, <3>1, StoreFacts DEF StoreTypes
  <2>12. Drawn'
    BY <2>7, <2>8 DEF Drawn
  <2> QED
    BY <1>1, <2>4, <2>5, <2>10, <2>11, <2>12, StepFits, StoreFacts
<1>3. CASE ~(analyzing /\ Unchanged(p))
  <2>1. /\ Goto(p, "release") /\ UNCHANGED <<counter, rows, audit, analyzing, call, begun, kept>>
    BY <1>3 DEF Publish
  <2> QED
    BY <1>1, <2>1, ToRelease DEF durable, history
<1> QED
  BY <1>2, <1>3

(* StepKeepsCalls.  Every step keeps what the calls know.                  *)
LEMMA StepKeepsCalls ==
    ASSUME CallInv, [Next]_vars
    PROVE  CallInv'
<1>1. ASSUME NEW p \in Threads, NEW f \in Forms, NEW v \in Values, SaveDraft(p, f, v)
      PROVE  CallInv'
  BY <1>1, SaveDraftFits
<1>2. ASSUME NEW p \in Threads, NEW set \in (SUBSET Institutions) \ {{}}, LoadInstitutions(p, set)
      PROVE  CallInv'
  BY <1>2, LoadInstitutionsFits
<1>3. ASSUME NEW p \in Threads, Append(p) \/ Consume(p) \/ ClaimSession(p) \/ Spend(p)
      PROVE  CallInv'
  BY <1>3, AppendFits, ConsumeFits, ClaimSessionFits, SpendFits
<1>4. ASSUME NEW p \in Threads, Draw(p) \/ ReadOrdinal(p) \/ FindOrdinal(p) \/ WriteRow(p) \/ WriteLine(p)
      PROVE  CallInv'
  BY <1>4, DrawFits, ReadOrdinalFits, FindOrdinalFits, WriteRowFits, WriteLineFits
<1>5. ASSUME NEW p \in Threads, ClearRegistry(p) \/ DeleteInstitution(p) \/ Stage(p) \/ Publish(p)
      PROVE  CallInv'
  BY <1>5, ClearRegistryFits, DeleteInstitutionFits, StageFits, PublishFits
<1>6. ASSUME NEW p \in Threads, AnalysisFails(p) \/ Release(p) \/ Fails(p)
      PROVE  CallInv'
  BY <1>6, ToRelease, ReleaseFits, FailsFits DEF AnalysisFails
<1>7. ASSUME (\E p \in Threads : Look(p)) \/ UNCHANGED vars
      PROVE  CallInv'
  BY <1>7, StutterFits DEF Look
<1> QED
  BY <1>1, <1>2, <1>3, <1>4, <1>5, <1>6, <1>7 DEF Next

LEMMA InitFits ==
    ASSUME Init
    PROVE  CallInv
<1>1. \A p \in Threads : phase[p] = "idle" /\ call[p] = NoCall
  BY DEF Init
<1>2. \A p \in Threads : PhaseFits(p)
  BY <1>1, Basics DEF PhaseFits, InPut, Loading
<1>3. Spending = {} /\ \A d \in Docs : ~Stored(d)
  BY <1>1 DEF Init, Spending, Stored
<1>4. IsFiniteSet(Spending) /\ Cardinality(Spending) = 0
  BY <1>3, FS_EmptySet
<1>5. Counted
  BY <1>4 DEF Init, Counted
<1>6. TypeOK
  <2>1. phase \in [Threads -> Phases] /\ call \in [Threads -> Call]
    BY Basics DEF Init, Phases
  <2>2. rows \in [Docs -> Row \cup {NoRow}] /\ audit \in [Ordinals -> Lines \cup {NoLine}]
    BY DEF Init
  <2>3. /\ counter \in 0..MaxOrdinal /\ calls \in 0..MaxCalls /\ begun \in 0..calls
        /\ spends \in 0..(IF Durable THEN calls ELSE 1)
    BY DEF Init
  <2> QED
    BY <2>1, <2>2, <2>3 DEF Init, TypeOK
<1>7. Drawn
  BY <1>3 DEF Init, Drawn
<1> QED
  BY <1>2, <1>5, <1>6, <1>7 DEF CallInv

(* CallsFit.  What each store and each call in progress hold.              *)
THEOREM CallsFit == Spec => []CallInv
BY InitFits, StepKeepsCalls, PTL DEF Spec

(* StoreTypesCorrect.  TypeOK: however many threads call the stores, what  *)
(* they hold has its type; in particular the memory store returns the      *)
(* ticket to one caller only.                                              *)
THEOREM StoreTypesCorrect == Spec => []TypeOK
<1>1. CallInv => TypeOK
  BY DEF CallInv
<1> QED
  BY <1>1, CallsFit, PTL

-----------------------------------------------------------------------------
(* Ordinals: no two documents share one, and no line of the log is lost.   *)

LEMMA HoldingFacts ==
    ASSUME CallInv, NEW p \in Threads, Holding(p)
    PROVE  /\ OrdinalOf(p) \in 1..counter /\ OrdinalOf(p) \in Ordinals /\ Durable
           /\ call[p].doc # Nothing <=> call[p].line = NoLine
<1>1. PhaseFits(p) /\ counter \in 0..MaxOrdinal
  BY StoreFacts DEF StoreTypes
<1> QED
  BY <1>1 DEF PhaseFits, Holding, OrdinalOf, InPut, Ordinals

(* OrdinalsKept.  A step that gives no document another ordinal, adds no   *)
(* line and acquires no ordinal keeps the invariant.                       *)
LEMMA OrdinalsKept ==
    ASSUME CallInv, OrdinalInv, NEW p \in Threads, Moved(p),
           UNCHANGED <<counter, audit, begun, kept>>,
           \A d \in Docs : Stored(d)' => Stored(d) /\ rows'[d].ordinal = rows[d].ordinal,
           Holding(p)' => /\ Holding(p) /\ OrdinalOf(p)' = OrdinalOf(p)
                          /\ call'[p].doc = call[p].doc,
           call'[p].line \in {NoLine, call[p].line}
    PROVE  OrdinalInv'
<1>1. \A q \in Threads : q # p => phase'[q] = phase[q] /\ call'[q] = call[q]
  BY DEF Moved
<1>2. \A q \in Threads : Holding(q)' =>
        /\ Holding(q) /\ OrdinalOf(q)' = OrdinalOf(q) /\ call'[q].doc = call[q].doc
  BY <1>1 DEF Holding, OrdinalOf
<1>3. \A q \in Threads : call'[q].line # NoLine => call'[q].line = call[q].line
  BY <1>1
<1>4. OrdinalsDistinct'
  BY DEF OrdinalInv, OrdinalsDistinct
<1>5. OrdinalsOwned'
  BY <1>2 DEF OrdinalInv, OrdinalsOwned, SameDoc
<1>6. LinesOnce'
  BY <1>3 DEF OrdinalInv, LinesOnce
<1>7. KeptLinesStay'
  BY DEF OrdinalInv, KeptLinesStay, Log
<1> QED
  BY <1>4, <1>5, <1>6, <1>7 DEF OrdinalInv

(* A step that stores nothing at all. *)
LEMMA StillKept ==
    ASSUME CallInv, OrdinalInv, NEW p \in Threads, Moved(p),
           UNCHANGED <<counter, rows, audit, begun, kept>>,
           Holding(p)' => /\ Holding(p) /\ OrdinalOf(p)' = OrdinalOf(p)
                          /\ call'[p].doc = call[p].doc,
           call'[p].line \in {NoLine, call[p].line}
    PROVE  OrdinalInv'
BY OrdinalsKept DEF Stored

(* While next_ordinal holds the lock, nobody else makes a statement.       *)
LEMMA NobodyReads ==
    ASSUME SharedConnection, CallInv, NEW p \in Threads, Unlocked(p)
    PROVE  \A q \in Threads \ {p} : Holding(q) => phase[q] = "write"
<1>1. \A q \in Threads : phase[q] = "read" => backend = "sqlite"
  BY StoreFacts DEF PhaseFits
<1> QED
  BY <1>1 DEF Unlocked, SharedConnection, Holding

LEMMA DrawKeepsOrdinals ==
    ASSUME SharedConnection, CallInv, OrdinalInv, NEW p \in Threads, Draw(p)
    PROVE  OrdinalInv'
<1>1. /\ phase[p] = "draw" /\ Unlocked(p) /\ counter' = counter + 1 /\ counter \in Nat
      /\ UNCHANGED <<rows, audit, begun, kept>>
      /\ Moved(p) /\ call[p] \in Call /\ counter + 1 \in Ordinals /\ counter < MaxOrdinal
  BY StoreFacts, DrawFits DEF Draw, At, history, Ordinals, StoreTypes
<1>2. \A q \in Threads : q # p => phase'[q] = phase[q] /\ call'[q] = call[q]
  BY <1>1 DEF Moved
<1>3. OrdinalOf(p)' = counter + 1 /\ call'[p].doc = call[p].doc /\ call'[p].line = call[p].line
  <2>1. phase \in [Threads -> Phases] /\ call \in [Threads -> Call]
    BY DEF CallInv, TypeOK
  <2>2. CASE backend = "sqlite"
    BY <1>1, <2>1, <2>2 DEF Draw, Goto, OrdinalOf
  <2>3. CASE backend # "sqlite"
    <3>1. call' = [call EXCEPT ![p].ordinal = counter + 1] /\ phase'[p] = "write"
      BY <2>1, <2>3 DEF Draw, Goto
    <3>2. call'[p] = [call[p] EXCEPT !.ordinal = counter + 1]
      BY <2>1, <3>1
    <3> QED
      BY <1>1, <3>1, <3>2 DEF OrdinalOf, Call
  <2> QED
    BY <2>2, <2>3
<1>4. \A q \in Threads \ {p} : Holding(q)' =>
        /\ Holding(q) /\ OrdinalOf(q)' = OrdinalOf(q) /\ OrdinalOf(q) \in 1..counter
  <2> SUFFICES ASSUME NEW q \in Threads \ {p}, Holding(q)'
               PROVE  Holding(q) /\ OrdinalOf(q)' = OrdinalOf(q) /\ OrdinalOf(q) \in 1..counter
    OBVIOUS
  <2>1. Holding(q)
    BY <1>2 DEF Holding
  <2>2. phase[q] = "write"
    BY <1>1, <2>1, NobodyReads
  <2> QED
    BY <1>2, <2>1, <2>2, HoldingFacts DEF OrdinalOf
<1>5. /\ audit[counter + 1] = NoLine
      /\ \A d \in Docs : Stored(d) => rows[d].ordinal # counter + 1
  BY <1>1, StoreFacts
<1>6. OrdinalsOwned'
  <2>1. ASSUME NEW q \in Threads, Holding(q)'
        PROVE  /\ audit'[OrdinalOf(q)'] = NoLine
               /\ \A d \in Docs : Stored(d)' /\ rows'[d].ordinal = OrdinalOf(q)' => call'[q].doc = d
    <3>1. CASE q = p
      BY <1>1, <1>3, <1>5, <3>1 DEF Stored
    <3>2. CASE q # p
      BY <1>1, <1>2, <1>4, <2>1, <3>2 DEF OrdinalInv, OrdinalsOwned, Stored
    <3> QED
      BY <3>1, <3>2
  <2>2. ASSUME NEW q \in Threads, NEW r \in Threads, Holding(q)', Holding(r)',
               OrdinalOf(q)' = OrdinalOf(r)'
        PROVE  q = r \/ SameDoc(r, q)'
    <3>1. CASE q = p \/ r = p
      BY <1>1, <1>3, <1>4, <2>2, <3>1
    <3>2. CASE q # p /\ r # p
      BY <1>2, <1>4, <2>2, <3>2 DEF OrdinalInv, OrdinalsOwned, SameDoc
    <3> QED
      BY <3>1, <3>2
  <2> QED
    BY <2>1, <2>2 DEF OrdinalsOwned
<1>7. OrdinalsDistinct' /\ KeptLinesStay'
  BY <1>1 DEF OrdinalInv, OrdinalsDistinct, Stored, KeptLinesStay, Log
<1>8. LinesOnce'
  <2>1. \A q \in Threads : call'[q].line = call[q].line
    BY <1>2, <1>3
  <2> QED
    BY <1>1, <2>1 DEF OrdinalInv, LinesOnce
<1> QED
  BY <1>6, <1>7, <1>8 DEF OrdinalInv

LEMMA ReadOrdinalKeepsOrdinals ==
    ASSUME CallInv, OrdinalInv, NEW p \in Threads, ReadOrdinal(p)
    PROVE  OrdinalInv'
<1>1. /\ phase[p] = "read" /\ Moved(p) /\ call[p] \in Call
      /\ UNCHANGED <<counter, rows, audit, begun, kept>>
      /\ phase \in [Threads -> Phases] /\ call \in [Threads -> Call]
  BY StoreFacts, ReadOrdinalFits, TypeParts DEF ReadOrdinal, durable, history, CallInv
<1>2. phase'[p] = "write" /\ call'[p] = [call[p] EXCEPT !.ordinal = counter]
  BY <1>1 DEF ReadOrdinal, Goto
<1>3. call'[p].ordinal = counter /\ call'[p].doc = call[p].doc /\ call'[p].line = call[p].line
  BY <1>1, <1>2 DEF Call
<1>4. Holding(p) /\ OrdinalOf(p)' = OrdinalOf(p)
  BY <1>1, <1>2, <1>3 DEF Holding, OrdinalOf
<1> QED
  BY <1>1, <1>3, <1>4, StillKept

LEMMA FindOrdinalKeepsOrdinals ==
    ASSUME CallInv, OrdinalInv, NEW p \in Threads, FindOrdinal(p)
    PROVE  OrdinalInv'
<1>1. /\ phase[p] = "find" /\ Moved(p) /\ call[p] \in Call /\ call[p].doc # Nothing
      /\ call[p].doc \in Docs /\ UNCHANGED <<counter, rows, audit, begun, kept>>
      /\ phase \in [Threads -> Phases] /\ call \in [Threads -> Call]
  BY StoreFacts, FindOrdinalFits, TypeParts
     DEF FindOrdinal, At, durable, history, CallInv, PhaseFits, Call
<1>2. CASE ~Stored(call[p].doc)
  <2>1. phase'[p] = "draw" /\ call'[p] = call[p]
    BY <1>1, <1>2 DEF FindOrdinal, Goto
  <2> QED
    BY <1>1, <2>1, StillKept DEF Holding
<1>3. CASE Stored(call[p].doc)
  <2>1. phase'[p] = "write" /\ call'[p] = [call[p] EXCEPT !.ordinal = rows[call[p].doc].ordinal]
    BY <1>1, <1>3 DEF FindOrdinal, Goto
  <2>2. /\ call'[p].ordinal = rows[call[p].doc].ordinal /\ call'[p].doc = call[p].doc
        /\ call'[p].line = call[p].line
    BY <1>1, <2>1 DEF Call
  <2>3. Holding(p)' /\ OrdinalOf(p)' = rows[call[p].doc].ordinal
    BY <2>1, <2>2 DEF Holding, OrdinalOf
  <2>4. \A q \in Threads : q # p => phase'[q] = phase[q] /\ call'[q] = call[q]
    BY <1>1 DEF Moved
  <2>5. \A q \in Threads \ {p} : Holding(q)' => Holding(q) /\ OrdinalOf(q)' = OrdinalOf(q)
    BY <1>1, <2>4 DEF Holding, OrdinalOf
  <2>6. OrdinalsOwned'
    <3>1. ASSUME NEW q \in Threads, Holding(q)'
          PROVE  /\ audit'[OrdinalOf(q)'] = NoLine
                 /\ \A d \in Docs : Stored(d)' /\ rows'[d].ordinal = OrdinalOf(q)' => call'[q].doc = d
      <4>1. CASE q = p
        BY <1>1, <1>3, <2>2, <2>3, <4>1 DEF OrdinalInv, OrdinalsDistinct, Stored
      <4>2. CASE q # p
        BY <1>1, <2>4, <2>5, <3>1, <4>2 DEF OrdinalInv, OrdinalsOwned, Stored
      <4> QED
        BY <4>1, <4>2
    <3>2. ASSUME NEW q \in Threads, NEW r \in Threads, Holding(q)', Holding(r)',
                 OrdinalOf(q)' = OrdinalOf(r)'
          PROVE  q = r \/ SameDoc(r, q)'
      <4>1. ASSUME NEW s \in Threads \ {p}, Holding(s)', OrdinalOf(s)' = OrdinalOf(p)'
            PROVE  call'[s].doc = call'[p].doc /\ call'[s].doc # Nothing
        BY <1>1, <1>3, <2>2, <2>3, <3>1, <4>1 DEF Stored
      <4>2. CASE q # p /\ r # p
        BY <2>4, <2>5, <3>2, <4>2 DEF OrdinalInv, OrdinalsOwned, SameDoc
      <4> QED
        BY <3>2, <4>1, <4>2 DEF SameDoc
    <3> QED
      BY <3>1, <3>2 DEF OrdinalsOwned
  <2>7. OrdinalsDistinct' /\ KeptLinesStay'
    BY <1>1 DEF OrdinalInv, OrdinalsDistinct, Stored, KeptLinesStay, Log
  <2>8. LinesOnce'
    <3>1. \A q \in Threads : call'[q].line = call[q].line
      BY <2>2, <2>4
    <3> QED
      BY <1>1, <3>1 DEF OrdinalInv, LinesOnce
  <2> QED
    BY <2>6, <2>7, <2>8 DEF OrdinalInv
<1> QED
  BY <1>2, <1>3

LEMMA WriteRowKeepsOrdinals ==
    ASSUME CallInv, OrdinalInv, NEW p \in Threads, WriteRow(p)
    PROVE  OrdinalInv'
<1> DEFINE d == call[p].doc
           o == call[p].ordinal
<1>1. /\ phase[p] = "write" /\ Moved(p) /\ d \in Docs /\ d # Nothing /\ o \in 1..counter
      /\ call[p].line = NoLine /\ call[p].value \in Values /\ Durable /\ PhaseFits(p)
      /\ Upsert(d, o, call[p].value) /\ NextOfLoad(p) /\ backend' = backend
      /\ UNCHANGED <<counter, audit, begun, kept>> /\ counter \in 0..MaxOrdinal
  BY StoreFacts, WriteRowFits DEF WriteRow, At, PhaseFits, InPut, Call, StoreTypes
<1>2. phase'[p] \in {"idle", "find"} /\ call'[p].line = NoLine
  <2>1. Loading(p) \/ call[p].left = {}
    BY <1>1 DEF PhaseFits, Loading
  <2> QED
    BY <1>1, <2>1, NextOfLoadMoves
<1>3. /\ rows'[d].ordinal = IF Stored(d) /\ backend # "firestore" THEN rows[d].ordinal ELSE o
      /\ \A e \in Docs : e # d => rows'[e] = rows[e]
  BY <1>1, UpsertTypes
<1>4. CASE Stored(d) /\ backend # "firestore"
  BY <1>1, <1>2, <1>3, <1>4, OrdinalsKept DEF Holding, Stored
<1>5. CASE ~(Stored(d) /\ backend # "firestore")
  <2>1. Holding(p) /\ OrdinalOf(p) = o /\ ~Holding(p)'
    BY <1>1, <1>2 DEF Holding, OrdinalOf
  <2>2. audit[o] = NoLine /\ \A e \in Docs : Stored(e) /\ rows[e].ordinal = o => e = d
    BY <2>1 DEF OrdinalInv, OrdinalsOwned
  <2>3. \A q \in Threads : q # p => phase'[q] = phase[q] /\ call'[q] = call[q]
    BY <1>1 DEF Moved
  <2>4. \A e \in Docs : Stored(e)' =>
            \/ e = d /\ rows'[e].ordinal = o
            \/ e # d /\ Stored(e) /\ rows'[e].ordinal = rows[e].ordinal
    BY <1>3, <1>5 DEF Stored
  <2>5. OrdinalsDistinct'
    BY <1>1, <2>2, <2>4 DEF OrdinalInv, OrdinalsDistinct
  <2>6. OrdinalsOwned'
    <3>1. \A q \in Threads : Holding(q)' => /\ q # p /\ Holding(q) /\ OrdinalOf(q)' = OrdinalOf(q)
                                            /\ call'[q] = call[q]
      BY <1>1, <2>1, <2>3 DEF Holding, OrdinalOf
    <3>2. \A q \in Threads : Holding(q) /\ q # p /\ OrdinalOf(q) = o => call[q].doc = d
      BY <2>1 DEF OrdinalInv, OrdinalsOwned, SameDoc
    <3>3. ASSUME NEW q \in Threads, Holding(q)', NEW e \in Docs, Stored(e)',
                 rows'[e].ordinal = OrdinalOf(q)'
          PROVE  call'[q].doc = e
      BY <2>4, <3>1, <3>2, <3>3 DEF OrdinalInv, OrdinalsOwned
    <3>4. ASSUME NEW q \in Threads, Holding(q)'
          PROVE  /\ audit'[OrdinalOf(q)'] = NoLine
                 /\ \A r \in Threads : Holding(r)' /\ OrdinalOf(r)' = OrdinalOf(q)'
                        => r = q \/ SameDoc(q, r)'
      BY <1>1, <3>1, <3>4 DEF OrdinalInv, OrdinalsOwned, SameDoc
    <3> QED
      BY <3>3, <3>4 DEF OrdinalsOwned
  <2>7. LinesOnce'
    BY <1>1, <1>2, <2>3 DEF OrdinalInv, LinesOnce
  <2>8. KeptLinesStay'
    BY <1>1 DEF OrdinalInv, KeptLinesStay, Log
  <2> QED
    BY <2>5, <2>6, <2>7, <2>8 DEF OrdinalInv
<1> QED
  BY <1>4, <1>5

LEMMA WriteLineKeepsOrdinals ==
    ASSUME CallInv, OrdinalInv, NEW p \in Threads, WriteLine(p)
    PROVE  OrdinalInv'
<1> DEFINE l == call[p].line
           o == call[p].ordinal
<1>1. /\ phase[p] = "write" /\ l # NoLine /\ call[p].doc = Nothing /\ Return(p) /\ Moved(p)
      /\ o \in Ordinals /\ audit' = [audit EXCEPT ![o] = l] /\ kept' = kept \cup {l}
      /\ UNCHANGED <<counter, rows, begun>> /\ l \in Lines /\ call[p] \in Call
      /\ audit \in [Ordinals -> Lines \cup {NoLine}] /\ Nothing \notin Docs
  <2>1. /\ phase[p] = "write" /\ l # NoLine /\ Return(p) /\ Moved(p)
        /\ audit' = [audit EXCEPT ![o] = l] /\ kept' = kept \cup {l}
        /\ UNCHANGED <<counter, rows, begun>>
    BY WriteLineFits DEF WriteLine, At
  <2>2. PhaseFits(p) /\ call[p] \in Call /\ StoreTypes
    BY StoreFacts
  <2>3. o \in 1..counter /\ counter \in 0..MaxOrdinal /\ call[p].doc = Nothing
    BY <2>1, <2>2 DEF PhaseFits, StoreTypes, InPut
  <2>4. l \in Lines
    BY <2>1, <2>2 DEF Call
  <2> HIDE DEF l, o
  <2> QED
    BY <2>1, <2>2, <2>3, <2>4, Basics DEF StoreTypes, Ordinals
<1>2. phase'[p] = "idle" /\ call'[p].line = NoLine
  BY <1>1, ReturnMoves, Basics
<1>3. Holding(p) /\ OrdinalOf(p) = o
  BY <1>1 DEF Holding, OrdinalOf
<1>4. /\ audit[o] = NoLine
      /\ \A d \in Docs : Stored(d) => rows[d].ordinal # o
      /\ \A q \in Threads \ {p} : Holding(q) => OrdinalOf(q) # o
  BY <1>1, <1>3 DEF OrdinalInv, OrdinalsOwned, SameDoc
<1>5. audit'[o] = l /\ \A u \in Ordinals : u # o => audit'[u] = audit[u]
  BY <1>1
<1>6. \A q \in Threads : q # p => phase'[q] = phase[q] /\ call'[q] = call[q]
  BY <1>1 DEF Moved
<1>7. l =< begun /\ (\A u \in Ordinals : audit[u] # l) /\ \A q \in Threads : call[q].line = l => q = p
  BY <1>1 DEF OrdinalInv, LinesOnce
<1> HIDE DEF l, o
<1>8. OrdinalsDistinct'
  <2>1. \A d \in Docs : Stored(d) => rows[d].ordinal \in Ordinals
    BY StoreFacts, Basics
  <2> QED
    BY <1>1, <1>4, <1>5, <2>1 DEF OrdinalInv, OrdinalsDistinct, Stored
<1>9. OrdinalsOwned'
  <2>1. \A q \in Threads : Holding(q)' =>
            /\ q # p /\ Holding(q) /\ OrdinalOf(q)' = OrdinalOf(q) /\ OrdinalOf(q) \in Ordinals
            /\ OrdinalOf(q) # o /\ call'[q] = call[q]
    BY <1>1, <1>2, <1>4, <1>6, HoldingFacts DEF Holding, OrdinalOf
  <2> QED
    BY <1>1, <1>5, <2>1 DEF OrdinalInv, OrdinalsOwned, SameDoc, Stored
<1>10. LinesOnce'
  <2>1. \A u, w \in Ordinals : audit'[u] # NoLine /\ audit'[u] = audit'[w] => u = w
    BY <1>5, <1>7 DEF OrdinalInv, LinesOnce
  <2>2. \A u \in Ordinals : audit'[u] =< begun'
    BY <1>1, <1>5, <1>7 DEF OrdinalInv, LinesOnce
  <2>3. ASSUME NEW q \in Threads, call'[q].line # NoLine
        PROVE  /\ call'[q].line =< begun'
               /\ \A u \in Ordinals : audit'[u] # call'[q].line
               /\ \A r \in Threads : call'[r].line = call'[q].line => r = q
    <3>1. q # p /\ call'[q] = call[q] /\ call[q].line # l
      BY <1>2, <1>6, <1>7, <2>3
    <3> QED
      BY <1>1, <1>2, <1>5, <1>6, <2>3, <3>1 DEF OrdinalInv, LinesOnce
  <2> QED
    BY <2>1, <2>2, <2>3 DEF LinesOnce
<1>11. KeptLinesStay'
  <2>1. Log \cup {l} \subseteq Log'
    BY <1>1, <1>4, <1>5 DEF Log
  <2> QED
    BY <1>1, <2>1 DEF OrdinalInv, KeptLinesStay
<1> QED
  BY <1>8, <1>9, <1>10, <1>11 DEF OrdinalInv

(* On the memory store nobody holds an ordinal between two statements.     *)
LEMMA NobodyHolds ==
    ASSUME CallInv, ~Durable
    PROVE  \A q \in Threads : ~Holding(q) /\ call[q].line = NoLine
BY StoreFacts DEF PhaseFits, Holding, InPut

LEMMA AppendKeepsOrdinals ==
    ASSUME CallInv, OrdinalInv, NEW p \in Threads, Append(p)
    PROVE  OrdinalInv'
<1>1. /\ phase[p] = "idle" /\ begun' = begun + 1 /\ rows' = rows /\ backend' = backend
      /\ Moved(p) /\ CallInv' /\ call[p] \in Call /\ begun \in Nat /\ counter \in Nat
      /\ audit \in [Ordinals -> Lines \cup {NoLine}]
      /\ phase \in [Threads -> Phases] /\ call \in [Threads -> Call]
  BY StoreFacts, AppendFits, TypeParts DEF Append, Starts, At, StoreTypes, CallInv
<1>2. \A q \in Threads : q # p => phase'[q] = phase[q] /\ call'[q] = call[q]
  BY <1>1 DEF Moved
<1>3. CASE Durable
  <2>1. /\ call' = [call EXCEPT ![p].line = begun + 1] /\ phase'[p] = "draw"
        /\ UNCHANGED <<counter, audit, kept>>
    BY <1>1, <1>3 DEF Append, Goto
  <2>2. call'[p] = [call[p] EXCEPT !.line = begun + 1]
    BY <1>1, <2>1
  <2>3. call'[p].line = begun + 1
    BY <1>1, <2>2 DEF Call
  <2>4. \A q \in Threads : Holding(q)' => /\ Holding(q) /\ OrdinalOf(q)' = OrdinalOf(q)
                                          /\ call'[q] = call[q]
    BY <1>2, <2>1 DEF Holding, OrdinalOf
  <2>5. OrdinalsOwned'
    BY <1>1, <2>1, <2>4 DEF OrdinalInv, OrdinalsOwned, SameDoc, Stored
  <2>6. OrdinalsDistinct' /\ KeptLinesStay'
    BY <1>1, <2>1 DEF OrdinalInv, OrdinalsDistinct, Stored, KeptLinesStay, Log
  <2>7. LinesOnce'
    <3>1. \A o \in Ordinals : audit[o] \in Nat /\ audit[o] =< begun
      BY <1>1 DEF OrdinalInv, LinesOnce, Lines, NoLine
    <3>2. \A q \in Threads : call[q].line \in Nat /\ call[q].line =< begun
      BY <1>1 DEF OrdinalInv, LinesOnce, Call, Lines, NoLine
    <3>3. \A o \in Ordinals : audit'[o] =< begun' /\ audit'[o] # begun + 1
      BY <1>1, <2>1, <3>1
    <3>4. \A q \in Threads : q # p => /\ call'[q].line =< begun' /\ call'[q].line # begun + 1
                                      /\ call'[q].line = call[q].line
      BY <1>1, <1>2, <3>2
    <3>5. call'[p].line =< begun'
      BY <1>1, <2>3
    <3> QED
      BY <2>1, <2>3, <3>3, <3>4, <3>5 DEF OrdinalInv, LinesOnce
  <2> QED
    BY <2>5, <2>6, <2>7 DEF OrdinalInv
<1>4. CASE ~Durable
  <2>1. /\ counter < MaxOrdinal /\ counter' = counter + 1
        /\ audit' = [audit EXCEPT ![counter + 1] = begun + 1]
        /\ kept' = kept \cup {begun + 1}
    BY <1>4 DEF Append
  <2>2. /\ counter + 1 \in Ordinals /\ audit[counter + 1] = NoLine
        /\ \A d \in Docs : Stored(d) => /\ rows[d].ordinal # counter + 1
                                        /\ rows[d].ordinal \in Ordinals
    <3>1. counter + 1 \in Ordinals
      BY <1>1, <2>1 DEF Ordinals
    <3> QED
      BY <1>1, <3>1, StoreFacts, Basics
  <2>3. audit'[counter + 1] = begun + 1 /\ \A o \in Ordinals : o # counter + 1 => audit'[o] = audit[o]
    BY <1>1, <2>1, <2>2
  <2>4. \A q \in Threads : ~Holding(q)' /\ call'[q].line = NoLine
    <3>1. Durable' = Durable
      BY <1>1 DEF Durable
    <3>2. \A q \in Threads : PhaseFits(q)'
      BY <1>1 DEF CallInv
    <3> QED
      BY <1>4, <3>1, <3>2 DEF PhaseFits, Holding, InPut
  <2>5. OrdinalsOwned'
    BY <2>4 DEF OrdinalsOwned
  <2>6. OrdinalsDistinct'
    BY <1>1, <2>2, <2>3 DEF OrdinalInv, OrdinalsDistinct, Stored
  <2>7. LinesOnce'
    <3>1. \A o \in Ordinals : audit[o] \in Nat /\ audit[o] =< begun
      BY <1>1 DEF OrdinalInv, LinesOnce, Lines, NoLine
    <3>2. \A o \in Ordinals : audit'[o] =< begun'
      BY <1>1, <2>3, <3>1
    <3>3. \A o, q \in Ordinals : audit'[o] # NoLine /\ audit'[o] = audit'[q] => o = q
      <4>1. \A o \in Ordinals : audit[o] # begun + 1
        BY <1>1, <3>1
      <4> QED
        BY <2>3, <4>1 DEF OrdinalInv, LinesOnce
    <3> QED
      BY <2>4, <3>2, <3>3 DEF LinesOnce
  <2>8. KeptLinesStay'
    <3>1. begun + 1 # NoLine
      BY <1>1 DEF NoLine
    <3>2. Log \cup {begun + 1} \subseteq Log'
      BY <2>2, <2>3, <3>1 DEF Log
    <3> QED
      BY <2>1, <3>2 DEF OrdinalInv, KeptLinesStay
  <2> QED
    BY <2>5, <2>6, <2>7, <2>8 DEF OrdinalInv
<1> QED
  BY <1>3, <1>4

(* RowsOfMemory.  The rows of the memory store, whoever writes them.       *)
LEMMA RowsOfMemory ==
    ASSUME CallInv, OrdinalInv, CallInv', ~Durable, backend' = backend,
           UNCHANGED <<audit, begun, kept, call>>,
           \A d \in Docs : Stored(d)' =>
                \/ Stored(d) /\ rows'[d].ordinal = rows[d].ordinal
                \/ rows'[d].ordinal \in Ordinals /\ rows'[d].ordinal > counter,
           \A d, e \in Docs : /\ Stored(d)' /\ Stored(e)' /\ rows'[d].ordinal = rows'[e].ordinal
                              /\ rows'[d].ordinal > counter
                              => d = e
    PROVE  OrdinalInv'
<1>1. Durable' = Durable
  BY DEF Durable
<1>2. OrdinalsOwned'
  <2>1. \A q \in Threads : PhaseFits(q)'
    BY DEF CallInv
  <2> QED
    BY <1>1, <2>1 DEF OrdinalsOwned, PhaseFits, Holding
<1>3. LinesOnce' /\ KeptLinesStay'
  BY DEF OrdinalInv, LinesOnce, KeptLinesStay, Log
<1>4. OrdinalsDistinct'
  <2>1. \A d \in Docs : Stored(d) => rows[d].ordinal \in 1..counter
    BY StoreFacts
  <2>2. \A o \in Ordinals : o > counter => audit[o] = NoLine
    BY StoreFacts DEF Ordinals
  <2>3. \A d \in Docs : Stored(d)' => audit'[rows'[d].ordinal] = NoLine
    BY <2>2 DEF OrdinalInv, OrdinalsDistinct
  <2>4. ASSUME NEW d \in Docs, NEW e \in Docs, Stored(d)', Stored(e)',
               rows'[d].ordinal = rows'[e].ordinal
        PROVE  d = e
    <3>1. CASE rows'[d].ordinal > counter
      BY <2>4, <3>1
    <3>2. CASE ~(rows'[d].ordinal > counter)
      BY <2>4, <3>2 DEF OrdinalInv, OrdinalsDistinct
    <3> QED
      BY <3>1, <3>2
  <2> QED
    BY <2>3, <2>4 DEF OrdinalsDistinct
<1> QED
  BY <1>2, <1>3, <1>4 DEF OrdinalInv

LEMMA SaveDraftKeepsOrdinals ==
    ASSUME CallInv, OrdinalInv, NEW p \in Threads, NEW f \in Forms, NEW v \in Values,
           SaveDraft(p, f, v)
    PROVE  OrdinalInv'
<1>1. /\ Moved(p) /\ CallInv' /\ call[p] \in Call /\ f \in Docs /\ phase[p] = "idle"
      /\ UNCHANGED <<backend, audit, begun, kept>>
      /\ phase \in [Threads -> Phases] /\ call \in [Threads -> Call]
  BY StoreFacts, SaveDraftFits, TypeParts
     DEF SaveDraft, Starts, At, history, Docs, CallInv
<1>2. CASE Durable
  <2>1. /\ phase'[p] = "find" /\ call'[p] = [call[p] EXCEPT !.doc = f, !.value = v]
        /\ UNCHANGED <<counter, rows>>
    BY <1>1, <1>2 DEF SaveDraft, Goto
  <2>2. call'[p].line = call[p].line
    BY <1>1, <2>1 DEF Call
  <2> QED
    BY <1>1, <2>1, <2>2, StillKept DEF Holding
<1>3. CASE ~Durable
  <2>1. /\ Stored(f) \/ counter < MaxOrdinal
        /\ Upsert(f, counter + 1, v) /\ UNCHANGED <<phase, call>>
        /\ backend = "memory" /\ counter \in Nat /\ MaxOrdinal \in Nat
        /\ rows \in [Docs -> Row \cup {NoRow}]
    BY <1>3, StoreFacts DEF SaveDraft, StoreTypes, Durable, Backends
  <2>2. \A e \in Docs : e # f => rows'[e] = rows[e]
    BY <2>1 DEF Upsert
  <2>3. Stored(f) => rows'[f].ordinal = rows[f].ordinal
    <3>1. Stored(f) => rows'[f] = [rows[f] EXCEPT !.value = v] /\ rows[f] \in Row
      BY <1>1, <2>1 DEF Upsert, Stored
    <3> QED
      BY <3>1 DEF Row
  <2>4. ~Stored(f) => rows'[f].ordinal = counter + 1 /\ counter + 1 \in Ordinals
    BY <1>1, <2>1 DEF Upsert, Ordinals
  <2>5. \A e \in Docs : Stored(e) => rows[e].ordinal \in 1..counter
    BY StoreFacts
  <2>6. \A e \in Docs : Stored(e)' =>
            \/ Stored(e) /\ rows'[e].ordinal = rows[e].ordinal
            \/ e = f /\ rows'[e].ordinal \in Ordinals /\ rows'[e].ordinal > counter
    BY <2>1, <2>2, <2>3, <2>4 DEF Stored
  <2>7. \A d, e \in Docs : /\ Stored(d)' /\ Stored(e)' /\ rows'[d].ordinal = rows'[e].ordinal
                           /\ rows'[d].ordinal > counter
                           => d = e
    BY <2>1, <2>5, <2>6
  <2> QED
    BY <1>1, <1>3, <2>1, <2>6, <2>7, RowsOfMemory
<1> QED
  BY <1>2, <1>3

LEMMA LoadInstitutionsKeepsOrdinals ==
    ASSUME CallInv, OrdinalInv, NEW p \in Threads, NEW set \in (SUBSET Institutions) \ {{}},
           LoadInstitutions(p, set)
    PROVE  OrdinalInv'
<1>1. /\ Moved(p) /\ CallInv' /\ call[p] \in Call /\ phase[p] = "idle"
      /\ UNCHANGED <<backend, audit, begun, kept>>
      /\ phase \in [Threads -> Phases] /\ call \in [Threads -> Call]
  BY StoreFacts, LoadInstitutionsFits, TypeParts DEF LoadInstitutions, Starts, At, CallInv
<1>2. CASE Durable
  <2>1. /\ phase'[p] = "clear" /\ call'[p] = [call[p] EXCEPT !.set = set, !.left = set]
        /\ UNCHANGED <<counter, rows>>
    BY <1>1, <1>2 DEF LoadInstitutions, Goto
  <2>2. call'[p].line = call[p].line
    BY <1>1, <2>1 DEF Call
  <2> QED
    BY <1>1, <2>1, <2>2, StillKept DEF Holding
<1>3. CASE ~Durable
  <2>1. counter + Cardinality(set) =< MaxOrdinal /\ UNCHANGED <<phase, call>>
    BY <1>3 DEF LoadInstitutions
  <2>2. PICK n \in [set -> counter + 1..counter + Cardinality(set)], v \in Values :
            /\ \A j, k \in set : n[j] = n[k] => j = k
            /\ rows' = [d \in Docs |->
                        CASE d \in Forms -> rows[d]
                          [] d \in set -> [ordinal |-> n[d], value |-> v]
                          [] OTHER -> NoRow]
    BY <1>3 DEF LoadInstitutions
  <2>3. Cardinality(set) \in Nat /\ counter \in Nat /\ MaxOrdinal \in Nat
    BY FS_Subset, FS_CardinalityType, StoreFacts
  <2>4. \A d \in set : n[d] \in Ordinals /\ n[d] > counter
    BY <2>1, <2>3 DEF Ordinals
  <2>5. \A d \in Docs : Stored(d)' =>
            \/ d \in Forms /\ rows'[d] = rows[d]
            \/ d \in set /\ d \notin Forms /\ rows'[d].ordinal = n[d]
    <3> SUFFICES ASSUME NEW d \in Docs, Stored(d)'
                 PROVE  \/ d \in Forms /\ rows'[d] = rows[d]
                        \/ d \in set /\ d \notin Forms /\ rows'[d].ordinal = n[d]
      OBVIOUS
    <3>1. CASE d \in Forms
      BY <2>2, <3>1
    <3>2. CASE d \in set /\ d \notin Forms
      BY <2>2, <3>2
    <3>3. CASE d \notin set /\ d \notin Forms
      <4>1. rows'[d] = NoRow
        BY <2>2, <3>3
      <4> QED
        BY <4>1 DEF Stored
    <3> QED
      BY <3>1, <3>2, <3>3
  <2>6. \A d \in Docs : Stored(d) => rows[d].ordinal \in 1..counter
    BY StoreFacts
  <2>7. \A d \in Docs : Stored(d)' =>
            \/ Stored(d) /\ rows'[d].ordinal = rows[d].ordinal
            \/ rows'[d].ordinal \in Ordinals /\ rows'[d].ordinal > counter
    BY <2>4, <2>5 DEF Stored
  <2>8. \A d, e \in Docs : /\ Stored(d)' /\ Stored(e)' /\ rows'[d].ordinal = rows'[e].ordinal
                           /\ rows'[d].ordinal > counter
                           => d = e
    <3>1. \A d \in Docs : Stored(d)' /\ rows'[d].ordinal > counter =>
                d \in set /\ rows'[d].ordinal = n[d]
      BY <2>3, <2>5, <2>6 DEF Stored
    <3> QED
      BY <2>2, <3>1
  <2> QED
    BY <1>1, <1>3, <2>1, <2>7, <2>8, RowsOfMemory
<1> QED
  BY <1>2, <1>3

LEMMA ClearRegistryKeepsOrdinals ==
    ASSUME CallInv, OrdinalInv, NEW p \in Threads, ClearRegistry(p)
    PROVE  OrdinalInv'
<1>1. /\ phase[p] = "clear" /\ PhaseFits(p) /\ call[p] \in Call /\ Durable /\ Loading(p)
      /\ UNCHANGED <<backend, counter, audit, begun, kept>> /\ Moved(p) /\ call[p].line = NoLine
      /\ phase \in [Threads -> Phases] /\ call \in [Threads -> Call]
  BY StoreFacts, ClearRegistryFits, TypeParts DEF ClearRegistry, At, PhaseFits, InPut, CallInv
<1>2. CASE backend = "sqlite"
  <2>1. rows' = [d \in Docs |-> IF d \in Institutions THEN NoRow ELSE rows[d]] /\ NextOfLoad(p)
    BY <1>2 DEF ClearRegistry
  <2>2. phase'[p] \in {"idle", "find"} /\ call'[p].line = NoLine
    BY <1>1, <2>1, NextOfLoadMoves
  <2>3. \A d \in Docs : Stored(d)' => Stored(d) /\ rows'[d].ordinal = rows[d].ordinal
    BY <2>1 DEF Stored
  <2> QED
    BY <1>1, <2>2, <2>3, OrdinalsKept DEF Holding
<1>3. CASE backend # "sqlite"
  <2>1. /\ phase'[p] = "delete" /\ call'[p] = [call[p] EXCEPT !.doomed = Registry] /\ rows' = rows
    BY <1>1, <1>3 DEF ClearRegistry, Goto
  <2>2. call'[p].line = call[p].line
    BY <1>1, <2>1 DEF Call
  <2> QED
    BY <1>1, <2>1, <2>2, StillKept DEF Holding
<1> QED
  BY <1>2, <1>3

LEMMA DeleteInstitutionKeepsOrdinals ==
    ASSUME CallInv, OrdinalInv, NEW p \in Threads, DeleteInstitution(p)
    PROVE  OrdinalInv'
<1>1. /\ phase[p] = "delete" /\ PhaseFits(p) /\ call[p] \in Call /\ Durable /\ Loading(p)
      /\ UNCHANGED <<backend, counter, audit, begun, kept>> /\ Moved(p) /\ call[p].line = NoLine
      /\ call \in [Threads -> Call] /\ rows \in [Docs -> Row \cup {NoRow}]
  BY StoreFacts, DeleteInstitutionFits, TypeParts
     DEF DeleteInstitution, PhaseFits, InPut, CallInv, StoreTypes
<1>2. CASE call[p].doomed = {}
  <2>1. NextOfLoad(p) /\ rows' = rows
    BY <1>2 DEF DeleteInstitution
  <2>2. phase'[p] \in {"idle", "find"} /\ call'[p].line = NoLine
    BY <1>1, <2>1, NextOfLoadMoves
  <2> QED
    BY <1>1, <2>1, <2>2, StillKept DEF Holding
<1>3. CASE call[p].doomed # {}
  <2>1. PICK i \in call[p].doomed :
            /\ rows' = [rows EXCEPT ![i] = NoRow]
            /\ call' = [call EXCEPT ![p].doomed = @ \ {i}]
            /\ phase' = phase
    BY <1>3 DEF DeleteInstitution
  <2>2. call'[p] = [call[p] EXCEPT !.doomed = call[p].doomed \ {i}]
    BY <1>1, <2>1
  <2>3. call'[p].line = call[p].line
    BY <1>1, <2>2 DEF Call
  <2>4. \A d \in Docs : Stored(d)' => Stored(d) /\ rows'[d].ordinal = rows[d].ordinal
    BY <1>1, <2>1 DEF Stored
  <2> QED
    BY <1>1, <2>1, <2>3, <2>4, OrdinalsKept DEF Holding
<1> QED
  BY <1>2, <1>3

LEMMA PublishKeepsOrdinals ==
    ASSUME SharedConnection, CallInv, OrdinalInv, NEW p \in Threads, Publish(p)
    PROVE  OrdinalInv'
<1>1. /\ phase[p] = "staged" /\ Unlocked(p) /\ call[p] \in Call /\ Moved(p) /\ counter \in Nat
      /\ phase \in [Threads -> Phases] /\ call \in [Threads -> Call] /\ backend' = backend
  BY StoreFacts, PublishFits, TypeParts DEF Publish, At, CallInv
<1>2. CASE ~(analyzing /\ Unchanged(p))
  <2>1. Goto(p, "release") /\ UNCHANGED <<counter, rows, audit, call, begun, kept>>
    BY <1>2 DEF Publish
  <2>2. phase'[p] = "release"
    BY <1>1, <2>1 DEF Goto
  <2> QED
    BY <1>1, <2>1, <2>2, StillKept DEF Holding
<1>3. CASE analyzing /\ Unchanged(p)
  <2>1. PICK f \in Forms, v \in Values : LastOrdinal(p, f) =< MaxOrdinal /\ Replace(p, f, v)
    BY <1>3 DEF Publish
  <2> DEFINE first == FirstLine(p, f)
             last == LastOrdinal(p, f)
             staged == StagedDrafts(p, f)
             place(d) == DraftPlace(p, d)
             draft(d) == NewDraftOrdinal(p, f, d)
             line(o) == NewLineOrdinal(p, f, o)
  <2>2. begun' = begun + 1 /\ kept' = kept \cup {begun + 1} /\ Return(p)
    BY <1>3 DEF Publish
  <2>3. begun + 1 \in Lines /\ begun \in Nat
    BY <1>3, StoreFacts DEF Lines
  <2>4. /\ counter' = last /\ last \in Ordinals
        /\ \A d \in staged : rows'[d].ordinal = draft(d)
        /\ \A d \in Docs \ staged : rows'[d] = rows[d]
        /\ audit'[last] = begun + 1
        /\ \A q \in StagedLines(p) : line(q) \in Ordinals /\ audit'[line(q)] = call[p].audit[q]
        /\ \A o \in Ordinals : audit'[o] # NoLine =>
                \/ o = last /\ audit'[o] = begun + 1
                \/ \E q \in StagedLines(p) : o = line(q) /\ audit'[o] = call[p].audit[q]
    BY <2>1, <2>3, Published
  <2>5. /\ first \in Nat /\ last \in Nat /\ counter =< first /\ first < last
        /\ \A d \in staged : place(d) \in Nat /\ draft(d) \in counter + 1..first
        /\ \A d, e \in staged : place(d) < place(e) => draft(d) < draft(e)
        /\ \A o \in StagedLines(p) : line(o) \in first + 1..last - 1
    BY NewOrdinals
  <2>6. /\ call[p].audit = audit
        /\ \A q \in StagedLines(p) : q \in Ordinals /\ audit[q] # NoLine
        /\ \A q \in Ordinals : audit[q] # NoLine => q \in StagedLines(p)
        /\ \A g \in Forms : call[p].rows[g] = rows[g]
    BY <1>3 DEF Unchanged, StagedLines
  <2>7. \A d \in staged : /\ d \in Forms /\ d \in Docs /\ (Stored(d) \/ d = f)
                          /\ place(d) = IF Stored(d) THEN rows[d].ordinal ELSE MaxOrdinal + 1
    BY <2>6 DEF StagedDrafts, DraftPlace, Stored, Docs
  <2>8. \A d, e \in staged : place(d) = place(e) => d = e
    <3>1. \A d \in Docs : Stored(d) => rows[d].ordinal < MaxOrdinal + 1
      BY StoreFacts DEF StoreTypes
    <3> QED
      BY <2>7, <3>1 DEF OrdinalInv, OrdinalsDistinct
  <2> HIDE DEF first, last, staged, place, draft, line
  <2>9. \A d, e \in staged : draft(d) = draft(e) => d = e
    BY <2>5, <2>8
  <2>10. \A d \in Docs : Stored(d)' =>
            \/ d \in staged /\ rows'[d].ordinal \in counter + 1..first
            \/ d \notin staged /\ Stored(d) /\ rows'[d] = rows[d] /\ rows[d].ordinal \in 1..counter
    BY <2>4, <2>5, StoreFacts DEF Stored
  <2>11. \A o \in Ordinals : o =< first => audit'[o] = NoLine
    BY <2>4, <2>5
  <2>12. \A q \in Threads : q # p => phase'[q] = phase[q] /\ call'[q] = call[q]
    BY <1>1 DEF Moved
  <2>13. phase'[p] = "idle" /\ call'[p].line = NoLine
    BY <2>2, ReturnMoves, Basics
  <2>14. OrdinalsDistinct'
    <3>1. ASSUME NEW d \in Docs, Stored(d)' PROVE audit'[rows'[d].ordinal] = NoLine
      <4>1. rows'[d].ordinal \in Ordinals /\ rows'[d].ordinal =< first
        BY <1>1, <2>4, <2>5, <2>10, <3>1 DEF Ordinals
      <4> QED
        BY <2>11, <4>1
    <3>2. ASSUME NEW d \in Docs, NEW e \in Docs, Stored(d)', Stored(e)',
                 rows'[d].ordinal = rows'[e].ordinal
          PROVE  d = e
      <4>1. CASE d \in staged /\ e \in staged
        BY <2>4, <2>9, <3>2, <4>1
      <4>2. CASE d \notin staged /\ e \notin staged
        BY <2>10, <3>2, <4>2 DEF OrdinalInv, OrdinalsDistinct
      <4>3. CASE ~(d \in staged <=> e \in staged)
        BY <1>1, <2>5, <2>10, <3>2, <4>3
      <4> QED
        BY <4>1, <4>2, <4>3
    <3> QED
      BY <3>1, <3>2 DEF OrdinalsDistinct
  <2>15. OrdinalsOwned'
    <3>1. ASSUME NEW q \in Threads, Holding(q)'
          PROVE  /\ q # p /\ Holding(q) /\ OrdinalOf(q)' = OrdinalOf(q) /\ call'[q] = call[q]
                 /\ OrdinalOf(q) \in 1..counter /\ OrdinalOf(q) \in Ordinals
      <4>1. q # p /\ Holding(q)
        BY <2>12, <2>13, <3>1 DEF Holding
      <4>2. phase[q] = "write"
        BY <1>1, <4>1, NobodyReads
      <4> QED
        BY <2>12, <4>1, <4>2, HoldingFacts DEF OrdinalOf
    <3>2. ASSUME NEW q \in Threads, Holding(q)'
          PROVE  /\ audit'[OrdinalOf(q)'] = NoLine
                 /\ \A d \in Docs : Stored(d)' /\ rows'[d].ordinal = OrdinalOf(q)' => call'[q].doc = d
      <4>1. audit'[OrdinalOf(q)'] = NoLine
        BY <1>1, <2>5, <2>11, <3>1, <3>2
      <4>2. ASSUME NEW d \in Docs, Stored(d)', rows'[d].ordinal = OrdinalOf(q)'
            PROVE  call'[q].doc = d
        <5>1. Stored(d) /\ rows[d].ordinal = OrdinalOf(q)
          BY <1>1, <2>5, <2>10, <3>1, <3>2, <4>2
        <5>2. Holding(q) /\ call'[q] = call[q] /\ OrdinalsOwned
          BY <3>1, <3>2 DEF OrdinalInv
        <5>3. call[q].doc = d
          BY <5>1, <5>2 DEF OrdinalsOwned
        <5> QED
          BY <5>2, <5>3
      <4> QED
        BY <4>1, <4>2
    <3>3. ASSUME NEW q \in Threads, NEW r \in Threads, Holding(q)', Holding(r)',
                 OrdinalOf(r)' = OrdinalOf(q)'
          PROVE  r = q \/ SameDoc(q, r)'
      <4>1. /\ Holding(q) /\ Holding(r) /\ OrdinalOf(r) = OrdinalOf(q) /\ OrdinalsOwned
            /\ call'[q] = call[q] /\ call'[r] = call[r]
        BY <3>1, <3>3 DEF OrdinalInv
      <4>2. r = q \/ SameDoc(q, r)
        BY <4>1 DEF OrdinalsOwned
      <4> QED
        BY <4>1, <4>2 DEF SameDoc
    <3> QED
      BY <3>2, <3>3 DEF OrdinalsOwned
  <2>16. \A o \in Ordinals : audit[o] \in Nat /\ audit[o] =< begun
    BY StoreFacts DEF OrdinalInv, LinesOnce, StoreTypes, Lines, NoLine
  <2>17. \A o \in Ordinals : audit'[o] # NoLine =>
            \/ o = last /\ audit'[o] = begun + 1
            \/ \E q \in StagedLines(p) : /\ o = line(q) /\ audit'[o] = audit[q]
                                         /\ audit[q] \in 0..begun
    BY <2>3, <2>4, <2>6, <2>16
  <2>18. LinesOnce'
    <3>1. ASSUME NEW o \in Ordinals, NEW q \in Ordinals, audit'[o] # NoLine, audit'[o] = audit'[q]
          PROVE  o = q
      <4>1. CASE audit'[o] = begun + 1
        <5>1. ASSUME NEW u \in Ordinals, audit'[u] = begun + 1 PROVE u = last
          <6>1. begun + 1 # NoLine /\ begun + 1 \notin 0..begun
            BY <2>3 DEF NoLine
          <6> QED
            BY <2>17, <5>1, <6>1
        <5> QED
          BY <3>1, <4>1, <5>1
      <4>2. CASE audit'[o] # begun + 1
        <5>1. PICK u \in StagedLines(p), w \in StagedLines(p) :
                    o = line(u) /\ audit'[o] = audit[u] /\ q = line(w) /\ audit'[q] = audit[w]
          BY <2>17, <3>1, <4>2
        <5>2. u = w
          BY <2>6, <3>1, <5>1 DEF OrdinalInv, LinesOnce
        <5> QED
          BY <5>1, <5>2
      <4> QED
        BY <4>1, <4>2
    <3>2. \A o \in Ordinals : audit'[o] =< begun'
      BY <2>2, <2>3, <2>17 DEF NoLine
    <3>3. ASSUME NEW q \in Threads, call'[q].line # NoLine
          PROVE  /\ call'[q].line =< begun'
                 /\ \A o \in Ordinals : audit'[o] # call'[q].line
                 /\ \A r \in Threads : call'[r].line = call'[q].line => r = q
      <4>1. q # p /\ call'[q] = call[q] /\ call[q].line # NoLine
        BY <2>12, <2>13, <3>3
      <4>2. call[q].line \in Nat
        BY <1>1 DEF Call, Lines, NoLine
      <4>3. /\ call[q].line =< begun /\ \A o \in Ordinals : audit[o] # call[q].line
            /\ \A r \in Threads : call[r].line = call[q].line => r = q
        BY <4>1 DEF OrdinalInv, LinesOnce
      <4>4. \A o \in Ordinals : audit'[o] # call[q].line
        BY <2>3, <2>6, <2>17, <4>1, <4>2, <4>3
      <4> QED
        BY <2>2, <2>3, <2>12, <2>13, <3>3, <4>1, <4>2, <4>3, <4>4
    <3> QED
      BY <3>1, <3>2, <3>3 DEF LinesOnce
  <2>19. KeptLinesStay'
    <3>1. begun + 1 \in Log'
      BY <2>3, <2>4 DEF Log, NoLine
    <3>2. Log \subseteq Log'
      BY <2>4, <2>6 DEF Log
    <3> QED
      BY <2>2, <3>1, <3>2 DEF OrdinalInv, KeptLinesStay
  <2> QED
    BY <2>14, <2>15, <2>18, <2>19 DEF OrdinalInv
<1> QED
  BY <1>2, <1>3

(* IdleSteps.  The steps of a call that store no document.                 *)
LEMMA IdleStepsKeepOrdinals ==
    ASSUME CallInv, OrdinalInv, NEW p \in Threads,
           Consume(p) \/ ClaimSession(p) \/ Spend(p) \/ Stage(p)
               \/ AnalysisFails(p) \/ Release(p) \/ Fails(p)
    PROVE  OrdinalInv'
<1>1. Moved(p)
  BY ConsumeFits, ClaimSessionFits, SpendFits, StageFits, ToRelease, ReleaseFits, FailsFits
     DEF AnalysisFails
<1>2. UNCHANGED <<counter, rows, audit, begun, kept>>
  BY DEF Consume, ClaimSession, Spend, Stage, AnalysisFails, Release, Fails, durable, history
<1>3. phase \in [Threads -> Phases] /\ call \in [Threads -> Call] /\ call[p] \in Call
  BY StoreFacts, TypeParts DEF CallInv
<1>4. CASE Spend(p) \/ Release(p) \/ Fails(p)
  <2>1. phase'[p] = "idle" /\ call'[p] = NoCall
    BY <1>4, ReturnMoves DEF Spend, Release, Fails
  <2> QED
    BY <1>1, <1>2, <2>1, Basics, StillKept DEF Holding
<1>5. CASE Consume(p) \/ ClaimSession(p) \/ AnalysisFails(p)
  <2>1. phase'[p] \in {"idle", "spend", "stage", "release"} /\ call' = call
    BY <1>3, <1>5 DEF Consume, ClaimSession, AnalysisFails, Goto, Starts, At, history
  <2> QED
    BY <1>1, <1>2, <2>1, StillKept DEF Holding
<1>6. CASE Stage(p)
  <2>1. phase'[p] = "staged"
    BY <1>3, <1>6 DEF Stage, Goto
  <2>2. call'[p] = [call[p] EXCEPT !.rows = [f \in Forms |-> rows[f]], !.audit = audit]
    BY <1>3, <1>6 DEF Stage
  <2>3. call'[p].line = call[p].line
    BY <1>3, <2>2 DEF Call
  <2> QED
    BY <1>1, <1>2, <2>1, <2>3, StillKept DEF Holding
<1> QED
  BY <1>4, <1>5, <1>6

LEMMA StepKeepsOrdinals ==
    ASSUME SharedConnection, CallInv, OrdinalInv, [Next]_vars
    PROVE  OrdinalInv'
<1>1. ASSUME NEW p \in Threads, NEW f \in Forms, NEW v \in Values, SaveDraft(p, f, v)
      PROVE  OrdinalInv'
  BY <1>1, SaveDraftKeepsOrdinals
<1>2. ASSUME NEW p \in Threads, NEW set \in (SUBSET Institutions) \ {{}}, LoadInstitutions(p, set)
      PROVE  OrdinalInv'
  BY <1>2, LoadInstitutionsKeepsOrdinals
<1>3. ASSUME NEW p \in Threads, Append(p) \/ Draw(p) \/ ReadOrdinal(p) \/ FindOrdinal(p)
      PROVE  OrdinalInv'
  BY <1>3, AppendKeepsOrdinals, DrawKeepsOrdinals, ReadOrdinalKeepsOrdinals, FindOrdinalKeepsOrdinals
<1>4. ASSUME NEW p \in Threads, WriteRow(p) \/ WriteLine(p)
      PROVE  OrdinalInv'
  BY <1>4, WriteRowKeepsOrdinals, WriteLineKeepsOrdinals
<1>5. ASSUME NEW p \in Threads, ClearRegistry(p) \/ DeleteInstitution(p) \/ Publish(p)
      PROVE  OrdinalInv'
  BY <1>5, ClearRegistryKeepsOrdinals, DeleteInstitutionKeepsOrdinals, PublishKeepsOrdinals
<1>6. ASSUME NEW p \in Threads,
             Consume(p) \/ ClaimSession(p) \/ Spend(p) \/ Stage(p)
                 \/ AnalysisFails(p) \/ Release(p) \/ Fails(p)
      PROVE  OrdinalInv'
  BY <1>6, IdleStepsKeepOrdinals
<1>7. ASSUME (\E p \in Threads : Look(p)) \/ UNCHANGED vars
      PROVE  OrdinalInv'
  <2>1. UNCHANGED vars
    BY <1>7 DEF Look
  <2> QED
    BY <2>1 DEF vars, durable, history, OrdinalInv, OrdinalsDistinct, OrdinalsOwned, LinesOnce,
                KeptLinesStay, Stored, Log, Holding, OrdinalOf, SameDoc
<1> QED
  BY <1>1, <1>2, <1>3, <1>4, <1>5, <1>6, <1>7 DEF Next

LEMMA InitOrdinals ==
    ASSUME Init
    PROVE  OrdinalInv
<1>1. \A d \in Docs : ~Stored(d)
  BY DEF Init, Stored
<1>2. \A p \in Threads : ~Holding(p) /\ call[p].line = NoLine
  BY Basics DEF Init, Holding
<1>3. \A o \in Ordinals : audit[o] = NoLine
  BY DEF Init
<1>4. begun = 0 /\ kept = {}
  BY DEF Init
<1> QED
  BY <1>1, <1>2, <1>3, <1>4
     DEF OrdinalInv, OrdinalsDistinct, OrdinalsOwned, LinesOnce, KeptLinesStay, NoLine

LEMMA OrdinalsHold == SharedConnection => (Spec => [](CallInv /\ OrdinalInv))
<1>1. SharedConnection /\ CallInv /\ OrdinalInv /\ [Next]_vars => CallInv' /\ OrdinalInv'
  BY StepKeepsCalls, StepKeepsOrdinals
<1>2. Init => CallInv /\ OrdinalInv
  BY InitFits, InitOrdinals
<1>3. SUFFICES ASSUME SharedConnection PROVE Spec => [](CallInv /\ OrdinalInv)
  OBVIOUS
<1>4. CallInv /\ OrdinalInv /\ [Next]_vars => CallInv' /\ OrdinalInv'
  BY <1>1, <1>3
<1> QED
  BY <1>2, <1>4, PTL DEF Spec

(* KeysAreUnique.  OrdinalsDistinct: "unique by construction" (append,     *)
(* store/sqlite.py) holds whatever calls overlap.                          *)
THEOREM KeysAreUnique == SharedConnection => (Spec => []OrdinalsDistinct)
<1>1. CallInv /\ OrdinalInv => OrdinalsDistinct
  BY DEF OrdinalInv
<1> QED
  BY <1>1, OrdinalsHold, PTL

(* LogIsNeverCut.  KeptLinesStay: a publication that deletes the log and   *)
(* writes it anew loses no line that an append has returned.               *)
THEOREM LogIsNeverCut == SharedConnection => (Spec => []KeptLinesStay)
<1>1. CallInv /\ OrdinalInv => KeptLinesStay
  BY DEF OrdinalInv
<1> QED
  BY <1>1, OrdinalsHold, PTL

-----------------------------------------------------------------------------
(* The institution registry. *)

(* LoadsGo.  A step that deletes no institution, after which its call can  *)
(* still be accounted for.                                                 *)
LEMMA LoadsGo ==
    ASSUME CallInv, LoadInv, NEW p \in Threads, Moved(p),
           failed => failed', loaded \subseteq loaded',
           \A i \in Institutions : Stored(i) => Stored(i)',
           ~Loading(p) => ~Loading(p)' /\ loaded' = loaded,
           Deleting(p) \/ Undisturbed(p) =>
                \/ Deleting(p)' \/ Undisturbed(p)'
                \/ failed' \/ \E set \in loaded' : Whole(set)'
    PROVE  LoadInv'
<1>1. \A q \in Threads : q # p => phase'[q] = phase[q] /\ call'[q] = call[q]
  BY DEF Moved
<1>2. \A set : Whole(set) => Whole(set)'
  BY DEF Whole, Registry
<1>3. CASE failed
  BY <1>3 DEF LoadInv
<1>4. CASE loaded = {} /\ \A q \in Threads : ~Loading(q)
  <2>1. \A q \in Threads : ~Loading(q)'
    BY <1>1, <1>4 DEF Loading
  <2> QED
    BY <1>4, <2>1 DEF LoadInv
<1>5. CASE \E set \in loaded : Whole(set)
  BY <1>2, <1>5 DEF LoadInv
<1>6. ASSUME NEW q \in Threads, Deleting(q) \/ Undisturbed(q)
      PROVE  LoadInv'
  <2>1. CASE q = p
    BY <1>6, <2>1 DEF LoadInv
  <2>2. CASE q # p
    <3>1. Loading(q)' = Loading(q) /\ InPut(q)' = InPut(q)
      BY <1>1, <2>2 DEF Loading, InPut
    <3>2. Undisturbed(q) => Undisturbed(q)'
      BY <1>1, <1>2, <2>2, <3>1 DEF Undisturbed
    <3>3. Deleting(q) => Deleting(q)'
      BY <1>1, <2>2, <3>1 DEF Deleting
    <3> QED
      BY <1>6, <3>2, <3>3 DEF LoadInv
  <2> QED
    BY <2>1, <2>2
<1> QED
  BY <1>3, <1>4, <1>5, <1>6 DEF LoadInv

(* A step of a call that is no load. *)
LEMMA OtherCallsGo ==
    ASSUME CallInv, LoadInv, NEW p \in Threads, Moved(p), ~Loading(p), ~Loading(p)',
           failed => failed', loaded' = loaded,
           \A i \in Institutions : Stored(i) => Stored(i)'
    PROVE  LoadInv'
BY LoadsGo DEF Deleting, Undisturbed

(* A statement of put that stores nothing yet. *)
LEMMA PutGoesOn ==
    ASSUME CallInv, LoadInv, NEW p \in Threads, Moved(p), InPut(p), InPut(p)',
           call'[p].set = call[p].set, call'[p].left = call[p].left, call'[p].doc = call[p].doc,
           UNCHANGED <<rows, loaded, failed>>
    PROVE  LoadInv'
<1>1. Loading(p)' = Loading(p) /\ \A set : Whole(set)' = Whole(set)
  BY DEF Loading, Whole, Registry, Stored
<1>2. Undisturbed(p) => Undisturbed(p)'
  BY <1>1 DEF Undisturbed
<1>3. ~Deleting(p)
  BY DEF Deleting, InPut
<1> QED
  BY <1>1, <1>2, <1>3, LoadsGo DEF Stored

LEMMA PutStepsKeepLoads ==
    ASSUME CallInv, LoadInv, NEW p \in Threads,
           Draw(p) \/ ReadOrdinal(p) \/ FindOrdinal(p)
    PROVE  LoadInv'
<1>1. /\ Moved(p) /\ UNCHANGED <<rows, loaded, failed>> /\ InPut(p)
      /\ phase \in [Threads -> Phases] /\ call \in [Threads -> Call] /\ call[p] \in Call
  BY DrawFits, ReadOrdinalFits, FindOrdinalFits, StoreFacts, TypeParts
     DEF Draw, ReadOrdinal, FindOrdinal, At, durable, history, InPut, CallInv
<1>2. /\ phase'[p] \in {"find", "draw", "read", "write"}
      /\ call'[p] = call[p] \/ \E o : call'[p] = [call[p] EXCEPT !.ordinal = o]
  BY <1>1 DEF Draw, ReadOrdinal, FindOrdinal, Goto
<1>3. call'[p].set = call[p].set /\ call'[p].left = call[p].left /\ call'[p].doc = call[p].doc
  BY <1>1, <1>2 DEF Call
<1>4. InPut(p)'
  BY <1>2 DEF InPut
<1> QED
  BY <1>1, <1>3, <1>4, PutGoesOn

(* LastOfLoad.  What writing a row or clearing the registry leaves of a    *)
(* load, when everything it had put is stored.                             *)
LEMMA NextIsUndisturbed ==
    ASSUME CallInv, NEW p \in Threads, Loading(p), NextOfLoad(p), call[p].left \subseteq call[p].set,
           \A i \in call[p].set \ call[p].left : Stored(i)'
    PROVE  Undisturbed(p)' \/ \E set \in loaded' : Whole(set)'
<1>1. /\ call \in [Threads -> Call] /\ phase \in [Threads -> Phases] /\ call[p] \in Call
      /\ call[p].set \subseteq Institutions
  BY StoreFacts, TypeParts DEF CallInv, Call
<1>2. CASE call[p].left = {}
  <2>1. call[p].set \in loaded' /\ \A i \in call[p].set : i \in Institutions /\ Stored(i)'
    BY <1>1, <1>2 DEF NextOfLoad, Loading
  <2> QED
    BY <2>1 DEF Whole, Registry
<1>3. CASE call[p].left # {}
  <2>1. PICK i \in call[p].left, v \in Values :
            call' = [call EXCEPT ![p].doc = i, ![p].value = v, ![p].ordinal = 0,
                                 ![p].left = @ \ {i}]
    BY <1>3 DEF NextOfLoad
  <2>2. call'[p] = [call[p] EXCEPT !.doc = i, !.value = v, !.ordinal = 0, !.left = call[p].left \ {i}]
    BY <1>1, <2>1
  <2>3. call'[p].set = call[p].set /\ call'[p].doc = i /\ call'[p].left = call[p].left \ {i}
    BY <1>1, <2>2 DEF Call
  <2>4. \A k \in call'[p].set \ (call'[p].left \cup {call'[p].doc}) : k \in Institutions /\ Stored(k)'
    BY <1>1, <2>1, <2>3
  <2>5. phase'[p] = "find"
    BY <1>1, <1>3 DEF NextOfLoad, Goto
  <2> QED
    BY <2>3, <2>4, <2>5 DEF Undisturbed, Loading, InPut, Whole, Registry
<1> QED
  BY <1>2, <1>3

LEMMA WriteRowKeepsLoads ==
    ASSUME CallInv, LoadInv, NEW p \in Threads, WriteRow(p)
    PROVE  LoadInv'
<1> DEFINE d == call[p].doc
           o == call[p].ordinal
<1>1. /\ phase[p] = "write" /\ Moved(p) /\ d \in Docs /\ o \in 1..MaxOrdinal
      /\ call[p].value \in Values /\ call[p] \in Call /\ call[p].left \subseteq call[p].set
      /\ Upsert(d, o, call[p].value) /\ NextOfLoad(p) /\ failed' = failed
  <2>1. o \in 1..counter /\ counter \in 0..MaxOrdinal
    BY StoreFacts DEF WriteRow, At, PhaseFits, StoreTypes
  <2> QED
    BY <2>1, StoreFacts, WriteRowFits DEF WriteRow, At, PhaseFits, InPut, Call
<1>2. rows'[d] # NoRow /\ \A e \in Docs : e # d => rows'[e] = rows[e]
  BY <1>1, UpsertTypes DEF Stored
<1>3. \A i \in Institutions : Stored(i) => Stored(i)'
  BY <1>2 DEF Stored, Docs
<1>4. loaded \subseteq loaded'
  BY <1>1 DEF NextOfLoad
<1>5. CASE Loading(p)
  <2>1. Undisturbed(p) => \A i \in call[p].set \ call[p].left : rows'[i] # NoRow
    <3>1. call[p].set \subseteq Institutions
      BY <1>1 DEF Call
    <3> QED
      BY <1>2, <1>3, <3>1 DEF Undisturbed, Whole, Registry, Stored
  <2>2. ~Deleting(p)
    BY <1>1 DEF Deleting
  <2>3. Undisturbed(p) => Undisturbed(p)' \/ \E set \in loaded' : Whole(set)'
    BY <1>1, <1>5, <2>1, NextIsUndisturbed DEF Stored
  <2> QED
    BY <1>1, <1>3, <1>4, <1>5, <2>2, <2>3, LoadsGo
<1>6. CASE ~Loading(p)
  <2>1. call[p].set = {} /\ call[p].left = {}
    BY <1>1, <1>6 DEF Loading
  <2>2. Return(p) /\ loaded' = loaded
    BY <1>1, <2>1 DEF NextOfLoad
  <2>3. ~Loading(p)'
    BY <2>2, ReturnMoves, Basics DEF Loading
  <2> QED
    BY <1>1, <1>3, <1>6, <2>2, <2>3, OtherCallsGo
<1> QED
  BY <1>5, <1>6

LEMMA ClearRegistryKeepsLoads ==
    ASSUME CallInv, LoadInv, NEW p \in Threads, ClearRegistry(p)
    PROVE  LoadInv'
<1>1. /\ phase[p] = "clear" /\ Loading(p) /\ Moved(p) /\ call[p].left = call[p].set
      /\ call \in [Threads -> Call] /\ phase \in [Threads -> Phases] /\ call[p] \in Call
  BY StoreFacts, ClearRegistryFits, TypeParts DEF ClearRegistry, At, PhaseFits, CallInv
<1>2. CASE backend = "sqlite"
  <2>1. NextOfLoad(p)
    BY <1>2 DEF ClearRegistry
  <2>2. call[p].set \ call[p].left = {} /\ call[p].left \subseteq call[p].set
    BY <1>1
  <2>3. Undisturbed(p)' \/ \E set \in loaded' : Whole(set)'
    BY <1>1, <2>1, <2>2, NextIsUndisturbed
  <2> QED
    BY <2>3 DEF LoadInv
<1>3. CASE backend # "sqlite"
  <2>1. phase'[p] = "delete" /\ call'[p] = [call[p] EXCEPT !.doomed = Registry]
    BY <1>1, <1>3 DEF ClearRegistry, Goto
  <2>2. call'[p].set = call[p].set
    BY <1>1, <2>1 DEF Call
  <2> QED
    BY <1>1, <2>1, <2>2 DEF LoadInv, Deleting, Loading
<1> QED
  BY <1>2, <1>3

LEMMA DeleteInstitutionKeepsLoads ==
    ASSUME CallInv, LoadInv, NEW p \in Threads, DeleteInstitution(p)
    PROVE  LoadInv'
<1>1. /\ phase[p] = "delete" /\ Loading(p) /\ Moved(p) /\ call[p].left = call[p].set
      /\ call \in [Threads -> Call] /\ call[p] \in Call
  BY StoreFacts, DeleteInstitutionFits, TypeParts DEF DeleteInstitution, PhaseFits, CallInv
<1>2. CASE call[p].doomed = {}
  <2>1. NextOfLoad(p)
    BY <1>2 DEF DeleteInstitution
  <2>2. call[p].set \ call[p].left = {} /\ call[p].left \subseteq call[p].set
    BY <1>1
  <2>3. Undisturbed(p)' \/ \E set \in loaded' : Whole(set)'
    BY <1>1, <2>1, <2>2, NextIsUndisturbed
  <2> QED
    BY <2>3 DEF LoadInv
<1>3. CASE call[p].doomed # {}
  <2>1. PICK i \in call[p].doomed : /\ call' = [call EXCEPT ![p].doomed = @ \ {i}]
                                    /\ phase' = phase
    BY <1>3 DEF DeleteInstitution
  <2>2. call'[p] = [call[p] EXCEPT !.doomed = call[p].doomed \ {i}]
    BY <1>1, <2>1
  <2>3. call'[p].set = call[p].set
    BY <1>1, <2>2 DEF Call
  <2> QED
    BY <1>1, <2>1, <2>3 DEF LoadInv, Deleting, Loading
<1> QED
  BY <1>2, <1>3

LEMMA LoadInstitutionsKeepsLoads ==
    ASSUME CallInv, LoadInv, NEW p \in Threads, NEW set \in (SUBSET Institutions) \ {{}},
           LoadInstitutions(p, set)
    PROVE  LoadInv'
<1>0. set \in SUBSET Institutions /\ set # {}
  OBVIOUS
<1>1. /\ call \in [Threads -> Call] /\ phase \in [Threads -> Phases] /\ call[p] \in Call
  BY StoreFacts, TypeParts DEF CallInv
<1>2. CASE Durable
  <2>1. phase'[p] = "clear" /\ call'[p] = [call[p] EXCEPT !.set = set, !.left = set]
    BY <1>1, <1>2 DEF LoadInstitutions, Goto
  <2>2. call'[p].set = set
    BY <1>1, <2>1 DEF Call
  <2> QED
    BY <1>0, <2>1, <2>2 DEF LoadInv, Deleting, Loading
<1>3. CASE ~Durable
  <2>1. loaded' = loaded \cup {set}
    BY <1>3 DEF LoadInstitutions
  <2>2. PICK n \in [set -> counter + 1..counter + Cardinality(set)], v \in Values :
            rows' = [d \in Docs |->
                        CASE d \in Forms -> rows[d]
                          [] d \in set -> [ordinal |-> n[d], value |-> v]
                          [] OTHER -> NoRow]
    BY <1>3 DEF LoadInstitutions
  <2>3. Cardinality(set) \in Nat /\ counter \in Nat
    BY FS_Subset, FS_CardinalityType, StoreFacts
  <2>4. ASSUME NEW i \in set PROVE i \in Registry'
    <3>1. i \in Docs /\ i \notin Forms /\ i \in Institutions
      BY <1>0 DEF Docs
    <3>2. rows'[i] = [ordinal |-> n[i], value |-> v]
      BY <2>2, <3>1
    <3>3. n[i] > 0
      BY <2>3
    <3> QED
      BY <3>1, <3>2, <3>3 DEF Registry, Stored, NoRow
  <2> QED
    BY <2>1, <2>4 DEF LoadInv, Whole
<1> QED
  BY <1>2, <1>3

(* The steps of the other calls leave the registry alone. *)
LEMMA OtherStepsKeepLoads ==
    ASSUME CallInv, LoadInv, NEW p \in Threads,
           \/ \E f \in Forms, v \in Values : SaveDraft(p, f, v)
           \/ Append(p) \/ WriteLine(p) \/ Publish(p)
           \/ Consume(p) \/ ClaimSession(p) \/ Spend(p) \/ Stage(p) \/ AnalysisFails(p) \/ Release(p)
    PROVE  LoadInv'
<1>1. Moved(p)
  BY SaveDraftFits, AppendFits, WriteLineFits, PublishFits, ConsumeFits, ClaimSessionFits,
     SpendFits, StageFits, ToRelease, ReleaseFits DEF AnalysisFails
<1>2. /\ call \in [Threads -> Call] /\ phase \in [Threads -> Phases] /\ call[p] \in Call
      /\ PhaseFits(p) /\ Forms \cap Institutions = {}
  BY StoreFacts, TypeParts DEF CallInv
<1>3. UNCHANGED <<loaded, failed>>
  BY DEF SaveDraft, Append, WriteLine, Publish, Consume, ClaimSession, Spend, Stage,
         AnalysisFails, Release, history
<1>4. ~Loading(p)
  BY <1>2 DEF PhaseFits, Loading, InPut, SaveDraft, Append, WriteLine, Publish, Consume,
              ClaimSession, Spend, Stage, AnalysisFails, Release, Starts, At
<1>5. call'[p].set = {}
  <2>1. call[p].set = {}
    BY <1>4 DEF Loading
  <2>2. CASE call'[p] = NoCall
    BY <2>2, Basics
  <2>3. CASE call'[p] = call[p]
    BY <2>1, <2>3
  <2>7. Return(p) => call'[p] = NoCall
    BY ReturnMoves
  <2>8. ASSUME NEW f \in Forms, NEW v \in Values, SaveDraft(p, f, v)
        PROVE  call'[p].set = {}
    <3>1. CASE call'[p] = [call[p] EXCEPT !.doc = f, !.value = v]
      BY <1>2, <2>1, <3>1 DEF Call
    <3>2. call' = call \/ call'[p] = [call[p] EXCEPT !.doc = f, !.value = v]
      BY <1>2, <2>8 DEF SaveDraft
    <3> QED
      BY <2>3, <3>1, <3>2
  <2>9. ASSUME Append(p) PROVE call'[p].set = {}
    <3>1. CASE call'[p] = [call[p] EXCEPT !.line = begun + 1]
      BY <1>2, <2>1, <3>1 DEF Call
    <3>2. call' = call \/ call'[p] = [call[p] EXCEPT !.line = begun + 1]
      BY <1>2, <2>9 DEF Append
    <3> QED
      BY <2>3, <3>1, <3>2
  <2>10. ASSUME Stage(p) PROVE call'[p].set = {}
    <3>1. call'[p] = [call[p] EXCEPT !.rows = [f \in Forms |-> rows[f]], !.audit = audit]
      BY <1>2, <2>10 DEF Stage
    <3> QED
      BY <1>2, <2>1, <3>1 DEF Call
  <2>11. WriteLine(p) \/ Publish(p) \/ Spend(p) \/ Release(p) => Return(p) \/ call'[p] = call[p]
    BY DEF WriteLine, Publish, Spend, Release
  <2>12. Consume(p) \/ ClaimSession(p) \/ AnalysisFails(p) => call'[p] = call[p]
    BY DEF Consume, ClaimSession, AnalysisFails
  <2> QED
    BY <2>2, <2>3, <2>7, <2>8, <2>9, <2>10, <2>11, <2>12
<1>6. \A i \in Institutions : rows'[i] = rows[i]
  <2>1. CASE \E f \in Forms, v \in Values : SaveDraft(p, f, v)
    <3>1. PICK f \in Forms, v \in Values : SaveDraft(p, f, v)
      BY <2>1
    <3>2. rows' = rows \/ Upsert(f, counter + 1, v)
      BY <3>1 DEF SaveDraft
    <3>3. \A i \in Institutions : i \in Docs /\ i # f
      BY <1>2 DEF Docs
    <3>4. rows \in [Docs -> Row \cup {NoRow}]
      BY StoreFacts DEF StoreTypes
    <3> QED
      BY <3>2, <3>3, <3>4 DEF Upsert
  <2>2. CASE Publish(p)
    <3>1. CASE rows' = rows
      BY <3>1
    <3>2. CASE \E f \in Forms, v \in Values : Replace(p, f, v)
      <4>1. PICK f \in Forms, v \in Values : Replace(p, f, v)
        BY <3>2
      <4>2. \A i \in Institutions : i \in Docs /\ i \notin StagedDrafts(p, f)
        BY <1>2 DEF Docs, StagedDrafts
      <4> QED
        BY <4>1, <4>2 DEF Replace
    <3> QED
      BY <2>2, <3>1, <3>2 DEF Publish
  <2>3. CASE Append(p) \/ WriteLine(p) \/ Consume(p) \/ ClaimSession(p) \/ Spend(p)
             \/ Stage(p) \/ AnalysisFails(p) \/ Release(p)
    BY <2>3 DEF Append, WriteLine, Consume, ClaimSession, Spend, Stage, AnalysisFails, Release, durable
  <2> QED
    BY <2>1, <2>2, <2>3
<1> QED
  BY <1>1, <1>3, <1>4, <1>5, <1>6, OtherCallsGo DEF Stored, Loading

LEMMA StepKeepsLoads ==
    ASSUME CallInv, LoadInv, [Next]_vars
    PROVE  LoadInv'
<1>1. ASSUME NEW p \in Threads, NEW set \in (SUBSET Institutions) \ {{}}, LoadInstitutions(p, set)
      PROVE  LoadInv'
  BY <1>1, LoadInstitutionsKeepsLoads
<1>2. ASSUME NEW p \in Threads, Draw(p) \/ ReadOrdinal(p) \/ FindOrdinal(p) \/ WriteRow(p)
      PROVE  LoadInv'
  BY <1>2, PutStepsKeepLoads, WriteRowKeepsLoads
<1>3. ASSUME NEW p \in Threads, ClearRegistry(p) \/ DeleteInstitution(p)
      PROVE  LoadInv'
  BY <1>3, ClearRegistryKeepsLoads, DeleteInstitutionKeepsLoads
<1>4. ASSUME NEW p \in Threads,
             \/ \E f \in Forms, v \in Values : SaveDraft(p, f, v)
             \/ Append(p) \/ WriteLine(p) \/ Publish(p)
             \/ Consume(p) \/ ClaimSession(p) \/ Spend(p) \/ Stage(p) \/ AnalysisFails(p) \/ Release(p)
      PROVE  LoadInv'
  BY <1>4, OtherStepsKeepLoads
<1>5. ASSUME NEW p \in Threads, Fails(p)
      PROVE  LoadInv'
  BY <1>5 DEF Fails, LoadInv
<1>6. ASSUME (\E p \in Threads : Look(p)) \/ UNCHANGED vars
      PROVE  LoadInv'
  <2>1. UNCHANGED vars
    BY <1>6 DEF Look
  <2> QED
    BY <2>1 DEF vars, durable, history, LoadInv, Whole, Registry, Stored, Loading, Deleting,
                Undisturbed, InPut
<1> QED
  BY <1>1, <1>2, <1>3, <1>4, <1>5, <1>6 DEF Next

(* OneLoadSurvives.  SomeLoadIsWhole: whatever loads of the registry       *)
(* overlap, on any store and over any connections, once all have returned  *)
(* one of them has every institution of its set in it.                     *)
THEOREM OneLoadSurvives == Spec => []SomeLoadIsWhole
<1>1. Init => LoadInv
  <2>1. ASSUME Init PROVE loaded = {} /\ \A p \in Threads : ~Loading(p)
    BY <2>1, Basics DEF Init, Loading
  <2> QED
    BY <2>1 DEF LoadInv
<1>2. CallInv /\ LoadInv /\ [Next]_vars => CallInv' /\ LoadInv'
  BY StepKeepsCalls, StepKeepsLoads
<1>3. CallInv /\ LoadInv => SomeLoadIsWhole
  BY DEF LoadInv, SomeLoadIsWhole, Whole, Deleting, Undisturbed
<1> QED
  BY <1>1, <1>2, <1>3, InitFits, PTL DEF Spec

-----------------------------------------------------------------------------
(* The order of the lists. *)

DraftsKeepOrder == \A f, g \in Forms : Precedes(f, g) => ~Precedes(g, f)'
LinesKeepOrder == \A k, l \in Lines : LinePrecedes(k, l) => ~LinePrecedes(l, k)'
Order == backend # "firestore" => DraftsKeepOrder /\ LinesKeepOrder

(* PlacesKept.  A step after which every draft and every line is where it  *)
(* was, relative to the others.                                            *)
LEMMA PlacesKept ==
    ASSUME CallInv, CallInv', OrdinalInv',
           \A f, g \in Forms : Precedes(f, g) /\ Stored(f)' /\ Stored(g)'
                => rows'[f].ordinal < rows'[g].ordinal,
           \A o, q \in Ordinals : o < q /\ audit[o] # NoLine /\ audit[q] # NoLine =>
                \E u, w \in Ordinals : u < w /\ audit'[u] = audit[o] /\ audit'[w] = audit[q]
    PROVE  Order
<1>1. DraftsKeepOrder
  <2> SUFFICES ASSUME NEW f \in Forms, NEW g \in Forms, Precedes(f, g), Precedes(g, f)'
               PROVE  FALSE
    BY DEF DraftsKeepOrder
  <2>1. \A d \in Docs : rows'[d] # NoRow => rows'[d].ordinal \in Ordinals
    BY Basics DEF CallInv, TypeOK
  <2>2. Stored(f)' /\ Stored(g)' /\ rows'[g].ordinal < rows'[f].ordinal
    BY DEF Precedes
  <2>3. rows'[f].ordinal < rows'[g].ordinal
    BY <2>2
  <2>4. rows'[f].ordinal \in Nat /\ rows'[g].ordinal \in Nat
    BY <2>1, <2>2 DEF Stored, Docs, Ordinals
  <2> QED
    BY <2>2, <2>3, <2>4
<1>2. LinesKeepOrder
  <2> SUFFICES ASSUME NEW k \in Lines, NEW l \in Lines, LinePrecedes(k, l), LinePrecedes(l, k)'
               PROVE  FALSE
    BY DEF LinesKeepOrder
  <2>1. PICK u \in Ordinals, w \in Ordinals : u < w /\ audit'[u] = k /\ audit'[w] = l
    BY Basics DEF LinePrecedes
  <2>2. PICK o \in Ordinals, q \in Ordinals : o < q /\ audit'[o] = l /\ audit'[q] = k
    BY DEF LinePrecedes
  <2>3. u = q /\ w = o
    BY <2>1, <2>2, Basics DEF OrdinalInv, LinesOnce
  <2> QED
    BY <2>1, <2>2, <2>3 DEF Ordinals
<1> QED
  BY <1>1, <1>2 DEF Order

(* A step that leaves each draft its ordinal and each line its own.        *)
LEMMA PlacesStay ==
    ASSUME CallInv, CallInv', OrdinalInv',
           \A f \in Forms : Stored(f) => rows'[f] = rows[f] \/ rows'[f].ordinal = rows[f].ordinal,
           \A o \in Ordinals : audit[o] # NoLine => audit'[o] = audit[o]
    PROVE  Order
<1>1. \A f, g \in Forms : Precedes(f, g) => rows'[f].ordinal < rows'[g].ordinal
  BY DEF Precedes
<1> QED
  BY <1>1, PlacesKept

LEMMA PublishKeepsOrder ==
    ASSUME CallInv, OrdinalInv, CallInv', OrdinalInv', NEW p \in Threads, Publish(p)
    PROVE  Order
<1>1. CASE ~(analyzing /\ Unchanged(p))
  <2>1. UNCHANGED <<rows, audit>>
    BY <1>1 DEF Publish
  <2> QED
    BY <2>1, PlacesStay
<1>2. CASE analyzing /\ Unchanged(p)
  <2>1. PICK f \in Forms, v \in Values : LastOrdinal(p, f) =< MaxOrdinal /\ Replace(p, f, v)
    BY <1>2 DEF Publish
  <2>2. begun + 1 \in Lines
    BY <1>2, StoreFacts DEF Lines
  <2>3. /\ \A d \in StagedDrafts(p, f) : rows'[d].ordinal = NewDraftOrdinal(p, f, d)
        /\ \A q \in StagedLines(p) :
                /\ NewLineOrdinal(p, f, q) \in Ordinals
                /\ audit'[NewLineOrdinal(p, f, q)] = call[p].audit[q]
    BY <2>1, <2>2, Published
  <2>4. /\ \A g, h \in StagedDrafts(p, f) :
                DraftPlace(p, g) < DraftPlace(p, h)
                => NewDraftOrdinal(p, f, g) < NewDraftOrdinal(p, f, h)
        /\ \A o, q \in StagedLines(p) :
                o < q => NewLineOrdinal(p, f, o) < NewLineOrdinal(p, f, q)
    BY NewOrdinals
  <2>5. \A g \in Forms : Stored(g) => g \in StagedDrafts(p, f) /\ DraftPlace(p, g) = rows[g].ordinal
    BY <1>2 DEF Unchanged, StagedDrafts, DraftPlace, Stored
  <2>6. \A o \in Ordinals : audit[o] # NoLine => o \in StagedLines(p) /\ call[p].audit[o] = audit[o]
    BY <1>2 DEF Unchanged, StagedLines
  <2>7. \A g, h \in Forms : Precedes(g, h) => rows'[g].ordinal < rows'[h].ordinal
    BY <2>3, <2>4, <2>5 DEF Precedes
  <2>8. ASSUME NEW o \in Ordinals, NEW q \in Ordinals,
               o < q, audit[o] # NoLine, audit[q] # NoLine
        PROVE  \E u, w \in Ordinals : u < w /\ audit'[u] = audit[o] /\ audit'[w] = audit[q]
    BY <2>3, <2>4, <2>6, <2>8
  <2> QED
    BY <2>7, <2>8, PlacesKept
<1> QED
  BY <1>1, <1>2

LEMMA WritesKeepOrder ==
    ASSUME CallInv, OrdinalInv, CallInv', OrdinalInv', NEW p \in Threads,
           Append(p) \/ WriteLine(p) \/ WriteRow(p)
    PROVE  Order
<1>1. audit \in [Ordinals -> Lines \cup {NoLine}] /\ rows \in [Docs -> Row \cup {NoRow}]
      /\ PhaseFits(p) /\ counter \in Nat
  BY StoreFacts DEF StoreTypes
<1>2. CASE Append(p)
  <2>1. rows' = rows /\ (audit' = audit \/ audit' = [audit EXCEPT ![counter + 1] = begun + 1])
    BY <1>2 DEF Append
  <2>2. \A o \in Ordinals : audit[o] # NoLine => o # counter + 1
    BY <1>1, StoreFacts
  <2>3. \A o \in Ordinals : audit[o] # NoLine => audit'[o] = audit[o]
    BY <1>1, <2>1, <2>2
  <2> QED
    BY <2>1, <2>3, PlacesStay
<1>3. CASE WriteLine(p)
  <2>1. rows' = rows /\ audit' = [audit EXCEPT ![call[p].ordinal] = call[p].line] /\ phase[p] = "write"
    BY <1>3 DEF WriteLine, At
  <2>2. audit[call[p].ordinal] = NoLine
    BY <2>1 DEF OrdinalInv, OrdinalsOwned, Holding, OrdinalOf
  <2>3. \A o \in Ordinals : audit[o] # NoLine => audit'[o] = audit[o]
    BY <1>1, <2>1, <2>2
  <2> QED
    BY <2>1, <2>3, PlacesStay
<1>4. CASE WriteRow(p) /\ backend # "firestore"
  <2>1. audit' = audit /\ Upsert(call[p].doc, call[p].ordinal, call[p].value)
    BY <1>4 DEF WriteRow
  <2>2. \A f \in Forms : Stored(f) => rows'[f] = rows[f] \/ rows'[f].ordinal = rows[f].ordinal
    <3> SUFFICES ASSUME NEW f \in Forms, Stored(f), f = call[p].doc
                 PROVE  rows'[f].ordinal = rows[f].ordinal
      BY <1>1, <2>1 DEF Upsert, Docs
    <3>1. rows'[f] = [rows[f] EXCEPT !.value = call[p].value] /\ rows[f] \in Row
      BY <1>1, <1>4, <2>1 DEF Upsert, Docs, Stored
    <3> QED
      BY <3>1 DEF Row
  <2> QED
    BY <2>1, <2>2, PlacesStay
<1>5. CASE backend = "firestore"
  BY <1>5 DEF Order
<1> QED
  BY <1>2, <1>3, <1>4, <1>5

LEMMA OtherStepsKeepOrder ==
    ASSUME CallInv, OrdinalInv, CallInv', OrdinalInv', NEW p \in Threads,
           \/ \E f \in Forms, v \in Values : SaveDraft(p, f, v)
           \/ \E set \in (SUBSET Institutions) \ {{}} : LoadInstitutions(p, set)
           \/ ClearRegistry(p) \/ DeleteInstitution(p)
           \/ Draw(p) \/ ReadOrdinal(p) \/ FindOrdinal(p)
           \/ Consume(p) \/ ClaimSession(p) \/ Spend(p) \/ Stage(p)
           \/ AnalysisFails(p) \/ Release(p) \/ Fails(p)
    PROVE  Order
<1>1. audit' = audit
  BY DEF SaveDraft, LoadInstitutions, ClearRegistry, DeleteInstitution, Draw, ReadOrdinal,
         FindOrdinal, Consume, ClaimSession, Spend, Stage, AnalysisFails, Release, Fails, durable
<1>2. /\ rows \in [Docs -> Row \cup {NoRow}] /\ Forms \subseteq Docs /\ Forms \cap Institutions = {}
      /\ call[p].doomed \subseteq Institutions
  BY StoreFacts DEF StoreTypes, Docs, Call
<1>3. CASE \E f \in Forms, v \in Values : SaveDraft(p, f, v)
  <2>1. PICK f \in Forms, v \in Values : SaveDraft(p, f, v)
    BY <1>3
  <2>2. rows' = rows \/ (Upsert(f, counter + 1, v) /\ backend = "memory")
    BY <2>1, StoreFacts DEF SaveDraft, StoreTypes, Durable, Backends
  <2>3. \A g \in Forms : Stored(g) => rows'[g] = rows[g] \/ rows'[g].ordinal = rows[g].ordinal
    <3> SUFFICES ASSUME Stored(f), Upsert(f, counter + 1, v), backend = "memory"
                 PROVE  rows'[f].ordinal = rows[f].ordinal
      BY <1>2, <2>2 DEF Upsert
    <3>1. rows'[f] = [rows[f] EXCEPT !.value = v] /\ rows[f] \in Row
      BY <1>2 DEF Upsert, Stored
    <3> QED
      BY <3>1 DEF Row
  <2> QED
    BY <1>1, <2>3, PlacesStay
<1>4. CASE \E set \in (SUBSET Institutions) \ {{}} : LoadInstitutions(p, set)
  <2>1. PICK set \in (SUBSET Institutions) \ {{}} : LoadInstitutions(p, set)
    BY <1>4
  <2>2. rows' = rows \/ \E n, v : rows' = [d \in Docs |->
                                CASE d \in Forms -> rows[d]
                                  [] d \in set -> [ordinal |-> n[d], value |-> v]
                                  [] OTHER -> NoRow]
    BY <2>1 DEF LoadInstitutions
  <2>3. \A g \in Forms : rows'[g] = rows[g]
    BY <1>2, <2>2
  <2> QED
    BY <1>1, <2>3, PlacesStay
<1>5. CASE ClearRegistry(p) \/ DeleteInstitution(p)
  <2>1. \/ rows' = rows
        \/ rows' = [d \in Docs |-> IF d \in Institutions THEN NoRow ELSE rows[d]]
        \/ \E i \in call[p].doomed : rows' = [rows EXCEPT ![i] = NoRow]
    BY <1>5 DEF ClearRegistry, DeleteInstitution
  <2>2. \A g \in Forms : rows'[g] = rows[g]
    BY <1>2, <2>1
  <2> QED
    BY <1>1, <2>2, PlacesStay
<1>6. CASE \/ Draw(p) \/ ReadOrdinal(p) \/ FindOrdinal(p)
           \/ Consume(p) \/ ClaimSession(p) \/ Spend(p) \/ Stage(p)
           \/ AnalysisFails(p) \/ Release(p) \/ Fails(p)
  <2>1. rows' = rows
    BY <1>6 DEF Draw, ReadOrdinal, FindOrdinal, Consume, ClaimSession, Spend, Stage,
                AnalysisFails, Release, Fails, durable
  <2> QED
    BY <1>1, <2>1, PlacesStay
<1> QED
  BY <1>3, <1>4, <1>5, <1>6

LEMMA StepKeepsOrder ==
    ASSUME SharedConnection, CallInv, OrdinalInv, [Next]_vars
    PROVE  Order
<1>1. CallInv' /\ OrdinalInv'
  BY StepKeepsCalls, StepKeepsOrdinals
<1>2. ASSUME NEW p \in Threads, Publish(p) PROVE Order
  BY <1>1, <1>2, PublishKeepsOrder
<1>3. ASSUME NEW p \in Threads, Append(p) \/ WriteLine(p) \/ WriteRow(p) PROVE Order
  BY <1>1, <1>3, WritesKeepOrder
<1>4. ASSUME NEW p \in Threads,
             \/ \E f \in Forms, v \in Values : SaveDraft(p, f, v)
             \/ \E set \in (SUBSET Institutions) \ {{}} : LoadInstitutions(p, set)
             \/ ClearRegistry(p) \/ DeleteInstitution(p)
             \/ Draw(p) \/ ReadOrdinal(p) \/ FindOrdinal(p)
             \/ Consume(p) \/ ClaimSession(p) \/ Spend(p) \/ Stage(p)
             \/ AnalysisFails(p) \/ Release(p) \/ Fails(p)
      PROVE  Order
  BY <1>1, <1>4, OtherStepsKeepOrder
<1>5. CASE (\E p \in Threads : Look(p)) \/ UNCHANGED vars
  <2>1. UNCHANGED <<rows, audit>>
    BY <1>5 DEF Look, vars, durable
  <2> QED
    BY <1>1, <2>1, PlacesStay
<1> QED
  BY <1>2, <1>3, <1>4, <1>5 DEF Next

(* OrderIsKept.  OrderStays: on SQLite and in memory, no save, no append   *)
(* and no publication ever swaps two drafts or two audit lines.            *)
THEOREM OrderIsKept == SharedConnection => (Spec => OrderStays)
<1>1. SUFFICES ASSUME SharedConnection PROVE Spec => OrderStays
  OBVIOUS
<1>2. CallInv /\ OrdinalInv /\ [Next]_vars =>
        (backend # "firestore" =>
            /\ \A f, g \in Forms : Precedes(f, g) => ~Precedes(g, f)'
            /\ \A k, l \in Lines : LinePrecedes(k, l) => ~LinePrecedes(l, k)')
  BY <1>1, StepKeepsOrder DEF Order, DraftsKeepOrder, LinesKeepOrder
<1>3. Spec => [](CallInv /\ OrdinalInv)
  BY <1>1, OrdinalsHold
<1> QED
  BY <1>2, <1>3, PTL DEF Spec, OrderStays

=============================================================================

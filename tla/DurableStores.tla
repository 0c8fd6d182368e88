--------------------------- MODULE DurableStores ---------------------------
(***************************************************************************)
(* The three stores behind the ports of core/repositories.py, below the    *)
(* level the other modules look at: store/memory.py, store/sqlite.py and   *)
(* store/firestore.py.  Threads call them at the same time.                *)
(*                                                                         *)
(* A call on the memory store is one step, under its lock.  A call on a    *)
(* durable store is a sequence of statements, and a step is one statement  *)
(* or one transaction.  SQLite statements of one connection also respect   *)
(* its lock, which next_ordinal holds over two statements.                 *)
(*                                                                         *)
(* The documents are the drafts of one project (a collection of Collection *)
(* .put), its audit log (Collection.append), the institution registry      *)
(* (delete, then put), one upload ticket (read, then put), and the review  *)
(* session whose analysis is published over drafts and log (its other      *)
(* states are ReviewSession's).  The other collections repeat one of these. *)
(***************************************************************************)
EXTENDS Naturals, FiniteSets

CONSTANTS
    Threads,        \* threads that call the stores
    Connection,     \* thread -> the SQLite connection it uses
    Forms,          \* ids of drafts
    Institutions,   \* ids of institutions
    Values,         \* payloads, only compared with each other
    MaxOrdinal,     \* bound: ordinals drawn
    MaxCalls        \* bound: calls that write

ASSUME StoreConstants ==
    /\ Forms \cap Institutions = {} /\ "nothing" \notin Forms \cup Institutions
    /\ IsFiniteSet(Forms) /\ IsFiniteSet(Institutions)
    /\ MaxOrdinal \in Nat /\ MaxCalls \in Nat

VARIABLES
    backend,    \* the store of this deployment
    counter,    \* the last ordinal drawn
    rows,       \* draft or institution -> its row
    audit,      \* ordinal -> the audit line stored under it
    spent,      \* whether the ticket is stored as consumed
    analyzing,  \* whether the review session is claimed for an analysis
    phase,      \* thread -> the statement it is about to make
    call,       \* thread -> what it knows of its call
    calls,      \* how many calls that write have been made
    begun,      \* how many audit lines have been begun
    kept,       \* audit lines whose append has returned
    spends,     \* how often consume has returned the ticket
    loaded,     \* the sets of institutions whose load has returned
    failed      \* whether some call has raised

durable == <<counter, rows, audit, spent, analyzing>>
history == <<begun, kept, spends, loaded, failed>>
vars == <<backend, calls, durable, phase, call, history>>

-----------------------------------------------------------------------------

Docs == Forms \cup Institutions
Ordinals == 1..MaxOrdinal

(* Drafts and institutions carry their ordinal; a line's is its key. *)
Row == [ordinal : Ordinals, value : Values]
NoRow == [ordinal |-> 0]
Lines == 1..MaxCalls
NoLine == 0

Stored(d) == rows[d] # NoRow
Log == {audit[o] : o \in Ordinals} \ {NoLine}
Registry == {i \in Institutions : Stored(i)}

Backends == {"memory", "sqlite", "firestore"}

(* What a call remembers between two statements: the document or line it   *)
(* writes, the ordinal it writes it with, and what is left of a load.      *)
Nothing == "nothing"
Call ==
    [doc : Docs \cup {Nothing}, line : Lines \cup {NoLine},
     value : Values \cup {Nothing}, ordinal : Ordinals \cup {0},
     set : SUBSET Institutions, left : SUBSET Institutions,
     doomed : SUBSET Institutions,
     rows : [Forms -> Row \cup {NoRow}], audit : [Ordinals -> Lines \cup {NoLine}]]
NoCall ==
    [doc |-> Nothing, line |-> NoLine, value |-> Nothing, ordinal |-> 0,
     set |-> {}, left |-> {}, doomed |-> {},
     rows |-> [f \in Forms |-> NoRow], audit |-> [o \in Ordinals |-> NoLine]]

Phases ==
    {"idle", "find", "draw", "read", "write", "spend", "clear", "delete",
     "stage", "staged", "release"}

Init ==
    /\ backend \in Backends
    /\ counter = 0
    /\ rows = [d \in Docs |-> NoRow]
    /\ audit = [o \in Ordinals |-> NoLine]
    /\ spent = FALSE
    /\ analyzing = FALSE
    /\ phase = [p \in Threads |-> "idle"]
    /\ call = [p \in Threads |-> NoCall]
    /\ calls = 0 /\ begun = 0 /\ kept = {} /\ spends = 0 /\ loaded = {} /\ failed = FALSE

Goto(p, ph) == phase' = [phase EXCEPT ![p] = ph]
Return(p) == Goto(p, "idle") /\ call' = [call EXCEPT ![p] = NoCall]

(* Threads of one SQLite connection exclude each other while next_ordinal  *)
(* holds its lock.                                                         *)
Unlocked(p) ==
    backend = "sqlite" =>
        \A q \in Threads \ {p} : Connection[q] = Connection[p] => phase[q] # "read"

At(p, ph) == phase[p] = ph /\ Unlocked(p)
Starts(p) == At(p, "idle") /\ calls < MaxCalls /\ calls' = calls + 1
Durable == backend \in {"sqlite", "firestore"}

-----------------------------------------------------------------------------
(* Ordinals *)

(* Firestore draws in a transaction. *)
Draw(p) ==
    /\ At(p, "draw") /\ counter < MaxOrdinal
    /\ counter' = counter + 1
    /\ IF backend = "sqlite"
       THEN Goto(p, "read") /\ UNCHANGED call
       ELSE Goto(p, "write") /\ call' = [call EXCEPT ![p].ordinal = counter + 1]
    /\ UNCHANGED <<backend, calls, rows, audit, spent, analyzing, history>>

ReadOrdinal(p) ==
    /\ phase[p] = "read"
    /\ call' = [call EXCEPT ![p].ordinal = counter]
    /\ Goto(p, "write")
    /\ UNCHANGED <<backend, calls, durable, history>>

-----------------------------------------------------------------------------
(* put *)

(* SQLite updates the payload of a row that is there; Firestore sets the   *)
(* whole document; the memory store assigns to a key of a dict.            *)
Upsert(d, ordinal, value) ==
    rows' = [rows EXCEPT ![d] =
                IF Stored(d) /\ backend # "firestore"
                THEN [@ EXCEPT !.value = value]
                ELSE [ordinal |-> ordinal, value |-> value]]

SaveDraft(p, f, v) ==
    /\ Starts(p)
    /\ IF Durable
       THEN /\ call' = [call EXCEPT ![p].doc = f, ![p].value = v]
            /\ Goto(p, "find")
            /\ UNCHANGED <<counter, rows>>
       ELSE /\ Stored(f) \/ counter < MaxOrdinal
            /\ counter' = IF Stored(f) THEN counter ELSE counter + 1
            /\ Upsert(f, counter + 1, v)
            /\ UNCHANGED <<phase, call>>
    /\ UNCHANGED <<backend, audit, spent, analyzing, history>>

(* Mutant: a document that is not there is written without an ordinal. *)
FindOrNothing(p) ==
    /\ At(p, "find")
    /\ call' = IF Stored(call[p].doc)
               THEN [call EXCEPT ![p].ordinal = rows[call[p].doc].ordinal]
               ELSE call
    /\ Goto(p, "write")
    /\ UNCHANGED <<backend, calls, durable, history>>

(* The first statement of put: the ordinal of the document, if it is there. *)
FindOrdinal(p) ==
    /\ At(p, "find")
    /\ IF Stored(call[p].doc)
       THEN /\ call' = [call EXCEPT ![p].ordinal = rows[call[p].doc].ordinal]
            /\ Goto(p, "write")
       ELSE Goto(p, "draw") /\ UNCHANGED call
    /\ UNCHANGED <<backend, calls, durable, history>>

(* Mutant: the load returns before its last institution. *)
NextButLast(p) ==
    IF Cardinality(call[p].left) =< 1
    THEN Return(p) /\ loaded' = loaded \cup ({call[p].set} \ {{}})
    ELSE /\ \E i \in call[p].left, v \in Values :
                call' = [call EXCEPT ![p].doc = i, ![p].value = v, ![p].ordinal = 0,
                                     ![p].left = @ \ {i}]
         /\ Goto(p, "find")
         /\ UNCHANGED loaded

(* A load goes on with its next institution, and returns after the last.   *)
NextOfLoad(p) ==
    IF call[p].left = {}
    THEN /\ Return(p)
         /\ loaded' = loaded \cup ({call[p].set} \ {{}})
    ELSE /\ \E i \in call[p].left, v \in Values :
                call' = [call EXCEPT ![p].doc = i, ![p].value = v, ![p].ordinal = 0,
                                     ![p].left = @ \ {i}]
         /\ Goto(p, "find")
         /\ UNCHANGED loaded

WriteRow(p) ==
    /\ At(p, "write") /\ call[p].doc # Nothing
    /\ Upsert(call[p].doc, call[p].ordinal, call[p].value)
    /\ NextOfLoad(p)
    /\ UNCHANGED <<backend, calls, counter, audit, spent, analyzing, begun, kept, spends, failed>>

-----------------------------------------------------------------------------
(* append *)

(* Audit entries have no id: the ordinal is their key. *)
Append(p) ==
    /\ Starts(p)
    /\ begun' = begun + 1
    /\ IF Durable
       THEN /\ call' = [call EXCEPT ![p].line = begun + 1]
            /\ Goto(p, "draw")
            /\ UNCHANGED <<counter, audit, kept>>
       ELSE /\ counter < MaxOrdinal
            /\ counter' = counter + 1
            /\ audit' = [audit EXCEPT ![counter + 1] = begun + 1]
            /\ kept' = kept \cup {begun + 1}
            /\ UNCHANGED <<phase, call>>
    /\ UNCHANGED <<backend, rows, spent, analyzing, spends, loaded, failed>>

WriteLine(p) ==
    /\ At(p, "write") /\ call[p].line # NoLine
    /\ audit' = [audit EXCEPT ![call[p].ordinal] = call[p].line]
    /\ kept' = kept \cup {call[p].line}
    /\ Return(p)
    /\ UNCHANGED <<backend, calls, counter, rows, spent, analyzing, begun, spends, loaded, failed>>

-----------------------------------------------------------------------------
(* Tickets *)

(* consume of a spent ticket returns None and writes nothing. *)
Consume(p) ==
    /\ Starts(p)
    /\ IF spent \/ Durable
       THEN Goto(p, IF spent THEN "idle" ELSE "spend") /\ UNCHANGED <<spent, spends>>
       ELSE spent' = TRUE /\ spends' = spends + 1 /\ UNCHANGED phase
    /\ UNCHANGED <<backend, counter, rows, audit, analyzing, call,
                   begun, kept, loaded, failed>>

(* The ticket is there, so put finds its ordinal and changes nothing else. *)
Spend(p) ==
    /\ At(p, "spend")
    /\ spent' = TRUE /\ spends' = spends + 1
    /\ Return(p)
    /\ UNCHANGED <<backend, calls, counter, rows, audit, analyzing, begun, kept, loaded, failed>>

-----------------------------------------------------------------------------
(* The institution registry *)

LoadInstitutions(p, set) ==
    /\ Starts(p)
    /\ IF Durable
       THEN /\ call' = [call EXCEPT ![p].set = set, ![p].left = set]
            /\ Goto(p, "clear")
            /\ UNCHANGED <<counter, rows, loaded>>
       ELSE /\ counter + Cardinality(set) =< MaxOrdinal
            /\ counter' = counter + Cardinality(set)
            /\ \E n \in [set -> counter + 1..counter + Cardinality(set)], v \in Values :
                /\ \A j, k \in set : n[j] = n[k] => j = k
                /\ rows' = [d \in Docs |->
                                CASE d \in Forms -> rows[d]
                                  [] d \in set -> [ordinal |-> n[d], value |-> v]
                                  [] OTHER -> NoRow]
            /\ loaded' = loaded \cup {set}
            /\ UNCHANGED <<phase, call>>
    /\ UNCHANGED <<backend, audit, spent, analyzing, begun, kept, spends, failed>>

(* SQLite deletes in one statement; Firestore lists the documents and then *)
(* deletes each.                                                           *)
ClearRegistry(p) ==
    /\ At(p, "clear")
    /\ IF backend = "sqlite"
       THEN /\ rows' = [d \in Docs |-> IF d \in Institutions THEN NoRow ELSE rows[d]]
            /\ NextOfLoad(p)
       ELSE /\ call' = [call EXCEPT ![p].doomed = Registry]
            /\ Goto(p, "delete")
            /\ UNCHANGED <<rows, loaded>>
    /\ UNCHANGED <<backend, calls, counter, audit, spent, analyzing, begun, kept, spends, failed>>

DeleteInstitution(p) ==
    /\ phase[p] = "delete"
    /\ IF call[p].doomed = {}
       THEN NextOfLoad(p) /\ UNCHANGED rows
       ELSE /\ \E i \in call[p].doomed :
                /\ rows' = [rows EXCEPT ![i] = NoRow]
                /\ call' = [call EXCEPT ![p].doomed = @ \ {i}]
            /\ UNCHANGED <<phase, loaded>>
    /\ UNCHANGED <<backend, calls, counter, audit, spent, analyzing, begun, kept, spends, failed>>

-----------------------------------------------------------------------------
(* Analyses, on the stores that have review sessions *)

(* compare_and_put from READY. *)
ClaimSession(p) ==
    /\ Starts(p) /\ backend # "firestore" /\ ~analyzing
    /\ analyzing' = TRUE
    /\ Goto(p, "stage")
    /\ UNCHANGED <<backend, counter, rows, audit, spent, call, history>>

(* stage_review_analysis, one transaction. *)
Stage(p) ==
    /\ At(p, "stage")
    /\ call' = [call EXCEPT ![p].rows = [f \in Forms |-> rows[f]], ![p].audit = audit]
    /\ Goto(p, "staged")
    /\ UNCHANGED <<backend, calls, durable, history>>

(* Mutant: the live log is not compared with the baseline. *)
DraftsUnchanged(p) == \A f \in Forms : rows[f] = call[p].rows[f]

(* Ordinals stand for the order of the lists that are compared: only a     *)
(* publication gives a row another one, and it adds a line.                *)
Unchanged(p) ==
    /\ \A f \in Forms : rows[f] = call[p].rows[f]
    /\ audit = call[p].audit

(* What the analysis has staged: a draft saved, a line appended.  All is   *)
(* deleted and added again in its order, under ordinals drawn for it.      *)
StagedDrafts(p, f) == {g \in Forms : call[p].rows[g] # NoRow \/ g = f}
StagedLines(p) == {o \in Ordinals : call[p].audit[o] # NoLine}

(* Mutant: the drafts are listed newest first. *)
DraftPlaceFromLast(p, g) ==
    IF call[p].rows[g] # NoRow THEN MaxOrdinal - call[p].rows[g].ordinal ELSE MaxOrdinal + 1

DraftPlace(p, g) ==
    IF call[p].rows[g] # NoRow THEN call[p].rows[g].ordinal ELSE MaxOrdinal + 1
NewDraftOrdinal(p, f, g) ==
    counter + Cardinality({h \in StagedDrafts(p, f) : DraftPlace(p, h) =< DraftPlace(p, g)})

(* Mutant: every collection counts its own ordinals. *)
FirstLineAlone(p, f) == counter

FirstLine(p, f) == counter + Cardinality(StagedDrafts(p, f))
NewLineOrdinal(p, f, o) == FirstLine(p, f) + Cardinality({q \in StagedLines(p) : q =< o})
LastOrdinal(p, f) == FirstLine(p, f) + Cardinality(StagedLines(p)) + 1

Replace(p, f, v) ==
    /\ rows' = [d \in Docs |->
            IF d \in StagedDrafts(p, f)
            THEN [ordinal |-> NewDraftOrdinal(p, f, d),
                  value |-> IF d = f THEN v ELSE call[p].rows[d].value]
            ELSE rows[d]]
    /\ audit' = [o \in Ordinals |->
            IF o = LastOrdinal(p, f) THEN begun + 1
            ELSE IF \E q \in StagedLines(p) : NewLineOrdinal(p, f, q) = o
            THEN call[p].audit[CHOOSE q \in StagedLines(p) : NewLineOrdinal(p, f, q) = o]
            ELSE NoLine]
    /\ counter' = LastOrdinal(p, f)

(* publish_review_analysis, one transaction. *)
Publish(p) ==
    /\ At(p, "staged")
    /\ IF analyzing /\ Unchanged(p)
       THEN /\ \E f \in Forms, v \in Values :
                LastOrdinal(p, f) =< MaxOrdinal /\ Replace(p, f, v)
            /\ begun' = begun + 1
            /\ kept' = kept \cup {begun + 1}
            /\ analyzing' = FALSE
            /\ Return(p)
       ELSE Goto(p, "release") /\ UNCHANGED <<counter, rows, audit, analyzing, call, begun, kept>>
    /\ UNCHANGED <<backend, calls, spent, spends, loaded, failed>>

AnalysisFails(p) ==
    /\ phase[p] = "staged"
    /\ Goto(p, "release")
    /\ UNCHANGED <<backend, calls, durable, call, history>>

(* compare_and_put from ANALYZING, of the session this thread claimed. *)
Release(p) ==
    /\ At(p, "release")
    /\ analyzing' = FALSE
    /\ Return(p)
    /\ UNCHANGED <<backend, calls, counter, rows, audit, spent, history>>

(* A get or a list: one statement that changes nothing. *)
Look(p) == At(p, "idle") /\ UNCHANGED vars

(* A call raises between two of its statements: the statements it has made *)
(* stay made.  Bound: one does, and any that needs one ordinal too many.   *)
Fails(p) ==
    /\ phase[p] # "idle"
    /\ failed => phase[p] = "draw" /\ counter = MaxOrdinal
    /\ failed' = TRUE
    /\ Return(p)
    /\ UNCHANGED <<backend, calls, durable, begun, kept, spends, loaded>>

-----------------------------------------------------------------------------

Next ==
    \E p \in Threads :
        \/ \E f \in Forms, v \in Values : SaveDraft(p, f, v)
        \/ Append(p) \/ Consume(p) \/ ClaimSession(p)
        \/ \E set \in (SUBSET Institutions) \ {{}} : LoadInstitutions(p, set)
        \/ Draw(p) \/ ReadOrdinal(p) \/ FindOrdinal(p) \/ WriteRow(p) \/ WriteLine(p)
        \/ Look(p) \/ Spend(p) \/ ClearRegistry(p) \/ DeleteInstitution(p)
        \/ Stage(p) \/ Publish(p) \/ AnalysisFails(p) \/ Release(p) \/ Fails(p)

Spec == Init /\ [][Next]_vars

-----------------------------------------------------------------------------
(* Properties *)

(* TypeOK.  What each store and each call in progress holds.  The memory   *)
(* store consumes the ticket once ("None if missing or already spent",     *)
(* consume); a durable one reads it and puts it back in two statements, so *)
(* calls that overlap may each be given it.                                *)
TypeOK ==
    /\ backend \in Backends
    /\ counter \in 0..MaxOrdinal
    /\ rows \in [Docs -> Row \cup {NoRow}]
    /\ audit \in [Ordinals -> Lines \cup {NoLine}]
    /\ spent \in BOOLEAN /\ analyzing \in BOOLEAN /\ failed \in BOOLEAN
    /\ phase \in [Threads -> Phases]
    /\ call \in [Threads -> Call]
    /\ calls \in 0..MaxCalls /\ begun \in 0..calls /\ kept \subseteq Lines
    /\ spends \in 0..(IF Durable THEN calls ELSE 1)
    /\ loaded \subseteq SUBSET Institutions

(* OrdinalsDistinct.  "The ordinal then serves as the key, which is unique *)
(* by construction" (store/sqlite.py, append): no two documents share one, *)
(* whoever draws, writes, clears and publishes at the same time.           *)
OrdinalsDistinct ==
    \A d \in Docs : Stored(d) =>
        /\ audit[rows[d].ordinal] = NoLine
        /\ \A e \in Docs : Stored(e) /\ rows[d].ordinal = rows[e].ordinal => d = e

(* KeptLinesStay.  The log is deleted and written anew by every            *)
(* publication, and appended to by others meanwhile: a line whose append   *)
(* has returned is never missing from it.                                  *)
KeptLinesStay == kept \subseteq Log

(* OrderStays.  "Keeping the ordinal matters" (store/sqlite.py, put): what *)
(* is in a list keeps its place among the others, whatever is saved again  *)
(* or published.  Firestore's put sets the ordinal too: see the README.    *)
Precedes(d, e) == Stored(d) /\ Stored(e) /\ rows[d].ordinal < rows[e].ordinal
LinePrecedes(k, l) ==
    \E o, q \in Ordinals : o < q /\ audit[o] = k /\ audit[q] = l
OrderStays ==
    [][backend # "firestore" =>
        /\ \A f, g \in Forms : Precedes(f, g) => ~Precedes(g, f)'
        /\ \A k, l \in Lines : LinePrecedes(k, l) => ~LinePrecedes(l, k)']_vars

(* SomeLoadIsWhole.  Loads of the registry that overlap delete what the    *)
(* others have put.  When all have returned, and none has raised, one of   *)
(* them has its institutions in it.                                        *)
Loading(p) == call[p].set # {}
SomeLoadIsWhole ==
    (loaded # {} /\ ~failed /\ \A p \in Threads : ~Loading(p)) =>
        \E set \in loaded : set \subseteq Registry

=============================================================================

------------------------ MODULE ClassificationChain ------------------------
(***************************************************************************)
(* The chain of deciders of core/classify and the operations of the        *)
(* workflow service that record what it decides: the form type (D1a), the  *)
(* subject (D1b) and the tier (D1c) of one project, read off the creator's *)
(* answers and off one policy snapshot; the recalculation of a tier after  *)
(* a policy change; the reclassification a creator asks for.               *)
(*                                                                         *)
(* Snapshots are published while the project lives, and their rules and    *)
(* threshold lines may move.  The creator answers truthfully: the amount   *)
(* is the budget, and the bracket is where the budget lies between the     *)
(* lines the wizard shows, which the web client carries as a copy          *)
(* (AskedLines).  What a model adds to the rules is any reply.             *)
(*                                                                         *)
(* Pending flags, quotes, evidence and departments are not kept.  Of the   *)
(* project's state only the three phases are that the operations tell      *)
(* apart; ProjectWorkflow has the state machine, the alert and the facts.  *)
(***************************************************************************)
EXTENDS Naturals, Sequences, FiniteSets

CONSTANTS
    Categories,        \* subjects a rule may be about
    Words,             \* words of a story that some rule may be triggered by
    CategoryKeywords,  \* category -> the checked-in vocabulary of its rule
    Budgets,           \* what the work may cost
    Minutes, Counts,   \* minutes of an episode, number of episodes
    SeedSnapshot,      \* the snapshot the store starts with
    Publications,      \* the snapshots that may be published after it
    AskedLines,        \* the lines the wizard's brackets name: [t1, t2]
    None,              \* no answer
    MaxVersion         \* bound: snapshots, the seed included

Tiers == {"T1", "T2", "T3"}
Rules == [category : Categories, triggers : SUBSET Words, edge : BOOLEAN, pending : BOOLEAN]
Lines == [t1 : Nat, t2 : Nat, disputed : SUBSET {"t1", "t2"}]

(* p1: limits of a micro drama.  p2: explicit rules, or only a list of     *)
(* categories.  p3: whether thresholds are published, and the threshold    *)
(* set for AI works, if the pack has one.  p4: tiers with a sourced route. *)
Snapshots ==
    [max : Nat, min : Nat, rules : SUBSET Rules, subjects : SUBSET Categories,
     published : BOOLEAN, lines : Lines \cup {None}, routes : SUBSET Tiers]

ASSUME ChainConstants ==
    /\ CategoryKeywords \in [Categories -> SUBSET Words]
    /\ Budgets \subseteq Nat /\ Minutes \subseteq Nat /\ Counts \subseteq Nat \ {0}
    /\ AskedLines \in [t1 : Nat, t2 : Nat]
    /\ AskedLines.t1 >= AskedLines.t2
    /\ \A s \in Publications \cup {SeedSnapshot} :
          s \in Snapshots /\ (s.lines # None => s.lines.t1 >= s.lines.t2)
    /\ None \notin Nat
    /\ MaxVersion \in Nat \ {0}

VARIABLES
    snapshots,  \* the published snapshots, by version
    budget,     \* what the work costs, which the program may not be told
    intent,     \* the intent profile
    phase,      \* draft, open (may be decided in place) or locked (form frozen)
    cls,        \* the recorded classification
    stale       \* policy_stale

vars == <<snapshots, budget, intent, phase, cls, stale>>

Brackets == {"below_lower", "between", "at_or_above_upper"}

Intent ==
    [claimed : {"micro_drama", "web_film"}, phrase : BOOLEAN, words : SUBSET Words,
     count : Counts \cup {None}, minutes : Minutes \cup {None},
     bracket : Brackets \cup {"unknown"}, amount : Budgets \cup {None},
     key : BOOLEAN]
NoIntent ==
    [claimed |-> "micro_drama", phrase |-> FALSE, words |-> {}, count |-> None,
     minutes |-> None, bracket |-> "unknown", amount |-> None, key |-> FALSE]

(* What is decided.  "basis" is the reason the deciders give: the form, a  *)
(* subject, a condition that has nothing to do with money, the amount, the *)
(* bracket, or the stricter assumption.                                    *)
Undetermined ==
    [tier : {"UNDETERMINED"}, provisional : {FALSE}, special : {FALSE},
     coReview : {FALSE}, basis : {"form", "edge"}, version : 1..MaxVersion, route : {None}]
Tiered ==
    [tier : Tiers, provisional : BOOLEAN, special : BOOLEAN, coReview : BOOLEAN,
     basis : {"subject", "condition", "amount", "bracket", "assumption"},
     version : 1..MaxVersion, route : Tiers \cup {None}]
NotClassified ==
    [tier |-> "UNDETERMINED", provisional |-> FALSE, special |-> FALSE,
     coReview |-> FALSE, basis |-> "form", version |-> 0, route |-> None]

-----------------------------------------------------------------------------
(* D1a: the form type.                                                     *)

(* judge_form_type.  "seen" says whether the model quoted an edge phrase.  *)
JudgeFormType(i, seen, s) ==
    IF i.count = None \/ i.minutes = None THEN "ask_back"
    ELSE IF i.phrase \/ seen THEN "needs_human"
    ELSE IF i.minutes >= s.max \/ i.claimed = "web_film" THEN "exit_sister_path"
    ELSE IF i.count < s.min THEN "exit_non_drama"
    ELSE "micro_drama"

(* D1b: the subject.                                                       *)

(* load_subject_rules: an explicit rule an expert has not reviewed keeps   *)
(* the checked-in vocabulary beside its own; a pack that only lists        *)
(* subjects has nothing else.                                              *)
LoadSubjectRules(s) ==
    IF s.rules # {}
    THEN {[r EXCEPT !.triggers =
              @ \cup (IF r.pending THEN CategoryKeywords[r.category] ELSE {})] : r \in s.rules}
    ELSE {[category |-> c, triggers |-> CategoryKeywords[c],
           edge |-> FALSE, pending |-> TRUE] : c \in s.subjects}

(* judge_subject: the rules whose words the story holds, and those the     *)
(* model named with a quote that is in the story.                          *)
MatchedRules(i, named, s) ==
    {r \in LoadSubjectRules(s) : r.triggers \cap i.words # {} \/ r.category \in named}

(* D1c: the tier.                                                          *)

(* Mutant: an amount on the upper line is below it.                        *)
ExclusiveTier(amount, lines) ==
    IF amount > lines.t1 THEN "T1" ELSE IF amount >= lines.t2 THEN "T2" ELSE "T3"

(* _tier_from_amount; validation lets no published set lack a line.        *)
TierFromAmount(amount, lines) ==
    IF amount >= lines.t1 THEN "T1" ELSE IF amount >= lines.t2 THEN "T2" ELSE "T3"

OnThresholdBoundary(amount, lines) ==
    \E l \in lines.disputed : amount = lines[l]

BracketTier ==
    [below_lower |-> "T3", between |-> "T2", at_or_above_upper |-> "T1"]

(* Mutant: a budget nobody knows leaves the tier open.                     *)
UnknownFromBracket(bracket, settled) ==
    IF bracket = "unknown"
    THEN [tier |-> "UNDETERMINED", provisional |-> TRUE, basis |-> "assumption"]
    ELSE [tier |-> BracketTier[bracket], provisional |-> ~settled, basis |-> "bracket"]

(* _from_bracket, with STRICTER_ASSUMPTION.                                *)
FromBracket(bracket, settled) ==
    IF bracket = "unknown"
    THEN [tier |-> "T2", provisional |-> TRUE, basis |-> "assumption"]
    ELSE [tier |-> BracketTier[bracket], provisional |-> ~settled, basis |-> "bracket"]

(* judge_tier.  The recalculation does not pass the conditions of a key    *)
(* drama: for it "key" is FALSE.                                           *)
JudgeTier(bracket, amount, key, s) ==
    CASE key ->
            [tier |-> "T1", provisional |-> FALSE, basis |-> "condition"]
      [] ~key /\ s.published /\ s.lines # None /\ amount # None ->
            [tier |-> TierFromAmount(amount, s.lines),
             provisional |-> OnThresholdBoundary(amount, s.lines), basis |-> "amount"]
      [] OTHER ->
            FromBracket(bracket, s.published /\ s.lines # None /\ amount = None)

(* filing_route: a route whose clauses are not in the snapshot is none.    *)
FilingRoute(tier, s) == IF tier \in s.routes THEN tier ELSE None

-----------------------------------------------------------------------------
(* The chain.                                                              *)

Open(basis, v) ==
    [tier |-> "UNDETERMINED", provisional |-> FALSE, special |-> FALSE,
     coReview |-> FALSE, basis |-> basis, version |-> v, route |-> None]

(* Mutant: a rule no expert has reviewed leaves the tier provisional.      *)
UnconfirmedSpecial(matched, v) ==
    [tier |-> "T1", provisional |-> \E r \in matched : r.pending, special |-> TRUE,
     coReview |-> TRUE, basis |-> "subject", version |-> v,
     route |-> FilingRoute("T1", snapshots[v])]

(* A special subject is of the first class and reviewed with others.  The  *)
(* review of its rule by an expert has no say in that.                     *)
Special(matched, v) ==
    [tier |-> "T1", provisional |-> FALSE, special |-> TRUE,
     coReview |-> TRUE, basis |-> "subject", version |-> v,
     route |-> FilingRoute("T1", snapshots[v])]

OfTier(d, v) ==
    [tier |-> d.tier, provisional |-> d.provisional, special |-> FALSE,
     coReview |-> FALSE, basis |-> d.basis, version |-> v,
     route |-> FilingRoute(d.tier, snapshots[v])]

(* _classify, for answers that are not asked back; reply is what the model *)
(* says: [phrase, named].  A rule that is no edge case outweighs those     *)
(* that are.                                                               *)
Classify(i, reply, v) ==
    LET s       == snapshots[v]
        matched == MatchedRules(i, reply.named, s)
    IN CASE JudgeFormType(i, reply.phrase, s) # "micro_drama" -> Open("form", v)
         [] OTHER ->
              IF \E r \in matched : ~r.edge THEN Special(matched, v)
              ELSE IF matched # {} THEN Open("edge", v)
              ELSE OfTier(JudgeTier(i.bracket, i.amount, i.key, s), v)

Latest == Len(snapshots)
Replies == [phrase : BOOLEAN, named : SUBSET Categories]
Silence == [phrase |-> FALSE, named |-> {}]

(* A model is asked only about a story there is, and may be out of reach.  *)
RepliesTo(i) == IF i.phrase \/ i.words # {} THEN Replies ELSE {Silence}

Answered(i) == i.count # None /\ i.minutes # None

-----------------------------------------------------------------------------

(* The bracket of an amount between two lines: the creator's own reading.  *)
BracketOf(amount, lines) ==
    CASE amount < lines.t2 -> "below_lower"
      [] amount >= lines.t1 -> "at_or_above_upper"
      [] OTHER -> "between"

Truthful(i) ==
    /\ i.bracket \in {"unknown", BracketOf(budget, AskedLines)}
    /\ i.amount \in {None, budget}

(* What a creator may answer: about the form, about the story, about the   *)
(* money.  A patch names some of the fields.                               *)
AboutForm(c, n, m) == [intent EXCEPT !.claimed = c, !.count = n, !.minutes = m]
AboutStory(p, w) == [intent EXCEPT !.phrase = p, !.words = w]
AboutMoney(b, a, k) == [intent EXCEPT !.bracket = b, !.amount = a, !.key = k]
Patched ==
    {AboutForm(c, n, m) : c \in {"micro_drama", "web_film"}, n \in Counts, m \in Minutes}
    \cup {AboutStory(p, w) : p \in BOOLEAN, w \in SUBSET Words}
    \cup {AboutMoney(b, a, k) : b \in {"unknown", BracketOf(budget, AskedLines)},
                                a \in {None, budget}, k \in BOOLEAN}

Init ==
    /\ snapshots = <<SeedSnapshot>>
    /\ budget \in Budgets
    /\ intent = NoIntent
    /\ phase = "draft"
    /\ cls = NotClassified
    /\ stale = FALSE

(* publish: the administrator's next snapshot.                             *)
PublishSnapshot ==
    /\ Latest < MaxVersion
    /\ \E s \in Publications : snapshots' = Append(snapshots, s)
    /\ UNCHANGED <<budget, intent, phase, cls, stale>>

(* submit_intent: the answers change, the classification does not.         *)
SubmitIntent ==
    /\ intent' \in Patched
    /\ phase' = IF phase = "draft" THEN "open" ELSE phase
    /\ UNCHANGED <<snapshots, budget, cls, stale>>

(* run_classification and what _persist_classification saves before the    *)
(* transition, which may be refused.  The stale flag stays as it was.      *)
RunClassification ==
    /\ phase # "draft" /\ Answered(intent)
    /\ \E reply \in RepliesTo(intent) : cls' = Classify(intent, reply, Latest)
    /\ UNCHANGED <<snapshots, budget, intent, phase, stale>>

(* choose_tier: a bracket is picked and the chain runs again.              *)
ChooseTier ==
    LET i == [intent EXCEPT !.bracket = BracketOf(budget, AskedLines)]
    IN /\ phase # "draft" /\ Answered(i)
       /\ intent' = i
       /\ \E reply \in RepliesTo(i) : cls' = Classify(i, reply, Latest)
       /\ UNCHANGED <<snapshots, budget, phase, stale>>

(* apply_review_confirmation: the confirmed details are the whole intake,  *)
(* an amount or a condition of a key drama told before is gone.            *)
Confirmed(n, m, w, b) ==
    [NoIntent EXCEPT !.count = n, !.minutes = m, !.words = w, !.bracket = b]

Confirmations ==
    {Confirmed(n, m, w, b) : n \in Counts, m \in Minutes, w \in SUBSET Words,
                             b \in {"unknown", BracketOf(budget, AskedLines)}}

(* begin_review_reanalysis, the confirmation and run_classification, which *)
(* are published as one.                                                   *)
ConfirmReview ==
    /\ phase # "locked"
    /\ intent' \in Confirmations
    /\ phase' = "open"
    /\ \E reply \in RepliesTo(intent') : cls' = Classify(intent', reply, Latest)
    /\ stale' = FALSE
    /\ UNCHANGED <<snapshots, budget>>

Classified == cls # NotClassified

(* mark_policy_stale, as the consumer calls it.                            *)
MarkPolicyStale ==
    /\ Classified /\ cls.version < Latest
    /\ stale' = TRUE
    /\ UNCHANGED <<snapshots, budget, intent, phase, cls>>

(* reclassify: the whole chain again, in place, if the form is not locked. *)
Reclassify ==
    /\ stale /\ phase = "open" /\ Answered(intent)
    /\ \E reply \in RepliesTo(intent) : cls' = Classify(intent, reply, Latest)
    /\ stale' = FALSE
    /\ UNCHANGED <<snapshots, budget, intent, phase>>

(* recalc_tier, as the consumer calls it for a version newer than the      *)
(* pinned one: the tier of the money alone.  The subject and the route     *)
(* stay what they were.                                                    *)
RecalcTier(v) ==
    LET d == JudgeTier(intent.bracket, intent.amount, FALSE, snapshots[v])
    IN /\ Classified /\ cls.version < v /\ v <= Latest
       /\ phase # "locked" /\ cls.provisional
       /\ snapshots[v].published
       /\ cls' = [cls EXCEPT !.tier = d.tier, !.provisional = d.provisional,
                             !.basis = d.basis, !.version = v]
       /\ stale' = FALSE
       /\ UNCHANGED <<snapshots, budget, intent, phase>>

(* The form is frozen, and a frozen one comes back for revision.           *)
FreezeForm ==
    /\ phase = "open" /\ cls.tier \in Tiers
    /\ phase' = "locked"
    /\ UNCHANGED <<snapshots, budget, intent, cls, stale>>

ReturnForm ==
    /\ phase = "locked"
    /\ phase' = "open"
    /\ UNCHANGED <<snapshots, budget, intent, cls, stale>>

Next ==
    \/ PublishSnapshot \/ SubmitIntent \/ ConfirmReview
    \/ RunClassification \/ ChooseTier \/ Reclassify
    \/ MarkPolicyStale \/ (\E v \in 1..MaxVersion : RecalcTier(v))
    \/ FreezeForm \/ ReturnForm

Spec == Init /\ [][Next]_vars

-----------------------------------------------------------------------------
(* Properties.                                                             *)

(* Types: no tier is provisional but one of the three, and none is open    *)
(* once the chain reached the money.                                       *)
TypeOK ==
    /\ Latest \in 1..MaxVersion
    /\ \A v \in 1..Latest : snapshots[v] \in Publications \cup {SeedSnapshot}
    /\ budget \in Budgets
    /\ intent \in Intent /\ Truthful(intent)
    /\ phase \in {"draft", "open", "locked"}
    /\ cls \in Undetermined \cup Tiered \cup {NotClassified}
    /\ cls.version <= Latest
    /\ stale \in BOOLEAN

(* A special subject stays first class.  Whatever policy changes and       *)
(* recalculations follow, a recorded hit of a special subject rests on     *)
(* tier T1, settled, with co-review: no recalculation of the money         *)
(* overwrites it (chain.py, the comment on rules_unconfirmed).             *)
SpecialSubjectStaysT1 ==
    cls.special => cls.tier = "T1" /\ ~cls.provisional /\ cls.coReview

(* A tier read off the money and not provisional is the one the published  *)
(* lines of its own snapshot give the budget: the class below the lower    *)
(* line, from it up, or from the upper line up.  The snapshot has          *)
(* published lines; an amount on a disputed line settles nothing; and a    *)
(* bracket is exact as long as the lines are those it was asked about.     *)
TierSpan(tier, lines) ==
    CASE tier = "T3" -> {b \in Budgets : b < lines.t2}
      [] tier = "T2" -> {b \in Budgets : lines.t2 <= b /\ b < lines.t1}
      [] tier = "T1" -> {b \in Budgets : lines.t1 <= b}

SameLines(lines) == lines.t1 = AskedLines.t1 /\ lines.t2 = AskedLines.t2

Exact(d, s) ==
    d.basis \in {"amount", "bracket"} /\ ~d.provisional =>
      /\ s.published /\ s.lines # None
      /\ (d.basis = "amount" \/ SameLines(s.lines)) => budget \in TierSpan(d.tier, s.lines)
      /\ d.basis = "amount" => \A l \in s.lines.disputed : budget # s.lines[l]

SettledTierIsExact == Exact(cls, snapshots[cls.version])

=============================================================================

------------------------ MODULE ClassificationProofs ------------------------
(***************************************************************************)
(* What the chain of deciders keeps true through every edit, publication,  *)
(* recalculation and reclassification, for every budget, every vocabulary  *)
(* and every line a snapshot may draw.  The argument has two halves: what  *)
(* the deciders return is good (JudgeTierIsGood, ClassifyIsGood), and a    *)
(* recorded answer stays good, as snapshots are only ever appended.        *)
(***************************************************************************)
EXTENDS ClassificationChain, TLAPS

Sound(s) == s \in Snapshots /\ (s.lines # None => s.lines.t1 >= s.lines.t2)

Decision ==
    [tier : Tiers, provisional : BOOLEAN,
     basis : {"condition", "amount", "bracket", "assumption"}]

(* The answers there are, without the bounds on what may be published.     *)
Environment ==
    /\ snapshots \in Seq(Publications \cup {SeedSnapshot})
    /\ Latest \in 1..MaxVersion
    /\ budget \in Budgets
    /\ intent \in Intent /\ Truthful(intent)

(* What holds of any classification pinned to version v.                   *)
GoodClass(c, v) ==
    /\ c \in Undetermined \cup Tiered
    /\ c.version = v
    /\ c.special => c.tier = "T1" /\ ~c.provisional /\ c.coReview
    /\ Exact(c, snapshots[v])

IInv ==
    /\ Environment
    /\ phase \in {"draft", "open", "locked"}
    /\ stale \in BOOLEAN
    /\ cls = NotClassified \/ (cls.version \in 1..Latest /\ GoodClass(cls, cls.version))

LEMMA SnapshotsAreSound ==
    ASSUME Environment, NEW v \in 1..Latest
    PROVE  Sound(snapshots[v])
BY ChainConstants DEF Environment, Sound, Latest

(* The bracket the creator picks, under the lines it was asked about.      *)
LEMMA BracketIsOneOfThree == ASSUME budget \in Budgets
    PROVE  /\ BracketOf(budget, AskedLines) \in Brackets
           /\ BracketOf(budget, AskedLines) = "below_lower" <=> budget < AskedLines.t2
           /\ BracketOf(budget, AskedLines) = "at_or_above_upper" <=> budget >= AskedLines.t1
BY ChainConstants DEF BracketOf, Brackets

(* The bracket of a settled answer, and the amount, give the class whose   *)
(* span holds the budget.                                                  *)
LEMMA JudgeTierIsGood ==
    ASSUME budget \in Budgets, NEW s, Sound(s), NEW key \in BOOLEAN,
           NEW bracket \in {"unknown", BracketOf(budget, AskedLines)},
           NEW amount \in {None, budget}
    PROVE  /\ JudgeTier(bracket, amount, key, s) \in Decision
           /\ Exact(JudgeTier(bracket, amount, key, s), s)
<1> DEFINE d == JudgeTier(bracket, amount, key, s)
<1>1. budget \in Nat /\ None \notin Nat /\ AskedLines \in [t1 : Nat, t2 : Nat]
      /\ AskedLines.t1 >= AskedLines.t2
  BY ChainConstants
<1>2. s.published \in BOOLEAN /\ s.lines \in Lines \cup {None}
  BY DEF Sound, Snapshots
<1>3. CASE key
  <2>1. d = [tier |-> "T1", provisional |-> FALSE, basis |-> "condition"]
    BY <1>3 DEF JudgeTier
  <2>2. QED BY <2>1 DEF Decision, Tiers, Exact
<1>4. CASE ~key /\ s.published /\ s.lines # None /\ amount # None
  <2>1. d = [tier |-> TierFromAmount(budget, s.lines),
             provisional |-> OnThresholdBoundary(budget, s.lines), basis |-> "amount"]
    BY <1>4 DEF JudgeTier
  <2>2. s.lines \in Lines /\ s.lines.t1 >= s.lines.t2
    BY <1>2, <1>4 DEF Sound
  <2>3. TierFromAmount(budget, s.lines) \in Tiers
    BY DEF TierFromAmount, Tiers
  <2>4. budget \in TierSpan(TierFromAmount(budget, s.lines), s.lines)
    BY <1>1, <2>2, Z3 DEF TierFromAmount, TierSpan, Lines
  <2>5. OnThresholdBoundary(budget, s.lines) \in BOOLEAN
    BY DEF OnThresholdBoundary
  <2>6. ~OnThresholdBoundary(budget, s.lines) => \A l \in s.lines.disputed : budget # s.lines[l]
    BY DEF OnThresholdBoundary
  <2>7. d \in Decision
    BY <2>1, <2>3, <2>5 DEF Decision
  <2>8. Exact(d, s)
    BY <1>4, <2>1, <2>4, <2>6 DEF Exact
  <2>9. QED BY <2>7, <2>8
<1>5. CASE ~key /\ ~(s.published /\ s.lines # None /\ amount # None)
  <2> DEFINE settled == s.published /\ s.lines # None /\ amount = None
  <2>1. d = FromBracket(bracket, settled)
    BY <1>5 DEF JudgeTier
  <2>2. CASE bracket = "unknown"
    <3>1. d = [tier |-> "T2", provisional |-> TRUE, basis |-> "assumption"]
      BY <2>1, <2>2 DEF FromBracket
    <3>2. QED BY <3>1 DEF Decision, Tiers, Exact
  <2>3. CASE bracket # "unknown"
    <3>1. bracket = BracketOf(budget, AskedLines) /\ bracket \in Brackets
      BY <2>3, BracketIsOneOfThree
    <3>2. d = [tier |-> BracketTier[bracket], provisional |-> ~settled, basis |-> "bracket"]
      BY <2>1, <2>3 DEF FromBracket
    <3>3. BracketTier[bracket] \in Tiers
      BY <3>1 DEF Brackets, BracketTier, Tiers
    <3>4. SameLines(s.lines) => budget \in TierSpan(BracketTier[bracket], s.lines)
      BY <1>1, <3>1, BracketIsOneOfThree DEF SameLines, TierSpan, BracketTier, Brackets
    <3>5. d \in Decision
      BY <3>2, <3>3 DEF Decision
    <3>6. CASE settled
      <4>1. d = [tier |-> BracketTier[bracket], provisional |-> FALSE, basis |-> "bracket"]
        BY <3>2, <3>6
      <4>2. Exact(d, s)
        BY <3>4, <3>6, <4>1 DEF Exact
      <4>3. QED BY <3>5, <4>2
    <3>7. CASE ~settled
      <4>1. d = [tier |-> BracketTier[bracket], provisional |-> TRUE, basis |-> "bracket"]
        BY <3>2, <3>7
      <4>2. Exact(d, s)
        BY <4>1 DEF Exact
      <4>3. QED BY <3>5, <4>2
    <3>8. QED BY <3>6, <3>7
  <2>4. QED BY <2>2, <2>3
<1>6. QED BY <1>3, <1>4, <1>5

LEMMA RouteIsTier ==
    ASSUME NEW tier \in Tiers, NEW s PROVE FilingRoute(tier, s) \in Tiers \cup {None}
BY DEF FilingRoute

(* Whatever the model replies, the chain returns a good classification.    *)
LEMMA ClassifyIsGood ==
    ASSUME Environment, NEW i, NEW reply, NEW v \in 1..Latest,
           i.key \in BOOLEAN, i.bracket \in {"unknown", BracketOf(budget, AskedLines)},
           i.amount \in {None, budget}
    PROVE  GoodClass(Classify(i, reply, v), v)
<1> DEFINE s == snapshots[v]
           matched == MatchedRules(i, reply.named, s)
           d == JudgeTier(i.bracket, i.amount, i.key, s)
<1>1. budget \in Budgets /\ v \in 1..MaxVersion
  BY ChainConstants DEF Environment
<1>2. d \in Decision /\ Exact(d, s)
  BY <1>1, SnapshotsAreSound, JudgeTierIsGood
<1>3. ASSUME NEW basis \in {"form", "edge"} PROVE GoodClass(Open(basis, v), v)
  BY <1>1 DEF GoodClass, Open, Undetermined, Exact
<1>4. GoodClass(Special(matched, v), v)
  <2>1. FilingRoute("T1", s) \in Tiers \cup {None}
    BY RouteIsTier DEF Tiers
  <2>2. Special(matched, v) \in Tiered
    BY <1>1, <2>1 DEF Special, Tiered, Tiers
  <2>3. Exact(Special(matched, v), s)
    BY DEF Special, Exact
  <2>4. QED BY <2>2, <2>3 DEF GoodClass, Special
<1>5. GoodClass(OfTier(d, v), v)
  <2>1. FilingRoute(d.tier, s) \in Tiers \cup {None}
    BY <1>2, RouteIsTier DEF Decision
  <2>2. OfTier(d, v) \in Tiered
    BY <1>1, <1>2, <2>1 DEF OfTier, Tiered, Decision
  <2>3. Exact(OfTier(d, v), s)
    BY <1>2 DEF OfTier, Exact
  <2>4. QED BY <2>2, <2>3 DEF GoodClass, OfTier
<1>6. Classify(i, reply, v) \in
        {Open("form", v), Open("edge", v), Special(matched, v), OfTier(d, v)}
  BY DEF Classify
<1>7. QED BY <1>3, <1>4, <1>5, <1>6

-----------------------------------------------------------------------------
(* The invariant.                                                          *)

LEMMA PatchedIsTruthful ==
    ASSUME Environment, NEW i \in Patched
    PROVE  i \in Intent /\ Truthful(i)
<1>1. BracketOf(budget, AskedLines) \in Brackets
  BY BracketIsOneOfThree DEF Environment
<1>2. intent \in Intent /\ Truthful(intent)
  BY DEF Environment
<1>3. ASSUME NEW c \in {"micro_drama", "web_film"}, NEW n \in Counts, NEW m \in Minutes
      PROVE  AboutForm(c, n, m) \in Intent /\ Truthful(AboutForm(c, n, m))
  BY <1>2 DEF AboutForm, Intent, Truthful
<1>4. ASSUME NEW p \in BOOLEAN, NEW w \in SUBSET Words
      PROVE  AboutStory(p, w) \in Intent /\ Truthful(AboutStory(p, w))
  BY <1>2 DEF AboutStory, Intent, Truthful
<1>5. ASSUME NEW b \in {"unknown", BracketOf(budget, AskedLines)},
             NEW a \in {None, budget}, NEW k \in BOOLEAN
      PROVE  AboutMoney(b, a, k) \in Intent /\ Truthful(AboutMoney(b, a, k))
  <2>1. b \in Brackets \cup {"unknown"} /\ a \in Budgets \cup {None}
    BY <1>1 DEF Environment
  <2>2. QED BY <1>2, <2>1 DEF AboutMoney, Intent, Truthful
<1>6. QED BY <1>3, <1>4, <1>5 DEF Patched

LEMMA InitHolds == ASSUME Init PROVE IInv
<1>1. NoIntent \in Intent
  BY DEF NoIntent, Intent
<1>2. Truthful(NoIntent)
  BY DEF NoIntent, Truthful
<1>3. /\ snapshots \in Seq(Publications \cup {SeedSnapshot})
      /\ Latest \in 1..MaxVersion
  BY ChainConstants DEF Init, Latest
<1>4. intent \in Intent /\ Truthful(intent) /\ budget \in Budgets
  BY <1>1, <1>2 DEF Init
<1>5. QED BY <1>3, <1>4 DEF Init, IInv, Environment

(* An answer that was good stays good while nothing it rests on changes.   *)
LEMMA GoodStays ==
    ASSUME cls = NotClassified \/ (cls.version \in 1..Latest /\ GoodClass(cls, cls.version)),
           cls' = cls, budget' = budget,
           \A v \in 1..Latest : v \in 1..Latest' /\ snapshots'[v] = snapshots[v]
    PROVE  cls' = NotClassified' \/ (cls'.version \in 1..Latest' /\ GoodClass(cls, cls.version)')
<1>1. CASE cls = NotClassified
  BY <1>1 DEF NotClassified
<1>2. CASE cls.version \in 1..Latest /\ GoodClass(cls, cls.version)
  BY <1>2 DEF GoodClass, Exact, TierSpan, SameLines
<1>3. QED BY <1>1, <1>2

(* A decision of the whole chain.                                          *)
LEMMA DecidedIsGood ==
    ASSUME IInv, NEW i, NEW reply,
           i \in Intent, Truthful(i), cls' = Classify(i, reply, Latest),
           UNCHANGED <<snapshots, budget>>
    PROVE  cls'.version \in 1..Latest' /\ GoodClass(cls, cls.version)'
<1>1. Latest \in 1..Latest /\ Environment
  BY ChainConstants DEF IInv, Environment
<1>2. GoodClass(Classify(i, reply, Latest), Latest)
  BY <1>1, ClassifyIsGood DEF Intent, Truthful
<1>3. Latest' = Latest /\ cls'.version = Latest
  BY <1>2 DEF GoodClass, Latest
<1>4. GoodClass(cls, cls.version)'
  BY <1>2, <1>3 DEF GoodClass, Exact, TierSpan, SameLines
<1>5. QED BY <1>1, <1>3, <1>4

LEMMA PublishKeeps == ASSUME IInv, PublishSnapshot PROVE IInv'
<1>1. PICK s \in Publications : snapshots' = Append(snapshots, s)
  BY DEF PublishSnapshot
<1>2. /\ snapshots' \in Seq(Publications \cup {SeedSnapshot})
      /\ Latest' = Latest + 1
      /\ \A v \in 1..Latest : v \in 1..Latest' /\ snapshots'[v] = snapshots[v]
  BY <1>1 DEF IInv, Environment, Latest
<1>3. Latest' \in 1..MaxVersion
  BY <1>2, ChainConstants DEF IInv, Environment, PublishSnapshot
<1>4. cls' = NotClassified' \/ (cls'.version \in 1..Latest' /\ GoodClass(cls, cls.version)')
  BY <1>2, GoodStays DEF IInv, PublishSnapshot
<1>5. QED BY <1>2, <1>3, <1>4
          DEF IInv, Environment, PublishSnapshot, Truthful, Intent

(* The steps that leave the answer and the snapshots alone.                *)
LEMMA AnswerKept ==
    ASSUME IInv, UNCHANGED <<snapshots, budget, cls>>,
           intent' \in Intent, Truthful(intent)',
           phase' \in {"draft", "open", "locked"}, stale' \in BOOLEAN
    PROVE  IInv'
<1>1. cls' = NotClassified' \/ (cls'.version \in 1..Latest' /\ GoodClass(cls, cls.version)')
  BY GoodStays DEF IInv, Latest
<1>2. QED BY <1>1 DEF IInv, Environment, Latest

(* The steps in which the whole chain decides.                             *)
LEMMA AnswerDecided ==
    ASSUME IInv, NEW reply, cls' = Classify(intent', reply, Latest),
           UNCHANGED <<snapshots, budget>>, intent' \in Intent, Truthful(intent'),
           phase' \in {"draft", "open", "locked"}, stale' \in BOOLEAN
    PROVE  IInv'
<1>1. cls'.version \in 1..Latest' /\ GoodClass(cls, cls.version)'
  BY DecidedIsGood
<1>2. Truthful(intent)'
  BY DEF Truthful
<1>3. QED BY <1>1, <1>2 DEF IInv, Environment, Latest

LEMMA RecalcKeeps == ASSUME IInv, NEW v \in 1..MaxVersion, RecalcTier(v) PROVE IInv'
<1> DEFINE d == JudgeTier(intent.bracket, intent.amount, FALSE, snapshots[v])
<1>1. v \in 1..Latest /\ Environment /\ budget \in Budgets
  BY DEF RecalcTier, IInv, Environment
<1>2. cls \in Tiered /\ cls.provisional /\ ~cls.special
  BY DEF RecalcTier, Classified, IInv, GoodClass, Undetermined, Tiered
<1>3. d \in Decision /\ Exact(d, snapshots[v])
  BY <1>1, SnapshotsAreSound, JudgeTierIsGood DEF IInv, Environment, Truthful
<1>4. cls' = [cls EXCEPT !.tier = d.tier, !.provisional = d.provisional,
                         !.basis = d.basis, !.version = v]
  BY DEF RecalcTier
<1>5. cls' \in Tiered /\ cls'.version = v /\ cls'.special = FALSE
  BY <1>2, <1>3, <1>4 DEF Tiered, Decision
<1>6. Exact(cls', snapshots[v])
  BY <1>2, <1>3, <1>4 DEF Exact, Tiered
<1>7. GoodClass(cls, cls.version)'
  BY <1>5, <1>6 DEF GoodClass, RecalcTier, Exact, TierSpan, SameLines
<1>8. QED BY <1>1, <1>5, <1>7 DEF IInv, Environment, RecalcTier, Latest, Truthful

LEMMA ConfirmKeeps == ASSUME IInv, ConfirmReview PROVE IInv'
<1>1. PICK reply : cls' = Classify(intent', reply, Latest)
  BY DEF ConfirmReview
<1>2. PICK n \in Counts, m \in Minutes, w \in SUBSET Words,
           b \in {"unknown", BracketOf(budget, AskedLines)} : intent' = Confirmed(n, m, w, b)
  BY DEF ConfirmReview, Confirmations
<1>3. b \in Brackets \cup {"unknown"}
  BY BracketIsOneOfThree DEF IInv, Environment
<1>4. intent' = [claimed |-> "micro_drama", phrase |-> FALSE, words |-> w, count |-> n,
                 minutes |-> m, bracket |-> b, amount |-> None, key |-> FALSE]
  BY <1>2 DEF Confirmed, NoIntent
<1>5. intent' \in Intent /\ Truthful(intent')
  BY <1>3, <1>4 DEF Intent, Truthful
<1>6. QED BY <1>1, <1>5, AnswerDecided DEF ConfirmReview

LEMMA ChooseKeeps == ASSUME IInv, ChooseTier PROVE IInv'
<1>1. PICK reply : cls' = Classify(intent', reply, Latest)
  BY DEF ChooseTier
<1>2. BracketOf(budget, AskedLines) \in Brackets
  BY BracketIsOneOfThree DEF IInv, Environment
<1>3. intent' \in Intent /\ Truthful(intent')
  BY <1>2 DEF ChooseTier, IInv, Environment, Intent, Truthful
<1>4. QED BY <1>1, <1>3, AnswerDecided DEF ChooseTier, IInv

LEMMA NextKeeps == ASSUME IInv, [Next]_vars PROVE IInv'
<1>0. intent \in Intent /\ Truthful(intent)
  BY DEF IInv, Environment
<1>1. CASE PublishSnapshot BY <1>1, PublishKeeps
<1>2. CASE SubmitIntent
  <2>1. intent' \in Intent /\ Truthful(intent')
    BY <1>2, PatchedIsTruthful DEF SubmitIntent, IInv
  <2>2. Truthful(intent)'
    BY <1>2, <2>1 DEF SubmitIntent, Truthful
  <2>3. QED BY <1>2, <2>1, <2>2, AnswerKept DEF SubmitIntent, IInv
<1>3. CASE ConfirmReview BY <1>3, ConfirmKeeps
<1>4. CASE RunClassification
  <2>1. PICK reply : cls' = Classify(intent', reply, Latest)
    BY <1>4 DEF RunClassification
  <2>2. QED BY <1>0, <1>4, <2>1, AnswerDecided DEF RunClassification, IInv
<1>5. CASE ChooseTier BY <1>5, ChooseKeeps
<1>6. CASE Reclassify
  <2>1. PICK reply : cls' = Classify(intent', reply, Latest)
    BY <1>6 DEF Reclassify
  <2>2. QED BY <1>0, <1>6, <2>1, AnswerDecided DEF Reclassify, IInv
<1>7. CASE MarkPolicyStale \/ FreezeForm \/ ReturnForm \/ UNCHANGED vars
  <2>1. Truthful(intent)'
    BY <1>0, <1>7 DEF MarkPolicyStale, FreezeForm, ReturnForm, vars, Truthful
  <2>2. QED BY <1>0, <1>7, <2>1, AnswerKept
            DEF MarkPolicyStale, FreezeForm, ReturnForm, vars, IInv
<1>8. CASE \E v \in 1..MaxVersion : RecalcTier(v)
  BY <1>8, RecalcKeeps
<1>9. QED BY <1>1, <1>2, <1>3, <1>4, <1>5, <1>6, <1>7, <1>8 DEF Next

THEOREM ChainInvariant == Spec => []IInv
<1>1. IInv /\ [Next]_vars => IInv' BY NextKeeps
<1>2. QED BY InitHolds, <1>1, PTL DEF Spec

(* Types of the whole state, for every constant.                           *)
THEOREM ChainTypes == Spec => []TypeOK
<1>1. IInv => TypeOK
  <2> SUFFICES ASSUME IInv PROVE TypeOK OBVIOUS
  <2>1. \A v \in 1..Latest : snapshots[v] \in Publications \cup {SeedSnapshot}
    BY DEF IInv, Environment, Latest
  <2>2. cls \in Undetermined \cup Tiered \cup {NotClassified} /\ cls.version <= Latest
    BY ChainConstants DEF IInv, Environment, GoodClass, NotClassified
  <2>3. QED BY <2>1, <2>2 DEF TypeOK, IInv, Environment
<1>2. QED BY ChainInvariant, <1>1, PTL

(* No recalculation, reclassification or publication ever takes a recorded *)
(* special subject below T1 or leaves it provisional.                      *)
THEOREM SpecialSubjectsKept == Spec => []SpecialSubjectStaysT1
<1>1. IInv => SpecialSubjectStaysT1
  BY DEF IInv, GoodClass, SpecialSubjectStaysT1, NotClassified
<1>2. QED BY ChainInvariant, <1>1, PTL

(* A settled tier is the class whose span holds the budget.                *)
THEOREM SettledTiersExact == Spec => []SettledTierIsExact
<1>1. IInv => SettledTierIsExact
  BY DEF IInv, GoodClass, SettledTierIsExact, Exact, NotClassified
<1>2. QED BY ChainInvariant, <1>1, PTL

=============================================================================

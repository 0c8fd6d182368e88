SPECIFICATION Spec
CONSTANTS
    k1 = k1
    c1 = c1
    c2 = c2
    Keys = {k1}
    Values = {a}
    None = None
    IntentKeys = {k1}
    AskedKeys = {k1}
    ConfirmedKeys = {k1}
    Scenes = {}
    HumanScenes = {}
    Cards = {c1, c2}
    RequiredCards = {c1, c2}
    CardKind <- ScriptCards
    Kinds = {"script"}
    Institutions = {}
    Licensed = {}
    Tiers = {"T2"}
    Numbers = {}
    RequiredFacts <- NothingRequired
    DefinedCards <- ChangingCards
    FindingIds = {f1}
    MaxVersion = 2
    MaxAssets = 1
    MaxDrafts = 1
INVARIANTS
    TypeOK
    ClassifiedAnswersAreOnRecord
PROPERTIES
    GateSeesEveryDefinedCard

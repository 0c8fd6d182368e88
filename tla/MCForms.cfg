SPECIFICATION FairSpec
CONSTANTS
    k1 = k1
    c1 = c1
    c2 = c2
    Keys = {k1}
    Values = {a, b}
    None = None
    IntentKeys = {}
    AskedKeys = {}
    ConfirmedKeys = {}
    Scenes = {}
    HumanScenes = {}
    Cards = {}
    RequiredCards = {}
    CardKind <- NoCardKind
    Kinds = {"script"}
    Institutions = {i1}
    Licensed = {}
    Tiers = {"T2"}
    Numbers = {}
    RequiredFacts <- LateForm
    DefinedCards <- NoCardsDefined
    FindingIds = {f1}
    MaxVersion = 2
    MaxAssets = 1
    MaxDrafts = 2
INVARIANTS
    FrozenFormsAreSourced
    FilledFieldIsNewestAnswer
PROPERTIES
    FrozenDraftsNeverChange
    ReturnedIsRefrozen

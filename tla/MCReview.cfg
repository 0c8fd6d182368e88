SPECIFICATION Spec
CONSTANTS
    k1 = k1
    c1 = c1
    c2 = c2
    Keys = {}
    Values = {}
    None = None
    IntentKeys = {}
    AskedKeys = {}
    ConfirmedKeys = {}
    Scenes = {s1}
    HumanScenes = {s1}
    Cards = {}
    RequiredCards = {}
    CardKind <- NoCardKind
    Kinds = {"script"}
    Institutions = {}
    Licensed = {}
    Tiers = {"T2"}
    Numbers = {}
    RequiredFacts <- NothingRequired
    DefinedCards <- NoCardsDefined
    FindingIds = {f1, f2, f3}
    MaxVersion = 1
    MaxAssets = 3
    MaxDrafts = 1
SYMMETRY FindingSymmetry
INVARIANTS
    ReviewPrecedesGate
PROPERTIES
    GatedScenesAreReleased

SPECIFICATION Spec
CONSTANTS
    k1 = k1
    c1 = c1
    c2 = c2
    Keys = {}
    Values = {}
    None = None
    IntentKeys = {}
    AskedKeys = {}
    ConfirmedKeys = {}
    Scenes = {}
    HumanScenes = {}
    Cards = {}
    RequiredCards = {}
    CardKind <- NoCardKind
    Kinds = {"script"}
    Institutions = {good, bad}
    Licensed = {good}
    Tiers = {"T2"}
    Numbers = {n1, n2}
    RequiredFacts <- NothingRequired
    DefinedCards <- NoCardsDefined
    FindingIds = {f1}
    MaxVersion = 2
    MaxAssets = 1
    MaxDrafts = 3
INVARIANTS
    SentStatesHoldFrozenForm
    AcceptedByLicensed
    CollectedOnConfirmedPlan
    SupersededDraftsStayFrozen
PROPERTIES
    ImplementsLifecycle

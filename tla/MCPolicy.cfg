SPECIFICATION Spec
CONSTANTS
    Runs = {r1, r2}
    Texts = {old, new}
    Drafts <- TierOnly
    Threads = {a1, a2}
    Projects = {1, 2}
    Busy = {}
    PageLimit = 1
    MostSaves = 2
    MaxVersion = 3
    MaxLosses = 1
CHECK_DEADLOCK FALSE
SYMMETRY LoopSymmetry
INVARIANTS
    TypeOK
    AnnouncedToAll
    NoEventLeftBehind
PROPERTIES
    ChangeIsProposed
    

SPECIFICATION Spec
CONSTANTS
    Runs = {r1}
    Texts = {old, new}
    Drafts <- TierOnly
    Threads = {a1, a2}
    Projects = {1, 2}
    Busy = {2}
    PageLimit = 2
    MostSaves = 2
    MaxVersion = 2
    MaxLosses = 1
SYMMETRY LoopSymmetry
INVARIANTS
    AnnouncedToAll

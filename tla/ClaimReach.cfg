SPECIFICATION Spec
CONSTANTS
    Runs = {r1, r2}
    Texts = {old, new}
    Drafts <- SubjectOnly
    Threads = {a1, a2}
    Projects = {1}
    Busy = {1}
    PageLimit = 1
    MostSaves = 2
    MaxVersion = 3
    MaxLosses = 1
INVARIANTS
    ReachesEveryProject

SPECIFICATION Spec
CONSTANTS
    Categories = {"police"}
    Words = {"police", "station"}
    CategoryKeywords <- Keywords
    Budgets = {2, 3}
    Minutes = {1}
    Counts = {2, 3}
    SeedSnapshot <- Seed
    Publications <- Published
    AskedLines <- Asked
    None = None
    MaxVersion = 2
INVARIANTS
    TypeOK
    SpecialSubjectStaysT1
    SettledTierIsExact

SPECIFICATION Spec
CONSTANTS
    Requests = {q1, q2}
    Editors = {e1}
    Details = {d1, d2}
    None = None
    MaxGeneration = 3
    MaxExtractions = 2
    MaxEdits = 2
SYMMETRY Symmetry
CHECK_DEADLOCK FALSE
INVARIANTS
    TypeOK
    AnalysisHoldsSession
    AnalyzingIsHeld
    CompleteShowsPublished
PROPERTIES
    PublicationsKeepOtherWrites
    PublicationsRespectLocks
    FailedIsFinal

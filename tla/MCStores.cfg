SPECIFICATION Spec
CONSTANTS
    Threads = {p1, p2}
    Connection <- OneConnection
    Forms = {f1, f2}
    Institutions = {i1, i2}
    Values = {v1}
    MaxOrdinal = 8
    MaxCalls = 4
SYMMETRY Symmetry
INVARIANTS
    TypeOK
    OrdinalsDistinct
    KeptLinesStay
    SomeLoadIsWhole
PROPERTIES
    OrderStays

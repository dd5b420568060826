SPECIFICATION Spec
CONSTANTS
    Sessions = {s1, s2}
    Nodes = {n1, n2}
    MaxVer = 2
    MaxGen = 2
    MaxQuarantines = 1
    InlineCap = 1
    Budgets <- Shared
SYMMETRY Interchangeable
INVARIANTS MissingIsOwed
PROPERTY LiveVectorsStay
CHECK_DEADLOCK FALSE

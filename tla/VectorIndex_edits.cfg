SPECIFICATION FairSpec
CONSTANTS
    Sessions = {s1}
    Nodes = {n1}
    MaxVer = 2
    MaxGen = 1
    MaxQuarantines = 1
    InlineCap = 1
    Budgets <- HeldEdit
PROPERTY EditsBecomeSearchable
CHECK_DEADLOCK FALSE

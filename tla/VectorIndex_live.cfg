SPECIFICATION FairSpec
CONSTANTS
    Sessions = {s1}
    Nodes = {n1, n2}
    MaxVer = 2
    MaxGen = 3
    MaxQuarantines = 1
    InlineCap = 1
    Budgets <- Alone
PROPERTY IndexCatchesUp
CHECK_DEADLOCK FALSE

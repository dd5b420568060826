SPECIFICATION MachineSpec
CONSTANTS
    s1 = s1
    s2 = s2
    k1 = k1
    Servers = {s1, s2}
    Callers = {k1}
    MaxChildren = 4
    MaxAttempts = 2
    Budgets <- Trouble
    MaxBirths = 5
INVARIANTS ReadyMeansLoaded ErrorMeansDegraded EndsForAReason
PROPERTIES SearchComesBack  OrphansEnd
CHECK_DEADLOCK FALSE

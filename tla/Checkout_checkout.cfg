SPECIFICATION CheckoutSpec
CONSTANTS
    Shared = {"note"}
    MaxPasses = 1
    MaxFailures = 1
    MaxEdits = 1
    s1 = s1
    s2 = s2
    i1 = i1
    i2 = i2
    Sessions = {s1, s2}
    Ids = {i1, i2}
    Budgets <- WatchBudgets
    Persons = {"p", "q"}
    Sites = {m1, m2}
    Paths = {here, there}
    Servers = {s1, s2}
    Git = "q"
    MaxFolders = 2
    MaxAnswers = 2
    MaxWrites = 1
    Hashes = {x1, x2}
    Large = {x2}
    Callers = {s1, s2}
    MaxCalls = 3
    here = here
    there = there
    m1 = m1
    m2 = m2
    x1 = x1
    x2 = x2
INVARIANTS LossesAreTold AlarmsAreTrue SignedByLastAnswer DocumentsKeepTheirFiles LocalCopiesStay NothingIsLeft LocalFilesStay SharedIsScheduled
SYMMETRY Interchangeable
CHECK_DEADLOCK FALSE

SPECIFICATION ToolsSpec
CONSTANTS
    Tasks <- MCTasks
    Callers = {a, b}
    Forest <- MCForest
    Tried = {"in_progress", "blocked", "done"}
    MaxCalls = 3
    Home = home
    Foreign = {lib1, lib2}
    Name <- MCName
    Foul = {lib2}
    Workers = {a, b}
    MaxStores = 4
    Projects = {home, lib1}
    Findable = {n1, n2, n3}
    Scores <- MCScores
    Weight <- MCWeight
    Excluded = {n3}
    Pinned = {home}
    Overquery = 2
    Cap = 3
    Limits = {1, 2}
    MaxEdits = 1
    Clones = {a, b}
    Persons = {p1, p2}
    Roles = {"lead"}
    Legacy = {p1}
    OldRole = "old"
    Driver <- MCDriver
    Clocks <- MCClocks
    MaxActs = 3
    Checkouts = {a, b}
    Machines = {m1, m2}
    FactKeys = {k1}
    FactValues = {"x"}
    MachineCap = 1
    MaxRecords = 4
    Repos = {a, b}
    Person <- MCPerson
    Nodes <- MCNodes
    Type <- MCType
    Refs <- MCRefs
    DocRefs = {"doc"}
    Owner <- MCOwner
    Personal = {n2}
    Initial = {n1, n2, n3}
    Scenes <- MCScenes
    a = a
    b = b
    t1 = t1
    t2 = t2
    t3 = t3
    n1 = n1
    n2 = n2
    n3 = n3
    d1 = d1
    e1 = e1
    o1 = o1
    home = home
    lib1 = lib1
    lib2 = lib2
    p1 = p1
    p2 = p2
    f1 = f1
    g1 = g1
    m1 = m1
    m2 = m2
    k1 = k1
    WrongClocks = {35}
INVARIANTS LogTellsTheState TreeIsSound VersionsHaveHeads ReviewsSuggestAChange SweptIsLinked WritesShow SameRecordsSameRoster NobodyHalfBack ClearedIsGone AnswersAreHonest ListedIsOpen
PROPERTY ImplementsFold
CHECK_DEADLOCK FALSE

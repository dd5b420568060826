------------------------------ MODULE MC_Tools ------------------------------
(***************************************************************************)
(* What the tools do, in seven parts that are checked side by side: tasks,     *)
(* versions, scopes and links of nodes, loading projects and a search over      *)
(* several of them, the roster and the facts about machines, which are the       *)
(* modules that this one extends; and the files that the roster is read from.   *)
(* A behaviour is one of the part that `part' names.                            *)
(***************************************************************************)
EXTENDS Tasks, Projects, Search, People, EnvFacts, Curation, TLC

CONSTANTS a, b,             \* two callers, two clones
          t1, t2, t3,       \* tasks
          n1, n2, n3,       \* nodes
          d1, e1, o1,       \* a decision, an episode and a document
          home, lib1, lib2, \* projects
          p1, p2, f1, g1,   \* persons and their files
          m1, m2, k1,       \* machines, a fact about them
          WrongClocks       \* how far a clock may be ahead

VARIABLES part,
    person, disk, torn, stat, order, offset, keys, folded, changes

(* the tasks                                                                *)
MCTasks == {t1, t2, t3}
MCForest == (t1 :> "none") @@ (t2 :> t1) @@ (t3 :> "none")

(* the projects: two folders of one name, one indexed by another                *)
(* model                                                                    *)
MCName == [x \in {home, lib1, lib2} |-> IF x = home THEN "home" ELSE "lib"]

(* and the search: one project has rows enough for a second round, and for the   *)
(* cap                                                                      *)
MCScores == (home :> {7, 8, 9}) @@ (lib1 :> {8})
MCWeight == (n1 :> 85) @@ (n2 :> 100) @@ (n3 :> 100)

(* two persons, each with a clone, and one clock that may be wrong             *)
MCDriver == (a :> p1) @@ (b :> p2)
MCClocks == {(a :> 0) @@ (b :> 0)} \cup
            {(a :> w) @@ (b :> 0) : w \in WrongClocks} \cup
            {(a :> 0) @@ (b :> w) : w \in WrongClocks}

(* versions and scopes of three constraints, one of them personal; and links    *)
(* between a decision, an episode and a document                              *)
MCPerson == (a :> "p") @@ (b :> "q")
MCNodes == {n1, n2, n3, d1, e1, o1}
MCType == [n \in MCNodes |-> CASE n = d1 -> "decision" [] n = e1 -> "episode"
                              [] n = o1 -> "document" [] OTHER -> "constraint"]
MCRefs == [n \in MCNodes |-> CASE n \in {d1, e1} -> {"commit", "doc"}
                              [] n = o1 -> {"doc"} [] OTHER -> {}]
MCOwner == [n \in MCNodes |-> IF n \in {n1, n3} THEN "q" ELSE "p"]
MCScenes ==
    {[calls |-> {"edges"}, nodes |-> {n1, n2, n3}, drawn |-> {"supersedes"},
      writes |-> 3, calling |-> 2],
     [calls |-> {"edges", "scopes"}, nodes |-> {n1, n2, n3}, drawn |-> {"supersedes"},
      writes |-> 3, calling |-> 1],
     [calls |-> {"edges", "links"}, nodes |-> {d1, e1}, drawn |-> {"led_to"},
      writes |-> 4, calling |-> 2],
     [calls |-> {"links"}, nodes |-> {d1, e1, o1}, drawn |-> {},
      writes |-> 4, calling |-> 0]}

Files == INSTANCE JsonlDirRegistry WITH
    Files <- {f1, g1}, Emails <- {p1, p2}, MaxLines <- 3, MaxChanges <- 5

filesVars == <<person, disk, torn, stat, order, offset, keys, folded, changes>>
restVars == <<peopleVars, filesVars, factsVars>>
toolVars == <<searchVars, projectsVars>>
allVars == <<part, vars, curationVars, restVars, toolVars>>

(* what a behaviour of another part does not use is left at one value          *)
ToolsInit ==
    /\ part \in {"tasks", "curation", "roster", "files", "facts", "search", "projects"}
    /\ Init /\ Files!Init
    /\ CurationInit /\ SearchInit /\ ProjectsInit /\ PeopleInit /\ FactsInit
    /\ part = "curation" \/ scene.calls = {"links"}
    /\ part = "roster" \/ \A c \in {a, b} : ahead[c] = 0
    /\ part = "files" \/ \A x \in {f1, g1} : person[x] = p1
    /\ part = "search" \/ \A x \in {home, lib1} : rows[x] = [r \in {} |-> n1]

ToolsNext ==
    \/ part = "tasks"     /\ Next          /\ UNCHANGED <<part, curationVars, restVars, toolVars>>
    \/ part = "curation"  /\ CurationNext  /\ UNCHANGED <<part, vars, restVars, toolVars>>
    \/ part = "roster"    /\ PeopleNext
       /\ UNCHANGED <<part, vars, curationVars, filesVars, factsVars, toolVars>>
    \/ part = "files"     /\ Files!Next
       /\ UNCHANGED <<part, vars, curationVars, peopleVars, factsVars, toolVars>>
    \/ part = "facts"     /\ FactsNext
       /\ UNCHANGED <<part, vars, curationVars, peopleVars, filesVars, toolVars>>
    \/ part = "search"    /\ SearchNext
       /\ UNCHANGED <<part, vars, curationVars, restVars, projectsVars>>
    \/ part = "projects"  /\ ProjectsNext
       /\ UNCHANGED <<part, vars, curationVars, restVars, searchVars>>

ToolsSpec == ToolsInit /\ [][ToolsNext]_allVars

-----------------------------------------------------------------------------
(* The cached view of a directory implements the reader that keeps nothing   *)
(* (catch_up and _drop_contribution).                                       *)
ImplementsFold == Files!ImplementsFold

=============================================================================

------------------------------ MODULE Projects ------------------------------
(***************************************************************************)
(* The projects that one server has loaded (tools/project_registry.py,        *)
(* cognition_load_project, cognition_unload_project).                        *)
(*                                                                         *)
(* Tool calls run on a pool of threads and the registry has no lock: a load    *)
(* looks whether the project is there, opens its store, names it and enters     *)
(* it, and an unload finds it, closes its store and takes it out, with other    *)
(* calls between any two of these.                                           *)
(***************************************************************************)
EXTENDS Naturals, FiniteSets

CONSTANTS Home,         \* a path
          Foreign,      \* the other paths
          Name,         \* [paths -> the name of the folder]
          Foul,         \* the paths whose index another model made
          Workers,      \* _DISPATCH_POOL_SIZE
          MaxStores     \* bound on stores opened

VARIABLES
    entries,    \* the entries by path: [path, tag, store, pinned]
    open,       \* the stores that are open
    opened,     \* the stores opened so far
    loading     \* [Workers -> the call under way]

projectsVars == <<entries, open, opened, loading>>

Paths == {Home} \cup Foreign
AtRest == [at |-> "idle"]
NoStore == 0
HomeStore == 1

\* build_registry
ProjectsInit ==
    /\ entries = {[path |-> Home, tag |-> <<Name[Home], 1>>, store |-> HomeStore, pinned |-> TRUE]}
    /\ open = {HomeStore} /\ opened = 1
    /\ loading = [w \in Workers |-> AtRest]

Free(w) == loading[w] = AtRest
Turns(w, next) == loading' = [loading EXCEPT ![w] = next]
Listed(path) == \E e \in entries : e.path = path

\* unique_tag: the name of the folder, with the first number that is free
UniqueTag(name) ==
    LET free == {i \in 1 .. Cardinality(entries) + 1 : \A e \in entries : e.tag # <<name, i>>}
    IN  <<name, CHOOSE i \in free : \A j \in free : i <= j>>

-----------------------------------------------------------------------------
(* _load_project_core.                                                      *)

(* a project that is there already is refused                                *)
Load(w, path) ==
    /\ Free(w) /\ path \in Foreign /\ ~ Listed(path)
    /\ Turns(w, [at |-> "open", path |-> path])
    /\ UNCHANGED <<entries, open, opened>>

\* Mutant: closed, and kept.
KeptAnyway(path, store) == store

Kept(path, store) == IF path \in Foul THEN NoStore ELSE store

(* its store, if it has one; it is closed again, and not kept, if another      *)
(* model made it                                                            *)
OpenStore(w, found) ==
    /\ loading[w].at = "open" /\ opened < MaxStores
    /\ LET path == loading[w].path
           store == opened + 1
       IN  IF found
           THEN /\ opened' = store
                /\ open' = IF path \in Foul THEN open ELSE open \cup {store}
                /\ Turns(w, [at |-> "name", path |-> path, store |-> Kept(path, store)])
           ELSE /\ Turns(w, [at |-> "name", path |-> path, store |-> NoStore])
                /\ UNCHANGED <<open, opened>>
    /\ UNCHANGED entries

NameProject(w) ==
    /\ loading[w].at = "name"
    /\ LET path == loading[w].path
       IN  Turns(w, [at |-> "add",
                     entry |-> [path |-> path, tag |-> UniqueTag(Name[path]),
                                store |-> loading[w].store, pinned |-> FALSE]])
    /\ UNCHANGED <<entries, open, opened>>

(* add_foreign replaces what is there by now                                 *)
Add(w) ==
    /\ loading[w].at = "add"
    /\ entries' = {e \in entries : e.path # loading[w].entry.path} \cup {loading[w].entry}
    /\ Turns(w, AtRest)
    /\ UNCHANGED <<open, opened>>

-----------------------------------------------------------------------------
(* _unload_project_core.                                                    *)

(* by its tag (the first one found) or its path; not the home project         *)
Unload(w, e) ==
    /\ Free(w) /\ e \in entries /\ ~ e.pinned
    /\ Turns(w, [at |-> "close", entry |-> e])
    /\ UNCHANGED <<entries, open, opened>>

CloseStore(w) ==
    /\ loading[w].at = "close"
    /\ open' = open \ {loading[w].entry.store}
    /\ Turns(w, [at |-> "remove", entry |-> loading[w].entry])
    /\ UNCHANGED <<entries, opened>>

(* what is entered under its path by now                                     *)
RemoveEntry(w) ==
    /\ loading[w].at = "remove"
    /\ entries' = {e \in entries : e.path # loading[w].entry.path}
    /\ Turns(w, AtRest)
    /\ UNCHANGED <<open, opened>>

ProjectsNext ==
    \E w \in Workers :
        \/ \E path \in Foreign : Load(w, path)
        \/ \E found \in BOOLEAN : OpenStore(w, found)
        \/ NameProject(w) \/ Add(w)
        \/ \E e \in entries : Unload(w, e)
        \/ CloseStore(w) \/ RemoveEntry(w)

ProjectsSpec == ProjectsInit /\ [][ProjectsNext]_projectsVars

-----------------------------------------------------------------------------
(* Properties.                                                              *)

Quiet == \A w \in Workers : Free(w)
Unloading == {loading[w].entry : w \in {v \in Workers : loading[v].at = "remove"}}

(* However loads and unloads of one project cross, a listed project can be     *)
(* searched: its store is open, unless it is just being unloaded, and the home  *)
(* project is listed (ProjectEntry, _unload_project_core).                    *)
ListedIsOpen ==
    /\ Listed(Home)
    /\ \A e \in entries : e.store \in open \cup {NoStore} \/ e \in Unloading
    /\ \A e, f \in entries : e.path = f.path => e = f

(* "to avoid collision" (unique_tag).                                        *)
TagsAreUnique == \A e, f \in entries : e.tag = f.tag => e = f

(* No store stays open that no project has.                                  *)
OpenIsListed == Quiet => \A s \in open : \E e \in entries : e.store = s

=============================================================================

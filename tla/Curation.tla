------------------------------ MODULE Curation ------------------------------
(***************************************************************************)
(* Edges between nodes: which version of a node replaces which, the scope of *)
(* a constraint and its review, and the links that follow from shared        *)
(* references (tools/cognition_tools.py, cognition/storage.py, queries.py).  *)
(*                                                                         *)
(* Each clone knows a set of records, its own and those merges brought, and   *)
(* what it shows is the newest of them (GraphReplay).  A person does not see  *)
(* the personal constraints of others, and neither do the checks made for     *)
(* that person.                                                             *)
(***************************************************************************)
EXTENDS Naturals, FiniteSets

CONSTANTS Repos,        \* the clones
          Person,       \* [Repos -> the confirmed identity]
          Nodes,
          Type,         \* [Nodes -> the type of the node]
          Refs,         \* [Nodes -> what the node refers to]
          DocRefs,      \* the references that name a document
          Owner,        \* [Nodes -> who recorded it]
          Personal,     \* the constraints that were recorded as personal
          Initial,      \* the nodes that every clone knows at the start
          Scenes        \* bounds: which calls ("edges", "scopes", "links") are made on which
                        \* nodes, which types of edges they draw, how often they write, and
                        \* how many calls may be between their check and their write

ASSUME CurationAssumption == IsFiniteSet(Nodes) /\ \A s \in Scenes : s.nodes \subseteq Nodes

VARIABLES
    scene,      \* the bounds of the behaviour
    known,      \* [Repos -> the records it holds]
    now,        \* the stamp of the last record
    curating,   \* the clones whose server gave a curation token away
    swept,      \* the clones that started and have heard nothing since
    checked,    \* the calls that have checked an edge and not yet written it
    unheard,    \* a clone wrote that had not heard of every record
    astray      \* a version was linked by somebody who had not heard of every record when
                \* he checked, who does not see every node, or whom another overtook

curationVars == <<scene, known, now, curating, swept, checked, unheard, astray>>

Nil == "none"
From(e) == e[1][1]
To(e) == e[1][2]

Rec(kind, subject, value, at) ==
    [kind |-> kind, of |-> subject, value |-> value, at |-> at]

Records == UNION {known[c] : c \in Repos}

(* what the newest record of a kind says, or else                           *)
Said(R, kinds, subject, else) ==
    LET S == {r \in R : r.kind \in kinds /\ r.of = subject}
    IN  IF S = {} THEN else ELSE (CHOOSE r \in S : \A o \in S : o.at <= r.at).value

Lives(R, n) ==
    /\ n \in Initial \/ \E r \in R : r.kind = "node" /\ r.of = n
    /\ ~ \E r \in R : r.kind = "removed" /\ r.of = n
Live(R) == {n \in Nodes : Lives(R, n)}

Scope(R, n) ==
    IF Type[n] # "constraint" THEN "project"
    ELSE Said(R, {"scope"}, n, IF n \in Personal THEN "personal" ELSE "project")

\* Mutant: a ruling leaves the review where it is.
ReviewStays(R, n) == Said(R, {"flag"}, n, Nil)

(* the review that waits; a ruling on the scope clears it                    *)
Review(R, n) ==
    LET S == {r \in R : r.kind \in {"scope", "flag"} /\ r.of = n}
    IN  IF \E r \in S : r.kind = "flag" /\ \A o \in S : o.at <= r.at
        THEN Said(R, {"flag"}, n, Nil) ELSE Nil

VisibleTo(p, R, n) == Lives(R, n) /\ (Scope(R, n) = "project" \/ Owner[n] = p)

EdgesIn(R) ==
    {e \in {r.of : r \in {x \in R : x.kind = "edge"}} :
        Said(R, {"edge"}, e, FALSE) /\ Lives(R, From(e)) /\ Lives(R, To(e))}

Sees(c, n) == VisibleTo(Person[c], known[c], n)
Shown(c) == {e \in EdgesIn(known[c]) : Sees(c, From(e)) /\ Sees(c, To(e))}

CurationInit ==
    /\ scene \in Scenes
    /\ known = [c \in Repos |-> {}]
    /\ now = 0
    /\ curating = {} /\ swept = {} /\ checked = {}
    /\ unheard = FALSE /\ astray = FALSE

(* clone c appends records; written is what they say                         *)
WriteAll(c, written) ==
    /\ now' = now + 1
    /\ known' = [known EXCEPT ![c] = @ \cup
                    {Rec(w.kind, w.of, w.value, now') : w \in written}]
    /\ unheard' = (unheard \/ known[c] # Records)
    /\ swept' = swept \ {c}

Says(kind, subject, value) == [kind |-> kind, of |-> subject, value |-> value]

-----------------------------------------------------------------------------
(* Versions: a supersedes edge leads from the newer node to the older.       *)

Supersedes == "supersedes"

Older(E, n) == {To(e) : e \in {x \in E : x[2] = Supersedes /\ From(x) = n}}
Newer(E, n) == {From(e) : e \in {x \in E : x[2] = Supersedes /\ To(x) = n}}

(* what is reached from start, step by step; no way is longer than Nodes      *)
Reach(step, start) ==
    LET far[i \in 0..Cardinality(Nodes)] ==
            IF i = 0 THEN start ELSE far[i - 1] \cup UNION {step[n] : n \in far[i - 1]}
    IN  far[Cardinality(Nodes)]

\* Mutant: only an edge straight back counts as a cycle.
WouldCycleAtOnce(E, from, to) == from \in Older(E, to)

(* _would_create_supersedes_cycle, over the edges the caller sees            *)
WouldCycle(E, from, to) == from \in Reach([n \in Nodes |-> Older(E, n)], {to})

(* _validate_supersedes_shape: a newer version of the same thing, or a fail   *)
(* that takes back what is not a workflow                                   *)
Shape(from, to) ==
    \/ Type[from] = Type[to]
    \/ Type[from] \in {"fail", "incident"} /\ Type[to] # "workflow"

Versions(e) == e[2] = Supersedes

(* what _add_edge_core asks before it writes                                 *)
Accepted(c, E, e) ==
    /\ From(e) # To(e)
    /\ Sees(c, From(e)) /\ Sees(c, To(e))
    /\ e \notin E
    /\ Versions(e) => Shape(From(e), To(e)) /\ ~ WouldCycle(E, From(e), To(e))

Blind(c) == \E n \in Live(known[c]) : ~ Sees(c, n)

(* cognition_add_edge, with a token of cognition_begin_curation: the checks,  *)
(* which read the graph, and then the write, which other calls, processes and *)
(* merges may overtake.  cognition_add_edges_batch makes the same checks and   *)
(* the same write for each of its edges in turn.                             *)
CheckEdge(c, e) ==
    /\ c \in curating
    /\ Accepted(c, Shown(c), e)
    /\ checked' = checked \cup {<<c, e>>}
    /\ astray' = (astray \/ (Versions(e) /\ (Blind(c) \/ known[c] # Records)))
    /\ UNCHANGED <<known, now, curating, swept, unheard>>

(* storage.add_edge asks again for the two nodes, and for nothing else        *)
WriteEdge(c, e) ==
    /\ <<c, e>> \in checked
    /\ checked' = checked \ {<<c, e>>}
    /\ IF Sees(c, From(e)) /\ Sees(c, To(e))
       THEN /\ WriteAll(c, {Says("edge", e, TRUE)})
            /\ astray' = (astray \/ (Versions(e) /\ \E x \in checked' : Versions(x[2])))
       ELSE UNCHANGED <<known, now, swept, unheard, astray>>
    /\ UNCHANGED curating

RemoveEdge(c, e) ==
    /\ e \in Shown(c)
    /\ WriteAll(c, {Says("edge", e, FALSE)})
    /\ UNCHANGED <<curating, checked, astray>>

RemoveNode(c, n) ==
    /\ Sees(c, n)
    /\ WriteAll(c, {Says("removed", n, TRUE)})
    /\ UNCHANGED <<curating, checked, astray>>

(* (a bound: where there is something to curate)                             *)
BeginCuration(c) ==
    /\ c \notin curating /\ Cardinality(Live(known[c]) \cap scene.nodes) > 1
    /\ curating' = curating \cup {c}
    /\ UNCHANGED <<known, now, swept, checked, unheard, astray>>

-----------------------------------------------------------------------------
(* Scopes.                                                                  *)

(* _scope_update: the owner alone                                           *)
MayRule(c, n) == Type[n] = "constraint" /\ Owner[n] = Person[c]

(* cognition_update_node with a scope                                       *)
SetScope(c, n, scope) ==
    /\ Sees(c, n) /\ MayRule(c, n)
    /\ scope # Scope(known[c], n) \/ Review(known[c], n) # Nil   \* else nothing changes
    /\ WriteAll(c, {Says("scope", n, scope)})
    /\ UNCHANGED <<curating, checked, astray>>

(* _flag_constraint_scope: a change of scope, for somebody to rule on         *)
MayFlag(c, n, scope) ==
    /\ Type[n] = "constraint" /\ Owner[n] # Nil
    /\ scope # Scope(known[c], n)
    /\ Newer(Shown(c), n) = {}

(* cognition_flag_constraint_scope                                          *)
FlagScope(c, n, scope) ==
    /\ c \in curating
    /\ Sees(c, n) /\ MayFlag(c, n, scope)
    /\ WriteAll(c, {Says("flag", n, scope)})
    /\ UNCHANGED <<curating, checked, astray>>

-----------------------------------------------------------------------------
(* Links by shared references.                                              *)

Inert == {"workflow", "task", "person"}
Entity(n) == Type[n] \notin Inert \cup {"episode", "document"}

(* _deterministic_edge_for_pair and the rule that a link to a document needs  *)
(* a reference that names one                                               *)
LinksOf(m, n) ==
    LET shared == Refs[m] \cap Refs[n]
    IN  {x \in {<<<<m, n>>, "part_of">>} :
            Entity(m) /\ (\/ Type[n] = "episode" /\ shared # {}
                          \/ Type[n] = "document" /\ shared \cap DocRefs # {})}
        \cup {x \in {<<<<m, n>>, "relates_to">>} :
            /\ Type[m] = "document" /\ Type[n] = "episode"
            /\ shared \cap DocRefs # {}}

Warranted(R, c) ==
    LET visible == {n \in Nodes : VisibleTo(Person[c], R, n)}
    IN  UNION {LinksOf(pair[1], pair[2]) : pair \in visible \X visible}

(* create_deterministic_edges for each of some nodes: an edge that stands is   *)
(* left alone                                                                *)
Minted(R, c, S) ==
    {e \in Warranted(R, c) : {From(e), To(e)} \cap S # {}} \ EdgesIn(R)

(* _record_node: the node, then its links                                   *)
Born(c, n) ==
    LET born == known[c] \cup {Rec("node", n, TRUE, now + 1)}
    IN  {Says("node", n, TRUE)} \cup {Says("edge", e, TRUE) : e \in Minted(born, c, {n})}

(* cognition_record                                                         *)
RecordNode(c, n) ==
    /\ n \notin Initial /\ \A r \in Records : ~ (r.kind = "node" /\ r.of = n)
    /\ WriteAll(c, Born(c, n))
    /\ UNCHANGED <<curating, checked, astray>>

\* Mutant: only nodes without any edge are looked at.
EdgelessOnly(c, n) == \A e \in Shown(c) : n \notin {From(e), To(e)}

(* _missing_deterministic_edge: another node with the same reference to which *)
(* no edge leads, whatever its type                                         *)
LinkMissing(c, n) ==
    LET connected == UNION {{From(e), To(e)} : e \in {x \in Shown(c) : n \in {From(x), To(x)}}}
    IN  \E m \in Nodes \ {n} : Refs[m] \cap Refs[n] # {} /\ m \notin connected /\ Sees(c, m)

(* _create_deterministic_edges_for_edgeless, once per start of a server: of     *)
(* the nodes that are due one may fail, which is skipped, and so may all, when *)
(* nobody is known who could write; the calls under way have ended            *)
ServerStart(c) ==
    LET due == {n \in Nodes : Refs[n] # {} /\ Sees(c, n) /\ LinkMissing(c, n)}
    IN  /\ c \notin swept
        /\ \E done \in {due, {}} \cup {due \ {n} : n \in due} :
              LET minted == Minted(known[c], c, done)
              IN  /\ swept' = IF done = due THEN swept \cup {c} ELSE swept
                  /\ IF minted = {}
                     THEN UNCHANGED <<known, now, unheard>>
                     ELSE /\ now < scene.writes
                          /\ now' = now + 1
                          /\ known' = [known EXCEPT ![c] = @ \cup
                                          {Rec("edge", e, TRUE, now') : e \in minted}]
                          /\ unheard' = (unheard \/ known[c] # Records)
        /\ curating' = curating \ {c}
        /\ checked' = {x \in checked : x[1] # c}
        /\ UNCHANGED astray

MergeRecords(c, d) ==
    /\ ~ (known[d] \subseteq known[c])
    /\ known' = [known EXCEPT ![c] = @ \cup known[d]]
    /\ swept' = swept \ {c}
    /\ UNCHANGED <<now, curating, checked, unheard, astray>>

CurationNext ==
    /\ UNCHANGED scene
    /\ \E c \in Repos :
        \/ BeginCuration(c)
        \/ \E d \in Repos \ {c} : MergeRecords(c, d)
        \/ /\ "edges" \in scene.calls /\ now < scene.writes
           /\ \/ \E e \in Shown(c) : RemoveEdge(c, e)
              \/ \E e \in (scene.nodes \X scene.nodes) \X scene.drawn :
                    \/ /\ now + Cardinality(checked) < scene.writes
                       /\ Cardinality(checked) < scene.calling
                       /\ CheckEdge(c, e)
                    \/ WriteEdge(c, e)
        \/ /\ "scopes" \in scene.calls /\ now < scene.writes
           /\ \E n \in scene.nodes, scope \in {"personal", "project"} :
                 SetScope(c, n, scope) \/ FlagScope(c, n, scope)
        \/ /\ "links" \in scene.calls
           /\ \/ ServerStart(c)
              \/ now < scene.writes /\ \E n \in scene.nodes : RemoveNode(c, n) \/ RecordNode(c, n)

CurationSpec == CurationInit /\ [][CurationNext]_curationVars

-----------------------------------------------------------------------------
(* Properties.                                                              *)

(* where the walk up from a version may stop, whichever match comes first: at  *)
(* a version that none replaces, or at one that it has seen before             *)
(* (get_workflow_head)                                                       *)
HeadsOf(E, n) ==
    LET newer == [o \in Nodes |-> Newer(E, o)]
    IN  {m \in Reach(newer, {n}) : newer[m] = {} \/ m \in Reach(newer, newer[m])}

(* the history of a version as far as it does not depend on which match comes  *)
(* first: the walk down follows one replaced version of each                  *)
(* (get_superseded_chain)                                                    *)
HistoryOf(E, n) ==
    Reach([o \in Nodes |-> IF Cardinality(Older(E, o)) = 1 THEN Older(E, o) ELSE {}], {n})

Branches(E) == \E n \in Nodes : Cardinality(Older(E, n)) > 1

(* what the session start lists (_active_constraints, _format_workflows)     *)
Replaced(c) == {To(e) : e \in {x \in Shown(c) : x[2] = Supersedes}}
ListedAtStart(c) == {n \in Nodes \ Replaced(c) : Sees(c, n)}

(* _format_scope_reviews                                                    *)
ReviewsOf(c) ==
    {n \in Nodes : /\ Review(known[c], n) # Nil /\ Owner[n] = Person[c]
                   /\ n \in ListedAtStart(c)}

(* Whichever match comes first, a version that was replaced is answered with  *)
(* one that the session start lists, so none of them is replaced by what it    *)
(* replaced; and the history shown with the answer leads back to the version   *)
(* that was asked for, unless some version replaces two (cognition_get_workflow). *)
EveryVersionHasAHead ==
    \A c \in Repos :
        LET E == Shown(c)
        IN  \A n \in Replaced(c) : \A head \in HeadsOf(E, n) :
                /\ head \in ListedAtStart(c)
                /\ Branches(E) \/ n \in HistoryOf(E, head)

(* It holds as long as those who link versions see all there is and their      *)
(* calls do not overlap: "Full traversal ... since a cycle can exist along ANY  *)
(* branch" (_would_create_supersedes_cycle).  Otherwise it need not.           *)
VersionsHaveHeads == unheard \/ astray \/ EveryVersionHasAHead

(* A person is asked to rule on a constraint only if the suggested scope is   *)
(* not the one it has (_flag_constraint_scope, _format_scope_reviews).        *)
ReviewsSuggestAChange ==
    unheard \/ \A c \in Repos : \A n \in ReviewsOf(c) :
        Review(known[c], n) # Scope(known[c], n)

Connected(c, m, n) == \E e \in Shown(c) : {From(e), To(e)} = {m, n}

(* After the start of a server every two nodes of which the rules say that    *)
(* they belong together are connected, whichever clones recorded them in      *)
(* whichever order (_create_deterministic_edges_for_edgeless).               *)
SweptIsLinked ==
    \A c \in swept : \A e \in Warranted(known[c], c) : Connected(c, From(e), To(e))

(* "a cheap, conservative OVER-approximation" (_missing_deterministic_edge):  *)
(* no warranted edge that nobody removed is missing after it.                *)
SweptHasEveryLink ==
    \A c \in swept : \A e \in Warranted(known[c], c) \ EdgesIn(known[c]) :
        \E r \in known[c] : r.kind = "edge" /\ r.of = e /\ ~ r.value

=============================================================================

------------------------------- MODULE Search -------------------------------
(***************************************************************************)
(* A semantic search over the loaded projects (cognition_search,              *)
(* adaptive_vector_search, _format_search_results).                          *)
(*                                                                         *)
(* The index of a project holds rows, several for a document and some for      *)
(* nodes that are gone.  A search fetches rows, keeps the best one of every     *)
(* live node whose author is not excluded, and fetches more while that is too   *)
(* little.  What it found is ranked by a weighted score, over all projects.     *)
(***************************************************************************)
EXTENDS Naturals, FiniteSets, FiniteSetsExt

CONSTANTS Projects, Findable,
          Pinned,       \* the projects of this process itself: home
          Scores,       \* [Projects -> the scores of its rows, one row each]
          Weight,       \* [Findable -> percent]
          Excluded,     \* the nodes of an author who is excluded
          Overquery,    \* _SEARCH_OVERQUERY_K
          Cap,          \* _SEARCH_OVERQUERY_CAP
          Limits,       \* the limits asked for
          MaxEdits      \* bound on changes before the search

ASSUME SearchAssumption ==
    /\ \A p \in Projects : Scores[p] \subseteq Nat /\ IsFiniteSet(Scores[p])
    /\ Weight \in [Findable -> Nat] /\ IsFiniteSet(Findable)
    /\ Overquery \in Nat /\ Cap \in Nat /\ Limits \subseteq Nat

VARIABLES
    rows,       \* [Projects -> the index: [a set of scores -> the node of the row]]
    live,       \* [Projects -> the nodes of the graph]
    isOpen,     \* [Projects -> is its store open?]
    search,     \* the search
    edits

searchVars == <<rows, live, isOpen, search, edits>>

NoSearch == [at |-> "idle"]

SearchInit ==
    /\ rows \in {r \in [Projects -> UNION {[S -> Findable] : S \in SUBSET (UNION {Scores[p] : p \in Projects})}] :
                 \A p \in Projects : DOMAIN r[p] \subseteq Scores[p]}
    /\ live = [p \in Projects |-> Findable]
    /\ isOpen = [p \in Projects |-> TRUE]
    /\ search = NoSearch /\ edits = 0

-----------------------------------------------------------------------------
(* The index and what a round makes of it.                                   *)

Lesser(a, b) == IF a < b THEN a ELSE b
(* vector_search: the n best rows                                            *)
Fetch(p, n) == {s \in DOMAIN rows[p] : Cardinality({t \in DOMAIN rows[p] : t > s}) < n}

(* _format_search_results: live nodes, each with its best row                 *)
Hits(p, fetched) ==
    {[project |-> p, node |-> m, score |-> Max({s \in fetched : rows[p][s] = m})] :
        m \in {rows[p][s] : s \in fetched} \cap (live[p] \ Excluded)}

\* Mutant: the index of another project is taken for complete.
NeverShort(p) == FALSE

(* _index_coverage, which is asked of the other projects only: more than one   *)
(* node, and more than 2% of them, have no row of their own.  (Every node of   *)
(* the index has one row that is no chunk; those of nodes that are gone count.) *)
IsShort(p) ==
    LET indexed == Cardinality({rows[p][s] : s \in DOMAIN rows[p]})
        nodes == Cardinality(live[p])
    IN  p \notin Pinned /\ nodes > indexed + 1 /\ 49 * nodes > 50 * indexed

(* _hit_weight                                                              *)
Weighted(hit) == hit.score * Weight[hit.node]

(* the first `limit' by the weighted score; at equal scores, the order of the  *)
(* rows, then any                                                           *)
Before(h, g) ==
    \/ Weighted(h) > Weighted(g)
    \/ Weighted(h) = Weighted(g) /\ h.score > g.score
Tops(hits, limit) ==
    {T \in kSubset(Lesser(limit, Cardinality(hits)), hits) :
        \A h \in T, g \in hits \ T : ~ Before(g, h)}

-----------------------------------------------------------------------------
(* The search.                                                              *)

Begin(limit) ==
    /\ search = NoSearch
    /\ search' = [at |-> "entry", todo |-> Projects, limit |-> limit, found |-> {},
                  total |-> 0, exhaustive |-> TRUE, noted |-> {}, capped |-> {}, short |-> {},
                  project |-> "none", n |-> 0]
    /\ UNCHANGED <<rows, live, isOpen, edits>>

(* the next entry, with a first number of rows                               *)
NextEntry(p) ==
    /\ search.at = "entry" /\ p \in search.todo
    /\ search' = [search EXCEPT !.at = "round", !.todo = @ \ {p}, !.project = p,
                                !.n = Max({search.limit * Overquery, search.limit, 1})]
    /\ UNCHANGED <<rows, live, isOpen, edits>>

\* Mutant: a round is taken for the last one by what is left after deduplication.
DryDeduped(fetched, hits, n) == Cardinality(hits) < n

Dry(fetched, hits, n) == Cardinality(fetched) < n

Enough(fetched, hits, limit) == Cardinality(hits) >= limit

(* adaptive_vector_search: enough, or dry, or at the cap; else twice as many.  *)
(* An index that is short is named in the answer, which is then not exhaustive. *)
Round ==
    /\ search.at = "round"
    /\ LET p == search.project
           n == search.n
           fetched == Fetch(p, n)
           hits == Hits(p, fetched)
           dry == Dry(fetched, hits, n)
       IN  \/ /\ ~ isOpen[p]
              /\ search' = [search EXCEPT !.at = "entry", !.noted = @ \cup {p}]
           \/ /\ isOpen[p] /\ (Enough(fetched, hits, search.limit) \/ dry \/ n >= Cap)
              /\ \E top \in Tops(hits, search.limit) :
                    search' = [search EXCEPT !.at = "entry", !.found = @ \cup top,
                                   !.total = @ + Cardinality(hits),
                                   !.exhaustive = @ /\ dry /\ ~ IsShort(p),
                                   !.capped = IF n >= Cap THEN @ \cup {p} ELSE @,
                                   !.short = IF IsShort(p) THEN @ \cup {p} ELSE @]
           \/ /\ isOpen[p] /\ ~ (Enough(fetched, hits, search.limit) \/ dry \/ n >= Cap)
              /\ search' = [search EXCEPT !.n = Lesser(2 * n, Cap)]
    /\ UNCHANGED <<rows, live, isOpen, edits>>

(* the merge of all entries                                                  *)
Merge ==
    /\ search.at = "entry" /\ search.todo = {}
    /\ \E top \in Tops(search.found, search.limit) :
          search' = [search EXCEPT !.at = "done", !.found = top]
    /\ UNCHANGED <<rows, live, isOpen, edits>>

-----------------------------------------------------------------------------
(* Before a search, and meanwhile.                                           *)

Edit == search = NoSearch /\ edits < MaxEdits /\ edits' = edits + 1 /\ UNCHANGED search

\* a node is removed elsewhere: its rows stay
RemoveElsewhere(p, m) ==
    /\ Edit /\ m \in live[p]
    /\ live' = [live EXCEPT ![p] = @ \ {m}]
    /\ UNCHANGED <<rows, isOpen>>

\* a row is deleted
Unembed(p, s) ==
    /\ Edit /\ s \in DOMAIN rows[p]
    /\ rows' = [rows EXCEPT ![p] = [t \in DOMAIN @ \ {s} |-> @[t]]]
    /\ UNCHANGED <<live, isOpen>>

\* cognition_unload_project closes the store under the search
Close(p) ==
    /\ search.at \in {"entry", "round"} /\ isOpen[p]
    /\ isOpen' = [isOpen EXCEPT ![p] = FALSE]
    /\ UNCHANGED <<rows, live, search, edits>>

SearchNext ==
    \/ \E limit \in Limits : Begin(limit)
    \/ \E p \in Projects : NextEntry(p) \/ Close(p)
    \/ Round \/ Merge
    \/ \E p \in Projects, m \in Findable : RemoveElsewhere(p, m)
    \/ \E p \in Projects : \E s \in Scores[p] : Unembed(p, s)

SearchSpec == SearchInit /\ [][SearchNext]_searchVars

-----------------------------------------------------------------------------
(* Properties.                                                              *)

Answered == search.at = "done"

(* the nodes of a project that a search may find                              *)
Matching(p) == Hits(p, DOMAIN rows[p])
Searched == Projects \ search.noted
All == UNION {Matching(p) : p \in Searched}

(* all nodes but one, or but 2% of them, are in the index, and but as many as     *)
(* it still has rows for nodes that are gone                                 *)
Covers(p) ==
    LET indexed == {rows[p][s] : s \in DOMAIN rows[p]}
        missing == Cardinality(live[p] \ indexed)
        gone == Cardinality(indexed \ live[p])
    IN  missing <= gone + 1 \/ 50 * missing <= 50 * gone + Cardinality(live[p])

(* What exhaustive claims: "total_found is the exact match count (the store    *)
(* ran dry)", and a floor otherwise; "sorted by weighted_score": then the      *)
(* answer is the top of all, over several projects too; and the index of       *)
(* another project covers its nodes up to the slack (cognition_search).  And     *)
(* fewer hits than the limit mean that every store ran dry, unless one was read *)
(* up to the cap or the answer names one that is short, however many rows one    *)
(* document takes or belong to nodes that are gone (adaptive_vector_search).     *)
AnswersAreHonest ==
    Answered => /\ search.total <= Cardinality(All)
                /\ search.exhaustive => /\ search.total = Cardinality(All)
                                        /\ search.found \in Tops(All, search.limit)
                                        /\ \A p \in Searched \ Pinned : Covers(p)
                /\ Cardinality(search.found) < search.limit =>
                       search.exhaustive \/ search.capped # {} \/ search.short # {}

(* "it can only push it lower in a tie, never drop it from `results`"          *)
(* (cognition_search, of the weight): the best by score are in the answer, at   *)
(* least when all rows were fetched.                                         *)
WeightDropsNothing ==
    Answered /\ search.exhaustive => \A h \in All :
        Cardinality({g \in All : g.score >= h.score}) <= search.limit => h \in search.found

(* "takes the weighted top" (_format_search_results): what is shown is not     *)
(* below what is not.                                                        *)
WeightedTop ==
    Answered => \A h \in search.found, g \in All \ search.found : ~ Before(g, h)

=============================================================================

----------------------------- MODULE ReplayView -----------------------------
(***************************************************************************)
(* What one journal line does to one process's in-memory graph             *)
(* (cognition/storage.py, CognitionStorage._apply and the _apply_...       *)
(* functions it dispatches to): last-writer-wins by stamp, tombstones, and *)
(* the three outcomes "applied", "deferred" and "skipped".                 *)
(*                                                                         *)
(* A stamp is a number: its rank in the total order the code gets from     *)
(* comparing (tier, at, file, line hash) tuples.  Legacy lines (tier 0)    *)
(* rank below FirstShardStamp and shard lines (tier 1) from there on; 0    *)
(* stands for "no stamp".  The value an attribute holds is the one its     *)
(* stamp's line carries, so the stamp stands for the value too.            *)
(***************************************************************************)
EXTENDS Naturals

CONSTANTS Node,             \* node ids
          Edge,             \* edge keys: (from, to) pairs, one edge type
          File,             \* shard file names, one per person
          NoFile,           \* the file of a legacy line
          AuthorOf,         \* the author a person's lines carry, by file
          FirstShardStamp   \* stamps below it belong to the legacy journal

ASSUME EdgeAssumption == Edge \subseteq Node \X Node
ASSUME TierAssumption == FirstShardStamp \in Nat \ {0}
ASSUME FileAssumption == NoFile \notin File

Home == File \cup {NoFile}

NodeAction == {"add_node", "update_node", "remove_node"}
EdgeAction == {"add_edge", "remove_edge"}

Line == [action : NodeAction, id : Node, stamp : Nat \ {0}, file : Home]
          \cup [action : EdgeAction, id : Edge, stamp : Nat \ {0}, file : Home]

IsLegacy(e) == e.stamp < FirstShardStamp

(***************************************************************************)
(* The replay state of one process.                                        *)
(*   nodes      ids in the graph                                           *)
(*   field      newest stamp over the editable attributes (_attr_stamps)   *)
(*   added,home the winning add_node line and its file (_add_stamps)       *)
(*   tomb       newest accepted removal (_node_tombstones; its domain is   *)
(*              also _removed_node_ids)                                    *)
(*   edges      edges in the graph                                         *)
(*   edgeStamp  newest decision about each edge key (_edge_stamps)         *)
(***************************************************************************)
View == [nodes : SUBSET Node,
         field : [Node -> Nat],
         added : [Node -> Nat],
         home : [Node -> Home],
         tomb : [Node -> Nat],
         edges : SUBSET Edge,
         edgeStamp : [Edge -> Nat]]

EmptyView == [nodes |-> {},
              field |-> [n \in Node |-> 0],
              added |-> [n \in Node |-> 0],
              home |-> [n \in Node |-> NoFile],
              tomb |-> [n \in Node |-> 0],
              edges |-> {},
              edgeStamp |-> [k \in Edge |-> 0]]

EndpointsIn(v, k) == k[1] \in v.nodes /\ k[2] \in v.nodes

\* Two different nodes share one id: another person's add_node for a live id.
Collides(v, e) ==
  /\ e.id \in v.nodes
  /\ e.file # v.home[e.id]
  /\ AuthorOf[e.file] # AuthorOf[v.home[e.id]]

Newest(s, t) == IF s >= t THEN s ELSE t

-----------------------------------------------------------------------------
(* add_node: skipped under a newer tombstone; a collision keeps the earlier *)
(* node whole; otherwise every attribute is decided by stamp and the        *)
(* tombstone is lifted.                                                     *)

KeepEarlierWhole(v, e) ==
  IF e.stamp >= v.added[e.id]
    THEN v
    ELSE [v EXCEPT !.field[e.id] = e.stamp,
                   !.added[e.id] = e.stamp,
                   !.home[e.id] = e.file]

MergeAdd(v, e) ==
  [v EXCEPT !.nodes = @ \cup {e.id},
            !.field[e.id] = Newest(e.stamp, @),
            !.added[e.id] = Newest(e.stamp, @),
            !.home[e.id] = IF e.stamp >= v.added[e.id] THEN e.file ELSE @,
            !.tomb[e.id] = 0]

\* Mutant: the tombstone is not consulted.
AddIgnoringTombstone(v, e) ==
  IF Collides(v, e) THEN KeepEarlierWhole(v, e) ELSE MergeAdd(v, e)

ApplyAddNode(v, e) ==
  IF e.stamp <= v.tomb[e.id] THEN v
  ELSE IF Collides(v, e) THEN KeepEarlierWhole(v, e)
  ELSE MergeAdd(v, e)

(* update_node: an edit of a node that is not there changes nothing.        *)

\* Mutant: the edit that arrives last wins.
UpdateByArrival(v, e) ==
  IF e.id \in v.nodes THEN [v EXCEPT !.field[e.id] = e.stamp] ELSE v

ApplyUpdateNode(v, e) ==
  IF e.id \in v.nodes
    THEN [v EXCEPT !.field[e.id] = Newest(e.stamp, @)]
    ELSE v

(* remove_node: a shard removal loses to a newer add of a live node; a      *)
(* legacy removal has no say over a node that is not there yet, and takes   *)
(* any node that is.  The node's edges leave the graph with it, their       *)
(* stamps stay.                                                             *)

\* Mutant: a removal of a node that is not there yet is a no-op.
RemovalOfLiveOnly(v, e) ==
  \/ e.id \notin v.nodes
  \/ ~IsLegacy(e) /\ e.stamp < v.added[e.id]

RemovalRefused(v, e) ==
  \/ e.stamp <= v.tomb[e.id]
  \/ IsLegacy(e) /\ e.id \notin v.nodes
  \/ ~IsLegacy(e) /\ e.id \in v.nodes /\ e.stamp < v.added[e.id]

\* Mutant: the add record is deleted where its readers expect one.
RemoveDroppingRecord(v, e) ==
  IF RemovalRefused(v, e) THEN v
  ELSE [v EXCEPT !.nodes = @ \ {e.id},
                 !.added = [n \in Node \ {e.id} |-> v.added[n]],
                 !.tomb[e.id] = e.stamp]

\* Mutant: no tombstone is left behind.
RemoveWithoutTombstone(v, e) ==
  IF RemovalRefused(v, e) THEN v
  ELSE [v EXCEPT !.nodes = @ \ {e.id},
                 !.field[e.id] = 0,
                 !.added[e.id] = 0,
                 !.home[e.id] = NoFile,
                 !.edges = {k \in @ : e.id # k[1] /\ e.id # k[2]}]

ApplyRemoveNode(v, e) ==
  IF RemovalRefused(v, e) THEN v
  ELSE [v EXCEPT !.nodes = @ \ {e.id},
                 !.field[e.id] = 0,
                 !.added[e.id] = 0,
                 !.home[e.id] = NoFile,
                 !.tomb[e.id] = e.stamp,
                 !.edges = {k \in @ : e.id # k[1] /\ e.id # k[2]}]

(* add_edge and remove_edge: the newest decision about the key wins; an     *)
(* edge is drawn only between nodes that are there.                         *)

ApplyAddEdge(v, e) ==
  IF e.stamp <= v.edgeStamp[e.id] \/ ~EndpointsIn(v, e.id) THEN v
  ELSE [v EXCEPT !.edgeStamp[e.id] = e.stamp, !.edges = @ \cup {e.id}]

\* Mutant: a removal of an edge that is not there yet leaves no decision behind.
RemoveDrawnEdge(v, e) ==
  IF e.stamp <= v.edgeStamp[e.id] \/ e.id \notin v.edges THEN v
  ELSE [v EXCEPT !.edgeStamp[e.id] = e.stamp, !.edges = @ \ {e.id}]

ApplyRemoveEdge(v, e) ==
  IF e.stamp <= v.edgeStamp[e.id] THEN v
  ELSE [v EXCEPT !.edgeStamp[e.id] = e.stamp, !.edges = @ \ {e.id}]

Apply(v, e) ==
  CASE e.action = "add_node"    -> ApplyAddNode(v, e)
    [] e.action = "update_node" -> ApplyUpdateNode(v, e)
    [] e.action = "remove_node" -> ApplyRemoveNode(v, e)
    [] e.action = "add_edge"    -> ApplyAddEdge(v, e)
    [] e.action = "remove_edge" -> ApplyRemoveEdge(v, e)

\* The outcome "deferred": the line is kept pending and applied again later.
Deferred(v, e) ==
  \/ /\ e.action = "update_node"
     /\ e.id \notin v.nodes
     /\ e.stamp > v.tomb[e.id]
  \/ /\ e.action = "remove_node"
     /\ IsLegacy(e)
     /\ e.id \notin v.nodes
     /\ v.tomb[e.id] = 0
  \/ /\ e.action = "add_edge"
     /\ e.stamp > v.edgeStamp[e.id]
     /\ ~EndpointsIn(v, e.id)

-----------------------------------------------------------------------------
(* _floor_for: the newest write time a new line of a writer must beat.      *)

Floor(v, action, id) ==
  CASE action = "add_node"    -> Newest(v.tomb[id], Newest(v.added[id], v.field[id]))
    [] action = "update_node" -> Newest(v.tomb[id], Newest(v.added[id], v.field[id]))
    [] action = "remove_node" -> Newest(v.tomb[id], Newest(v.added[id], v.field[id]))
    [] action \in EdgeAction  -> v.edgeStamp[id]
=============================================================================

-------------------------- MODULE MC_GraphReplay --------------------------
(* TLC instances of GraphReplay: two nodes, one possible edge, two persons. *)
EXTENDS GraphReplay, TLC

CONSTANTS a, b, p, q, none

MCNode == {a, b}
MCEdge == {<<a, b>>}
MCProc == {p, q}
MCShardOf == [w \in MCProc |-> w]
MCAuthorOf == [w \in MCProc \cup {none} |-> w]
NoLegacy == {}

LegacyLine(act, id, s) == [action |-> act, id |-> id, stamp |-> s, file |-> none]

\* Two linked nodes written before the project switched to shards.
LinkedLegacy ==
  {LegacyLine("add_node", a, 1), LegacyLine("add_node", b, 2),
   LegacyLine("add_edge", <<a, b>>, 3)}

\* A merge placed a removal before the add of its node.
MergedLegacy ==
  {LegacyLine("remove_node", a, 1), LegacyLine("add_node", a, 2)}

\* The persons are interchangeable.
Persons == Permutations(MCProc)

\* A pass reads and writes only its own process's state once it has begun, so
\* its steps commute with every step of the other process: it is enough to look
\* at the runs in which nobody else moves while a pass is under way.
OnePassAtATime ==
  \A w \in Proc : pass[w] # Idle =>
    \A o \in Proc \ {w} : /\ view'[o] = view[o]
                          /\ pass'[o] = pass[o]
=============================================================================

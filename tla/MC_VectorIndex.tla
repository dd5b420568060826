------------------------- MODULE MC_VectorIndex -------------------------
EXTENDS VectorIndex, TLC

Budget(damages, holds, loads, embeds, exits, records, edits) ==
    [e \in Events |-> CASE e = "damage" -> damages [] e = "hold" -> holds
                         [] e = "load" -> loads [] e = "embed" -> embeds
                         [] e = "exit" -> exits [] e = "record" -> records
                         [] e = "edit" -> edits]

(* one node among whatever happens to the file and to its writer, or two    *)
(* nodes recorded in two sessions                                           *)
Shared == {Budget(1, 0, 1, 0, 1, 1, 0), Budget(0, 1, 0, 0, 1, 1, 0),
           Budget(1, 0, 0, 0, 0, 1, 1), Budget(0, 0, 0, 0, 0, 2, 0),
           Budget(1, 0, 0, 1, 0, 1, 0), Budget(0, 0, 0, 1, 1, 1, 0)}

(* a damaged file that is held, a file damaged twice, a session restarted,  *)
(* an embedding that fails before or after the file is damaged              *)
Alone == {Budget(1, 1, 0, 0, 0, 1, 0), Budget(2, 0, 0, 0, 0, 2, 0),
          Budget(0, 1, 0, 0, 1, 2, 0), Budget(0, 0, 0, 0, 0, 1, 1),
          Budget(1, 0, 0, 1, 0, 1, 0), Budget(0, 1, 0, 1, 0, 2, 0)}

HeldEdit == {Budget(0, 1, 0, 0, 0, 1, 1)}

FailedLoad == {Budget(1, 0, 1, 0, 0, 1, 0)}

Interchangeable == Permutations(Sessions) \cup Permutations(Nodes)

=============================================================================

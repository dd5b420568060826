----------------------------- MODULE UnionMerge -----------------------------
(***************************************************************************)
(* How version control merges a file of records that is marked merge=union:  *)
(* it keeps the lines of both sides, each side's in its order.               *)
(***************************************************************************)
EXTENDS Naturals, Sequences, Functions

(* One side's lines, and after them those of the other that it has not.      *)
Merged(ours, theirs) ==
    LET merged[i \in 0..Len(theirs)] ==
            IF i = 0 THEN ours
            ELSE IF theirs[i] \in Range(merged[i - 1]) THEN merged[i - 1]
            ELSE Append(merged[i - 1], theirs[i])
    IN  merged[Len(theirs)]

=============================================================================

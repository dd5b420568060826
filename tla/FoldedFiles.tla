---------------------------- MODULE FoldedFiles ----------------------------
(***************************************************************************)
(* What a reader of a directory of record files promises, whatever it       *)
(* caches: `view' tells how often each line counts.  A pass over the files  *)
(* shows every line once and no other.  Only the first pass after a change   *)
(* may leave out files, never the second.                                   *)
(***************************************************************************)
EXTENDS FiniteSets, Sequences

CONSTANTS Files, Lines

VARIABLES
    disk,      \* [Files -> the complete lines of the file, <<>> if there is none]
    view,      \* [Lines -> how often the line was counted]
    mayMiss    \* something changed since the last pass

vars == <<disk, view, mayMiss>>

Holds(f, l) == \E i \in DOMAIN disk[f] : disk[f][i] = l

(* a line may stand in several files, and then counts in each               *)
Count(files, l) == Cardinality({f \in files : Holds(f, l)})

Shows(files) == [l \in Lines |-> Count(files, l)]

Init ==
    /\ disk \in [Files -> {<<>>}]
    /\ view = Shows({})
    /\ mayMiss = FALSE

Change ==
    /\ disk' \in [Files -> Seq(Lines)]
    /\ mayMiss' = TRUE
    /\ UNCHANGED view

Pass ==
    /\ \/ view' = Shows(Files)
       \/ mayMiss /\ \E files \in SUBSET Files : view' = Shows(files)
    /\ mayMiss' = FALSE
    /\ UNCHANGED disk

Spec == Init /\ [][Change \/ Pass]_vars

=============================================================================

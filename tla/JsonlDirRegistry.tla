-------------------------- MODULE JsonlDirRegistry --------------------------
(***************************************************************************)
(* One session's cached view of .cognition/people/*.jsonl                   *)
(* (cognition/jsonl_dir_registry.py, with the hooks of profiles.py): a pass *)
(* reads of each file what was appended since the last one, and folds a      *)
(* file that was rewritten again from the start.  A person's lines may stand *)
(* in several files; what they add up to depends on their stamps, not on     *)
(* their order, so a view is how often each line was folded.                *)
(* _append writes a line to the file named by its person; a second file of   *)
(* the person is one that was copied, or written under another name.        *)
(***************************************************************************)
EXTENDS Naturals, Sequences, SequencesExt, FiniteSetsExt

CONSTANTS Files, Emails,
          MaxLines,     \* bound on lines written
          MaxChanges    \* bound on changes of the directory

Lines == 1..MaxLines

VARIABLES
    person,    \* [Files -> the person named by the file]
    disk,      \* [Files -> its complete lines; <<>>: there is no such file]
    torn,      \* the files that end in the first part of a line
    stat,      \* the files whose size and time are those of the last read
    order,     \* the known files, in the order of the dict
    offset,    \* [Files -> the lines folded, which the running hash covers]
    keys,      \* [Files -> the persons the file contributed to]
    folded,    \* [Emails -> [Lines -> how often the line counts in the fold]]
    changes    \* the changes so far; changed: one since the last pass

vars == <<person, disk, torn, stat, order, offset, keys, folded, changes>>

Init ==
    /\ person \in [Files -> Emails]
    /\ disk = [f \in Files |-> <<>>] /\ torn = {}
    /\ stat = {} /\ order = <<>>
    /\ offset = [f \in Files |-> <<>>] /\ keys = [f \in Files |-> {}]
    /\ folded = [p \in Emails |-> [l \in Lines |-> 0]]
    /\ changes = [n |-> 0, since |-> FALSE]

-----------------------------------------------------------------------------
(* The directory, as sessions, merges and people change it.                 *)

Written == UNION {ToSet(disk[f]) : f \in Files}

Changed(f, lines, tail) ==
    /\ changes.n < MaxChanges
    /\ changes' = [n |-> changes.n + 1, since |-> TRUE]
    /\ disk' = [disk EXCEPT ![f] = lines]
    /\ torn' = IF tail THEN torn \cup {f} ELSE torn \ {f}
    /\ stat' = stat \ {f}
    /\ UNCHANGED <<person, order, offset, keys, folded>>

About(l, p) == \A f \in Files : l \in ToSet(disk[f]) => person[f] = p

(* the line may be one that another file of the person holds too            *)
Appended(f) ==
    \E l \in Lines \ ToSet(disk[f]) : About(l, person[f]) /\ Changed(f, Append(disk[f], l), FALSE)

TornAppend(f) == f \notin torn /\ disk[f] # <<>> /\ Changed(f, disk[f], TRUE)

(* a merge reorders or drops lines, a person deletes the file               *)
Rewritten(f) ==
    \E lines \in SetToAllKPermutations(ToSet(disk[f])) :
        lines # disk[f] /\ Changed(f, lines, FALSE)

-----------------------------------------------------------------------------
(* A pass.  It works on what the session remembers: r.                      *)

Remembered == [order |-> order, offset |-> offset, keys |-> keys, folded |-> folded, stat |-> stat]

Without(fold, persons) ==
    [p \in Emails |-> IF p \in persons THEN [l \in Lines |-> 0] ELSE fold[p]]

\* Mutant: what the other files say of the same persons is dropped with it.
ContributionDropped(r, f) ==
    [r EXCEPT !.folded = Without(@, r.keys[f]), !.keys[f] = {}]

(* _drop_contribution: the persons of the file lose everything, and every    *)
(* other file that speaks of them is to be read again from its start        *)
DropContribution(r, f) ==
    LET others == {g \in ToSet(r.order) \ {f} : r.keys[g] \cap r.keys[f] # {}}
    IN  [r EXCEPT !.folded = Without(@, r.keys[f]),
                  !.offset = [g \in Files |-> IF g \in others THEN <<>> ELSE @[g]],
                  !.keys   = [g \in Files |-> IF g \in others \cup {f} THEN {} ELSE @[g]],
                  !.stat   = @ \ others]

Forget(r, f) ==
    [DropContribution(r, f) EXCEPT !.order = SelectSeq(@, LAMBDA g : g # f),
                                   !.offset[f] = <<>>, !.stat = @ \ {f}]

Reset(r, f) == [DropContribution(r, f) EXCEPT !.offset[f] = <<>>]

(* shorter than what was read, or another beginning                         *)
Diverged(r, f) == ~ IsPrefix(r.offset[f], disk[f])

(* a partial line at the end is left for a later pass                       *)
FoldTail(r, f) ==
    LET tail == SubSeq(disk[f], Len(r.offset[f]) + 1, Len(disk[f]))
        p == person[f]
    IN  [r EXCEPT !.folded[p] = [l \in Lines |-> @[l] + (IF l \in ToSet(tail) THEN 1 ELSE 0)],
                  !.keys[f] = IF tail = <<>> THEN @ ELSE {p},
                  !.offset[f] = disk[f]]

CatchUpFile(r, f) ==
    IF f \in r.stat /\ f \notin torn THEN r
    ELSE LET x == [r EXCEPT !.stat = @ \cup {f}]
         IN  FoldTail(IF Diverged(x, f) THEN Reset(x, f) ELSE x, f)

Present == {f \in Files : disk[f] # <<>>}

(* catch_up: files that are gone, then new ones in any order, then each      *)
(* known file in the order of the dict                                      *)
CatchUp ==
    /\ \E new \in SetToSeqs(Present \ ToSet(order)) :
          LET kept  == FoldLeft(Forget, Remembered, SetToSeq(ToSet(order) \ Present))
              known == [kept EXCEPT !.order = @ \o new]
              r     == FoldLeft(CatchUpFile, known, known.order)
          IN  /\ order' = r.order /\ offset' = r.offset /\ keys' = r.keys
              /\ folded' = r.folded /\ stat' = r.stat
    /\ changes' = [changes EXCEPT !.since = FALSE]
    /\ UNCHANGED <<person, disk, torn>>

Next ==
    \/ CatchUp
    \/ \E f \in Files : Appended(f) \/ TornAppend(f) \/ Rewritten(f)

Spec == Init /\ [][Next]_vars

-----------------------------------------------------------------------------
(* The cache implements the reader that keeps nothing: after two passes     *)
(* without a change between them every line counts once for each file that   *)
(* holds it - none lost with a rewritten file, none folded twice.           *)
Counted == [l \in Lines |-> MapThenSumSet(LAMBDA p : folded[p][l], Emails)]

Abstract == INSTANCE FoldedFiles WITH view <- Counted, mayMiss <- changes.since

ImplementsFold == Abstract!Spec

=============================================================================

----------------------------- MODULE MC_Checkout -----------------------------
(***************************************************************************)
(* What a checkout keeps beside the graph, in four parts that are checked     *)
(* side by side: the records of its journal, what Subversion is told of its     *)
(* folder, who signs in it, and its documents.  They are the modules that this   *)
(* one extends; a behaviour is one of the part that `part' names.               *)
(***************************************************************************)
EXTENDS LocalRecords, SvnHygiene, Identity, Documents, TLC

CONSTANTS s1, s2,               \* sessions
          i1, i2,               \* ids
          here, there,          \* paths
          m1, m2,               \* machines
          x1, x2                \* hashes

VARIABLE part

Budget(losses, moves, accepts, starts, nodes) ==
    [e \in {"loss", "move", "accept", "start", "create"} |->
        CASE e = "loss" -> losses [] e = "move" -> moves [] e = "accept" -> accepts
          [] e = "start" -> starts [] e = "create" -> nodes]

(* one node, over everything that may happen to it; and two, of which one is   *)
(* lost, or HEAD moves away from them, or a loss is accepted                   *)
WatchBudgets ==
    {Budget(1, 2, 0, 3, 1), Budget(1, 2, 1, 2, 1),
     Budget(1, 0, 0, 3, 2), Budget(0, 1, 0, 2, 2), Budget(0, 0, 1, 2, 2)}

Interchangeable == Permutations({s1, s2}) \cup Permutations({i1, i2})

allVars == <<part, recordsVars, identityVars, documentsVars, vars>>

(* what a behaviour of another part does not use is left at one value          *)
CheckoutInit ==
    /\ part \in {"records", "signing", "documents", "subversion"}
    /\ RecordsInit /\ IdentityInit /\ DocumentsInit /\ Init
    /\ part = "records" \/ budget = Budget(1, 0, 0, 3, 2)
    /\ part = "signing" \/ legacy[here] = legacy[there]
    /\ part = "subversion" \/ (versioned /\ prop = {})

CheckoutNext ==
    \/ part = "records"    /\ RecordsNext
       /\ UNCHANGED <<part, identityVars, documentsVars, vars>>
    \/ part = "signing"    /\ IdentityNext
       /\ UNCHANGED <<part, recordsVars, documentsVars, vars>>
    \/ part = "documents"  /\ DocumentsNext
       /\ UNCHANGED <<part, recordsVars, identityVars, vars>>
    \/ part = "subversion" /\ Next
       /\ UNCHANGED <<part, recordsVars, identityVars, documentsVars>>

CheckoutSpec == CheckoutInit /\ [][CheckoutNext]_allVars

=============================================================================

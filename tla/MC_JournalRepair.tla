------------------------- MODULE MC_JournalRepair -------------------------
(* TLC instances of JournalRepair. *)
EXTENDS JournalRepair, TLC

CONSTANTS p, q, x, y, m

OneSession == {p}
TwoSessions == {p, q}
Sessions == Permutations(TwoSessions)
=============================================================================

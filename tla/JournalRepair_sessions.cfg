INIT Init
NEXT Next
CONSTANTS
  p = p
  q = q
  x = x
  y = y
  m = m
  Proc <- TwoSessions
  OwnLine = {x}
  MateLine = {m}
  MaxUpsets = 2
  MaxMoves = 1
  MaxReloads = 0
INVARIANTS LossesAreListedUnlessReloaded RepairIsBounded
SYMMETRY Sessions
CHECK_DEADLOCK FALSE

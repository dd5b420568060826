SPECIFICATION Spec
CONSTANTS
  p = p
  q = q
  x = x
  y = y
  m = m
  Proc <- OneSession
  OwnLine = {x, y}
  MateLine = {m}
  MaxUpsets = 2
  MaxMoves = 1
  MaxReloads = 1
PROPERTIES LostLinesComeBack RestoredFilesAreDropped
CHECK_DEADLOCK FALSE

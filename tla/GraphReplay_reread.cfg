SPECIFICATION Spec
CONSTANTS
  a = a
  b = b
  p = p
  q = q
  none = none
  Node <- MCNode
  Edge <- MCEdge
  File <- MCProc
  NoFile = none
  AuthorOf <- MCAuthorOf
  Proc <- MCProc
  ShardOf <- MCShardOf
  LegacyLines <- MergedLegacy
  FirstShardStamp = 3
  SharedMint = FALSE
  MaxStamp = 4
  MaxLines = 3
  MaxRounds = 3
  MaxUpsets = 1
INVARIANT RemovalWins
CHECK_DEADLOCK FALSE
SYMMETRY Persons
ACTION_CONSTRAINT OnePassAtATime

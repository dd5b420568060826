SPECIFICATION Spec
CONSTANTS
  a = a
  b = b
  p = p
  q = q
  none = none
  Node <- MCNode
  Edge <- MCEdge
  File <- MCProc
  NoFile = none
  AuthorOf <- MCAuthorOf
  Proc <- MCProc
  ShardOf <- MCShardOf
  LegacyLines <- NoLegacy
  FirstShardStamp = 1
  SharedMint = FALSE
  MaxStamp = 3
  MaxLines = 3
  MaxRounds = 3
  MaxUpsets = 2
INVARIANTS ReplayInv TypeOK RemovalWins NewestEditShows
CHECK_DEADLOCK FALSE
SYMMETRY Persons
ACTION_CONSTRAINT OnePassAtATime

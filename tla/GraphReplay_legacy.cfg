SPECIFICATION Spec
CONSTANTS
  a = a
  b = b
  p = p
  q = q
  none = none
  Node <- MCNode
  Edge <- MCEdge
  File <- MCProc
  NoFile = none
  AuthorOf <- MCAuthorOf
  Proc <- MCProc
  ShardOf <- MCShardOf
  LegacyLines <- LinkedLegacy
  FirstShardStamp = 4
  SharedMint = FALSE
  MaxStamp = 5
  MaxLines = 5
  MaxRounds = 3
  MaxUpsets = 1
INVARIANTS RemovalWins NewestEdgeDecisionShows
CHECK_DEADLOCK FALSE
SYMMETRY Persons
ACTION_CONSTRAINT OnePassAtATime

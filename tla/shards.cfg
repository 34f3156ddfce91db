CONSTANTS
  CHARS = 3
  MAX_GRANULARITY = 2
  MaxServers = 9
  MaxShards = 6
  MoveTokens <- MCMoveTokens
SPECIFICATION ShardsSpec
INVARIANTS OneShardPerKey OverlapAgrees
CHECK_DEADLOCK FALSE

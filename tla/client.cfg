CONSTANTS
  Clients = {c1, c2}
  Keys = {"a", "b", "c"}
  Servers = {1, 2}
  ShardOf <- MCShardOf
  Configs <- MCConfigs
  Lines <- MCLines
  MaxCalls = 2
  Absent = Absent
  NoServer = NoServer
SPECIFICATION Spec
INVARIANTS OneHome ExecutedAsReported PartialIsPrefix AnswersAligned
CHECK_DEADLOCK FALSE

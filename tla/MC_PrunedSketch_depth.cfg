CONSTANTS
  AutoInline = AutoInline
  MultiLevelTiling = MultiLevelTiling
  B1 = B1
  B2 = B2
  Blocks <- MC_Blocks
  InitRules <- MC_InitRules
  InliningRules = {AutoInline}
  MaxFanout = 1
  Strategies = {"random_prune"}
  Num = 2
  RandomDepth = 2
SPECIFICATION Spec
INVARIANT
  RandomRewritesWithinDepth
CHECK_DEADLOCK FALSE

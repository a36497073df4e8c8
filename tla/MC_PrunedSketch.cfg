CONSTANTS
  AutoInline = AutoInline
  MultiLevelTiling = MultiLevelTiling
  B1 = B1
  B2 = B2
  Blocks <- MC_Blocks
  InitRules <- MC_InitRules
  InliningRules = {AutoInline}
  MaxFanout = 1
  Strategies = {"rule_prune", "random_prune", "greedy"}
  Num = 2
  RandomDepth = 2
SPECIFICATION Spec
INVARIANT
  GetInitialSketchReturnsNum
\* GetInitialSketch returns; the thread stops there.
CHECK_DEADLOCK FALSE

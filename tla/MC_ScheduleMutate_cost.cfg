CONSTANTS
  AutoInline = AutoInline
  MultiLevelTiling = MultiLevelTiling
  AutoUnroll = AutoUnroll
  SkipRule = SkipRule
  NoRule = NoRule
  UseCostModel = FALSE
  MaxMutations = 1
  Registry <- MC_Registry
  MinApplicable = 0
  MaxApplicable = 2
  RandomDepth = 1
  Num = 1
SPECIFICATION Spec
INVARIANT
  CostOfOwnProgram
CHECK_DEADLOCK FALSE

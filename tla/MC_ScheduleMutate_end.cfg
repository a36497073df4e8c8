CONSTANTS
  AutoInline = AutoInline
  MultiLevelTiling = MultiLevelTiling
  AutoUnroll = AutoUnroll
  SkipRule = SkipRule
  NoRule = NoRule
  UseCostModel = TRUE
  MaxMutations = 0
  Registry <- MC_Registry
  MinApplicable = 1
  MaxApplicable = 2
  RandomDepth = 2
  Num = 1
SPECIFICATION Spec
INVARIANT
  NeverCrashes
\* GetRandomInitialSketch returns: the thread stops once result is full.
CHECK_DEADLOCK FALSE

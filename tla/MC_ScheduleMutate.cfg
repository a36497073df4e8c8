CONSTANTS
  AutoInline = AutoInline
  MultiLevelTiling = MultiLevelTiling
  AutoUnroll = AutoUnroll
  SkipRule = SkipRule
  NoRule = NoRule
  UseCostModel = TRUE
  MaxMutations = 1
  Registry <- MC_Registry
  MinApplicable = 0
  MaxApplicable = 2
  RandomDepth = 1
  Num = 1
SPECIFICATION Spec
INVARIANTS
  TypeOK
  ScanOutcome
  SampledPairValid
PROPERTY
  Termination
\* GetRandomInitialSketch returns: the thread stops once result is full.
CHECK_DEADLOCK FALSE

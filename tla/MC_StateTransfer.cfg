CONSTANTS
  AutoInline = AutoInline
  MultiLevelTiling = MultiLevelTiling
  AutoUnroll = AutoUnroll
  B1 = B1
  B2 = B2
  Blocks <- MC_Blocks
  InitRules <- MC_InitRules
  InliningRules = {AutoInline}
  MaxFanout = 2
SPECIFICATION TSpec
INVARIANTS
  TypeOK
  RetiredStatesGone
  NoRewriteOfRemovedBlock
PROPERTY
  TransferTerminates
  RefinesLayeredExpansion
\* CollectStateTransfer returns; the thread stops there.
CHECK_DEADLOCK FALSE

-------------------------- MODULE MC_StateTransfer --------------------------
(* CollectStateTransfer over a two-block program and the rules SearchSpace *)
(* passes as init_rules.                                                   *)
EXTENDS StateTransfer

CONSTANTS AutoInline, MultiLevelTiling, AutoUnroll, B1, B2

MC_Blocks == <<B1, B2>>
MC_InitRules == <<AutoInline, MultiLevelTiling, AutoUnroll>>
=============================================================================

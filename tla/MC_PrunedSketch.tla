--------------------------- MODULE MC_PrunedSketch ---------------------------
(* GetInitialSketch on a two-block program with two init_rules.            *)
EXTENDS PrunedSketch

CONSTANTS AutoInline, MultiLevelTiling, B1, B2

MC_Blocks == <<B1, B2>>
MC_InitRules == <<AutoInline, MultiLevelTiling>>
MC_OneBlock == <<B1>>
=============================================================================

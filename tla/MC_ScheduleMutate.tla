-------------------------- MODULE MC_ScheduleMutate --------------------------
(* GetRandomInitialSketch over the four rules SearchSpace registers.       *)
EXTENDS ScheduleMutate

CONSTANTS AutoInline, MultiLevelTiling, AutoUnroll, SkipRule

\* SearchSpace::SearchSpace (lines 46-49).
MC_Registry == <<AutoInline, MultiLevelTiling, AutoUnroll, SkipRule>>
=============================================================================

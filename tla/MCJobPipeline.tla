---------------------------- MODULE MCJobPipeline ----------------------------
EXTENDS JobPipeline, TLC

CONSTANTS j1, j2, s1

MCSubOf == [j \in Jobs |-> s1]
MCPrio == [j \in Jobs |-> IF j = j1 THEN 2 ELSE 1]

SlotSymmetry == Permutations(Slots)
=============================================================================

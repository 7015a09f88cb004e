---------------------------- MODULE MCPlanGraph ----------------------------
(***************************************************************************)
(* Every plan over up to four ids (unknown and repeated ones included),    *)
(* and for every accepted one every set of pending subtasks.               *)
(***************************************************************************)
EXTENDS PlanGraph, TLC

CONSTANTS a, b, c, d

MCIds == {a, b, c, d}
Symmetry == Permutations(MCIds)
=============================================================================

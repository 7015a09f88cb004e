------------------------------ MODULE MCMerge ------------------------------
(***************************************************************************)
(* Three subtasks, two hunks, and for each the base content and two ways   *)
(* to change it: every choice of branches and of approvals.                *)
(***************************************************************************)
EXTENDS Merge

CONSTANTS a, b, c, f1, f2, base, this, that

MCOrder == <<a, b, c>>
MCBase == [f \in {f1, f2} |-> base]
=============================================================================

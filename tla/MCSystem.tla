------------------------------ MODULE MCSystem ------------------------------
(***************************************************************************)
(* Two subtasks that may edit the same hunk and create the same file, with *)
(* two verify rounds; the tests of one of them write its worktree.  Their  *)
(* branches merge, conflict, or are empty.  A verdict names both of them.  *)
(***************************************************************************)
EXTENDS System

CONSTANTS t1, t2, shared, new

MCTasks == {t1, t2}
MCOptions == {[max_iter |-> 1, cleanup |-> FALSE, writable |-> {t1}]}
MCOrder == <<t1, t2>>
MCKnown == [t \in MCTasks |-> shared]
MCFresh == [t \in MCTasks |-> new]
=============================================================================

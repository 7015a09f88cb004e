------------------------------ MODULE MCBench ------------------------------
(***************************************************************************)
(* Two tasks, and two processes at a time: an operator uses the slot of    *)
(* the first task when the script is past it, as often as he likes.  The   *)
(* window has room for one run at its ceiling, and a run may cost twice    *)
(* what was projected.                                                     *)
(***************************************************************************)
EXTENDS Bench

MCProcs == {1, 2}
=============================================================================

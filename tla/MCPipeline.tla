----------------------------- MODULE MCPipeline -----------------------------
(***************************************************************************)
(* Two subtasks and three ways to start: two verify rounds, enough for a   *)
(* subtask shipped in the first beside one that is sent back; one round in *)
(* worktrees the tests can write, with --cleanup; and no round at all.     *)
(***************************************************************************)
EXTENDS Pipeline

CONSTANTS t1, t2

MCTasks == {t1, t2}
MCCommitters == {t1, t2}
MCOptions == {[max_iter |-> 1,  cleanup |-> FALSE, writable |-> {}],
              [max_iter |-> 0,  cleanup |-> TRUE,  writable |-> {t1, t2}],
              [max_iter |-> -1, cleanup |-> TRUE,  writable |-> {}]}
=============================================================================

------------------------------ MODULE MCFanOut ------------------------------
(***************************************************************************)
(* Four subtasks for two places: three of them form the first layer, so    *)
(* that one waits for a place, and the fourth waits for two of those.  The *)
(* ceiling lets two of them pay for a response, so that all four finish    *)
(* only where others carry no usage; the client may repeat a request once, *)
(* and one subtask of each layer may meet a locked database.               *)
(***************************************************************************)
EXTENDS FanOut

CONSTANTS t1, t2, t3, t4

MCTasks == {t1, t2, t3, t4}
MCContended == {t3, t4}
MCDeps == [t \in MCTasks |-> IF t = t4 THEN {t1, t2} ELSE {}]
=============================================================================

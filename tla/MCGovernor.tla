----------------------------- MODULE MCGovernor -----------------------------
(***************************************************************************)
(* Three workers, charges of 1 and 2 units against a ceiling of 3: every   *)
(* schedule in which the last grant is decided between two or three        *)
(* workers that all fit alone and do not fit together.                     *)
(***************************************************************************)
EXTENDS Governor

CONSTANTS w1, w2, w3

MCWorkers == {w1, w2, w3}
MCCosts == {1, 2}
=============================================================================

---------------------------- MODULE MCJsonAgent ----------------------------
(***************************************************************************)
(* Two retries, the shipped default, and responses of two prices.          *)
(***************************************************************************)
EXTENDS JsonAgent
=============================================================================

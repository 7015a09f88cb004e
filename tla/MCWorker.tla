------------------------------ MODULE MCWorker ------------------------------
(***************************************************************************)
(* One name in scope and one that is not, each plain and with a dot.       *)
(***************************************************************************)
EXTENDS Worker

MCNames == {"a", "b"}
MCScope == {[kind |-> "plain", name |-> "a"]}
=============================================================================

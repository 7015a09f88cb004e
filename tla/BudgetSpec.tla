----------------------------- MODULE BudgetSpec -----------------------------
(***************************************************************************)
(* What the per-run budget governor promises its callers: a charge is      *)
(* decided in one indivisible step, granted when it fits under the ceiling *)
(* together with everything granted before, refused when it does not.      *)
(* There is no lock here; Governor.tla has it and implements this.         *)
(***************************************************************************)
EXTENDS Naturals

CONSTANTS Workers, Ceiling, Costs

VARIABLES spent,   \* what has been granted
          stage,   \* "idle", "asking", "granted" or "refused", per worker
          ask      \* the cost a worker last asked for

vars == <<spent, stage, ask>>

Init == /\ spent = 0
        /\ stage = [w \in Workers |-> "idle"]
        /\ ask = [w \in Workers |-> 0]

Ask(w) == /\ stage[w] = "idle"
          /\ \E c \in Costs : ask' = [ask EXCEPT ![w] = c]
          /\ stage' = [stage EXCEPT ![w] = "asking"]
          /\ UNCHANGED spent

Grant(w) == /\ stage[w] = "asking"
            /\ spent + ask[w] <= Ceiling
            /\ spent' = spent + ask[w]
            /\ stage' = [stage EXCEPT ![w] = "granted"]
            /\ UNCHANGED ask

Refuse(w) == /\ stage[w] = "asking"
             /\ spent + ask[w] > Ceiling
             /\ stage' = [stage EXCEPT ![w] = "refused"]
             /\ UNCHANGED <<spent, ask>>

Return(w) == /\ stage[w] = "granted"
             /\ stage' = [stage EXCEPT ![w] = "idle"]
             /\ UNCHANGED <<spent, ask>>

Next == \E w \in Workers : Ask(w) \/ Grant(w) \/ Refuse(w) \/ Return(w)

Spec == Init /\ [][Next]_vars
=============================================================================

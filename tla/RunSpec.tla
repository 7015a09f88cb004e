------------------------------- MODULE RunSpec -------------------------------
(***************************************************************************)
(* What a run promises its operator: nothing is built before the plan is   *)
(* approved, there is a bounded number of verdicts, and nothing reaches    *)
(* the integration branch unless the latest verdict on record is "ship"    *)
(* and the merge was approved after it.  A run may stop at any point.      *)
(* Pipeline.tla implements this.                                           *)
(***************************************************************************)
EXTENDS Naturals

CONSTANTS Tasks, Verdicts

VARIABLES stage,      \* "planning", "building", "shipped", "cleared", "over"
          left,       \* how many verdicts the run may still get
          verdict,    \* the latest verdict on record, or "none"
          delivered   \* the subtasks on the integration branch

vars == <<stage, left, verdict, delivered>>

Init == stage = "planning" /\ left \in Nat /\ verdict = "none" /\ delivered = {}

ApprovePlan == /\ stage = "planning"
               /\ stage' = "building"
               /\ UNCHANGED <<left, verdict, delivered>>

Judge == /\ stage = "building" /\ left > 0
         /\ \/ verdict' = "ship" /\ stage' = "shipped" /\ left' = 0
            \/ /\ verdict' = "iterate" /\ left > 1
               /\ stage' = "building" /\ left' = left - 1
            \/ verdict' \in Verdicts /\ stage' = "over" /\ left' = 0
         /\ UNCHANGED delivered

(* A run that is to get no verdict at all asks for the merge at once.      *)
SkipRounds == /\ stage = "building" /\ left = 0
              /\ stage' = "shipped"
              /\ UNCHANGED <<left, verdict, delivered>>

ApproveMerge == /\ stage = "shipped"
                /\ stage' = "cleared"
                /\ UNCHANGED <<left, verdict, delivered>>

Integrate == /\ stage = "cleared"
             /\ stage' = "over"
             /\ delivered' \in IF verdict = "ship" THEN SUBSET Tasks ELSE {{}}
             /\ UNCHANGED <<left, verdict>>

Stop == /\ stage # "over"
        /\ stage' = "over" /\ left' = 0
        /\ UNCHANGED <<verdict, delivered>>

Next == ApprovePlan \/ Judge \/ SkipRounds \/ ApproveMerge \/ Integrate \/ Stop

Spec == Init /\ [][Next]_vars
=============================================================================

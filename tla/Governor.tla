------------------------------ MODULE Governor ------------------------------
(***************************************************************************)
(* BudgetGovernor of src/pciv/budget.py: the per-run spend, its ceiling,   *)
(* the list of cost lines and the lock that the implement workers and the  *)
(* reporting code of cli.py share.  One action per statement that another  *)
(* thread can observe.  Money is counted in integer units; the cost lines  *)
(* are kept as their total.                                                *)
(*                                                                         *)
(* The price lookup of charge() cannot fail here: preflight() has priced   *)
(* every model of the run before the first worker exists.                  *)
(***************************************************************************)
EXTENDS Naturals

CONSTANTS Workers,     \* the threads that call charge()
          Ceiling,     \* ceiling_usd
          Costs,       \* what one response may cost
          MaxCharges,  \* bound: the charges one worker makes
          NoWorker     \* nobody holds the lock

ASSUME GovernorAssumption == /\ Ceiling \in Nat
                             /\ Costs \subseteq Nat
                             /\ MaxCharges \in Nat
                             /\ NoWorker \notin Workers

VARIABLES at,         \* where each worker is in charge()
          due,        \* the local variable cost of each worker
          calls,      \* charges begun by each worker
          lock,       \* _lock: its holder or NoWorker
          spent,      \* _spent
          recorded,   \* the total of _lines
          seen        \* what the report at the end of cli._run has read

governor == <<at, due, calls, lock, spent, recorded, seen>>

GovernorInit == /\ at = [w \in Workers |-> "idle"]
                /\ due = [w \in Workers |-> 0]
                /\ calls = [w \in Workers |-> 0]
                /\ lock = NoWorker
                /\ spent = 0
                /\ recorded = 0
                /\ seen = [step |-> "none", spent |-> 0, lines |-> 0]

Goto(w, from, to) == at[w] = from /\ at' = [at EXCEPT ![w] = to]

-----------------------------------------------------------------------------
(* charge() is entered with the cost of the response.                      *)
Call(w) == /\ calls[w] < MaxCharges
           /\ Goto(w, "idle", "acquire")
           /\ calls' = [calls EXCEPT ![w] = @ + 1]
           /\ \E c \in Costs : due' = [due EXCEPT ![w] = c]
           /\ UNCHANGED <<lock, spent, recorded, seen>>

\* Faulty variant: the critical section is entered without the lock.
AcquireUnlocked(w) == /\ Goto(w, "acquire", "check")
                      /\ lock' = w
                      /\ UNCHANGED <<due, calls, spent, recorded, seen>>

Acquire(w) == /\ lock = NoWorker
              /\ Goto(w, "acquire", "check")
              /\ lock' = w
              /\ UNCHANGED <<due, calls, spent, recorded, seen>>

\* Faulty variant: the check looks at the spend before this charge.
FitsBefore(w) == spent <= Ceiling

Fits(w) == spent + due[w] <= Ceiling

Admit(w) == /\ Fits(w)
            /\ Goto(w, "check", "add")
            /\ UNCHANGED <<due, calls, lock, spent, recorded, seen>>

\* Faulty variant: the exception leaves the lock held.
RefuseHolding(w) == /\ ~Fits(w)
                    /\ Goto(w, "check", "refused")
                    /\ UNCHANGED <<due, calls, lock, spent, recorded, seen>>

(* BudgetExceededError leaves the with block and ends the worker.          *)
Refuse(w) == /\ ~Fits(w)
             /\ Goto(w, "check", "refused")
             /\ lock' = NoWorker
             /\ UNCHANGED <<due, calls, spent, recorded, seen>>

\* Faulty variant: the lock is released between the sum and its line.
AddReleasing(w) == /\ Goto(w, "add", "append")
                   /\ spent' = spent + due[w]
                   /\ lock' = NoWorker
                   /\ UNCHANGED <<due, calls, recorded, seen>>

Add(w) == /\ Goto(w, "add", "append")
          /\ spent' = spent + due[w]
          /\ UNCHANGED <<due, calls, lock, recorded, seen>>

(* The cost line is appended and the with block left.                      *)
AppendLine(w) == /\ Goto(w, "append", "emit")
                 /\ recorded' = recorded + due[w]
                 /\ lock' = NoWorker
                 /\ UNCHANGED <<due, calls, spent, seen>>

(* Telemetry runs outside the lock; an exception in it is swallowed.       *)
Emit(w) == /\ Goto(w, "emit", "idle")
           /\ UNCHANGED <<due, calls, lock, spent, recorded, seen>>

(* cli._run reads spent_usd and then lines(), each under the lock, while   *)
(* workers may still be charging.                                          *)
ReadSpent == /\ seen.step = "none" /\ lock = NoWorker
             /\ seen' = [step |-> "spent", spent |-> spent, lines |-> 0]
             /\ UNCHANGED <<at, due, calls, lock, spent, recorded>>

ReadLines == /\ seen.step = "spent" /\ lock = NoWorker
             /\ seen' = [step |-> "both", spent |-> seen.spent, lines |-> recorded]
             /\ UNCHANGED <<at, due, calls, lock, spent, recorded>>

Charging(w) == Acquire(w) \/ Admit(w) \/ Refuse(w) \/ Add(w) \/ AppendLine(w) \/ Emit(w)

GovernorNext == \/ \E w \in Workers : Call(w) \/ Charging(w)
                \/ ReadSpent \/ ReadLines

GovernorSpec == GovernorInit /\ [][GovernorNext]_governor

(* A worker inside charge() keeps running: every step but the lock is      *)
(* local, and each worker makes finitely many charges, so that waiting for *)
(* the lock ends under weak fairness already.                              *)
FairGovernor == GovernorSpec /\ \A w \in Workers : WF_governor(Charging(w))

-----------------------------------------------------------------------------
Inside == {"check", "add", "append"}

GovernorTypeOK == /\ at \in [Workers -> {"idle", "acquire", "emit", "refused"} \cup Inside]
                  /\ due \in [Workers -> Nat]
                  /\ calls \in [Workers -> Nat]
                  /\ lock \in Workers \cup {NoWorker}
                  /\ spent \in Nat
                  /\ recorded \in Nat
                  /\ seen \in [step : {"none", "spent", "both"}, spent : Nat, lines : Nat]

(* The spend never passes the ceiling, whatever the threads interleave:    *)
(* the sum tested by charge() is the sum it stores.                        *)
CeilingRespected == spent <= Ceiling

(* Whenever the lock is free the cost lines add up to the spend, so that   *)
(* the token report and the spend report of cli._run tell the same story.  *)
LinesMatchSpent == lock = NoWorker => recorded = spent

(* cli._run reads the spend first and the lines second, in two critical    *)
(* sections: a charge may land between them, but the lines can never be    *)
(* missing a charge that the spend already shows.                          *)
ReportConsistent == seen.step = "both" => seen.lines >= seen.spent

(* charge() with its lock implements the atomic governor of BudgetSpec:    *)
(* a charge is granted at its addition, refused at its failed check.       *)
Stage(p) == CASE p = "idle" -> "idle"
              [] p = "refused" -> "refused"
              [] p \in {"append", "emit"} -> "granted"
              [] OTHER -> "asking"

Budget == INSTANCE BudgetSpec WITH stage <- [w \in Workers |-> Stage(at[w])],
                                   ask <- due

ImplementsBudget == Budget!Spec

(* Every charge is answered: no worker waits for the lock for ever, also   *)
(* when another one leaves the critical section by the exception.          *)
ChargeAnswered == \A w \in Workers :
                    (at[w] = "acquire") ~> (at[w] \in {"idle", "refused"})

(* The inductive invariant behind the four safety properties: who is       *)
(* inside holds the lock, and what its position says of the two totals.    *)
LockInv == \A w \in Workers : at[w] \in Inside <=> lock = w

TotalsInv == /\ lock = NoWorker => recorded = spent
             /\ \A w \in Workers :
                  /\ at[w] \in {"check", "add"} => recorded = spent
                  /\ at[w] = "add" => spent + due[w] <= Ceiling
                  /\ at[w] = "append" => spent = recorded + due[w]

ReportInv == /\ seen.step = "spent" => seen.spent <= recorded
             /\ seen.step = "both" => seen.spent <= seen.lines

GovernorInv == GovernorTypeOK /\ LockInv /\ TotalsInv /\ ReportInv /\ CeilingRespected
=============================================================================

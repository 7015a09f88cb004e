------------------------------- MODULE FanOut -------------------------------
(***************************************************************************)
(* The implement phase of workflow.py (_phase_implement) and what follows  *)
(* it in cli._run: coroutines behind a semaphore, one worker thread each   *)
(* (ImplementAgent.run through asyncio.to_thread), and a main coroutine    *)
(* that settles the run while workers it no longer waits for are still     *)
(* calling the model.                                                      *)
(*                                                                         *)
(* charge() is one step: Governor.tla shows that its lock makes it so.     *)
(* A closed ledger refuses every write, an open one those for which        *)
(* another process holds the database longer than busy_timeout.            *)
(***************************************************************************)
EXTENDS Integers, FiniteSets, Functions

CONSTANTS Tasks,           \* the pending subtasks of the round
          Deps,            \* the dependencies of each
          MaxConcurrency,  \* models.implementer.max_concurrency
          MaxTurns,        \* models.implementer.max_turns
          Retries,         \* models.implementer.retries, for the client
          Ceiling,         \* what is left of --budget
          Costs,           \* what one response may cost, 0 without its usage
          Contended        \* the subtasks whose writes may find the database locked

ASSUME FanOutAssumption ==
         /\ IsFiniteSet(Tasks)
         /\ Deps \in [Tasks -> SUBSET Tasks]
         \* Plan validation admits no cycle:
         /\ \A S \in SUBSET Tasks : S # {} => \E t \in S : Deps[t] \cap S = {}
         /\ MaxConcurrency \in Nat /\ MaxTurns \in Nat /\ Retries \in Int
         /\ Ceiling \in Nat /\ Costs \subseteq Nat
         /\ Contended \subseteq Tasks

VARIABLES main,      \* where the main coroutine and asyncio.run are
          layer,     \* the subtasks of the gather in progress
          co,        \* per subtask, the coroutine _run_one
          th,        \* per subtask, the thread in ImplementAgent.run
          turn,      \* per subtask, the turns begun
          due,       \* per subtask, the cost of the response in hand
          total,     \* per subtask, total_cost
          spent,     \* governor.spent_usd
          billed,    \* what the provider bills, granted or not
          row,       \* per subtask, its agent_invocations row
          rowCost,   \* the cost_usd of that row
          event,     \* per subtask, what the cost_events table holds of it
          open,      \* the ledger connection is open
          status,    \* the status of the runs row
          recorded   \* the cross-run record of this run, -1 while there is none

loop   == <<main, layer, co, status, recorded>>
money  == <<due, total, spent, billed>>
ledger == <<row, rowCost, event>>
vars   == <<main, layer, co, th, turn, due, total, spent, billed, row, rowCost,
            event, open, status, recorded>>

Init == /\ main = "gather" /\ layer = {}
        /\ co = [t \in Tasks |-> "none"] /\ th = [t \in Tasks |-> "none"]
        /\ turn = [t \in Tasks |-> 0] /\ due = [t \in Tasks |-> 0]
        /\ total = [t \in Tasks |-> 0] /\ spent = 0 /\ billed = 0
        /\ row = [t \in Tasks |-> "none"] /\ rowCost = [t \in Tasks |-> 0]
        /\ event = [t \in Tasks |-> 0] /\ open = TRUE /\ status = "running" /\ recorded = -1

Live == {t \in Tasks : th[t] \in {"start", "call", "charge", "record", "finish", "error"}}

-----------------------------------------------------------------------------
(* The worker threads: ImplementAgent.run                                  *)

Step(t, from, to) == th[t] = from /\ th' = [th EXCEPT ![t] = to]

TurnOrError(n) == IF n < MaxTurns THEN "call" ELSE "error"

(* Whether the ledger may raise on a write of this worker.                 *)
MayRefuse(t) == ~open \/ t \in Contended

\* Faulty variant: a worker whose row cannot be written goes on without it.
StartAnyway(t) == /\ Step(t, "start", TurnOrError(0))
                  /\ row' = IF open THEN [row EXCEPT ![t] = "running"] ELSE row
                  /\ UNCHANGED <<loop, turn, money, rowCost, event, open>>

(* start_invocation is outside the try: a worker without a row just ends.  *)
Start(t) == /\ \/ open /\ Step(t, "start", TurnOrError(0)) /\ row' = [row EXCEPT ![t] = "running"]
               \/ MayRefuse(t) /\ Step(t, "start", "raised") /\ UNCHANGED row
            /\ UNCHANGED <<loop, turn, money, rowCost, event, open>>

(* The client repeats a request that times out or meets a retryable error. *)
(* Each of those may have been answered, and is billed all the same: here  *)
(* k of them, at d.                                                        *)
Call(t) ==
  /\ turn' = [turn EXCEPT ![t] = @ + 1]
  /\ \/ /\ Step(t, "call", "charge")
        /\ \E c \in Costs, d \in Costs, k \in 0..Retries :
             due' = [due EXCEPT ![t] = c] /\ billed' = billed + (c + k * d)
     \/ /\ Step(t, "call", "error")
        /\ \/ UNCHANGED billed
           \/ \E d \in Costs, k \in 1..(Retries + 1) : billed' = billed + k * d
        /\ UNCHANGED due
  /\ UNCHANGED <<loop, total, spent, ledger, open>>

\* Faulty variant: each worker has the whole of the budget.
FitsAlone(t) == total[t] + due[t] <= Ceiling

Fits(t) == spent + due[t] <= Ceiling

(* The charge is granted; the reply asks for tools or does not validate,   *)
(* is the completion, or cannot be handled at all.                         *)
Charge(t) == /\ Fits(t)
             /\ spent' = spent + due[t]
             /\ total' = [total EXCEPT ![t] = @ + due[t]]
             /\ \/ Step(t, "charge", TurnOrError(turn[t]))
                \/ Step(t, "charge", "record")
                \/ Step(t, "charge", "error")
             /\ UNCHANGED <<loop, turn, due, billed, ledger, open>>

Refuse(t) == /\ ~Fits(t)
             /\ Step(t, "charge", "error")
             /\ UNCHANGED <<loop, turn, money, ledger, open>>

(* record_cost; refused, it raises into the except clause.                 *)
Record(t) == /\ \/ open /\ Step(t, "record", "finish") /\ event' = [event EXCEPT ![t] = total[t]]
                \/ MayRefuse(t) /\ Step(t, "record", "error") /\ UNCHANGED event
             /\ UNCHANGED <<loop, turn, money, row, rowCost, open>>

Close(t, ending) == /\ open
                    /\ row' = [row EXCEPT ![t] = ending]
                    /\ rowCost' = [rowCost EXCEPT ![t] = total[t]]

(* finish_invocation inside the try: the event is written already.         *)
Finish(t) == /\ \/ Step(t, "finish", "returned") /\ Close(t, "ok")
                \/ MayRefuse(t) /\ Step(t, "finish", "error") /\ UNCHANGED <<row, rowCost>>
             /\ UNCHANGED <<loop, turn, money, event, open>>

\* Faulty variant: the error row is written without what was spent.
FailForgetting(t) == /\ Step(t, "error", "raised")
                     /\ row' = IF open THEN [row EXCEPT ![t] = "error"] ELSE row
                     /\ UNCHANGED <<loop, turn, money, rowCost, event, open>>

\* Faulty variant: the worker ends without closing its row.
FailSilently(t) == /\ Step(t, "error", "raised")
                   /\ UNCHANGED <<loop, turn, money, ledger, open>>

(* The except clause closes the row with what was spent; when that is      *)
(* refused, too, the worker raises all the same.  "unclosed" is a worker   *)
(* that raised because an open ledger did not take it.                     *)
Fail(t) == /\ \/ Step(t, "error", "raised") /\ Close(t, "error")
              \/ /\ MayRefuse(t) /\ Step(t, "error", IF open THEN "unclosed" ELSE "raised")
                 /\ UNCHANGED <<row, rowCost>>
           /\ UNCHANGED <<loop, turn, money, event, open>>

Worker(t) == \/ Start(t) \/ Call(t) \/ Charge(t) \/ Refuse(t)
             \/ Record(t) \/ Finish(t) \/ Fail(t)

-----------------------------------------------------------------------------
(* The event loop while the main coroutine awaits the gather               *)

Done == {t \in Tasks : co[t] = "done"}

\* Faulty variant: the order of the plan is taken for a topological order.
ReadyAll == Tasks \ Done

(* The next layer of _topological_order.                                   *)
Ready == {t \in Tasks \ Done : Deps[t] \subseteq Done}

Least(m, n) == IF m <= n THEN m ELSE n

\* Faulty variant: a gather without the semaphore.
NextLayerUnbounded == /\ main = "gather" /\ layer \subseteq Done /\ Done # Tasks
                      /\ layer' = Ready
                      /\ co' = [t \in Tasks |-> IF t \in Ready THEN "running" ELSE co[t]]
                      /\ th' = [t \in Tasks |-> IF t \in Ready THEN "start" ELSE th[t]]
                      /\ UNCHANGED <<main, turn, money, ledger, open, status, recorded>>

(* gather() starts the layer: as many coroutines as the semaphore admits   *)
(* start their thread, the others wait.                                    *)
NextLayer == /\ main = "gather" /\ layer \subseteq Done /\ Done # Tasks
             /\ layer' = Ready
             /\ \E S \in SUBSET Ready :
                  /\ Cardinality(S) = Least(MaxConcurrency, Cardinality(Ready))
                  /\ co' = [t \in Tasks |-> IF t \in S THEN "running"
                                            ELSE IF t \in Ready THEN "waiting" ELSE co[t]]
                  /\ th' = [t \in Tasks |-> IF t \in S THEN "start" ELSE th[t]]
             /\ UNCHANGED <<main, turn, money, ledger, open, status, recorded>>

Settled(t) == co[t] = "running" /\ th[t] \in {"returned", "raised", "unclosed"}
Result(t)  == IF th[t] = "returned" THEN "done" ELSE "failed"
Waiting    == {t \in Tasks : co[t] = "waiting"}

\* Faulty variant: a coroutine that ends keeps its place in the semaphore.
SettleLeaking(t) == /\ main = "gather" /\ Settled(t)
                    /\ co' = [co EXCEPT ![t] = Result(t)]
                    /\ UNCHANGED <<main, layer, th, turn, money, ledger, open, status, recorded>>

(* A worker is back: its coroutine ends and releases the semaphore, which  *)
(* wakes the next waiter, also when the worker raised: the waiter runs     *)
(* before the main coroutine sees the exception.                           *)
Settle(t) == /\ main = "gather" /\ Settled(t)
             /\ IF Waiting = {}
                THEN co' = [co EXCEPT ![t] = Result(t)] /\ UNCHANGED th
                ELSE \E w \in Waiting :
                       /\ co' = [co EXCEPT ![t] = Result(t), ![w] = "running"]
                       /\ th' = [th EXCEPT ![w] = "start"]
             /\ UNCHANGED <<main, layer, turn, money, ledger, open, status, recorded>>

Go(from, to) == main = from /\ main' = to

Complete == /\ Done = Tasks
            /\ Go("gather", "completed")
            /\ UNCHANGED <<layer, co, th, turn, money, ledger, open, status, recorded>>

GatherRaises == /\ \E t \in Tasks : co[t] = "failed"
                /\ Go("gather", "raised")
                /\ UNCHANGED <<layer, co, th, turn, money, ledger, open, status, recorded>>

CancelWaiters == co' = [t \in Tasks |-> IF co[t] \in {"waiting", "running"}
                                        THEN "cancelled" ELSE co[t]]

(* Ctrl-C: the gather is cancelled, its threads are not.                   *)
Interrupt == /\ Go("gather", "finalized")
             /\ CancelWaiters
             /\ UNCHANGED <<layer, th, turn, money, ledger, open, status, recorded>>

-----------------------------------------------------------------------------
(* The main coroutine after the gather, and asyncio.run after it: nothing  *)
(* here yields to the event loop, the threads run on.                      *)

(* The rest of the run ends with a status of its own, or raises, too.      *)
FinalizeRun == /\ Go("completed", "finalized")
               /\ status' \in {"ended", "crashed"}
               /\ UNCHANGED <<layer, co, th, turn, money, ledger, open, recorded>>

(* Pipeline.tla has the status that cannot be written.                     *)
FinalizeCrashed == /\ Go("raised", "finalized")
                   /\ status' = "crashed"
                   /\ UNCHANGED <<layer, co, th, turn, money, ledger, open, recorded>>

(* The records that fail are in CrossRun.tla.                              *)
RecordSpend == /\ Go("finalized", "recorded")
               /\ recorded' = spent
               /\ UNCHANGED <<layer, co, th, turn, money, ledger, open, status>>

CloseLedger == /\ Go("recorded", "closed")
               /\ open' = FALSE
               /\ UNCHANGED <<layer, co, th, turn, money, ledger, status, recorded>>

(* asyncio.run cancels the coroutines that are left ...                    *)
CancelAll == /\ Go("closed", "cancelled")
             /\ CancelWaiters
             /\ UNCHANGED <<layer, th, turn, money, ledger, open, status, recorded>>

(* ... and waits for the threads of the default executor.                  *)
Exit == /\ Live = {}
        /\ Go("cancelled", "exited")
        /\ UNCHANGED <<layer, co, th, turn, money, ledger, open, status, recorded>>

Main == \/ NextLayer \/ (\E t \in Tasks : Settle(t)) \/ Complete \/ GatherRaises
        \/ FinalizeRun \/ FinalizeCrashed \/ RecordSpend \/ CloseLedger
        \/ CancelAll \/ Exit

Next == Main \/ Interrupt \/ \E t \in Tasks : Worker(t)

Spec == Init /\ [][Next]_vars

(* A model call returns or times out (timeout_s), and the event loop runs  *)
(* what is ready: as long as a thread or the loop can move, one of them    *)
(* does.  Nobody has to press Ctrl-C.                                      *)
FairSpec == Spec /\ WF_vars(Main \/ \E t \in Tasks : Worker(t))

-----------------------------------------------------------------------------
TypeOK ==
  /\ main \in {"gather", "completed", "raised", "finalized", "recorded", "closed",
               "cancelled", "exited"}
  /\ layer \in SUBSET Tasks
  /\ co \in [Tasks -> {"none", "waiting", "running", "done", "failed", "cancelled"}]
  /\ th \in [Tasks -> {"none", "start", "call", "charge", "record", "finish", "error",
                       "returned", "raised", "unclosed"}]
  /\ turn \in [Tasks -> Nat] /\ due \in [Tasks -> Nat] /\ total \in [Tasks -> Nat]
  /\ spent \in Nat /\ billed \in Nat
  /\ row \in [Tasks -> {"none", "running", "ok", "error"}]
  /\ rowCost \in [Tasks -> Nat] /\ event \in [Tasks -> Nat]
  /\ open \in BOOLEAN /\ status \in {"running", "ended", "crashed"}
  /\ recorded \in Nat \cup {-1}

(* What ties coroutines, threads and rows together.                        *)
CoInv ==
  /\ \A t \in Tasks :
       /\ co[t] # "none" => (t \in layer \/ co[t] = "done") /\ Deps[t] \subseteq Done
       /\ co[t] \in {"none", "waiting"} => th[t] = "none"
       /\ co[t] = "running" => th[t] # "none"
       /\ co[t] = "done" => th[t] = "returned"
       /\ co[t] = "failed" => th[t] = "unclosed" \/ (th[t] = "raised" /\ row[t] # "running")
       /\ main \in {"cancelled", "exited"} => co[t] \notin {"waiting", "running"}
  /\ main = "exited" => Live = {}

RowInv ==
  /\ \A t \in Tasks :
       /\ th[t] \in {"none", "start"} => row[t] = "none"
       /\ th[t] \in {"call", "charge", "record", "finish", "error"} => row[t] = "running"
       /\ th[t] = "returned" => row[t] = "ok"
       /\ th[t] = "raised" => row[t] \in {"none", "error"} \/ (row[t] = "running" /\ ~open)
       /\ th[t] = "unclosed" => row[t] = "running"
  /\ ~open => main \in {"closed", "cancelled", "exited"}

(* The subtasks that hold a place: a thread alive, or not yet settled.     *)
Placed == {t \in Tasks : co[t] = "running"} \cup Live

PlaceInv ==
  /\ IsFiniteSet(Placed) /\ Cardinality(Placed) <= MaxConcurrency
  /\ main = "gather" => \A t \in Live : co[t] = "running"

PhaseInv == TypeOK /\ CoInv /\ RowInv /\ PlaceInv

(* The accounts: what the governor granted, what rows and events say of it.*)
AccountInv ==
  /\ spent = SumFunctionOnSet(total, Tasks)
  /\ \A t \in Tasks : row[t] \in {"ok", "error"} => rowCost[t] = total[t]
  /\ \A t \in Tasks : th[t] \in {"finish", "returned"} => event[t] = total[t]
  /\ main = "completed" => Done = Tasks
  /\ status = "ended" => Done = Tasks

Dearest(c) == c \in Costs /\ \A d \in Costs : d <= c

Repeats == IF Retries > 0 THEN Retries ELSE 0

Ended == {"error", "raised", "unclosed"}

(* What the provider may bill for a subtask and the governor did not grant *)
(* it: the repetitions of its turns, and the response that it is about to  *)
(* pay for or that it ended with.                                          *)
Slack(c) == [t \in Tasks |-> c * Repeats * turn[t]
                             + (IF th[t] = "charge" THEN due[t]
                                ELSE IF th[t] \in Ended THEN c ELSE 0)]

CreditInv ==
  /\ spent <= Ceiling
  /\ \A t \in Tasks : due[t] \in Costs \cup {0}
  /\ \A c \in Costs : Dearest(c) => billed <= spent + SumFunctionOnSet(Slack(c), Tasks)

IInv == PhaseInv /\ AccountInv /\ CreditInv

(* A subtask only starts when the workers of all its dependencies have     *)
(* returned, in this layer and across layers.                              *)
DependencyOrder == \A t \in Tasks : th[t] # "none" => \A d \in Deps[t] : th[d] = "returned"

(* No more workers are alive at a time than max_concurrency, also while a  *)
(* failure hands its place on and after the run has been torn down.        *)
ConcurrencyBound == Cardinality(Live) <= MaxConcurrency

(* No model is called for a subtask without an open invocation row of its  *)
(* own, also by workers that outlive the run.                              *)
PaidCallsHaveARow == \A t \in Tasks : th[t] \in {"call", "charge"} => row[t] = "running"

(* The invocation rows account for the whole spend: a closed row carries   *)
(* all that its worker was charged, and only rows still "running" miss it; *)
(* when the phase completes the cost events add up to the spend as well.   *)
AccountsBalance ==
  /\ spent = SumFunctionOnSet([t \in Tasks |-> IF row[t] \in {"ok", "error"} THEN rowCost[t]
                                               ELSE total[t]], Tasks)
  /\ status = "ended" => SumFunctionOnSet(event, Tasks) = spent

(* A row left "running" when the process ends belongs to a worker that was *)
(* abandoned, or to one whose closing write an open ledger refused: no     *)
(* other worker that the gather waited for leaves one behind.              *)
StuckRowsAreOrphans ==
  main = "exited" =>
    \A t \in Tasks : row[t] = "running" => co[t] = "cancelled" \/ th[t] = "unclosed"

(* For each subtask the repetitions of its turns, and one response if it   *)
(* is of the layer in progress.                                            *)
Beyond(c) == [t \in Tasks |-> c * Repeats * turn[t] + (IF t \in layer THEN c ELSE 0)]

(* The provider may bill more than the ceiling allows, but by at most the  *)
(* client's repetitions of each turn, which the governor never sees, and   *)
(* one refused response per subtask of the layer in progress: a refused    *)
(* worker stops, and no later layer starts.  What it bills for a response  *)
(* that carries no usage comes on top.                                     *)
OverspendBounded ==
  \A c \in Costs : Dearest(c) => billed <= Ceiling + SumFunctionOnSet(Beyond(c), Tasks)

(* The process ends: workers stop after max_turns, the semaphore leaks no  *)
(* place, and asyncio.run waits for threads that all finish.  It takes no  *)
(* fairness between them, since each of them ends by itself.               *)
Exits == <>(main = "exited")

-----------------------------------------------------------------------------
(* What the repository's texts say and the code does not keep.             *)

(* cli.py, ADR-0007: a partial or crashed run still counts against the     *)
(* window cap: what it spent is what is recorded.                          *)
SpendRecordedIsFinal == main = "exited" => recorded = spent

(* It does keep it for a run whose phase completed: no worker is left to   *)
(* charge on (which CrossRun.tla takes from here), and the record, once    *)
(* written, is of all that was spent.                                      *)
CompletedSpendIsFinal == status = "ended" => Live = {} /\ recorded \in {-1, spent}
=============================================================================

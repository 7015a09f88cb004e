---------------------------- MODULE FanOutProofs ----------------------------
(***************************************************************************)
(* For any plan, any number of places, turns and prices: the inductive     *)
(* invariant of the implement phase, and from it the order of subtasks,    *)
(* the bound on concurrent workers, what the invocation rows say, and      *)
(* where the money is.                                                     *)
(***************************************************************************)
EXTENDS FanOut, SumTheorems

Active == {"call", "charge", "record", "finish", "error"}

(* Coroutines, threads, rows and places.                                   *)
LEMMA PhaseStarts == Init => PhaseInv
<1> SUFFICES ASSUME Init
             PROVE  PhaseInv
  OBVIOUS
<1>1. TypeOK
  BY DEF Init, TypeOK
<1>2. CoInv
  BY DEF Init, CoInv
<1>3. RowInv
  BY DEF Init, RowInv
<1>4. Placed = {} /\ Live = {}
  BY DEF Init, Placed, Live
<1>5. PlaceInv
  BY <1>4, FS_EmptySet, FanOutAssumption DEF PlaceInv
<1>6. QED
  BY <1>1, <1>2, <1>3, <1>5 DEF PhaseInv

-----------------------------------------------------------------------------
(* What a step of a worker leaves alone, and where it takes its thread.    *)
LEMMA WorkerFrame ==
  ASSUME TypeOK, NEW t \in Tasks, Worker(t)
  PROVE  /\ t \in Live
         /\ th'[t] \in Active \cup {"returned", "raised", "unclosed"}
         /\ th' = [th EXCEPT ![t] = th'[t]]
         /\ \A u \in Tasks \ {t} : row'[u] = row[u]
         /\ UNCHANGED <<main, layer, co, status, recorded, open>>
<1>t. th \in [Tasks -> {"none", "start", "call", "charge", "record", "finish", "error",
                        "returned", "raised", "unclosed"}]
      /\ row \in [Tasks -> {"none", "running", "ok", "error"}]
  BY DEF TypeOK
<1>1. CASE Start(t)
  BY <1>1, <1>t DEF Start, Step, TurnOrError, Live, Active, loop
<1>2. CASE Call(t)
  BY <1>2, <1>t DEF Call, Step, Live, Active, loop, ledger
<1>3. CASE Charge(t)
  BY <1>3, <1>t DEF Charge, Step, TurnOrError, Live, Active, loop, ledger
<1>4. CASE Refuse(t)
  BY <1>4, <1>t DEF Refuse, Step, Live, Active, loop, ledger
<1>5. CASE Record(t)
  BY <1>5, <1>t DEF Record, Step, Live, Active, loop
<1>6. CASE Finish(t)
  BY <1>6, <1>t DEF Finish, Close, Step, Live, Active, loop
<1>7. CASE Fail(t)
  BY <1>7, <1>t DEF Fail, Close, Step, Live, Active, loop
<1>8. QED
  BY <1>1, <1>2, <1>3, <1>4, <1>5, <1>6, <1>7 DEF Worker

(* The row of the worker follows its thread: open while it works, closed   *)
(* when it ends, unless the ledger was closed before or refused the write. *)
LEMMA WorkerRow ==
  ASSUME TypeOK, RowInv, NEW t \in Tasks, Worker(t)
  PROVE  /\ th'[t] \in Active => row'[t] = "running"
         /\ th'[t] = "returned" => row'[t] = "ok"
         /\ th'[t] = "raised" => row'[t] \in {"none", "error"} \/ (row'[t] = "running" /\ ~open)
         /\ th'[t] = "unclosed" => row'[t] = "running"
<1>t. th \in [Tasks -> {"none", "start", "call", "charge", "record", "finish", "error",
                        "returned", "raised", "unclosed"}]
      /\ row \in [Tasks -> {"none", "running", "ok", "error"}]
      /\ (th[t] \in Active => row[t] = "running") /\ (th[t] = "start" => row[t] = "none")
  BY DEF TypeOK, RowInv, Active
<1>1. CASE Start(t)
  BY <1>1, <1>t DEF Start, Step, TurnOrError, Active
<1>2. CASE Call(t)
  BY <1>2, <1>t DEF Call, Step, Active, ledger
<1>3. CASE Charge(t)
  BY <1>3, <1>t DEF Charge, Step, TurnOrError, Active, ledger
<1>4. CASE Refuse(t)
  BY <1>4, <1>t DEF Refuse, Step, Active, ledger
<1>5. CASE Record(t)
  BY <1>5, <1>t DEF Record, Step, Active
<1>6. CASE Finish(t)
  BY <1>6, <1>t DEF Finish, Close, Step, Active
<1>7. CASE Fail(t)
  BY <1>7, <1>t DEF Fail, Close, Step, Active
<1>8. QED
  BY <1>1, <1>2, <1>3, <1>4, <1>5, <1>6, <1>7 DEF Worker

(* Products of natural numbers grow with their factors.                    *)
LEMMA ProductGrows ==
  ASSUME NEW a \in Nat, NEW b \in Nat, NEW x \in Nat, NEW y \in Nat, a <= x, b <= y
  PROVE  a * b \in Nat /\ x * y \in Nat /\ a * b <= x * y
<1>1. a * b \in Nat /\ x * b \in Nat /\ x * y \in Nat
  OBVIOUS
<1>2. a * b <= x * b
  <2>1. x * b = a * b + (x - a) * b /\ (x - a) * b \in Nat
    OBVIOUS
  <2>2. QED
    BY <1>1, <2>1
<1>3. x * b <= x * y
  <2>1. x * y = x * b + x * (y - b) /\ x * (y - b) \in Nat
    OBVIOUS
  <2>2. QED
    BY <1>1, <2>1
<1>4. QED
  BY <1>1, <1>2, <1>3

(* What a call adds to the bill: the response, if there is one, and        *)
(* repetitions that cost no more than the dearest response each.           *)
LEMMA CallBills ==
  ASSUME TypeOK, NEW t \in Tasks, Call(t)
  PROVE  \/ /\ th'[t] = "charge"
            /\ \E c \in Costs, b \in Nat :
                 /\ due' = [due EXCEPT ![t] = c] /\ billed' = billed + c + b
                 /\ \A e \in Costs : Dearest(e) => b <= e * Repeats
         \/ /\ th'[t] = "error" /\ UNCHANGED due
            /\ \E b \in Nat : /\ billed' = billed + b
                              /\ \A e \in Costs : Dearest(e) => b <= e * Repeats + e
<1>t. /\ th \in [Tasks -> {"none", "start", "call", "charge", "record", "finish", "error",
                           "returned", "raised", "unclosed"}]
      /\ billed \in Nat /\ Costs \subseteq Nat /\ Retries \in Int /\ Repeats \in Nat
  BY FanOutAssumption DEF TypeOK, Repeats
<1>1. CASE \E c \in Costs, d \in Costs, k \in 0..Retries :
             /\ Step(t, "call", "charge")
             /\ due' = [due EXCEPT ![t] = c] /\ billed' = billed + (c + k * d)
  <2>1. PICK c \in Costs, d \in Costs, k \in 0..Retries :
          /\ Step(t, "call", "charge")
          /\ due' = [due EXCEPT ![t] = c] /\ billed' = billed + (c + k * d)
    BY <1>1
  <2>2. c \in Nat /\ d \in Nat /\ k \in Nat /\ k <= Repeats
    BY <1>t DEF Repeats
  <2>3. k * d \in Nat
    BY <2>2, ProductGrows
  <2>4. ASSUME NEW e \in Costs, Dearest(e)
        PROVE  k * d <= e * Repeats
    <3>1. d <= e /\ e \in Nat
      BY <2>4, <1>t DEF Dearest
    <3>2. k * d <= Repeats * e /\ Repeats * e = e * Repeats
      BY <3>1, <2>2, <1>t, ProductGrows
    <3>3. QED
      BY <3>2
  <2>5. billed' = billed + c + k * d
    BY <2>1, <2>2, <2>3, <1>t
  <2>6. th'[t] = "charge"
    BY <2>1, <1>t DEF Step
  <2>7. QED
    BY <2>1, <2>3, <2>4, <2>5, <2>6
<1>2. CASE Step(t, "call", "error") /\ UNCHANGED due /\ UNCHANGED billed
  <2>1. ASSUME NEW e \in Costs
        PROVE  0 <= e * Repeats + e
    BY <1>t, ProductGrows
  <2>2. th'[t] = "error" /\ billed' = billed + 0
    BY <1>2, <1>t DEF Step
  <2>3. QED
    BY <1>2, <2>1, <2>2
<1>3. CASE \E d \in Costs, k \in 1..(Retries + 1) :
             Step(t, "call", "error") /\ UNCHANGED due /\ billed' = billed + k * d
  <2>1. PICK d \in Costs, k \in 1..(Retries + 1) :
          Step(t, "call", "error") /\ UNCHANGED due /\ billed' = billed + k * d
    BY <1>3
  <2>2. d \in Nat /\ k \in Nat /\ k <= Repeats + 1
    BY <1>t DEF Repeats
  <2>3. k * d \in Nat
    BY <2>2, ProductGrows
  <2>4. ASSUME NEW e \in Costs, Dearest(e)
        PROVE  k * d <= e * Repeats + e
    <3>1. d <= e /\ e \in Nat
      BY <2>4, <1>t DEF Dearest
    <3>2. k * d <= (Repeats + 1) * e
      BY <3>1, <2>2, <1>t, ProductGrows
    <3>3. (Repeats + 1) * e = e * Repeats + e
      BY <3>1, <1>t
    <3>4. QED
      BY <3>2, <3>3
  <2>5. th'[t] = "error"
    BY <2>1, <1>t DEF Step
  <2>6. QED
    BY <2>1, <2>3, <2>4, <2>5
<1>4. QED
  <2>1. \/ /\ Step(t, "call", "charge")
           /\ \E c \in Costs, d \in Costs, k \in 0..Retries :
                due' = [due EXCEPT ![t] = c] /\ billed' = billed + (c + k * d)
        \/ /\ Step(t, "call", "error") /\ UNCHANGED due
           /\ \/ UNCHANGED billed
              \/ \E d \in Costs, k \in 1..(Retries + 1) : billed' = billed + k * d
    BY DEF Call
  <2>2. QED
    BY <2>1, <1>1, <1>2, <1>3

(* Counters and totals of a worker stay numbers.                           *)
LEMMA WorkerMoney ==
  ASSUME TypeOK, NEW t \in Tasks, Worker(t)
  PROVE  /\ turn' \in [Tasks -> Nat] /\ due' \in [Tasks -> Nat] /\ total' \in [Tasks -> Nat]
         /\ spent' \in Nat /\ billed' \in Nat
         /\ rowCost' \in [Tasks -> Nat] /\ event' \in [Tasks -> Nat]
         /\ row' \in [Tasks -> {"none", "running", "ok", "error"}]
<1>t. /\ turn \in [Tasks -> Nat] /\ due \in [Tasks -> Nat] /\ total \in [Tasks -> Nat]
      /\ spent \in Nat /\ billed \in Nat /\ event \in [Tasks -> Nat]
      /\ rowCost \in [Tasks -> Nat] /\ row \in [Tasks -> {"none", "running", "ok", "error"}]
      /\ Costs \subseteq Nat
  BY FanOutAssumption DEF TypeOK
<1>1. CASE Start(t)
  BY <1>1, <1>t DEF Start, money
<1>2. CASE Call(t)
  <2>1. UNCHANGED <<total, spent, row, rowCost, event>> /\ turn' = [turn EXCEPT ![t] = @ + 1]
    BY <1>2 DEF Call, ledger
  <2>2. due' \in [Tasks -> Nat] /\ billed' \in Nat
    <3>1. CASE \E c \in Costs, b \in Nat : due' = [due EXCEPT ![t] = c] /\ billed' = billed + c + b
      BY <3>1, <1>t
    <3>2. CASE UNCHANGED due /\ \E b \in Nat : billed' = billed + b
      BY <3>2, <1>t
    <3>3. QED
      BY <1>2, <3>1, <3>2, CallBills
  <2>3. QED
    BY <2>1, <2>2, <1>t
<1>3. CASE Charge(t)
  <2>1. UNCHANGED <<turn, due, billed, row, rowCost, event>>
    BY <1>3 DEF Charge, ledger
  <2>2. spent' = spent + due[t] /\ total' = [total EXCEPT ![t] = @ + due[t]]
    BY <1>3 DEF Charge
  <2>3. QED
    BY <2>1, <2>2, <1>t
<1>4. CASE Refuse(t)
  BY <1>4, <1>t DEF Refuse, money, ledger
<1>5. CASE Record(t)
  BY <1>5, <1>t DEF Record, money
<1>6. CASE Finish(t)
  BY <1>6, <1>t DEF Finish, Close, money
<1>7. CASE Fail(t)
  BY <1>7, <1>t DEF Fail, Close, money
<1>8. QED
  BY <1>1, <1>2, <1>3, <1>4, <1>5, <1>6, <1>7 DEF Worker

(* Every step of a worker keeps the phase invariant.                       *)
LEMMA WorkerKeeps ==
  ASSUME PhaseInv, NEW t \in Tasks, Worker(t)
  PROVE  PhaseInv'
<1>i. TypeOK /\ CoInv /\ RowInv /\ PlaceInv
  BY DEF PhaseInv
<1>f. /\ t \in Live /\ th'[t] \in Active \cup {"returned", "raised", "unclosed"}
      /\ th' = [th EXCEPT ![t] = th'[t]]
      /\ \A u \in Tasks \ {t} : row'[u] = row[u]
      /\ UNCHANGED <<main, layer, co, status, recorded, open>>
  BY <1>i, WorkerFrame
<1>r. /\ th'[t] \in Active => row'[t] = "running"
      /\ th'[t] = "returned" => row'[t] = "ok"
      /\ th'[t] = "raised" => row'[t] \in {"none", "error"} \/ (row'[t] = "running" /\ ~open)
      /\ th'[t] = "unclosed" => row'[t] = "running"
  BY <1>i, WorkerRow
<1>h. th \in [Tasks -> {"none", "start", "call", "charge", "record", "finish", "error",
                        "returned", "raised", "unclosed"}]
  BY <1>i DEF TypeOK
<1>o. \A u \in Tasks \ {t} : th'[u] = th[u]
  BY <1>f, <1>h
<1>l. Live' \subseteq Live
  BY <1>f, <1>o DEF Live
<1>1. TypeOK'
  <2>1. th' \in [Tasks -> {"none", "start", "call", "charge", "record", "finish", "error",
                           "returned", "raised", "unclosed"}]
    BY <1>f, <1>h DEF Active
  <2>2. QED
    BY <1>i, <1>f, <2>1, WorkerMoney DEF TypeOK
<1>2. CoInv'
  <2>1. co[t] \notin {"none", "waiting", "done", "failed"} /\ main # "exited"
    BY <1>i, <1>f DEF CoInv, Live
  <2>2. Done' = Done
    BY <1>f DEF Done
  <2>3. QED
    BY <1>i, <1>f, <1>o, <2>1, <2>2 DEF CoInv, Active
<1>3. RowInv'
  BY <1>i, <1>f, <1>r, <1>o DEF RowInv, Active
<1>4. PlaceInv'
  <2>1. Placed' \subseteq Placed
    BY <1>f, <1>l DEF Placed
  <2>2. IsFiniteSet(Placed') /\ Cardinality(Placed') <= Cardinality(Placed)
    BY <1>i, <2>1, FS_Subset DEF PlaceInv
  <2>3. Cardinality(Placed') <= MaxConcurrency
    BY <1>i, <2>1, <2>2, FS_Subset, FS_CardinalityType, FanOutAssumption DEF PlaceInv
  <2>4. QED
    BY <1>i, <1>f, <1>l, <2>2, <2>3 DEF PlaceInv
<1>5. QED
  BY <1>1, <1>2, <1>3, <1>4 DEF PhaseInv

-----------------------------------------------------------------------------
(* The next layer finds no coroutine that is still at work.                *)
LEMMA NextLayerKeeps ==
  ASSUME PhaseInv, NextLayer
  PROVE  PhaseInv'
<1>i. TypeOK /\ CoInv /\ RowInv /\ PlaceInv
  BY DEF PhaseInv
<1>u. /\ main = "gather" /\ layer \subseteq Done /\ layer' = Ready
      /\ UNCHANGED <<main, turn, due, total, spent, billed, row, rowCost, event,
                     open, status, recorded>>
  BY DEF NextLayer, money, ledger
<1>s. PICK S \in SUBSET Ready :
        /\ Cardinality(S) = Least(MaxConcurrency, Cardinality(Ready))
        /\ co' = [t \in Tasks |-> IF t \in S THEN "running"
                                  ELSE IF t \in Ready THEN "waiting" ELSE co[t]]
        /\ th' = [t \in Tasks |-> IF t \in S THEN "start" ELSE th[t]]
  BY DEF NextLayer
<1>r. Ready \subseteq Tasks /\ S \subseteq Tasks
  BY <1>s DEF Ready
<1>n. \A t \in Tasks : co[t] \in {"none", "done"}
  BY <1>i, <1>u DEF CoInv, Done
<1>q. \A t \in Ready : co[t] = "none" /\ th[t] = "none" /\ Deps[t] \subseteq Done
  BY <1>i, <1>n DEF CoInv, Ready, Done
<1>d. Done' = Done
  BY <1>s, <1>r, <1>q DEF Done
<1>l. Live = {}
  BY <1>i, <1>n DEF CoInv, Live
<1>1. TypeOK'
  <2>1. /\ co' \in [Tasks -> {"none", "waiting", "running", "done", "failed", "cancelled"}]
        /\ th' \in [Tasks -> {"none", "start", "call", "charge", "record", "finish", "error",
                              "returned", "raised", "unclosed"}]
    BY <1>i, <1>s DEF TypeOK
  <2>2. QED
    BY <1>i, <1>u, <1>r, <2>1 DEF TypeOK
<1>2. CoInv'
  BY <1>i, <1>u, <1>s, <1>r, <1>n, <1>q, <1>d DEF CoInv
<1>3. RowInv'
  BY <1>i, <1>u, <1>s, <1>r, <1>q DEF RowInv
<1>4. PlaceInv'
  <2>1. Placed' = S /\ Live' = S
    BY <1>s, <1>r, <1>n, <1>l DEF Placed, Live
  <2>2. IsFiniteSet(Ready) /\ IsFiniteSet(S)
    BY <1>r, FS_Subset, FanOutAssumption
  <2>3. Cardinality(S) <= MaxConcurrency
    BY <1>s, <2>2, FS_CardinalityType, FanOutAssumption DEF Least
  <2>4. \A t \in S : co'[t] = "running"
    BY <1>s, <1>r
  <2>5. QED
    BY <2>1, <2>2, <2>3, <2>4 DEF PlaceInv
<1>5. QED
  BY <1>1, <1>2, <1>3, <1>4 DEF PhaseInv

(* The place of a worker that is back goes to one waiter, or to nobody.    *)
LEMMA SettleKeeps ==
  ASSUME PhaseInv, NEW t \in Tasks, Settle(t)
  PROVE  PhaseInv'
<1>i. TypeOK /\ CoInv /\ RowInv /\ PlaceInv
  BY DEF PhaseInv
<1>u. /\ main = "gather" /\ co[t] = "running" /\ th[t] \in {"returned", "raised", "unclosed"}
      /\ UNCHANGED <<main, layer, turn, due, total, spent, billed, row, rowCost, event,
                     open, status, recorded>>
  BY DEF Settle, Settled, money, ledger
<1>h. /\ co \in [Tasks -> {"none", "waiting", "running", "done", "failed", "cancelled"}]
      /\ th \in [Tasks -> {"none", "start", "call", "charge", "record", "finish", "error",
                           "returned", "raised", "unclosed"}]
  BY <1>i DEF TypeOK
<1>e. /\ th[t] = "returned" => Result(t) = "done"
      /\ th[t] = "raised" => Result(t) = "failed" /\ row[t] # "running"
      /\ th[t] = "unclosed" => Result(t) = "failed"
  BY <1>i, <1>u DEF Result, RowInv
<1>a. CASE Waiting = {}
  <2>1. co' = [co EXCEPT ![t] = Result(t)] /\ th' = th
    BY <1>a DEF Settle
  <2>d. Done \subseteq Done'
    BY <1>u, <1>h, <2>1 DEF Done
  <2>l. Live' = Live
    BY <2>1 DEF Live
  <2>2. TypeOK'
    BY <1>i, <1>u, <1>h, <1>e, <2>1 DEF TypeOK
  <2>3. CoInv'
    BY <1>i, <1>u, <1>h, <1>e, <2>1, <2>d DEF CoInv
  <2>4. RowInv'
    BY <1>i, <1>u, <2>1 DEF RowInv
  <2>5. PlaceInv'
    <3>1. Placed' \subseteq Placed
      BY <1>u, <1>h, <1>e, <2>1, <2>l DEF Placed
    <3>2. IsFiniteSet(Placed') /\ Cardinality(Placed') <= MaxConcurrency
      BY <1>i, <3>1, FS_Subset, FS_CardinalityType, FanOutAssumption DEF PlaceInv
    <3>3. \A u \in Live' : co'[u] = "running"
      BY <1>i, <1>u, <1>h, <2>1, <2>l DEF PlaceInv, Live
    <3>4. QED
      BY <3>2, <3>3 DEF PlaceInv
  <2>6. QED
    BY <2>2, <2>3, <2>4, <2>5 DEF PhaseInv
<1>b. CASE Waiting # {}
  <2>w. PICK w \in Waiting : /\ co' = [co EXCEPT ![t] = Result(t), ![w] = "running"]
                             /\ th' = [th EXCEPT ![w] = "start"]
    BY <1>b DEF Settle
  <2>1. w \in Tasks /\ w # t /\ co[w] = "waiting" /\ th[w] = "none" /\ row[w] = "none"
    BY <1>i, <1>u DEF Waiting, CoInv, RowInv
  <2>c. /\ co'[t] = Result(t) /\ co'[w] = "running" /\ th'[w] = "start"
        /\ \A u \in Tasks \ {t, w} : co'[u] = co[u]
        /\ \A u \in Tasks \ {w} : th'[u] = th[u]
    BY <1>h, <2>w, <2>1
  <2>d. Done \subseteq Done'
    BY <1>u, <2>1, <2>c DEF Done
  <2>2. TypeOK'
    <3>1. /\ co' \in [Tasks -> {"none", "waiting", "running", "done", "failed", "cancelled"}]
          /\ th' \in [Tasks -> {"none", "start", "call", "charge", "record", "finish", "error",
                                "returned", "raised", "unclosed"}]
      BY <1>u, <1>h, <1>e, <2>w, <2>1
    <3>2. QED
      BY <1>i, <1>u, <3>1 DEF TypeOK
  <2>3. CoInv'
    BY <1>i, <1>u, <1>e, <2>1, <2>c, <2>d DEF CoInv
  <2>4. RowInv'
    BY <1>i, <1>u, <2>1, <2>c DEF RowInv
  <2>5. PlaceInv'
    <3>1. Placed' = (Placed \ {t}) \cup {w} /\ t \in Placed /\ w \notin Placed
      BY <1>u, <1>e, <2>1, <2>c DEF Placed, Live
    <3>2. IsFiniteSet(Placed \ {t}) /\ Cardinality(Placed \ {t}) = Cardinality(Placed) - 1
      BY <1>i, <3>1, FS_RemoveElement DEF PlaceInv
    <3>3. IsFiniteSet(Placed') /\ Cardinality(Placed') = Cardinality(Placed \ {t}) + 1
      BY <3>1, <3>2, FS_AddElement
    <3>4. Cardinality(Placed') <= MaxConcurrency
      BY <1>i, <3>2, <3>3, FS_CardinalityType, FanOutAssumption DEF PlaceInv
    <3>5. \A u \in Live' : co'[u] = "running"
      BY <1>i, <1>u, <2>1, <2>c DEF PlaceInv, Live
    <3>6. QED
      BY <3>3, <3>4, <3>5 DEF PlaceInv
  <2>6. QED
    BY <2>2, <2>3, <2>4, <2>5 DEF PhaseInv
<1>q. QED
  BY <1>a, <1>b

(* Cancelling coroutines moves no thread, and frees no place of a thread.  *)
LEMMA CancelKeeps ==
  ASSUME PhaseInv, CancelWaiters, Interrupt \/ CancelAll
  PROVE  PhaseInv'
<1>i. TypeOK /\ CoInv /\ RowInv /\ PlaceInv
  BY DEF PhaseInv
<1>u. /\ main' \in {"finalized", "cancelled"} /\ main \in {"gather", "closed"}
      /\ (~open => main' = "cancelled")
      /\ UNCHANGED <<layer, th, turn, due, total, spent, billed, row, rowCost, event,
                     open, status, recorded>>
  BY <1>i DEF Interrupt, CancelAll, Go, money, ledger, RowInv
<1>c. co' = [t \in Tasks |-> IF co[t] \in {"waiting", "running"} THEN "cancelled" ELSE co[t]]
  BY DEF CancelWaiters
<1>d. Done' = Done
  BY <1>c DEF Done
<1>1. TypeOK'
  <2>1. co' \in [Tasks -> {"none", "waiting", "running", "done", "failed", "cancelled"}]
    BY <1>i, <1>c DEF TypeOK
  <2>2. QED
    BY <1>i, <1>u, <2>1 DEF TypeOK
<1>2. CoInv'
  BY <1>i, <1>u, <1>c, <1>d DEF CoInv
<1>3. RowInv'
  BY <1>i, <1>u DEF RowInv
<1>4. PlaceInv'
  <2>1. Placed' \subseteq Placed
    BY <1>u, <1>c DEF Placed, Live
  <2>2. IsFiniteSet(Placed') /\ Cardinality(Placed') <= MaxConcurrency
    BY <1>i, <2>1, FS_Subset, FS_CardinalityType, FanOutAssumption DEF PlaceInv
  <2>3. QED
    BY <1>u, <2>2 DEF PlaceInv
<1>5. QED
  BY <1>1, <1>2, <1>3, <1>4 DEF PhaseInv

(* The other steps of the main coroutine touch neither threads nor rows.   *)
LEMMA TeardownKeeps ==
  ASSUME PhaseInv,
         \/ Complete \/ GatherRaises \/ FinalizeRun \/ FinalizeCrashed
         \/ RecordSpend \/ CloseLedger \/ Exit
  PROVE  PhaseInv'
<1>i. TypeOK /\ CoInv /\ RowInv /\ PlaceInv
  BY DEF PhaseInv
<1>u. UNCHANGED <<layer, co, th, turn, due, total, spent, billed, row, rowCost, event>>
  BY DEF Complete, GatherRaises, FinalizeRun, FinalizeCrashed, RecordSpend, CloseLedger,
         Exit, money, ledger
<1>m. /\ main' \in {"completed", "raised", "finalized", "recorded", "closed", "exited"}
      /\ main' = "exited" => main = "cancelled" /\ Live = {}
      /\ status' \in {status, "ended", "crashed"} /\ recorded' \in {recorded, spent}
      /\ open' \in BOOLEAN /\ (~open' => main' \in {"closed", "exited"})
      /\ (open' => open)
  <2>1. open \in BOOLEAN /\ (~open => main \in {"closed", "cancelled", "exited"})
    BY <1>i DEF TypeOK, RowInv
  <2>2. CASE Complete
    BY <2>1, <2>2 DEF Complete, Go
  <2>3. CASE GatherRaises
    BY <2>1, <2>3 DEF GatherRaises, Go
  <2>4. CASE FinalizeRun
    BY <2>1, <2>4 DEF FinalizeRun, Go
  <2>5. CASE FinalizeCrashed
    BY <2>1, <2>5 DEF FinalizeCrashed, Go
  <2>6. CASE RecordSpend
    BY <2>1, <2>6 DEF RecordSpend, Go
  <2>7. CASE CloseLedger
    BY <2>1, <2>7 DEF CloseLedger, Go
  <2>8. CASE Exit
    BY <2>1, <2>8 DEF Exit, Go
  <2>9. QED
    BY <2>2, <2>3, <2>4, <2>5, <2>6, <2>7, <2>8
<1>d. Done' = Done /\ Live' = Live /\ Placed' = Placed
  BY <1>u DEF Done, Live, Placed
<1>1. TypeOK'
  BY <1>i, <1>u, <1>m DEF TypeOK
<1>2. CoInv'
  BY <1>i, <1>u, <1>m, <1>d DEF CoInv
<1>3. RowInv'
  BY <1>i, <1>u, <1>m DEF RowInv
<1>4. PlaceInv'
  BY <1>i, <1>m, <1>d DEF PlaceInv
<1>5. QED
  BY <1>1, <1>2, <1>3, <1>4 DEF PhaseInv

(* The phase invariant is inductive.                                       *)
LEMMA PhaseStep == PhaseInv /\ [Next]_vars => PhaseInv'
<1> SUFFICES ASSUME PhaseInv, [Next]_vars
             PROVE  PhaseInv'
  OBVIOUS
<1>1. CASE NextLayer
  BY <1>1, NextLayerKeeps
<1>2. CASE \E t \in Tasks : Settle(t)
  BY <1>2, SettleKeeps
<1>3. CASE Complete \/ GatherRaises \/ FinalizeRun \/ FinalizeCrashed \/ RecordSpend
           \/ CloseLedger \/ Exit
  BY <1>3, TeardownKeeps
<1>4. CASE CancelAll
  BY <1>4, CancelKeeps DEF CancelAll
<1>5. CASE Interrupt
  BY <1>5, CancelKeeps DEF Interrupt
<1>6. CASE \E t \in Tasks : Worker(t)
  BY <1>6, WorkerKeeps
<1>7. CASE UNCHANGED vars
  <2>1. UNCHANGED <<Done, Live, Placed>>
    BY <1>7 DEF vars, Done, Live, Placed
  <2>2. TypeOK'
    BY <1>7 DEF PhaseInv, vars, TypeOK
  <2>3. CoInv'
    BY <1>7, <2>1 DEF PhaseInv, vars, CoInv
  <2>4. RowInv'
    BY <1>7 DEF PhaseInv, vars, RowInv
  <2>5. PlaceInv'
    BY <1>7, <2>1 DEF PhaseInv, vars, PlaceInv
  <2>6. QED
    BY <2>2, <2>3, <2>4, <2>5 DEF PhaseInv
<1>8. QED
  BY <1>1, <1>2, <1>3, <1>4, <1>5, <1>6, <1>7 DEF Next, Main

-----------------------------------------------------------------------------
(* Money.                                                                  *)

(* Without turns no subtask has anything that was billed and not granted.  *)
LEMMA NoSlack ==
  ASSUME NEW c \in Nat, NEW t \in Tasks, turn[t] = 0, th[t] = "none"
  PROVE  Slack(c)[t] = 0
<1>1. Repeats \in Nat
  BY FanOutAssumption DEF Repeats
<1>2. c * Repeats * 0 = 0
  BY <1>1
<1>3. QED
  BY <1>2 DEF Slack, Ended

(* The initial accounts are empty.                                         *)
LEMMA MoneyStarts == Init => AccountInv /\ CreditInv
<1> SUFFICES ASSUME Init
             PROVE  AccountInv /\ CreditInv
  OBVIOUS
<1>f. IsFiniteSet(Tasks) /\ Costs \subseteq Nat /\ Ceiling \in Nat
  BY FanOutAssumption
<1>1. SumFunctionOnSet(total, Tasks) = 0
  BY <1>f, SumZero DEF Init
<1>2. ASSUME NEW c \in Costs
      PROVE  SumFunctionOnSet(Slack(c), Tasks) = 0
  <2>1. \A t \in Tasks : Slack(c)[t] = 0
    BY <1>f, NoSlack DEF Init
  <2>2. QED
    BY <2>1, <1>f, SumZero
<1>3. AccountInv
  BY <1>1 DEF Init, AccountInv
<1>4. CreditInv
  BY <1>2, <1>f DEF Init, CreditInv
<1>5. QED
  BY <1>3, <1>4

(* What is summed up are natural numbers, and so are the sums.             *)
LEMMA MoneyTypes ==
  ASSUME TypeOK, NEW c \in Nat
  PROVE  /\ \A t \in Tasks : total[t] \in Nat /\ Slack(c)[t] \in Nat
         /\ \A t \in Tasks : c * Repeats * turn[t] \in Nat
         /\ SumFunctionOnSet(total, Tasks) \in Nat
         /\ SumFunctionOnSet(Slack(c), Tasks) \in Nat
<1>1. Repeats \in Nat /\ c * Repeats \in Nat
  BY FanOutAssumption DEF Repeats
<1>2. ASSUME NEW t \in Tasks
      PROVE  total[t] \in Nat /\ due[t] \in Nat /\ c * Repeats * turn[t] \in Nat
  BY <1>1 DEF TypeOK
<1>3. ASSUME NEW t \in Tasks
      PROVE  Slack(c)[t] \in Nat
  BY <1>2 DEF Slack
<1>4. QED
  BY <1>2, <1>3, SumNat, FanOutAssumption

(* When one thread moves, each sum changes by what it does.                *)
LEMMA OneThread ==
  ASSUME TypeOK, TypeOK', NEW t \in Tasks, NEW c \in Nat,
         \A u \in Tasks \ {t} : /\ th'[u] = th[u] /\ turn'[u] = turn[u]
                                /\ due'[u] = due[u] /\ total'[u] = total[u]
  PROVE  /\ SumFunctionOnSet(total', Tasks)
              = SumFunctionOnSet(total, Tasks) - total[t] + total'[t]
         /\ Slack(c)'[t] \in Nat
         /\ SumFunctionOnSet(Slack(c)', Tasks)
              = SumFunctionOnSet(Slack(c), Tasks) - Slack(c)[t] + Slack(c)'[t]
<1> DEFINE total_1 == total'
           slack_1 == Slack(c)'
<1>1. \A u \in Tasks : total[u] \in Nat /\ Slack(c)[u] \in Nat
  BY MoneyTypes
<1>2. \A u \in Tasks : total_1[u] \in Nat /\ slack_1[u] \in Nat
  <2>1. Repeats \in Nat /\ c * Repeats \in Nat
    BY FanOutAssumption DEF Repeats
  <2>2. ASSUME NEW u \in Tasks
        PROVE  total'[u] \in Nat /\ due'[u] \in Nat /\ c * Repeats * turn'[u] \in Nat
    BY <2>1 DEF TypeOK
  <2>3. QED
    BY <2>2 DEF Slack
<1>3. \A u \in Tasks \ {t} : total_1[u] = total[u] /\ slack_1[u] = Slack(c)[u]
  BY DEF Slack
<1>f. IsFiniteSet(Tasks)
  BY FanOutAssumption
<1> HIDE DEF total_1, slack_1
<1>4. SumFunctionOnSet(total_1, Tasks) = SumFunctionOnSet(total, Tasks) - total[t] + total_1[t]
  <2>1. \A u \in Tasks : total[u] \in Nat /\ total_1[u] \in Nat
    BY <1>1, <1>2
  <2>2. \A u \in Tasks \ {t} : total_1[u] = total[u]
    BY <1>3
  <2>3. QED
    BY <1>f, <2>1, <2>2, SumChange
<1>5. SumFunctionOnSet(slack_1, Tasks)
        = SumFunctionOnSet(Slack(c), Tasks) - Slack(c)[t] + slack_1[t]
  <2>1. \A u \in Tasks : Slack(c)[u] \in Nat /\ slack_1[u] \in Nat
    BY <1>1, <1>2
  <2>2. \A u \in Tasks \ {t} : slack_1[u] = Slack(c)[u]
    BY <1>3
  <2>3. QED
    BY <1>f, <2>1, <2>2, SumChange
<1>6. QED
  BY <1>2, <1>4, <1>5 DEF total_1, slack_1

(* What a step of a worker leaves alone of the others' money.              *)
LEMMA MoneyFrame ==
  ASSUME TypeOK, NEW t \in Tasks, Worker(t)
  PROVE  \A u \in Tasks \ {t} : turn'[u] = turn[u] /\ due'[u] = due[u] /\ total'[u] = total[u]
<1>t. turn \in [Tasks -> Nat] /\ due \in [Tasks -> Nat] /\ total \in [Tasks -> Nat]
  BY DEF TypeOK
<1>1. CASE Call(t)
  BY <1>1, <1>t DEF Call
<1>2. CASE Charge(t)
  BY <1>2, <1>t DEF Charge
<1>3. CASE Start(t) \/ Refuse(t) \/ Record(t) \/ Finish(t) \/ Fail(t)
  BY <1>3 DEF Start, Refuse, Record, Finish, Fail, money
<1>4. QED
  BY <1>1, <1>2, <1>3 DEF Worker

(* The accounts follow every step of a worker.                             *)
LEMMA AccountsFollow ==
  ASSUME PhaseInv, PhaseInv', AccountInv, NEW t \in Tasks, Worker(t)
  PROVE  AccountInv'
<1>i. TypeOK /\ TypeOK' /\ CoInv /\ RowInv
  BY DEF PhaseInv
<1>t. /\ th \in [Tasks -> {"none", "start", "call", "charge", "record", "finish", "error",
                           "returned", "raised", "unclosed"}]
      /\ total \in [Tasks -> Nat] /\ due \in [Tasks -> Nat] /\ spent \in Nat
      /\ row \in [Tasks -> {"none", "running", "ok", "error"}] /\ rowCost \in [Tasks -> Nat]
      /\ event \in [Tasks -> Nat]
  BY <1>i DEF TypeOK
<1>f. /\ t \in Live /\ \A u \in Tasks \ {t} : th'[u] = th[u] /\ row'[u] = row[u]
      /\ UNCHANGED <<main, co, status, open>>
  BY <1>i, <1>t, WorkerFrame
<1>m. \A u \in Tasks \ {t} : /\ turn'[u] = turn[u] /\ due'[u] = due[u] /\ total'[u] = total[u]
  BY <1>i, MoneyFrame
<1>s. SumFunctionOnSet(total', Tasks) = SumFunctionOnSet(total, Tasks) - total[t] + total'[t]
  BY <1>i, <1>f, <1>m, OneThread
<1>n. SumFunctionOnSet(total, Tasks) \in Nat
  BY <1>i, MoneyTypes
(* A phase that has completed has no worker left to make a step.           *)
<1>e. main # "completed" /\ status # "ended"
  <2>1. co[t] # "done"
    BY <1>i, <1>f DEF CoInv, Live
  <2>2. Done # Tasks
    BY <2>1 DEF Done
  <2>3. QED
    BY <2>2 DEF AccountInv
<1>1. spent' = SumFunctionOnSet(total', Tasks)
  <2>1. CASE Charge(t)
    <3>1. spent' = spent + due[t] /\ total'[t] = total[t] + due[t]
      BY <2>1, <1>t DEF Charge
    <3>2. QED
      BY <3>1, <1>t, <1>s, <1>n DEF AccountInv
  <2>2. CASE Start(t) \/ Call(t) \/ Refuse(t) \/ Record(t) \/ Finish(t) \/ Fail(t)
    <3>1. UNCHANGED <<spent, total>>
      BY <2>2 DEF Start, Call, Refuse, Record, Finish, Fail, money
    <3>2. QED
      BY <3>1 DEF AccountInv
  <2>3. QED
    BY <2>1, <2>2 DEF Worker
<1>2. \A u \in Tasks : row'[u] \in {"ok", "error"} => rowCost'[u] = total'[u]
  <2>0. \A u \in Tasks : row[u] \in {"ok", "error"} => rowCost[u] = total[u]
    BY DEF AccountInv
  <2>1. CASE Start(t)
    BY <2>0, <2>1, <1>t DEF Start, money
  <2>2. CASE Call(t) \/ Refuse(t) \/ Record(t)
    BY <2>0, <2>2 DEF Call, Refuse, Record, money, ledger
  <2>3. CASE Charge(t)
    <3>1. row[t] = "running" /\ UNCHANGED <<row, rowCost>>
      BY <2>3, <1>i DEF Charge, Step, RowInv, ledger
    <3>2. QED
      BY <2>0, <3>1, <1>m
  <2>4. CASE Finish(t) \/ Fail(t)
    <3>1. /\ UNCHANGED total
          /\ \/ UNCHANGED <<row, rowCost>>
             \/ /\ rowCost' = [rowCost EXCEPT ![t] = total[t]]
                /\ \A u \in Tasks \ {t} : row'[u] = row[u]
      BY <2>4, <1>f DEF Finish, Fail, Close, money
    <3>2. QED
      BY <2>0, <3>1, <1>t
  <2>5. QED
    BY <2>1, <2>2, <2>3, <2>4 DEF Worker
<1>3. \A u \in Tasks : th'[u] \in {"finish", "returned"} => event'[u] = total'[u]
  <2>0. \A u \in Tasks : th[u] \in {"finish", "returned"} => event[u] = total[u]
    BY DEF AccountInv
  <2>1. CASE Start(t) \/ Call(t) \/ Refuse(t) \/ Charge(t) \/ Fail(t)
    <3>1. th'[t] \notin {"finish", "returned"} /\ UNCHANGED event
      BY <2>1, <1>t DEF Start, Call, Refuse, Charge, Fail, Step, TurnOrError, ledger
    <3>2. QED
      BY <2>0, <3>1, <1>f, <1>m
  <2>2. CASE Record(t)
    <3>1. /\ UNCHANGED total
          /\ \/ event' = [event EXCEPT ![t] = total[t]]
             \/ th'[t] = "error" /\ UNCHANGED event
      BY <2>2, <1>t DEF Record, Step, money
    <3>2. QED
      BY <2>0, <3>1, <1>f, <1>t
  <2>3. CASE Finish(t)
    <3>1. th[t] = "finish" /\ UNCHANGED <<event, total>>
      BY <2>3 DEF Finish, Step, money
    <3>2. QED
      BY <2>0, <3>1, <1>f
  <2>4. QED
    BY <2>1, <2>2, <2>3 DEF Worker
<1>4. QED
  BY <1>1, <1>2, <1>3, <1>e, <1>f DEF AccountInv

(* So does the bound on what is billed and not granted: a call adds to     *)
(* both sides, a grant moves a response from one term to the other.        *)
LEMMA CreditFollows ==
  ASSUME PhaseInv, PhaseInv', CreditInv, NEW t \in Tasks, Worker(t)
  PROVE  CreditInv'
<1>i. TypeOK /\ TypeOK'
  BY DEF PhaseInv
<1>t. /\ th \in [Tasks -> {"none", "start", "call", "charge", "record", "finish", "error",
                           "returned", "raised", "unclosed"}]
      /\ turn \in [Tasks -> Nat] /\ due \in [Tasks -> Nat]
      /\ spent \in Nat /\ billed \in Nat /\ Costs \subseteq Nat /\ Repeats \in Nat
  BY <1>i, FanOutAssumption DEF TypeOK, Repeats
<1>f. /\ \A u \in Tasks \ {t} : th'[u] = th[u]
      /\ \A u \in Tasks \ {t} : turn'[u] = turn[u] /\ due'[u] = due[u] /\ total'[u] = total[u]
  BY <1>i, <1>t, WorkerFrame, MoneyFrame
<1>p. spent <= Ceiling /\ \A u \in Tasks : due[u] \in Costs \cup {0}
  BY DEF CreditInv
<1>1. \A u \in Tasks : due'[u] \in Costs \cup {0}
  <2>1. CASE Call(t)
    BY <2>1, <1>i, <1>t, <1>p, CallBills
  <2>2. CASE Start(t) \/ Charge(t) \/ Refuse(t) \/ Record(t) \/ Finish(t) \/ Fail(t)
    BY <2>2, <1>p DEF Start, Charge, Refuse, Record, Finish, Fail, money
  <2>3. QED
    BY <2>1, <2>2 DEF Worker
<1>2. spent' <= Ceiling
  <2>1. CASE Charge(t)
    BY <2>1 DEF Charge, Fits
  <2>2. CASE Start(t) \/ Call(t) \/ Refuse(t) \/ Record(t) \/ Finish(t) \/ Fail(t)
    BY <2>2, <1>p DEF Start, Call, Refuse, Record, Finish, Fail, money
  <2>3. QED
    BY <2>1, <2>2 DEF Worker
<1>3. ASSUME NEW c \in Costs, Dearest(c)
      PROVE  billed' <= spent' + SumFunctionOnSet(Slack(c)', Tasks)
  <2> DEFINE repeats == c * Repeats
             held == IF th[t] = "charge" THEN due[t] ELSE IF th[t] \in Ended THEN c ELSE 0
             held_1 == IF th'[t] = "charge" THEN due'[t] ELSE IF th'[t] \in Ended THEN c ELSE 0
  <2>n. /\ c \in Nat /\ repeats \in Nat
        /\ SumFunctionOnSet(Slack(c), Tasks) \in Nat /\ Slack(c)[t] \in Nat
        /\ repeats * turn[t] \in Nat
    BY <1>i, <1>t, MoneyTypes
  <2>d. due[t] <= c /\ due[t] \in Nat
    BY <1>3, <1>p, <1>t, <2>n DEF Dearest
  <2>s. /\ SumFunctionOnSet(Slack(c)', Tasks)
             = SumFunctionOnSet(Slack(c), Tasks) - Slack(c)[t] + Slack(c)'[t]
        /\ Slack(c)'[t] \in Nat
    BY <1>i, <1>f, <2>n, OneThread
  <2>b. billed <= spent + SumFunctionOnSet(Slack(c), Tasks)
    BY <1>3 DEF CreditInv
  <2>h. Slack(c)[t] = repeats * turn[t] + held /\ Slack(c)'[t] = repeats * turn'[t] + held_1
    BY DEF Slack
  <2>g. held \in Nat
    BY <2>n, <2>d
  <2> HIDE DEF repeats, held, held_1
  <2>1. CASE Call(t)
    <3>1. /\ th[t] = "call" /\ turn'[t] = turn[t] + 1 /\ spent' = spent
      BY <2>1, <1>t DEF Call, Step
    <3>2. repeats * (turn[t] + 1) = repeats * turn[t] + repeats
      BY <2>n, <1>t
    <3>3. held = 0
      BY <3>1 DEF held, Ended
    <3>4. CASE /\ th'[t] = "charge"
               /\ \E a \in Costs, b \in Nat :
                    /\ due' = [due EXCEPT ![t] = a] /\ billed' = billed + a + b
                    /\ \A e \in Costs : Dearest(e) => b <= e * Repeats
      <4>1. PICK a \in Costs, b \in Nat :
                    /\ due' = [due EXCEPT ![t] = a] /\ billed' = billed + a + b
                    /\ \A e \in Costs : Dearest(e) => b <= e * Repeats
        BY <3>4
      <4>2. held_1 = a /\ a \in Nat /\ b <= repeats
        BY <1>3, <3>4, <4>1, <1>t DEF held_1, repeats
      <4>3. Slack(c)'[t] = repeats * turn[t] + repeats + a
        BY <2>h, <3>1, <3>2, <4>2
      <4>4. QED
        BY <2>b, <2>s, <2>h, <2>n, <3>1, <3>3, <4>1, <4>2, <4>3, <1>t
    <3>5. CASE /\ th'[t] = "error"
               /\ \E b \in Nat : /\ billed' = billed + b
                                 /\ \A e \in Costs : Dearest(e) => b <= e * Repeats + e
      <4>1. PICK b \in Nat : /\ billed' = billed + b
                             /\ \A e \in Costs : Dearest(e) => b <= e * Repeats + e
        BY <3>5
      <4>2. held_1 = c /\ b <= repeats + c
        BY <1>3, <3>5, <4>1 DEF held_1, Ended, repeats
      <4>3. Slack(c)'[t] = repeats * turn[t] + repeats + c
        BY <2>h, <3>1, <3>2, <4>2
      <4>4. QED
        BY <2>b, <2>s, <2>h, <2>n, <3>1, <3>3, <4>1, <4>2, <4>3, <1>t
    <3>6. QED
      BY <2>1, <3>4, <3>5, <1>i, CallBills
  <2>2. CASE Charge(t)
    <3>1. /\ th[t] = "charge" /\ spent' = spent + due[t]
          /\ UNCHANGED <<turn, due, billed>>
      BY <2>2 DEF Charge, Step
    <3>2. held = due[t]
      BY <3>1 DEF held
    <3>3. held_1 \in Nat
      BY <2>n, <2>d, <3>1 DEF held_1
    <3>4. Slack(c)'[t] = repeats * turn[t] + held_1 /\ Slack(c)[t] = repeats * turn[t] + due[t]
      BY <2>h, <3>1, <3>2
    <3>5. QED
      BY <2>b, <2>s, <2>n, <2>d, <3>1, <3>3, <3>4, <1>t
  <2>3. CASE Start(t) \/ Refuse(t) \/ Record(t) \/ Finish(t) \/ Fail(t)
    <3>1. UNCHANGED <<turn, due, spent, billed>>
      BY <2>3 DEF Start, Refuse, Record, Finish, Fail, money
    <3>2. /\ th[t] \in {"charge", "error"} => th'[t] \in Ended
          /\ th[t] \in {"start", "charge", "record", "finish", "error"}
      BY <2>3, <1>t DEF Start, Refuse, Record, Finish, Fail, Step, Ended
    <3>3. held <= held_1 /\ held_1 \in Nat
      <4>1. held_1 \in Nat
        BY <2>n, <2>d, <3>1 DEF held_1
      <4>2. CASE th[t] \in {"charge", "error"}
        <5>1. held_1 = c
          BY <3>2, <4>2 DEF held_1, Ended
        <5>2. QED
          BY <4>1, <5>1, <2>d, <2>n DEF held
      <4>3. CASE th[t] \notin {"charge", "error"}
        <5>1. held = 0
          BY <3>2, <4>3 DEF held, Ended
        <5>2. QED
          BY <4>1, <5>1
      <4>4. QED
        BY <4>2, <4>3
    <3>4. Slack(c)'[t] = repeats * turn[t] + held_1
      BY <2>h, <3>1
    <3>5. QED
      BY <2>b, <2>s, <2>h, <2>n, <2>g, <3>1, <3>3, <3>4, <1>t
  <2>4. QED
    BY <2>1, <2>2, <2>3 DEF Worker
<1>4. QED
  BY <1>1, <1>2, <1>3 DEF CreditInv, Dearest

(* The main coroutine starts threads and moves no money.                   *)
LEMMA QuietMoney ==
  ASSUME NEW c,
         \A u \in Tasks : th'[u] = th[u] \/ (th[u] = "none" /\ th'[u] = "start"),
         UNCHANGED <<turn, due>>
  PROVE  Slack(c)' = Slack(c)
BY DEF Slack, Ended

(* The main coroutine moves no money, but it decides when the ledger       *)
(* closes and when the run has ended.                                      *)
LEMMA MainMoney ==
  ASSUME PhaseInv, AccountInv, CreditInv, Main \/ Interrupt \/ UNCHANGED vars
  PROVE  AccountInv' /\ CreditInv'
<1>i. TypeOK /\ CoInv /\ RowInv
  BY DEF PhaseInv
<1>h. /\ th \in [Tasks -> {"none", "start", "call", "charge", "record", "finish", "error",
                           "returned", "raised", "unclosed"}]
      /\ co \in [Tasks -> {"none", "waiting", "running", "done", "failed", "cancelled"}]
  BY <1>i DEF TypeOK
<1>a. UNCHANGED <<turn, due, total, spent, billed, row, rowCost, event>>
  BY DEF Main, NextLayer, Settle, Complete, GatherRaises, FinalizeRun, FinalizeCrashed,
         RecordSpend, CloseLedger, CancelAll, Exit, Interrupt, money, ledger, vars
<1>b. \A u \in Tasks : th'[u] = th[u] \/ (th[u] = "none" /\ th'[u] = "start")
  <2>1. CASE NextLayer
    <3>1. PICK S \in SUBSET Ready : th' = [t \in Tasks |-> IF t \in S THEN "start" ELSE th[t]]
      BY <2>1 DEF NextLayer
    <3>2. \A u \in Ready : th[u] = "none"
      <4>1. main = "gather" /\ layer \subseteq Done
        BY <2>1 DEF NextLayer
      <4>2. QED
        BY <1>i, <1>h, <4>1 DEF CoInv, Ready, Done
    <3>3. QED
      BY <3>1, <3>2
  <2>2. CASE \E t \in Tasks : Settle(t)
    <3>1. CASE UNCHANGED th
      BY <3>1
    <3>2. CASE \E w \in Waiting : th' = [th EXCEPT ![w] = "start"]
      BY <3>2, <1>i, <1>h DEF Waiting, CoInv
    <3>3. QED
      BY <2>2, <3>1, <3>2 DEF Settle
  <2>3. CASE \/ Complete \/ GatherRaises \/ FinalizeRun \/ FinalizeCrashed \/ RecordSpend
             \/ CloseLedger \/ CancelAll \/ Exit \/ Interrupt \/ UNCHANGED vars
    BY <2>3 DEF Complete, GatherRaises, FinalizeRun, FinalizeCrashed, RecordSpend,
                CloseLedger, CancelAll, Exit, Interrupt, vars
  <2>4. QED
    BY <2>1, <2>2, <2>3 DEF Main
<1>c. \A c \in Costs : Slack(c)' = Slack(c)
  BY <1>a, <1>b, QuietMoney
<1>e. \A t \in Tasks : th'[t] \in {"finish", "returned"} => event'[t] = total'[t]
  BY <1>a, <1>b DEF AccountInv
<1>1. CreditInv'
  <2>1. ASSUME NEW c \in Costs, Dearest(c)
        PROVE  billed' <= spent' + SumFunctionOnSet(Slack(c)', Tasks)
    <3>1. billed <= spent + SumFunctionOnSet(Slack(c), Tasks)
      BY <2>1 DEF CreditInv
    <3>2. Slack(c)' = Slack(c)
      BY <1>c
    <3>3. QED
      BY <3>1, <3>2, <1>a
  <2>2. QED
    BY <2>1, <1>a DEF CreditInv, Dearest
<1>2. AccountInv'
  <2>1. CASE NextLayer \/ \E t \in Tasks : Settle(t)
    <3>1. main = "gather" /\ Done # Tasks /\ UNCHANGED <<main, status>>
      <4>1. CASE NextLayer
        BY <4>1 DEF NextLayer
      <4>2. CASE \E t \in Tasks : Settle(t)
        BY <4>2 DEF Settle, Settled, Done
      <4>3. QED
        BY <2>1, <4>1, <4>2
    <3>2. QED
      BY <3>1, <1>a, <1>e DEF AccountInv
  <2>2. CASE Complete
    <3>1. main' = "completed" /\ Done = Tasks /\ UNCHANGED <<co, status>>
      BY <2>2 DEF Complete, Go
    <3>2. Done' = Done
      BY <3>1 DEF Done
    <3>3. QED
      BY <3>1, <3>2, <1>a, <1>e DEF AccountInv
  <2>3. CASE FinalizeRun
    <3>1. main = "completed" /\ main' = "finalized" /\ UNCHANGED co
      BY <2>3 DEF FinalizeRun, Go
    <3>2. Done' = Done /\ Done = Tasks
      BY <3>1 DEF Done, AccountInv
    <3>3. QED
      BY <3>1, <3>2, <1>a, <1>e DEF AccountInv
  <2>4. CASE \/ GatherRaises \/ FinalizeCrashed \/ RecordSpend \/ CloseLedger \/ CancelAll
             \/ Exit \/ Interrupt
    <3>1. main' # "completed" /\ status' \in {status, "crashed"}
      BY <2>4 DEF GatherRaises, FinalizeCrashed, RecordSpend, CloseLedger, CancelAll, Exit,
                  Interrupt, Go
    <3>2. Done' = Done
      BY <2>4 DEF GatherRaises, FinalizeCrashed, RecordSpend, CloseLedger, CancelAll, Exit,
                  Interrupt, CancelWaiters, Done
    <3>3. QED
      BY <3>1, <3>2, <1>a, <1>e DEF AccountInv
  <2>5. CASE UNCHANGED vars
    <3>1. Done' = Done /\ UNCHANGED <<main, status>>
      BY <2>5 DEF Done, vars
    <3>2. QED
      BY <3>1, <1>a, <1>e DEF AccountInv
  <2>6. QED
    BY <2>1, <2>2, <2>3, <2>4, <2>5 DEF Main
<1>3. QED
  BY <1>1, <1>2

(* The whole invariant is inductive.                                       *)
LEMMA StepPreserves == IInv /\ [Next]_vars => IInv'
<1> SUFFICES ASSUME IInv, [Next]_vars
             PROVE  IInv'
  OBVIOUS
<1>1. PhaseInv /\ PhaseInv' /\ AccountInv /\ CreditInv
  BY PhaseStep DEF IInv
<1>2. CASE \E t \in Tasks : Worker(t)
  BY <1>1, <1>2, AccountsFollow, CreditFollows DEF IInv
<1>3. CASE Main \/ Interrupt \/ UNCHANGED vars
  BY <1>1, <1>3, MainMoney DEF IInv
<1>4. QED
  BY <1>2, <1>3 DEF Next

-----------------------------------------------------------------------------
(* The inductive invariant of the phase and its teardown.                  *)
THEOREM Invariance == Spec => []IInv
<1>1. Init => IInv
  BY PhaseStarts, MoneyStarts DEF IInv
<1>2. QED
  BY <1>1, StepPreserves, PTL DEF Spec

(* A subtask only starts when the workers of its dependencies returned.    *)
THEOREM OrderTheorem == Spec => []DependencyOrder
<1>1. IInv => DependencyOrder
  BY FanOutAssumption DEF IInv, PhaseInv, TypeOK, CoInv, Done, DependencyOrder
<1>2. QED
  BY <1>1, Invariance, PTL

(* Never more than max_concurrency workers, orphans of a failed or         *)
(* interrupted gather included.                                            *)
THEOREM ConcurrencyTheorem == Spec => []ConcurrencyBound
<1>1. IInv => ConcurrencyBound
  <2> SUFFICES ASSUME IInv
               PROVE  ConcurrencyBound
    OBVIOUS
  <2>1. Live \subseteq Placed
    BY DEF Placed
  <2>2. IsFiniteSet(Placed) /\ Cardinality(Placed) <= MaxConcurrency
    BY DEF IInv, PhaseInv, PlaceInv
  <2>3. QED
    BY <2>1, <2>2, FS_Subset, FS_CardinalityType, FanOutAssumption DEF ConcurrencyBound
<1>2. QED
  BY <1>1, Invariance, PTL

(* No model is called without an open invocation row.                      *)
THEOREM RowTheorem == Spec => []PaidCallsHaveARow
<1>1. IInv => PaidCallsHaveARow
  BY DEF IInv, PhaseInv, RowInv, PaidCallsHaveARow
<1>2. QED
  BY <1>1, Invariance, PTL

(* A row that is left "running" belongs to an abandoned worker, or to one  *)
(* whose closing write was refused.                                        *)
THEOREM OrphanTheorem == Spec => []StuckRowsAreOrphans
<1>1. IInv => StuckRowsAreOrphans
  <2> SUFFICES ASSUME IInv, main = "exited", NEW t \in Tasks, row[t] = "running"
               PROVE  co[t] = "cancelled" \/ th[t] = "unclosed"
    BY DEF StuckRowsAreOrphans
  <2>1. th[t] \notin {"start", "call", "charge", "record", "finish", "error"}
    BY DEF IInv, PhaseInv, CoInv, Live
  <2>2. th[t] \in {"raised", "unclosed"}
    BY <2>1 DEF IInv, PhaseInv, TypeOK, RowInv
  <2>3. QED
    BY <2>2 DEF IInv, PhaseInv, TypeOK, CoInv
<1>2. QED
  BY <1>1, Invariance, PTL

(* The invocation rows and the totals of workers still running account for *)
(* the spend of the governor; when a phase completes, so do the events.    *)
THEOREM AccountsTheorem == Spec => []AccountsBalance
<1>1. IInv => AccountsBalance
  <2> SUFFICES ASSUME IInv
               PROVE  AccountsBalance
    OBVIOUS
  <2> DEFINE shown == [t \in Tasks |-> IF row[t] \in {"ok", "error"} THEN rowCost[t]
                                       ELSE total[t]]
  <2>1. \A t \in Tasks : total[t] \in Nat /\ shown[t] = total[t]
    BY DEF IInv, PhaseInv, TypeOK, AccountInv
  <2> HIDE DEF shown
  <2>2. SumFunctionOnSet(shown, Tasks) = SumFunctionOnSet(total, Tasks)
    BY <2>1, SumSame, FanOutAssumption
  <2>3. SumFunctionOnSet(shown, Tasks) = spent
    BY <2>2 DEF IInv, AccountInv
  <2>4. ASSUME status = "ended"
        PROVE  SumFunctionOnSet(event, Tasks) = spent
    <3>1. \A t \in Tasks : th[t] = "returned"
      BY <2>4 DEF IInv, PhaseInv, CoInv, AccountInv, Done
    <3>2. \A t \in Tasks : event[t] = total[t]
      BY <3>1 DEF IInv, AccountInv
    <3>3. SumFunctionOnSet(event, Tasks) = SumFunctionOnSet(total, Tasks)
      BY <2>1, <3>2, SumSame, FanOutAssumption
    <3>4. QED
      BY <3>3 DEF IInv, AccountInv
  <2>5. QED
    BY <2>3, <2>4 DEF shown, AccountsBalance
<1>2. QED
  BY <1>1, Invariance, PTL

(* The provider bills beyond the ceiling at most the client's repetitions  *)
(* and one response for each subtask of the layer in progress.             *)
THEOREM OverspendTheorem == Spec => []OverspendBounded
<1>1. IInv => OverspendBounded
  <2> SUFFICES ASSUME IInv, NEW c \in Costs, Dearest(c)
               PROVE  billed <= Ceiling + SumFunctionOnSet(Beyond(c), Tasks)
    BY DEF OverspendBounded
  <2>i. TypeOK /\ CoInv /\ CreditInv
    BY DEF IInv, PhaseInv
  <2>1. c \in Nat /\ IsFiniteSet(Tasks) /\ Ceiling \in Nat
    BY FanOutAssumption
  <2>2. ASSUME NEW t \in Tasks
        PROVE  /\ Slack(c)[t] \in Nat /\ Beyond(c)[t] \in Nat
               /\ Slack(c)[t] <= Beyond(c)[t]
    <3>1. due[t] \in Nat /\ due[t] <= c
      BY <2>i, <2>1, FanOutAssumption DEF TypeOK, CreditInv, Dearest
    <3>2. c * Repeats * turn[t] \in Nat /\ Slack(c)[t] \in Nat
      BY <2>i, <2>1, MoneyTypes
    <3>3. CASE th[t] \in {"charge", "error", "raised", "unclosed"}
      <4>1. t \in layer
        BY <2>i, <3>3 DEF TypeOK, CoInv
      <4>2. QED
        BY <2>1, <3>1, <3>2, <4>1 DEF Slack, Beyond
    <3>4. CASE th[t] \notin {"charge", "error", "raised", "unclosed"}
      BY <2>1, <3>2, <3>4 DEF Slack, Beyond, Ended
    <3>5. QED
      BY <3>3, <3>4
  <2>3. SumFunctionOnSet(Slack(c), Tasks) <= SumFunctionOnSet(Beyond(c), Tasks)
    BY <2>1, <2>2, SumMonotone
  <2>4. /\ SumFunctionOnSet(Slack(c), Tasks) \in Nat
        /\ SumFunctionOnSet(Beyond(c), Tasks) \in Nat
    BY <2>1, <2>2, SumNat
  <2>5. /\ billed \in Nat /\ spent \in Nat /\ spent <= Ceiling
        /\ billed <= spent + SumFunctionOnSet(Slack(c), Tasks)
    BY <2>i DEF TypeOK, CreditInv
  <2>6. QED
    BY <2>1, <2>3, <2>4, <2>5
<1>2. QED
  BY <1>1, Invariance, PTL

-----------------------------------------------------------------------------
(* The record of a completed run                                           *)

(* There is no record before the run is settled; one of a completed run is *)
(* of all it spent.                                                        *)
RecordInv ==
  /\ main \in {"gather", "completed", "raised", "finalized"} => recorded = -1
  /\ status = "ended" => recorded \in {-1, spent}

(* When every subtask is done, no worker is alive and none can move.       *)
LEMMA DoneMeansIdle ==
  ASSUME IInv, Done = Tasks
  PROVE  Live = {} /\ \A t \in Tasks : ~Worker(t)
<1>1. \A t \in Tasks : th[t] = "returned"
  BY DEF IInv, PhaseInv, CoInv, Done
<1>2. Live = {}
  BY <1>1 DEF Live
<1>3. \A t \in Tasks : ~Worker(t)
  BY <1>1 DEF Worker, Start, Call, Charge, Refuse, Record, Finish, Fail, Step
<1>4. QED
  BY <1>2, <1>3

(* Every step keeps what the record says of the spend.                     *)
LEMMA RecordStep == IInv /\ RecordInv /\ [Next]_vars => RecordInv'
<1> SUFFICES ASSUME IInv, RecordInv, [Next]_vars
             PROVE  RecordInv'
  OBVIOUS
<1>1. ASSUME NEW t \in Tasks, Worker(t)
      PROVE  RecordInv'
  <2>1. UNCHANGED <<main, status, recorded>>
    BY <1>1 DEF Worker, Start, Call, Charge, Refuse, Record, Finish, Fail, loop
  <2>2. status # "ended"
    BY <1>1, DoneMeansIdle DEF IInv, AccountInv
  <2>3. QED
    BY <2>1, <2>2 DEF RecordInv
<1>2. CASE RecordSpend
  <2>1. main' = "recorded" /\ recorded' = spent /\ spent' = spent
    BY <1>2 DEF RecordSpend, Go, money
  <2>2. QED
    BY <2>1 DEF RecordInv
<1>3. CASE CloseLedger \/ CancelAll \/ Exit
  <2>1. /\ UNCHANGED <<status, recorded, spent>>
        /\ main' \in {"closed", "cancelled", "exited"}
    BY <1>3 DEF CloseLedger, CancelAll, Exit, Go, money
  <2>2. QED
    BY <2>1 DEF RecordInv
<1>4. CASE \/ NextLayer \/ (\E t \in Tasks : Settle(t)) \/ Complete \/ GatherRaises
           \/ FinalizeRun \/ FinalizeCrashed \/ Interrupt
  <2>1. main \in {"gather", "completed", "raised"} /\ UNCHANGED recorded
    BY <1>4 DEF NextLayer, Settle, Complete, GatherRaises, FinalizeRun, FinalizeCrashed,
                Interrupt, Go
  <2>2. QED
    BY <2>1 DEF RecordInv
<1>5. CASE UNCHANGED vars
  BY <1>5 DEF vars, RecordInv
<1>6. QED
  BY <1>1, <1>2, <1>3, <1>4, <1>5 DEF Next, Main

(* A run whose phase completed has no worker left that could charge, and   *)
(* _run records all that it spent: the counterpart to what it does not     *)
(* keep for a run that failed or was interrupted.                          *)
THEOREM CompletedSpendTheorem == Spec => []CompletedSpendIsFinal
<1>1. Init => RecordInv
  BY DEF Init, RecordInv
<1>2. IInv /\ RecordInv => CompletedSpendIsFinal
  BY DoneMeansIdle DEF IInv, AccountInv, RecordInv, CompletedSpendIsFinal
<1>3. QED
  BY <1>1, <1>2, RecordStep, Invariance, PTL DEF Spec

-----------------------------------------------------------------------------
(* A phase without places                                                  *)

(* No worker has started, and the gather has neither result.               *)
Stalled == /\ \A t \in Tasks : th[t] = "none"
           /\ main \notin {"completed", "raised"} /\ status = "running"

(* Whoever has not started is neither running, nor done, nor failed.       *)
LEMMA StalledCoroutines ==
  ASSUME IInv, \A t \in Tasks : th[t] = "none"
  PROVE  \A t \in Tasks : co[t] \in {"none", "waiting", "cancelled"}
  BY DEF IInv, PhaseInv, TypeOK, CoInv

(* Where there is no place, the gather starts no worker.                   *)
LEMMA StalledStep ==
  ASSUME MaxConcurrency = 0, Tasks # {}
  PROVE  IInv /\ IInv' /\ Stalled /\ [Next]_vars => Stalled'
<1> SUFFICES ASSUME IInv, IInv', Stalled, [Next]_vars
             PROVE  Stalled'
  OBVIOUS
<1>1. \A t \in Tasks : co[t] \in {"none", "waiting", "cancelled"} /\ th[t] = "none"
  BY StalledCoroutines DEF Stalled
<1>2. ASSUME NEW t \in Tasks, Worker(t)
      PROVE  FALSE
  BY <1>1, <1>2 DEF Worker, Start, Call, Charge, Refuse, Record, Finish, Fail, Step
<1>3. CASE NextLayer
  <2>1. \A t \in Tasks : th'[t] # "start"
    <3>1. IsFiniteSet(Placed') /\ Cardinality(Placed') <= 0
      BY DEF IInv, PhaseInv, PlaceInv
    <3>2. Placed' = {}
      BY <3>1, FS_CardinalityType, FS_EmptySet
    <3>3. QED
      BY <3>2 DEF Placed, Live
  <2>2. \A t \in Tasks : th'[t] \in {"start", th[t]}
    BY <1>3 DEF NextLayer
  <2>3. UNCHANGED <<main, status>> /\ main = "gather"
    BY <1>3 DEF NextLayer
  <2>4. QED
    BY <1>1, <2>1, <2>2, <2>3 DEF Stalled
<1>4. ASSUME NEW t \in Tasks, Settle(t)
      PROVE  FALSE
  BY <1>1, <1>4 DEF Settle, Settled
<1>5. CASE Complete \/ GatherRaises
  BY <1>1, <1>5 DEF Complete, GatherRaises, Done
<1>6. CASE FinalizeRun \/ FinalizeCrashed
  BY <1>6 DEF FinalizeRun, FinalizeCrashed, Go, Stalled
<1>7. CASE Interrupt \/ RecordSpend \/ CloseLedger \/ CancelAll \/ Exit
  <2>1. /\ th' = th /\ status' = status
        /\ main' \in {"finalized", "recorded", "closed", "cancelled", "exited"}
    BY <1>7 DEF Interrupt, RecordSpend, CloseLedger, CancelAll, Exit, Go
  <2>2. QED
    BY <2>1 DEF Stalled
<1>8. CASE UNCHANGED vars
  BY <1>8 DEF vars, Stalled
<1>9. QED
  BY <1>2, <1>3, <1>4, <1>5, <1>6, <1>7, <1>8 DEF Next, Main

(* models.implementer.max_concurrency may be configured as 0: then the     *)
(* phase starts no worker and has no result of its own, completed or not.  *)
(* Only an interrupt ends such a run.                                      *)
THEOREM NoPlacesTheorem ==
  ASSUME MaxConcurrency = 0, Tasks # {}
  PROVE  Spec => []Stalled
<1>1. Init => Stalled
  BY DEF Init, Stalled
<1>2. QED
  BY <1>1, StalledStep, Invariance, PTL DEF Spec
=============================================================================

---------------------------- MODULE AgentProofs ----------------------------
(***************************************************************************)
(* What one agent does, by itself: the conversation of an implement worker *)
(* with its tools (Worker), the retry loop of the plan, critique and       *)
(* verify agents (JsonAgent), and the governor both are charged by         *)
(* (Governor).  For any scope and files, any number of turns, rounds,      *)
(* retries and threads, and any prices.                                    *)
(***************************************************************************)
EXTENDS Governor, JsonAgent, Worker, SumTheorems

(* Governor: charge() with its lock.                                       *)

(* A fresh governor satisfies the invariant.                               *)
LEMMA GovernorStarts == GovernorInit => GovernorInv
  BY GovernorAssumption
     DEF GovernorInit, GovernorInv, GovernorTypeOK, LockInv, TotalsInv, ReportInv, CeilingRespected, Inside

(* Each step of the charge preserves the invariant; one step per action.   *)
LEMMA GovernorStep == GovernorInv /\ [GovernorNext]_governor => GovernorInv'
<1> SUFFICES ASSUME GovernorInv, [GovernorNext]_governor
             PROVE  GovernorInv'
  OBVIOUS
<1> USE GovernorAssumption DEF GovernorInv, GovernorTypeOK, LockInv, TotalsInv, ReportInv,
                               CeilingRespected, Inside
<1>1. ASSUME NEW w \in Workers, Call(w)
      PROVE  GovernorInv'
  BY <1>1 DEF Call, Goto
<1>2. ASSUME NEW w \in Workers, Acquire(w)
      PROVE  GovernorInv'
  BY <1>2 DEF Acquire, Goto
<1>3. ASSUME NEW w \in Workers, Admit(w)
      PROVE  GovernorInv'
  BY <1>3 DEF Admit, Goto, Fits
<1>4. ASSUME NEW w \in Workers, Refuse(w)
      PROVE  GovernorInv'
  BY <1>4 DEF Refuse, Goto
<1>5. ASSUME NEW w \in Workers, Add(w)
      PROVE  GovernorInv'
  BY <1>5 DEF Add, Goto
<1>6. ASSUME NEW w \in Workers, AppendLine(w)
      PROVE  GovernorInv'
  BY <1>6 DEF AppendLine, Goto
<1>7. ASSUME NEW w \in Workers, Emit(w)
      PROVE  GovernorInv'
  BY <1>7 DEF Emit, Goto
<1>8. CASE ReadSpent
  BY <1>8 DEF ReadSpent
<1>9. CASE ReadLines
  BY <1>9 DEF ReadLines
<1>10. CASE UNCHANGED governor
  BY <1>10 DEF governor
<1>11. QED
  BY <1>1, <1>2, <1>3, <1>4, <1>5, <1>6, <1>7, <1>8, <1>9, <1>10 DEF GovernorNext, Charging

(* The inductive invariant holds in every reachable state.                 *)
THEOREM GovernorInvariance == GovernorSpec => []GovernorInv
  BY GovernorStarts, GovernorStep, PTL DEF GovernorSpec

(* BudgetGovernor.charge never lets the spend pass the ceiling, for any    *)
(* number of threads and any sequence of costs.                            *)
THEOREM CeilingTheorem == GovernorSpec => []CeilingRespected
<1>1. GovernorInv => CeilingRespected
  BY DEF GovernorInv
<1>2. QED
  BY <1>1, GovernorInvariance, PTL

(* Whenever the lock is free the recorded cost lines add up to the spend.  *)
THEOREM LinesTheorem == GovernorSpec => []LinesMatchSpent
<1>1. GovernorInv => LinesMatchSpent
  BY DEF GovernorInv, TotalsInv, LinesMatchSpent
<1>2. QED
  BY <1>1, GovernorInvariance, PTL

(* The end-of-run report of cli._run never shows fewer lines than the      *)
(* spend it read before, although workers may charge in between.           *)
THEOREM ReportTheorem == GovernorSpec => []ReportConsistent
<1>1. GovernorInv => ReportConsistent
  BY DEF GovernorInv, GovernorTypeOK, ReportInv, ReportConsistent
<1>2. QED
  BY <1>1, GovernorInvariance, PTL

-----------------------------------------------------------------------------
(* Initial states of Governor are initial states of BudgetSpec.            *)
LEMMA BudgetInit == GovernorInit => Budget!Init
  BY DEF GovernorInit, Budget!Init, Stage

(* Each step of Governor is a step of BudgetSpec or leaves it unchanged:   *)
(* Call asks, Add grants, Refuse refuses, Emit returns, the others stutter.*)
LEMMA BudgetStep == GovernorInv /\ [GovernorNext]_governor => [Budget!Next]_(Budget!vars)
<1> SUFFICES ASSUME GovernorInv, [GovernorNext]_governor
             PROVE  [Budget!Next]_(Budget!vars)
  OBVIOUS
<1> USE DEF GovernorInv, GovernorTypeOK
<1>1. ASSUME NEW w \in Workers, Call(w)
      PROVE  Budget!Ask(w)
  BY <1>1 DEF Call, Goto, Stage, Budget!Ask
<1>2. ASSUME NEW w \in Workers, Acquire(w) \/ Admit(w) \/ AppendLine(w)
      PROVE  UNCHANGED Budget!vars
  BY <1>2 DEF Acquire, Admit, AppendLine, Goto, Stage, Budget!vars
<1>3. ASSUME NEW w \in Workers, Refuse(w)
      PROVE  Budget!Refuse(w)
  <2>1. spent + due[w] > Ceiling
    BY <1>3, GovernorAssumption DEF Refuse, Fits
  <2>2. at[w] = "check" /\ at' = [at EXCEPT ![w] = "refused"]
    BY <1>3 DEF Refuse, Goto
  <2>3. UNCHANGED <<spent, due>>
    BY <1>3 DEF Refuse
  <2>4. QED
    BY <2>1, <2>2, <2>3 DEF Stage, Budget!Refuse
<1>4. ASSUME NEW w \in Workers, Add(w)
      PROVE  Budget!Grant(w)
  BY <1>4 DEF Add, Goto, Stage, TotalsInv, Budget!Grant
<1>5. ASSUME NEW w \in Workers, Emit(w)
      PROVE  Budget!Return(w)
  BY <1>5 DEF Emit, Goto, Stage, Budget!Return
<1>6. CASE ReadSpent \/ ReadLines \/ UNCHANGED governor
  BY <1>6 DEF ReadSpent, ReadLines, governor, Stage, Budget!vars
<1>7. QED
  BY <1>1, <1>2, <1>3, <1>4, <1>5, <1>6 DEF GovernorNext, Charging, Budget!Next

(* charge() with its lock implements the atomic governor: other modules    *)
(* may take a charge as one indivisible step.                              *)
THEOREM GovernorImplementsBudget == GovernorSpec => ImplementsBudget
<1>1. GovernorSpec => []GovernorInv
  BY GovernorInvariance
<1>2. QED
  BY <1>1, BudgetInit, BudgetStep, PTL DEF GovernorSpec, ImplementsBudget, Budget!Spec

-----------------------------------------------------------------------------
(* JsonAgent: attempts, requests and books.                                *)

(* The attempts are finitely many, so that their costs add up.             *)
LEMMA AttemptsFinite == IsFiniteSet(Attempts)
  BY FS_Interval, JsonAgentAssumption DEF Attempts

(* Closing the row of the attempt in progress with an amount, where it had *)
(* none, adds the amount to the total of the rows.                         *)
LEMMA CloseSum ==
  ASSUME rowCost \in [Attempts -> Nat], attempt \in Attempts, rowCost[attempt] = 0,
         NEW status, NEW amount \in Nat, Close(status, amount)
  PROVE  /\ rowCost' \in [Attempts -> Nat]
         /\ SumFunctionOnSet(rowCost', Attempts) = SumFunctionOnSet(rowCost, Attempts) + amount
<1> DEFINE next == [rowCost EXCEPT ![attempt] = amount]
<1>1. rowCost' = next
  BY DEF Close
<1>2. next \in [Attempts -> Nat] /\ next[attempt] = amount
      /\ \A i \in Attempts \ {attempt} : next[i] = rowCost[i]
  OBVIOUS
<1>3. SumFunctionOnSet(rowCost, Attempts) \in Nat
  BY AttemptsFinite, SumNat
<1> HIDE DEF next
<1>4. SumFunctionOnSet(next, Attempts)
        = SumFunctionOnSet(rowCost, Attempts) - rowCost[attempt] + next[attempt]
  BY <1>2, AttemptsFinite, SumChange
<1>5. QED
  BY <1>1, <1>2, <1>3, <1>4

(* An agent that has not begun has sent nothing and booked nothing.        *)
LEMMA JsonStarts == JsonInit => JsonInv
<1> SUFFICES ASSUME JsonInit
             PROVE  JsonInv
  OBVIOUS
<1>1. rowCost = [i \in Attempts |-> 0]
  BY DEF JsonInit
<1>2. SumFunctionOnSet(rowCost, Attempts) = 0
  BY <1>1, AttemptsFinite, SumZero
<1>3. JsonTypeOK
  BY DEF JsonInit, JsonTypeOK
<1>4. RequestsInv
  BY JsonAgentAssumption
     DEF JsonInit, RequestsInv, RequestsBounded, Square, Trying
<1>5. BooksInv
  BY <1>2 DEF JsonInit, BooksInv, LossIsLast, Attempts
<1>6. QED
  BY <1>3, <1>4, <1>5 DEF JsonInv

-----------------------------------------------------------------------------
(* Requests: each attempt has its own Retries + 1, and attempts are no more.*)
LEMMA FullAttempts ==
  ASSUME Retries \in Nat, NEW n \in 0..Retries
  PROVE  /\ n * (Retries + 1) \in Nat
         /\ n * (Retries + 1) + (Retries + 1) = (n + 1) * (Retries + 1)
         /\ (n + 1) * (Retries + 1) <= Square(Retries + 1)
<1>1. n * (Retries + 1) \in Nat
  OBVIOUS
<1>2. n * (Retries + 1) + (Retries + 1) = (n + 1) * (Retries + 1)
  OBVIOUS
<1>3. \E k \in Nat : n + 1 + k = Retries + 1
  <2>1. WITNESS Retries - n \in Nat
  <2>2. QED
    OBVIOUS
<1>4. PICK k \in Nat : n + 1 + k = Retries + 1
  BY <1>3
<1>5. (n + 1) * (Retries + 1) + k * (Retries + 1) = (n + 1 + k) * (Retries + 1)
  OBVIOUS
<1>6. k * (Retries + 1) \in Nat /\ (n + 1) * (Retries + 1) \in Nat
  OBVIOUS
<1>7. QED
  BY <1>1, <1>2, <1>4, <1>5, <1>6 DEF Square

(* Every step keeps the count of the requests within the attempts begun: a *)
(* send is one of its attempt, a new attempt brings Retries + 1 more.      *)
LEMMA RequestsStep ==
  ASSUME JsonTypeOK, RequestsInv, JsonNext
  PROVE  RequestsInv'
<1> USE JsonAgentAssumption DEF Trying
<1>t. /\ place \in {"loop", "raised"} \cup Trying /\ attempt \in Nat /\ asked \in Nat
      /\ requests \in Nat
  BY DEF JsonTypeOK
<1>i. /\ RequestsBounded
      /\ place = "loop" => /\ requests <= attempt * (Retries + 1)
                           /\ attempt = 0 \/ attempt <= Retries + 1
      /\ place \in Trying => /\ attempt \in Attempts /\ asked <= Retries + 1
                             /\ requests <= attempt * (Retries + 1) + asked
  BY DEF RequestsInv
<1>r. attempt \in Attempts => Retries \in Nat /\ attempt \in 0..Retries
  BY DEF Attempts
<1>1. CASE GiveUp
  BY <1>1, <1>i DEF GiveUp, RequestsInv, RequestsBounded
<1>2. CASE StartInvocation
  <2>1. /\ place = "loop" /\ place' = "call" /\ asked' = 0
        /\ UNCHANGED <<attempt, requests>> /\ attempt \in Attempts
    BY <1>2, <1>t DEF StartInvocation, Attempts
  <2>2. attempt * (Retries + 1) \in Nat
    BY <2>1, <1>r, FullAttempts
  <2>3. QED
    BY <1>i, <1>r, <2>1, <2>2 DEF RequestsInv, RequestsBounded
<1>3. CASE Answered \/ Unanswered
  <2>1. /\ place = "call" /\ asked <= Retries /\ place' \in {"call", "charge"}
        /\ asked' = asked + 1 /\ requests' = requests + 1 /\ UNCHANGED attempt
    BY <1>3 DEF Answered, Unanswered, Send
  <2>2. /\ attempt * (Retries + 1) \in Nat
        /\ attempt * (Retries + 1) + (Retries + 1) <= Square(Retries + 1)
    BY <1>i, <1>r, <2>1, FullAttempts
  <2>3. requests' <= attempt * (Retries + 1) + asked' /\ asked' <= Retries + 1
    BY <1>t, <1>i, <2>1, <2>2
  <2>4. Square(Retries + 1) \in Nat /\ Retries >= 0
    BY <1>i, <1>r, <2>1 DEF Square
  <2>5. requests' <= Square(Retries + 1)
    BY <1>t, <2>1, <2>2, <2>3, <2>4
  <2>6. QED
    BY <1>i, <2>1, <2>3, <2>4, <2>5 DEF RequestsInv, RequestsBounded, Attempts
<1>4. CASE Charge \/ RecordCost \/ Finish \/ Valid
  <2>1. place \in Trying /\ place' \in Trying /\ UNCHANGED <<attempt, asked, requests>>
    BY <1>4 DEF Charge, RecordCost, Finish, Valid
  <2>2. QED
    BY <1>i, <2>1 DEF RequestsInv, RequestsBounded, Attempts
<1>5. CASE \/ CallFails \/ Refused
           \/ WriteFails("loop") \/ WriteFails("record") \/ WriteFails("finish")
  <2>1. place' = "raised" /\ UNCHANGED requests
    BY <1>5 DEF CallFails, Refused, WriteFails
  <2>2. QED
    BY <1>i, <2>1 DEF RequestsInv, RequestsBounded
<1>6. CASE Invalid
  <2>1. /\ place = "validate" /\ place' = "loop" /\ attempt' = attempt + 1
        /\ UNCHANGED requests
    BY <1>6 DEF Invalid
  <2>2. /\ attempt * (Retries + 1) \in Nat /\ attempt \in 0..Retries
        /\ attempt * (Retries + 1) + (Retries + 1) = (attempt + 1) * (Retries + 1)
    BY <1>i, <1>r, <2>1, FullAttempts
  <2>3. requests <= attempt * (Retries + 1) + (Retries + 1)
    BY <1>t, <1>i, <2>1, <2>2
  <2>4. requests' <= attempt' * (Retries + 1) /\ attempt' <= Retries + 1
    BY <2>1, <2>2, <2>3
  <2>5. QED
    BY <1>i, <2>1, <2>4 DEF RequestsInv, RequestsBounded
<1>7. QED
  BY <1>1, <1>2, <1>3, <1>4, <1>5, <1>6 DEF JsonNext

-----------------------------------------------------------------------------
(* Every step keeps the types.                                             *)
LEMMA JsonTypes ==
  ASSUME JsonTypeOK, RequestsInv, JsonNext
  PROVE  JsonTypeOK'
<1> USE JsonAgentAssumption DEF JsonTypeOK, Trying
<1>1. CASE GiveUp
  BY <1>1 DEF GiveUp
<1>2. CASE StartInvocation
  BY <1>2 DEF StartInvocation, Close
<1>3. CASE Answered
  BY <1>3 DEF Answered, Send
<1>4. CASE Unanswered
  BY <1>4 DEF Unanswered, Send
<1>5. CASE CallFails
  BY <1>5 DEF CallFails, CloseOnError, Close
<1>6. CASE Charge
  BY <1>6 DEF Charge
<1>7. CASE Refused
  BY <1>7 DEF Refused, CloseOnError, Close
<1>8. CASE RecordCost
  BY <1>8 DEF RecordCost
<1>9. CASE Finish
  BY <1>9 DEF Finish, Close
<1>10. CASE Valid \/ Invalid
  BY <1>10 DEF Valid, Invalid
<1>11. CASE WriteFails("loop") \/ WriteFails("record") \/ WriteFails("finish")
  BY <1>11 DEF WriteFails
<1>12. QED
  BY <1>1, <1>2, <1>3, <1>4, <1>5, <1>6, <1>7, <1>8, <1>9, <1>10, <1>11 DEF JsonNext

(* An error row is that of the attempt in progress, and nothing follows.   *)
LEMMA ErrorRow ==
  ASSUME JsonTypeOK, CloseOnError
  PROVE  \A i \in Attempts : i < attempt => row'[i] = row[i]
<1>1. CASE UNCHANGED <<row, rowCost>>
  BY <1>1
<1>2. CASE Close("error", 0)
  BY <1>2 DEF Close, JsonTypeOK
<1>3. QED
  BY <1>1, <1>2 DEF CloseOnError

(* Every step keeps what rows, events and governor say of each other.      *)
LEMMA BooksStep ==
  ASSUME JsonTypeOK, RequestsInv, BooksInv, JsonNext
  PROVE  BooksInv'
<1>t. /\ place \in {"loop", "raised"} \cup Trying /\ attempt \in Nat /\ cost \in Nat
      /\ charged \in Nat /\ events \in Nat
      /\ row \in [Attempts -> {"none", "running", "ok", "error"}]
      /\ rowCost \in [Attempts -> Nat]
  BY DEF JsonTypeOK
<1>a. place \in Trying => attempt \in Attempts
  BY DEF RequestsInv
<1>s. SumFunctionOnSet(rowCost, Attempts) \in Nat
  BY <1>t, AttemptsFinite, SumNat
<1>l. LossIsLast
  BY DEF BooksInv
<1>1. CASE GiveUp
  BY <1>1, <1>l DEF GiveUp, BooksInv, LossIsLast, Trying, Attempts
<1>2. CASE StartInvocation
  <2>1. /\ place = "loop" /\ place' = "call" /\ Close("running", 0)
        /\ UNCHANGED <<attempt, cost, charged, events>> /\ attempt \in Attempts
    BY <1>2, <1>t DEF StartInvocation, Attempts
  <2>2. rowCost[attempt] = 0
    BY <1>t, <2>1 DEF BooksInv
  <2>3. SumFunctionOnSet(rowCost', Attempts) = SumFunctionOnSet(rowCost, Attempts)
    BY <1>t, <1>s, <2>1, <2>2, CloseSum
  <2>4. /\ \A i \in Attempts : i < attempt => row'[i] = row[i]
        /\ \A i \in Attempts : i >= attempt => rowCost'[i] = 0
    BY <1>t, <2>1 DEF Close, BooksInv
  <2>5. LossIsLast'
    BY <1>l, <2>1, <2>4 DEF LossIsLast, Attempts
  <2>6. Attempts' = Attempts
    BY DEF Attempts
  <2>7. QED
    BY <2>1, <2>3, <2>4, <2>5, <2>6 DEF BooksInv, Trying
<1>3. CASE Answered
  <2>1. /\ place = "call" /\ place' = "charge" /\ UNCHANGED <<attempt, row, rowCost, charged, events>>
    BY <1>3 DEF Answered, Send
  <2>2. charged - events = 0
    BY <1>t, <2>1 DEF BooksInv
  <2>3. LossIsLast'
    BY <1>l, <2>1, <2>2 DEF LossIsLast, Attempts
  <2>4. QED
    BY <2>1, <2>3 DEF BooksInv, Trying, Attempts
<1>4. CASE Unanswered
  BY <1>4, <1>l DEF Unanswered, Send, BooksInv, LossIsLast, Trying, Attempts
<1>5. CASE CallFails \/ Refused
  <2>1. place' = "raised" /\ CloseOnError /\ UNCHANGED <<attempt, cost, charged, events>>
    BY <1>5 DEF CallFails, Refused
  <2>2. LossIsLast'
    BY <1>l, <2>1, ErrorRow DEF LossIsLast, Attempts
  <2>3. QED
    BY <2>1, <2>2 DEF BooksInv, Trying
<1>6. CASE Charge
  <2>1. /\ place = "charge" /\ place' = "record" /\ charged' = charged + cost
        /\ UNCHANGED <<attempt, cost, row, rowCost, events>>
    BY <1>6 DEF Charge
  <2>2. events = charged /\ SumFunctionOnSet(rowCost, Attempts) = charged
    BY <2>1 DEF BooksInv
  <2>3. LossIsLast'
    BY <1>t, <1>l, <2>1, <2>2 DEF LossIsLast, Attempts
  <2>4. events' = charged' - cost' /\ SumFunctionOnSet(rowCost, Attempts) = charged' - cost'
    BY <1>t, <2>1, <2>2
  <2>5. QED
    BY <2>1, <2>3, <2>4 DEF BooksInv, Trying, Attempts
<1>7. CASE RecordCost
  <2>1. /\ place = "record" /\ place' = "finish" /\ events' = events + cost
        /\ UNCHANGED <<attempt, cost, row, rowCost, charged>>
    BY <1>7 DEF RecordCost
  <2>2. events' = charged'
    BY <1>t, <2>1 DEF BooksInv
  <2>3. LossIsLast'
    BY <1>t, <1>l, <2>1, <2>2 DEF LossIsLast, Attempts
  <2>4. QED
    BY <2>1, <2>2, <2>3 DEF BooksInv, Trying, Attempts
<1>8. CASE Finish
  <2>1. /\ place = "finish" /\ place' = "validate" /\ Close("ok", cost)
        /\ UNCHANGED <<attempt, cost, charged, events>> /\ attempt \in Attempts
    BY <1>8, <1>a DEF Finish, Trying
  <2>2. rowCost[attempt] = 0
    BY <1>t, <2>1 DEF BooksInv
  <2>3. SumFunctionOnSet(rowCost', Attempts) = SumFunctionOnSet(rowCost, Attempts) + cost
    BY <1>t, <2>1, <2>2, CloseSum
  <2>4. SumFunctionOnSet(rowCost', Attempts) = charged
    BY <1>t, <2>1, <2>3 DEF BooksInv
  <2>5. /\ row'[attempt] = "ok"
        /\ \A i \in Attempts : i < attempt => row'[i] = row[i]
        /\ \A i \in Attempts : i > attempt => rowCost'[i] = 0
    BY <1>t, <2>1 DEF Close, BooksInv, Attempts
  <2>6. LossIsLast'
    BY <1>l, <2>1, <2>5 DEF LossIsLast, Attempts
  <2>7. events = charged
    BY <2>1 DEF BooksInv
  <2>8. Attempts' = Attempts
    BY DEF Attempts
  <2>9. QED
    BY <2>1, <2>4, <2>5, <2>6, <2>7, <2>8 DEF BooksInv, Trying
<1>9. CASE Valid
  BY <1>9, <1>l DEF Valid, BooksInv, LossIsLast, Trying, Attempts
<1>10. CASE Invalid
  <2>1. /\ place = "validate" /\ place' = "loop" /\ attempt' = attempt + 1
        /\ UNCHANGED <<cost, row, rowCost, charged, events>>
    BY <1>10 DEF Invalid
  <2>2. \A i \in Attempts : i < attempt + 1 => row[i] = "ok"
    BY <1>t, <1>l, <2>1 DEF BooksInv, LossIsLast, Attempts
  <2>3. LossIsLast'
    BY <1>l, <2>1, <2>2 DEF LossIsLast, Attempts
  <2>4. \A i \in Attempts : i >= attempt + 1 => rowCost[i] = 0
    BY <1>t, <2>1 DEF BooksInv, Attempts
  <2>5. QED
    BY <2>1, <2>3, <2>4 DEF BooksInv, Trying, Attempts
<1>11. CASE WriteFails("loop") \/ WriteFails("record") \/ WriteFails("finish")
  <2>1. place' = "raised" /\ UNCHANGED <<attempt, cost, row, charged, events>>
    BY <1>11 DEF WriteFails
  <2>2. LossIsLast'
    BY <1>l, <2>1 DEF LossIsLast, Attempts
  <2>3. QED
    BY <2>1, <2>2 DEF BooksInv, Trying
<1>12. QED
  BY <1>1, <1>2, <1>3, <1>4, <1>5, <1>6, <1>7, <1>8, <1>9, <1>10, <1>11 DEF JsonNext

(* The invariant of the JSON agents is inductive.                          *)
LEMMA JsonStep == JsonInv /\ [JsonNext]_phase => JsonInv'
<1> SUFFICES ASSUME JsonInv, [JsonNext]_phase
             PROVE  JsonInv'
  OBVIOUS
<1>1. CASE JsonNext
  BY <1>1, JsonTypes, RequestsStep, BooksStep DEF JsonInv
<1>2. CASE UNCHANGED phase
  BY <1>2 DEF phase, JsonInv, JsonTypeOK, RequestsInv, RequestsBounded, BooksInv,
              LossIsLast, Attempts
<1>3. QED
  BY <1>1, <1>2

(* The inductive invariant of a phase, whatever `retries` is.              *)
THEOREM JsonInvariance == JsonSpec => []JsonInv
  BY JsonStarts, JsonStep, PTL DEF JsonSpec

(* The plan, critique and verify agents send no more requests than the     *)
(* square of retries + 1, and none when it is negative.                    *)
THEOREM RequestsTheorem == JsonSpec => []RequestsBounded
<1>1. JsonInv => RequestsBounded
  BY DEF JsonInv, RequestsInv
<1>2. QED
  BY <1>1, JsonInvariance, PTL

(* A phase that returns has its rows, its cost events and the governor in  *)
(* agreement, after any number of attempts.                                *)
THEOREM ExactTheorem == JsonSpec => []ReturnedIsExact
<1>1. JsonInv => ReturnedIsExact
  <2> SUFFICES ASSUME JsonInv, place = "returned"
               PROVE  /\ \A i \in 0..attempt : row[i] = "ok"
                      /\ events = charged
                      /\ SumFunctionOnSet(rowCost, Attempts) = charged
    BY DEF ReturnedIsExact
  <2>1. attempt \in Attempts /\ attempt \in Nat
    BY DEF JsonInv, RequestsInv, JsonTypeOK, Trying
  <2>2. row[attempt] = "ok" /\ \A i \in Attempts : i < attempt => row[i] = "ok"
    BY DEF JsonInv, BooksInv, LossIsLast
  <2>3. \A i \in 0..attempt : row[i] = "ok"
    BY <2>1, <2>2, JsonAgentAssumption DEF Attempts
  <2>4. QED
    BY <2>3 DEF JsonInv, BooksInv, Trying
<1>2. QED
  BY <1>1, JsonInvariance, PTL

(* However a phase ends, no more than its last charge is missing from the  *)
(* cost events.                                                            *)
THEOREM LossTheorem == JsonSpec => []LossIsLast
<1>1. JsonInv => LossIsLast
  BY DEF JsonInv, BooksInv
<1>2. QED
  BY <1>1, JsonInvariance, PTL

-----------------------------------------------------------------------------
(* Worker: the conversation, the files in scope, the diff.                 *)

(* The conversation after one more message.                                *)
LEMMA SayLemma ==
  ASSUME messages \in Seq(Messages), Len(messages) > 0, Orderly,
         NEW who \in {"user", "assistant", "tool"}, NEW m \in Nat, Say(who, m),
         Follows(Final, [role |-> who, n |-> m])
  PROVE  /\ messages' \in Seq(Messages) /\ Len(messages') > 0
         /\ Orderly' /\ Final' = [role |-> who, n |-> m]
<1> DEFINE new == [role |-> who, n |-> m]
<1>1. new \in Messages
  BY DEF Messages
<1>2. /\ messages' \in Seq(Messages) /\ Len(messages') = Len(messages) + 1
      /\ \A i \in 1..Len(messages) : messages'[i] = messages[i]
      /\ messages'[Len(messages) + 1] = new
  BY <1>1 DEF Say
<1>3. Len(messages) \in Nat
  OBVIOUS
<1>4. ASSUME NEW i \in 1..Len(messages') - 1
      PROVE  Follows(messages'[i], messages'[i + 1])
  <2>1. CASE i = Len(messages)
    BY <1>2, <1>3, <2>1 DEF Final
  <2>2. CASE i # Len(messages)
    <3>1. i \in 1..Len(messages) - 1 /\ i \in 1..Len(messages) /\ i + 1 \in 1..Len(messages)
      BY <1>2, <1>3, <2>2
    <3>2. messages'[i] = messages[i] /\ messages'[i + 1] = messages[i + 1]
      BY <1>2, <3>1
    <3> QED
      BY <3>1, <3>2 DEF Orderly
  <2> QED
    BY <2>1, <2>2
<1>5. Orderly'
  BY <1>4 DEF Orderly
<1>6. Final' = new /\ Len(messages') > 0
  BY <1>2, <1>3 DEF Final
<1> QED
  BY <1>2, <1>5, <1>6

(* A conversation that starts afresh.                                      *)
LEMMA FreshLemma ==
  ASSUME messages' = Asked
  PROVE  /\ messages' \in Seq(Messages) /\ Len(messages') > 0
         /\ Orderly' /\ Final'.role = "user"
<1>1. [role |-> "user", n |-> 0] \in Messages
  BY DEF Messages
<1>2. messages' \in Seq(Messages) /\ Len(messages') = 1
  BY <1>1 DEF Asked
<1>3. messages'[1] = [role |-> "user", n |-> 0]
  BY DEF Asked
<1>4. Orderly'
  BY <1>2 DEF Orderly
<1>5. Final'.role = "user"
  BY <1>2, <1>3 DEF Final
<1> QED
  BY <1>2, <1>4, <1>5

Edited == files \in [Files -> {"base", "worker", "tests"}] /\ EditsInScope

(* Tests write files only where the sandbox lets them.                     *)
LEMMA PytestLemma ==
  ASSUME TypeOK, EditsInScope, stray => Writable, UNCHANGED setting, RunPytest
  PROVE  Edited' /\ stray' \in BOOLEAN /\ (stray' => Writable')
<1>1. Writable' = Writable
  BY DEF Writable, setting
<1>2. CASE UNCHANGED <<files, stray>>
  BY <1>1, <1>2 DEF Edited, TypeOK, EditsInScope, InScope
<1>3. CASE files' \in Scribbled /\ stray' \in {stray, TRUE} /\ Writable
  <2>1. files' \in [Files -> {"base", "worker", "tests"}]
    BY <1>3 DEF Scribbled
  <2>2. ASSUME NEW f \in Files
        PROVE  /\ files'[f] = "worker" => InScope(f)
               /\ files'[f] = "tests" => Writable'
    BY <1>1, <1>3 DEF Scribbled, EditsInScope
  <2>3. EditsInScope'
    BY <2>2 DEF EditsInScope, InScope
  <2>4. stray' \in BOOLEAN
    BY <1>3 DEF TypeOK
  <2> QED
    BY <1>1, <1>3, <2>1, <2>3, <2>4 DEF Edited
<1> QED
  BY <1>2, <1>3 DEF RunPytest, RunHost, RunContainer, Unavailable, Writable

(* write_file changes a path of the scope, or none.                        *)
LEMMA WriteLemma ==
  ASSUME TypeOK, EditsInScope, UNCHANGED setting, NEW p \in Paths, WriteFile(p)
  PROVE  Edited'
<1>1. Writable' = Writable
  BY DEF Writable, setting
<1>2. CASE UNCHANGED files
  BY <1>1, <1>2 DEF Edited, TypeOK, EditsInScope, InScope
<1>3. CASE p \in Files /\ InScope(p) /\ files' = [files EXCEPT ![p] = "worker"]
  <2>1. files' \in [Files -> {"base", "worker", "tests"}]
    BY <1>3 DEF TypeOK
  <2>2. ASSUME NEW f \in Files
        PROVE  /\ files'[f] = "worker" => InScope(f)
               /\ files'[f] = "tests" => Writable'
    BY <1>1, <1>3 DEF TypeOK, EditsInScope
  <2>3. EditsInScope'
    BY <2>2 DEF EditsInScope, InScope
  <2> QED
    BY <2>1, <2>3 DEF Edited
<1> QED
  BY <1>2, <1>3 DEF WriteFile

-----------------------------------------------------------------------------
(* A worker that has not begun has said and changed nothing.               *)
LEMMA WorkerInit == Init => IInv
<1> SUFFICES ASSUME Init
             PROVE  IInv
  OBVIOUS
<1>1. [role |-> "user", n |-> 0] \in Messages
  BY DEF Messages
<1>2. messages \in Seq(Messages) /\ Len(messages) = 1
  BY <1>1 DEF Init, Asked
<1>3. messages[1] = [role |-> "user", n |-> 0]
  BY DEF Init, Asked
<1>4. TypeOK
  <2>1. files \in [Files -> {"base", "worker", "tests"}]
    BY DEF Init
  <2>3. stray \in BOOLEAN
    BY DEF Init
  <2>4. trust \in {"trusted", "untrusted"} /\ image \in {"slim", "sweb.eval"}
    BY DEF Init
  <2>5. /\ pc \in {"request", "tools", "completion", "raised", "diff", "tests", "judge"}
        /\ round \in Nat /\ turn \in Nat /\ left \in Nat
    BY DEF Init
  <2> QED
    BY <1>2, <2>1, <2>3, <2>4, <2>5 DEF TypeOK
<1>5. EditsInScope
  BY DEF Init, EditsInScope
<1>7. ConvInv
  <2>1. Orderly
    BY <1>2 DEF Orderly
  <2>2. AllAnswered
    BY <1>2, <1>3 DEF AllAnswered, Final
  <2>3. pc = "request"
    BY DEF Init
  <2> QED
    BY <2>1, <2>2, <2>3 DEF ConvInv
<1>8. ~stray
  BY DEF Init
<1> QED
  BY <1>4, <1>5, <1>7, <1>8 DEF IInv

(* What the steps that leave the conversation alone have to show.          *)
LEMMA QuietConv ==
  ASSUME ConvInv, UNCHANGED messages, pc' \notin {"request", "completion", "tools"}
  PROVE  ConvInv'
  BY DEF ConvInv, Orderly

(* Processes that tests left behind write only where those tests could.    *)
LEMMA StrayStep == ASSUME IInv, StrayWrites PROVE IInv'
<1>1. /\ stray /\ files' \in Scribbled /\ Writable
      /\ UNCHANGED <<trust, image, pc, round, turn, left, messages, stray>>
  BY DEF StrayWrites, IInv, setting, talk
<1>2. Writable'
  BY <1>1 DEF Writable
<1>3. files' \in [Files -> {"base", "worker", "tests"}]
  BY <1>1 DEF Scribbled
<1>4. TypeOK'
  BY <1>1, <1>3 DEF IInv, TypeOK
<1>5. ASSUME NEW f \in Files
      PROVE  files'[f] = "worker" => InScope(f)
  BY <1>1 DEF Scribbled, IInv, EditsInScope
<1>6. EditsInScope'
  BY <1>2, <1>5 DEF EditsInScope, InScope
<1>8. ConvInv'
  BY <1>1 DEF IInv, ConvInv, Orderly, AllAnswered, Final
<1> QED
  BY <1>2, <1>4, <1>6, <1>8 DEF IInv

(* A tool call of the reply in hand is answered, whatever the tool does.   *)
LEMMA ToolStep == ASSUME IInv, Tool PROVE IInv'
<1>1. /\ pc = "tools" /\ left > 0 /\ Say("tool", left) /\ left' = left - 1
      /\ UNCHANGED <<trust, image, pc, round, turn>>
  BY DEF Tool, setting
<1>t. TypeOK /\ EditsInScope /\ (stray => Writable) /\ left \in Nat /\ ConvInv
  BY DEF IInv, TypeOK
<1>2. Edited' /\ stray' \in BOOLEAN /\ (stray' => Writable')
  <2>0. UNCHANGED setting /\ Writable' = Writable
    BY <1>1 DEF setting, Writable
  <2>1. CASE Read
    BY <1>t, <2>0, <2>1 DEF Read, Edited, TypeOK, EditsInScope, InScope
  <2>2. CASE RunPytest
    BY <1>t, <2>0, <2>2, PytestLemma
  <2>3. ASSUME NEW p \in Paths, WriteFile(p)
        PROVE  Edited' /\ stray' \in BOOLEAN /\ (stray' => Writable')
    <3>1. Edited'
      BY <1>t, <2>0, <2>3, WriteLemma
    <3>2. UNCHANGED stray
      BY <2>3 DEF WriteFile
    <3> QED
      BY <1>t, <2>0, <3>1, <3>2 DEF TypeOK
  <2> QED
    BY <2>1, <2>2, <2>3 DEF Tool
<1>3. Follows(Final, [role |-> "tool", n |-> left])
  <2>1. CASE Final = [role |-> "tool", n |-> left + 1]
    BY <1>1, <1>t, <2>1 DEF Follows
  <2>2. CASE Final = [role |-> "assistant", n |-> left]
    BY <1>1, <1>t, <2>2 DEF Follows
  <2> QED
    BY <1>1, <1>t, <2>1, <2>2 DEF ConvInv
<1>4. /\ messages' \in Seq(Messages) /\ Len(messages') > 0
      /\ Orderly' /\ Final' = [role |-> "tool", n |-> left]
  BY <1>1, <1>t, <1>3, SayLemma DEF TypeOK, ConvInv
<1>5. left' \in Nat /\ left = left' + 1
  BY <1>1, <1>t
<1>6. ConvInv'
  BY <1>1, <1>4, <1>5 DEF ConvInv
<1>7. TypeOK'
  BY <1>1, <1>t, <1>2, <1>4, <1>5 DEF TypeOK, Edited
<1> QED
  BY <1>2, <1>6, <1>7 DEF IInv, Edited

(* The steps that leave the worktree alone.                                *)
LEMMA QuietFiles ==
  ASSUME IInv, UNCHANGED <<setting, files, stray>>,
         pc' \in {"request", "tools", "completion", "raised", "diff"}
  PROVE  EditsInScope' /\ (stray' => Writable')
<1>1. UNCHANGED <<trust, image, files, stray>> /\ Writable' = Writable
  BY DEF setting, Writable
<1>2. EditsInScope'
  BY <1>1 DEF IInv, EditsInScope, InScope
<1> QED
  BY <1>1, <1>2 DEF IInv

(* A reply opens its tool calls, a plain one none.                         *)
LEMMA ReplyStep == ASSUME IInv, Reply PROVE IInv'
<1>1. PICK m \in 0..MaxCalls :
        /\ Say("assistant", m) /\ left' = m
        /\ pc' = IF m > 0 THEN "tools" ELSE "completion"
  BY DEF Reply
<1>2. pc = "request" /\ UNCHANGED <<trust, image, round, turn, files, stray>>
  BY DEF Reply, setting
<1>t. TypeOK /\ ConvInv /\ m \in Nat /\ AllAnswered
  BY <1>2, WorkerAssumption DEF IInv, ConvInv
<1>3. Follows(Final, [role |-> "assistant", n |-> m])
  BY <1>t DEF AllAnswered, Follows
<1>4. /\ messages' \in Seq(Messages) /\ Len(messages') > 0
      /\ Orderly' /\ Final' = [role |-> "assistant", n |-> m]
  BY <1>1, <1>t, <1>3, SayLemma DEF TypeOK, ConvInv
<1>5. ConvInv'
  BY <1>1, <1>t, <1>4 DEF ConvInv
<1>6. TypeOK'
  BY <1>1, <1>2, <1>t, <1>4 DEF TypeOK
<1>7. EditsInScope' /\ (stray' => Writable')
  BY <1>1, <1>2, QuietFiles DEF setting
<1> QED
  BY <1>5, <1>6, <1>7 DEF IInv

(* A reply that does not validate is answered by the complaint about it.   *)
LEMMA RetryStep == ASSUME IInv, Retry PROVE IInv'
<1>1. /\ pc = "completion" /\ pc' = "request" /\ Say("user", 0) /\ turn' = turn + 1
      /\ UNCHANGED <<trust, image, round, left, files, stray>>
  BY DEF Retry, setting
<1>t. TypeOK /\ ConvInv /\ Final = [role |-> "assistant", n |-> 0]
  BY <1>1 DEF IInv, ConvInv
<1>3. Follows(Final, [role |-> "user", n |-> 0])
  BY <1>t DEF Follows
<1>4. /\ messages' \in Seq(Messages) /\ Len(messages') > 0
      /\ Orderly' /\ Final' = [role |-> "user", n |-> 0]
  BY <1>1, <1>t, <1>3, SayLemma DEF TypeOK, ConvInv
<1>5. ConvInv'
  BY <1>1, <1>4 DEF ConvInv, AllAnswered
<1>6. TypeOK'
  BY <1>1, <1>t, <1>4 DEF TypeOK
<1>7. EditsInScope' /\ (stray' => Writable')
  BY <1>1, QuietFiles DEF setting
<1> QED
  BY <1>5, <1>6, <1>7 DEF IInv

(* The next request follows when no tool call is open.                     *)
LEMMA ToolsDoneStep == ASSUME IInv, ToolsDone PROVE IInv'
<1>1. /\ pc = "tools" /\ left = 0 /\ pc' = "request" /\ turn' = turn + 1
      /\ UNCHANGED <<trust, image, round, left, messages, files, stray>>
  BY DEF ToolsDone, setting
<1>2. Final' = [role |-> "tool", n |-> 1]
  BY <1>1 DEF IInv, ConvInv, Final
<1>3. ConvInv'
  BY <1>1, <1>2 DEF IInv, ConvInv, Orderly, AllAnswered
<1>4. TypeOK'
  BY <1>1 DEF IInv, TypeOK
<1>5. EditsInScope' /\ (stray' => Writable')
  BY <1>1, QuietFiles DEF setting
<1> QED
  BY <1>3, <1>4, <1>5 DEF IInv

(* A worker that returns or raises leaves the worktree as it is.           *)
LEMMA LeaveStep == ASSUME IInv, Raise \/ Complete PROVE IInv'
<1>1. /\ pc' \in {"raised", "diff"}
      /\ UNCHANGED <<trust, image, round, turn, left, messages, files, stray>>
  BY DEF Raise, Complete, setting, talk
<1>2. ConvInv'
  BY <1>1, QuietConv DEF IInv
<1>3. TypeOK'
  BY <1>1 DEF IInv, TypeOK
<1>4. EditsInScope' /\ (stray' => Writable')
  BY <1>1, QuietFiles DEF setting
<1> QED
  BY <1>2, <1>3, <1>4 DEF IInv

(* Taking the diff changes nothing in the worktree.                        *)
LEMMA DiffStep == ASSUME IInv, Diff PROVE IInv'
<1>1. /\ pc' = "tests"
      /\ UNCHANGED <<trust, image, round, turn, left, messages, files, stray>>
  BY DEF Diff, setting, talk
<1>2. ConvInv'
  BY <1>1, QuietConv DEF IInv
<1>4. TypeOK'
  BY <1>1 DEF IInv, TypeOK
<1>5. EditsInScope' /\ (stray' => Writable')
  BY <1>1 DEF IInv, EditsInScope, InScope, Writable
<1> QED
  BY <1>2, <1>4, <1>5 DEF IInv

(* The verifier's tests run between the diff and the verdict.              *)
LEMMA TestsStep == ASSUME IInv, Tests PROVE IInv'
<1>1. /\ pc = "tests" /\ pc' = "judge" /\ RunPytest
      /\ UNCHANGED <<trust, image, round, turn, left, messages>>
  BY DEF Tests, setting, talk
<1>2. Edited' /\ stray' \in BOOLEAN /\ (stray' => Writable')
  BY <1>1, PytestLemma DEF IInv, setting
<1>3. ConvInv'
  BY <1>1, QuietConv DEF IInv
<1>4. TypeOK'
  BY <1>1, <1>2 DEF IInv, TypeOK, Edited
<1> QED
  BY <1>2, <1>3, <1>4 DEF IInv, Edited

(* Another round starts with the edits of the one before.                  *)
LEMMA NextRoundStep == ASSUME IInv, NextRound PROVE IInv'
<1>1. /\ round' = round + 1 /\ turn' = 0 /\ left' = 0 /\ messages' = Asked
      /\ pc' \in {"request", "diff"}
      /\ UNCHANGED <<trust, image, files, stray>>
  BY DEF NextRound, setting
<1>2. /\ messages' \in Seq(Messages) /\ Len(messages') > 0
      /\ Orderly' /\ Final'.role = "user"
  BY <1>1, FreshLemma
<1>3. ConvInv'
  BY <1>1, <1>2 DEF ConvInv, AllAnswered
<1>4. TypeOK'
  BY <1>1, <1>2 DEF IInv, TypeOK
<1>5. EditsInScope' /\ (stray' => Writable')
  BY <1>1, QuietFiles DEF setting
<1> QED
  BY <1>3, <1>4, <1>5 DEF IInv

(* The invariant of the worker is inductive.                               *)
LEMMA WorkerStep == IInv /\ [Next]_vars => IInv'
<1> SUFFICES ASSUME IInv, [Next]_vars
             PROVE  IInv'
  OBVIOUS
<1>1. CASE Next
  BY <1>1, StrayStep, ToolStep, ReplyStep, RetryStep, ToolsDoneStep, LeaveStep, DiffStep,
     TestsStep, NextRoundStep DEF Next
<1>2. CASE UNCHANGED vars
  <2>1. TypeOK'
    BY <1>2 DEF vars, IInv, TypeOK
  <2>2. EditsInScope' /\ (stray' => Writable')
    BY <1>2 DEF vars, IInv, EditsInScope, Writable, InScope
  <2>3. ConvInv'
    BY <1>2 DEF vars, IInv, ConvInv, Orderly, AllAnswered, Final
  <2> QED
    BY <2>1, <2>2, <2>3 DEF IInv
<1> QED
  BY <1>1, <1>2

(* Types, scope and conversation as one inductive invariant.         *)
THEOREM WorkerInvariant == Spec => []IInv
<1>1. Init => IInv
  BY WorkerInit
<1>2. IInv /\ [Next]_vars => IInv'
  BY WorkerStep
<1> QED
  BY <1>1, <1>2, PTL DEF Spec

(* Every tool call of every reply is answered once before the next request.*)
THEOREM ConversationTheorem == Spec => []ConversationAnswered
<1>1. IInv => ConversationAnswered
  BY DEF IInv, ConvInv, ConversationAnswered
<1> QED
  BY <1>1, WorkerInvariant, PTL

(* Tools and tests change no file they may not.                            *)
THEOREM ScopeTheorem == Spec => []EditsInScope
<1>1. IInv => EditsInScope
  BY DEF IInv
<1> QED
  BY <1>1, WorkerInvariant, PTL
=============================================================================

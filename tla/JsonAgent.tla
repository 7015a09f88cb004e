----------------------------- MODULE JsonAgent -----------------------------
(***************************************************************************)
(* The loop of _json_agent.py that the plan, critique and verify agents    *)
(* share: an invocation row per attempt, the call, the charge, the cost    *)
(* event, and another attempt when the answer does not validate.           *)
(*                                                                         *)
(* The client repeats a request by itself: it is built with the same       *)
(* `retries` (_azure.py), and a request that timed out may have been       *)
(* answered, and billed, all the same.  A write to the ledger may fail:    *)
(* another process can hold the database for longer than busy_timeout.     *)
(***************************************************************************)
EXTENDS Integers, Functions

CONSTANTS Retries,    \* ModelRef.retries
          Allowance,  \* what is left of --budget
          Prices      \* what one response may cost

ASSUME JsonAgentAssumption == Retries \in Int /\ Allowance \in Nat /\ Prices \subseteq Nat

VARIABLES place,    \* where _run_loop and _invoke are
          attempt,  \* attempt
          asked,    \* requests the client has sent for this attempt
          cost,     \* the cost of the response in hand
          row,      \* per attempt, its agent_invocations row
          rowCost,  \* per attempt, the cost_usd of the row
          charged,  \* governor.spent_usd, as far as this phase is concerned
          events,   \* the total of its cost_events
          requests, \* requests sent in the whole phase
          billed    \* what the provider bills for them

phase == <<place, attempt, asked, cost, row, rowCost, charged, events, requests, billed>>

Attempts == 0..Retries

JsonInit == /\ place = "loop" /\ attempt = 0 /\ asked = 0 /\ cost = 0
            /\ row = [i \in Attempts |-> "none"] /\ rowCost = [i \in Attempts |-> 0]
            /\ charged = 0 /\ events = 0 /\ requests = 0 /\ billed = 0

Close(status, amount) == /\ row' = [row EXCEPT ![attempt] = status]
                         /\ rowCost' = [rowCost EXCEPT ![attempt] = amount]

(* On the error paths, too, the row is only closed if the ledger takes it. *)
CloseOnError == Close("error", 0) \/ UNCHANGED <<row, rowCost>>

(* Every exception of _invoke ends the phase.                              *)
WriteFails(from) == /\ place = from /\ place' = "raised"
                    /\ attempt <= Retries
                    /\ UNCHANGED <<attempt, asked, cost, row, rowCost, charged, events, requests, billed>>

-----------------------------------------------------------------------------
(* Head of the loop: the attempts are used up, or a row is opened.         *)
GiveUp == /\ place = "loop" /\ attempt > Retries
          /\ place' = "raised"
          /\ UNCHANGED <<attempt, asked, cost, row, rowCost, charged, events, requests, billed>>

StartInvocation == /\ place = "loop" /\ attempt <= Retries
                   /\ place' = "call" /\ asked' = 0
                   /\ Close("running", 0)
                   /\ UNCHANGED <<attempt, cost, charged, events, requests, billed>>

Send == /\ place = "call" /\ asked <= Retries
        /\ asked' = asked + 1 /\ requests' = requests + 1

Answered == /\ Send
            /\ \E c \in Prices : cost' = c /\ billed' = billed + c
            /\ place' = "charge"
            /\ UNCHANGED <<attempt, row, rowCost, charged, events>>

(* A timeout or a retryable error, seen by the client only.                *)
Unanswered == /\ Send
              /\ \E c \in Prices \cup {0} : billed' = billed + c
              /\ UNCHANGED <<place, attempt, cost, row, rowCost, charged, events>>

(* The client gives up, or the error is not one it repeats.                *)
CallFails == /\ place = "call" /\ asked > 0
             /\ place' = "raised"
             /\ CloseOnError
             /\ UNCHANGED <<attempt, asked, cost, charged, events, requests, billed>>

Affordable == charged + cost <= Allowance

Charge == /\ place = "charge" /\ Affordable
          /\ charged' = charged + cost
          /\ place' = "record"
          /\ UNCHANGED <<attempt, asked, cost, row, rowCost, events, requests, billed>>

\* Faulty variant: a refused charge is tried again like a malformed answer.
RefusedRetries == /\ place = "charge" /\ ~Affordable
                  /\ place' = "loop" /\ attempt' = attempt + 1
                  /\ Close("error", 0)
                  /\ UNCHANGED <<asked, cost, charged, events, requests, billed>>

Refused == /\ place = "charge" /\ ~Affordable
           /\ place' = "raised"
           /\ CloseOnError
           /\ UNCHANGED <<attempt, asked, cost, charged, events, requests, billed>>

\* Faulty variant: the event carries all that was charged so far.
RecordTotal == /\ place = "record"
               /\ events' = events + charged
               /\ place' = "finish"
               /\ UNCHANGED <<attempt, asked, cost, row, rowCost, charged, requests, billed>>

RecordCost == /\ place = "record"
              /\ events' = events + cost
              /\ place' = "finish"
              /\ UNCHANGED <<attempt, asked, cost, row, rowCost, charged, requests, billed>>

Finish == /\ place = "finish"
          /\ place' = "validate"
          /\ Close("ok", cost)
          /\ UNCHANGED <<attempt, asked, cost, charged, events, requests, billed>>

Valid == /\ place = "validate"
         /\ place' = "returned"
         /\ UNCHANGED <<attempt, asked, cost, row, rowCost, charged, events, requests, billed>>

\* Faulty variant: an answer that does not validate does not use up an attempt.
InvalidForFree == /\ place = "validate"
                  /\ place' = "loop"
                  /\ UNCHANGED <<attempt, asked, cost, row, rowCost, charged, events, requests, billed>>

Invalid == /\ place = "validate"
           /\ place' = "loop" /\ attempt' = attempt + 1
           /\ UNCHANGED <<asked, cost, row, rowCost, charged, events, requests, billed>>

JsonNext == \/ GiveUp \/ StartInvocation \/ Answered \/ Unanswered \/ CallFails
            \/ Charge \/ Refused \/ RecordCost \/ Finish \/ Valid \/ Invalid
            \/ WriteFails("loop") \/ WriteFails("record") \/ WriteFails("finish")

JsonSpec == JsonInit /\ [][JsonNext]_phase

-----------------------------------------------------------------------------
Square(n) == n * n

(* `retries` bounds both the attempts and the client's own repetitions, so *)
(* that it bounds the requests of a phase only by its square.              *)
RequestsBounded == requests <= IF Retries >= 0 THEN Square(Retries + 1) ELSE 0

(* A phase that returns a result has accounted for itself: every attempt   *)
(* has its row closed "ok", and the rows and the cost events both add up   *)
(* to what the governor was charged.                                       *)
ReturnedIsExact ==
  place = "returned" => /\ \A i \in 0..attempt : row[i] = "ok"
                        /\ events = charged
                        /\ SumFunctionOnSet(rowCost, Attempts) = charged

(* However the phase ends, the cost events miss at most the last charge,   *)
(* and nothing follows a row that did not end "ok".                        *)
LossIsLast ==
  /\ charged - events \in {0, cost}
  /\ \A i \in Attempts : i < attempt => row[i] = "ok"

-----------------------------------------------------------------------------
(* The strengthening that makes the three inductive.                       *)
Trying == {"call", "charge", "record", "finish", "validate", "returned"}

JsonTypeOK ==
  /\ place \in {"loop", "raised"} \cup Trying
  /\ attempt \in Nat /\ asked \in Nat /\ cost \in Nat
  /\ row \in [Attempts -> {"none", "running", "ok", "error"}]
  /\ rowCost \in [Attempts -> Nat]
  /\ charged \in Nat /\ events \in Nat /\ requests \in Nat /\ billed \in Nat

(* Requests are counted in full attempts, and those of the one in progress.*)
RequestsInv ==
  /\ RequestsBounded
  /\ place = "loop" => /\ requests <= attempt * (Retries + 1)
                       /\ attempt = 0 \/ attempt <= Retries + 1
  /\ place \in Trying => /\ attempt \in Attempts /\ asked <= Retries + 1
                         /\ requests <= attempt * (Retries + 1) + asked

(* The events miss a charge between Charge and RecordCost, the rows until  *)
(* Finish, and rows of attempts to come carry nothing yet.                 *)
BooksInv ==
  /\ LossIsLast
  /\ place \notin {"record", "raised"} => events = charged
  /\ place = "record" => events = charged - cost
  /\ place \in {"validate", "returned"} => row[attempt] = "ok"
  /\ place \notin {"validate", "returned", "raised"} =>
       \A i \in Attempts : i >= attempt => rowCost[i] = 0
  /\ place \in {"validate", "returned"} => \A i \in Attempts : i > attempt => rowCost[i] = 0
  /\ place \notin {"record", "finish", "raised"} =>
       SumFunctionOnSet(rowCost, Attempts) = charged
  /\ place \in {"record", "finish"} =>
       SumFunctionOnSet(rowCost, Attempts) = charged - cost

JsonInv == JsonTypeOK /\ RequestsInv /\ BooksInv
=============================================================================

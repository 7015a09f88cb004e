------------------------------ MODULE CrossRun ------------------------------
(***************************************************************************)
(* The rolling spending window that `pciv run` processes share (ADR-0007): *)
(* cli._run reads what the window has left twice before it starts, and     *)
(* writes what the run has spent once, in its finally clause.  In between  *)
(* other processes do the same, the window may roll over, and a process    *)
(* may be killed.  Nothing reserves what a run may spend.                  *)
(*                                                                         *)
(* The library behind it (agentcore, PersistentBudgetLedger) is modelled   *)
(* from its use: one table in SQLite, every read and every record is one   *)
(* transaction and goes to the window of its own instant; a record beyond  *)
(* the cap is written before it raises, and cli._run suppresses the raise. *)
(***************************************************************************)
EXTENDS Integers, FiniteSets, Functions

CONSTANTS Procs,       \* process slots: at most so many runs at a time
          Cap,         \* budget.monthly_cap_usd
          Ceiling,     \* --budget
          Projection,  \* what governor.preflight() returns
          MaxForced,   \* bound: overrides start while so much is forced, or less
          MaxMisses    \* bound: lost spends and failed reads in one window

ASSUME CrossRunAssumption == /\ IsFiniteSet(Procs) /\ Procs # {}
                             /\ Cap \in Nat
                             /\ Ceiling \in Nat
                             \* or no run passes the preflight:
                             /\ Projection \in 0..Ceiling
                             /\ MaxForced \in Nat /\ MaxMisses \in Nat

VARIABLES pc,      \* per process: where cli._run is
          ignore,  \* --ignore-cross-run-cap
          spent,   \* governor.spent_usd
          rec,     \* what the process has recorded of it
          result,  \* how the run ended, as its caller sees it
          short,   \* processes whose last run ended with spend unrecorded
          booked,  \* this window's rows: recorded, and with forced = 1
          real,    \* charged in this window by runs without the flag
          lost,    \* runs of this window whose spend is not all recorded
          blind    \* reads of the table that failed or never came

procs   == <<pc, ignore, spent, rec, result, short>>
history == <<real, lost, blind>>
vars    == <<pc, ignore, spent, rec, result, short, booked, real, lost, blind>>

Results == {"none", "merged", "failed", "budget"}

Init == /\ pc = [p \in Procs |-> "off"]
        /\ ignore = [p \in Procs |-> FALSE]
        /\ spent = [p \in Procs |-> 0]
        /\ rec = [p \in Procs |-> 0]
        /\ result = [p \in Procs |-> "none"]
        /\ short = {}
        \* earlier runs of this window:
        /\ booked \in [plain : 0..Cap, forced : {0}]
        /\ real = booked.plain /\ lost = 0 /\ blind = 0

Remaining == Cap - (booked.plain + booked.forced)

Goto(p, place) == pc' = [pc EXCEPT ![p] = place]

Unrecorded(p) == ~ignore[p] /\ spent[p] > rec[p]

(* The process is gone, and with it its governor.                          *)
Exit(p, how) == /\ Goto(p, "off")
                /\ ignore' = [ignore EXCEPT ![p] = FALSE]
                /\ spent' = [spent EXCEPT ![p] = 0]
                /\ rec' = [rec EXCEPT ![p] = 0]
                /\ result' = [result EXCEPT ![p] = how]
                /\ short' = IF Unrecorded(p) THEN short \cup {p} ELSE short

Missed(p) == lost' = IF Unrecorded(p) THEN lost + 1 ELSE lost

-----------------------------------------------------------------------------
Start(p, flag) == /\ pc[p] = "off"
                  /\ flag => booked.forced <= MaxForced
                  /\ Goto(p, "opening")
                  /\ ignore' = [ignore EXCEPT ![p] = flag]
                  /\ result' = [result EXCEPT ![p] = "none"]
                  /\ short' = short \ {p}
                  /\ UNCHANGED <<spent, rec, booked, history>>

(* The first check: an exhausted window, which the flag turns into a       *)
(* warning.  A locked database makes the constructor or the read raise.    *)
FirstCheck(p) == /\ pc[p] = "opening"
                 /\ \/ /\ Remaining > 0 \/ ignore[p]
                       /\ Goto(p, "preflight")
                       /\ UNCHANGED <<ignore, spent, rec, result, short, blind>>
                    \/ /\ Remaining <= 0 /\ ~ignore[p]
                       /\ Exit(p, "budget") /\ UNCHANGED blind
                    \/ /\ lost + blind < MaxMisses
                       /\ Exit(p, "failed") /\ blind' = blind + 1
                 /\ UNCHANGED <<booked, real, lost>>

Admit(p) == /\ Goto(p, "running")
            /\ UNCHANGED <<ignore, spent, rec, result, short>>

\* Faulty variant: the allowance is taken as read at the first check.
SecondCheckStale(p) == /\ pc[p] = "preflight"
                       /\ Admit(p)
                       /\ UNCHANGED <<booked, history>>

(* The projection against a second reading of the allowance; the process   *)
(* is admitted in the same step, since it does not read again.             *)
SecondCheck(p) == /\ pc[p] = "preflight"
                  /\ \/ (Projection <= Remaining \/ ignore[p]) /\ Admit(p)
                     \/ Projection > Remaining /\ ~ignore[p] /\ Exit(p, "budget")
                  /\ UNCHANGED <<booked, history>>

(* A charge of the governor (Governor.tla), which keeps the run below its  *)
(* ceiling.  Workers of a run that failed are not waited for, and charge   *)
(* on beside the finally clause; a run that merged has none left.          *)
Charge(p) == /\ \/ pc[p] = "running"
                \/ pc[p] \in {"settling", "draining"} /\ result[p] # "merged"
             /\ \E c \in 1..Ceiling - spent[p] :
                  /\ spent' = [spent EXCEPT ![p] = @ + c]
                  /\ real' = IF ignore[p] THEN real ELSE real + c
             /\ UNCHANGED <<pc, ignore, rec, result, short, booked, lost, blind>>

(* The run ends, one way or another, and enters the finally clause.        *)
EndRun(p) == /\ pc[p] = "running"
             /\ \E how \in {"merged", "failed", "budget"} :
                  result' = [result EXCEPT ![p] = how]
             /\ Goto(p, "settling")
             /\ UNCHANGED <<ignore, spent, rec, short, booked, history>>

Book(p, amount) ==
  /\ rec' = [rec EXCEPT ![p] = amount]
  /\ booked' = IF ignore[p] THEN [booked EXCEPT !.forced = @ + amount]
                            ELSE [booked EXCEPT !.plain = @ + amount]
  /\ Goto(p, "draining")
  /\ UNCHANGED <<ignore, spent, result, short, history>>

\* Faulty variant: a run that failed skips the record.
RecordMerged(p) == /\ pc[p] = "settling"
                   /\ IF result[p] = "merged" THEN Book(p, spent[p])
                      ELSE Exit(p, result[p]) /\ UNCHANGED <<booked, history>>

(* record_spend, or force_record with the flag: what has been spent by now.*)
Record(p) == pc[p] = "settling" /\ Book(p, spent[p])

\* Faulty variant: every exception of the record is suppressed.
RecordSuppressed(p) == /\ pc[p] = "settling"
                       /\ lost + blind < MaxMisses
                       /\ Exit(p, result[p]) /\ Missed(p)
                       /\ UNCHANGED <<booked, real, blind>>

(* The database refuses the record: only the library's own exception is    *)
(* suppressed, so the run fails with this one.                             *)
RecordFails(p) == /\ pc[p] = "settling"
                  /\ lost + blind < MaxMisses
                  /\ Exit(p, "failed") /\ Missed(p)
                  /\ UNCHANGED <<booked, real, blind>>

(* The process ends when the workers it left behind have ended.            *)
Drained(p) == /\ pc[p] = "draining"
              /\ Unrecorded(p) => lost + blind < MaxMisses
              /\ Exit(p, result[p]) /\ Missed(p)
              /\ UNCHANGED <<booked, real, blind>>

Reading == {"opening", "preflight"}

(* The process is killed: its spend stays unrecorded, its checks unmade.   *)
Kill(p) == /\ pc[p] # "off"
           /\ lost + blind < MaxMisses
           /\ Exit(p, "failed") /\ Missed(p)
           /\ blind' = IF pc[p] \in Reading THEN blind + 1 ELSE blind
           /\ UNCHANGED <<booked, real>>

(* A new day or month: what is recorded from now on is in its window.      *)
Rollover == /\ booked' = [plain |-> 0, forced |-> 0]
            /\ real' = 0 /\ lost' = 0 /\ blind' = 0
            /\ UNCHANGED procs

Run(p) == \/ FirstCheck(p) \/ SecondCheck(p) \/ Charge(p) \/ EndRun(p)
          \/ Record(p) \/ RecordFails(p) \/ Drained(p) \/ Kill(p)

Next == \/ \E p \in Procs : Run(p) \/ \E flag \in BOOLEAN : Start(p, flag)
        \/ Rollover

Spec == Init /\ [][Next]_vars

-----------------------------------------------------------------------------
Inside == {"running", "settling"}

TypeOK == /\ pc \in [Procs -> {"off", "draining"} \cup Reading \cup Inside]
          /\ ignore \in [Procs -> BOOLEAN]
          /\ spent \in [Procs -> 0..Ceiling]
          /\ rec \in [Procs -> 0..Ceiling]
          /\ result \in [Procs -> Results] /\ short \in SUBSET Procs
          /\ booked \in [plain : Nat, forced : Nat]
          /\ real \in Nat /\ lost \in Nat /\ blind \in Nat

(* The runs whose record is still to come.                                 *)
Open == {p \in Procs : pc[p] \in Inside /\ ~ignore[p]}

(* ADR-0007: the check compares the projection, not --budget, and reserves *)
(* nothing.  So a window may be overdrawn, but by no more than one ceiling *)
(* per process at a time, however many runs it has seen.                   *)
OvershootBounded ==
  booked.plain + Projection <= Cap + Cardinality(Procs) * Ceiling

(* The same for the money itself, recorded or not: what a window really    *)
(* costs exceeds that by at most one ceiling per run that was killed, or   *)
(* could not write its record, or went on charging after it.               *)
RealSpendBounded ==
  LET late == {p \in Procs : pc[p] = "draining" /\ Unrecorded(p)}
  IN  real + Projection <= Cap + (Cardinality(Procs) + Cardinality(late) + lost) * Ceiling

(* Every admitted run is covered by what the window had left, as though    *)
(* its ceiling were recorded already; it was admitted in this window or in *)
(* an earlier one, and an empty window has room for the projection.        *)
Covered ==
  /\ booked.plain + Cardinality(Open) * Ceiling + Projection
        <= Cap + Cardinality(Procs) * Ceiling
  /\ Open # {} => Projection <= Cap

IInv == TypeOK /\ Covered

(* What a run has charged to the window and not recorded yet.              *)
Owed == [p \in Procs |-> IF ignore[p] THEN 0 ELSE spent[p] - rec[p]]

(* The money of the window is in its books, owed by a run that is still    *)
(* there, or lost with one that is not, a ceiling at most for each; a run  *)
(* spends nothing before it is admitted, and records once.                 *)
DebtInv ==
  /\ \A p \in Procs : /\ rec[p] <= spent[p]
                      /\ pc[p] \in Reading \cup {"off"} => spent[p] = 0
                      /\ pc[p] \in Inside => rec[p] = 0
  /\ real <= booked.plain + SumFunctionOnSet(Owed, Procs) + lost * Ceiling
=============================================================================

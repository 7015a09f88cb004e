--------------------------- MODULE CrossRunProofs ---------------------------
(***************************************************************************)
(* How far a shared window can be overdrawn, for any number of processes,  *)
(* any cap, ceiling and projection; and the same under the benchmark       *)
(* script of Bench.tla, with what the script promises of its own.          *)
(***************************************************************************)
EXTENDS Bench, SumTheorems

(* Arithmetic of products, which the provers want one fact at a time.      *)
LEMMA ProductMonotone ==
  ASSUME NEW a \in Nat, NEW b \in Nat, NEW c \in Nat, a <= b
  PROVE  a * c <= b * c
  BY SMT

(* One more run is one more ceiling.                                       *)
LEMMA ProductSuccessor ==
  ASSUME NEW a \in Nat, NEW c \in Nat
  PROVE  (a + 1) * c = a * c + c
  BY SMT

(* So many ceilings are a natural number.                                  *)
LEMMA ProductType ==
  ASSUME NEW a \in Nat, NEW c \in Nat
  PROVE  a * c \in Nat
  BY SMT

(* The ceilings of two groups of runs add up.                              *)
LEMMA ProductSum ==
  ASSUME NEW a \in Nat, NEW b \in Nat, NEW c \in Nat
  PROVE  (a + b) * c = a * c + b * c
  BY SMT

(* SumBound writes the factors in the other order.                         *)
LEMMA ProductSwap ==
  ASSUME NEW a \in Nat, NEW c \in Nat
  PROVE  c * a = a * c
  BY SMT

(* There is at least one process slot.                                     *)
LEMMA ProcsCounted == Cardinality(Procs) \in Nat /\ Cardinality(Procs) >= 1
<1>1. Cardinality(Procs) \in Nat
  BY FS_CardinalityType, CrossRunAssumption
<1>2. Cardinality(Procs) # 0
  BY FS_EmptySet, CrossRunAssumption
<1> QED
  BY <1>1, <1>2

(* No more runs are in than there are process slots ...                    *)
LEMMA OpenCounted ==
  /\ IsFiniteSet(Open)
  /\ Cardinality(Open) \in Nat
  /\ Cardinality(Open) <= Cardinality(Procs)
<1>1. Open \subseteq Procs
  BY DEF Open
<1> QED
  BY <1>1, FS_Subset, FS_CardinalityType, CrossRunAssumption

(* ... also after a step, whatever the step is.                            *)
LEMMA OpenCountedNext ==
  /\ IsFiniteSet(Open')
  /\ Cardinality(Open') \in Nat
  /\ Cardinality(Open') <= Cardinality(Procs)
<1>1. Open' \subseteq Procs
  BY DEF Open
<1> QED
  BY <1>1, FS_Subset, FS_CardinalityType, CrossRunAssumption

(* What does not admit a run, and records nothing, keeps the cover.        *)
LEMMA CoverKept ==
  ASSUME TypeOK, Covered, booked' = booked, Open' \subseteq Open
  PROVE  Covered'
<1>1. Cardinality(Open') <= Cardinality(Open)
  BY OpenCounted, FS_Subset
<1>2. Cardinality(Open') * Ceiling <= Cardinality(Open) * Ceiling
  BY <1>1, OpenCounted, OpenCountedNext, ProductMonotone, CrossRunAssumption
<1>3. Cardinality(Open) * Ceiling \in Nat /\ Cardinality(Open') * Ceiling \in Nat
      /\ Cardinality(Procs) * Ceiling \in Nat
  BY OpenCounted, OpenCountedNext, ProcsCounted, CrossRunAssumption
<1>4. booked.plain \in Nat
  BY DEF TypeOK
<1>5. booked.plain + Cardinality(Open) * Ceiling + Projection
        <= Cap + Cardinality(Procs) * Ceiling
  BY DEF Covered
<1>6. booked'.plain + Cardinality(Open') * Ceiling + Projection
        <= Cap + Cardinality(Procs) * Ceiling
  BY <1>2, <1>3, <1>4, <1>5, CrossRunAssumption
<1>7. Open' # {} => Projection <= Cap
  BY DEF Covered
<1> QED
  BY <1>6, <1>7 DEF Covered

(* What leaves the runs that are in may enter the books.                   *)
LEMMA CoverMoved ==
  ASSUME Covered, booked.plain \in Nat, booked'.plain \in Nat, Open' \subseteq Open,
         booked'.plain + Cardinality(Open') * Ceiling
           <= booked.plain + Cardinality(Open) * Ceiling
  PROVE  Covered'
<1>1. Cardinality(Open) * Ceiling \in Nat /\ Cardinality(Open') * Ceiling \in Nat
      /\ Cardinality(Procs) * Ceiling \in Nat
  BY OpenCounted, OpenCountedNext, ProcsCounted, CrossRunAssumption
<1>2. booked'.plain + Cardinality(Open') * Ceiling + Projection
        <= Cap + Cardinality(Procs) * Ceiling
  BY <1>1, CrossRunAssumption DEF Covered
<1>3. Open' # {} => Projection <= Cap
  BY DEF Covered
<1> QED
  BY <1>2, <1>3 DEF Covered

(* Where the window has room for the projection, every process may be in.  *)
LEMMA CoverFresh ==
  ASSUME booked'.plain \in Nat, booked'.plain + Projection <= Cap
  PROVE  Covered'
<1>1. Cardinality(Open') * Ceiling <= Cardinality(Procs) * Ceiling
  BY OpenCountedNext, ProcsCounted, ProductMonotone, CrossRunAssumption
<1>2. Cardinality(Open') * Ceiling \in Nat /\ Cardinality(Procs) * Ceiling \in Nat
  BY OpenCountedNext, ProcsCounted, CrossRunAssumption
<1>3. booked'.plain + Cardinality(Open') * Ceiling + Projection
        <= Cap + Cardinality(Procs) * Ceiling
  BY <1>1, <1>2, CrossRunAssumption
<1>4. Projection <= Cap
  BY CrossRunAssumption
<1> QED
  BY <1>3, <1>4 DEF Covered

(* While nobody is in, a ceiling has room for the projection.              *)
LEMMA CoverEmpty ==
  ASSUME booked'.plain \in 0..Cap, Open' = {}
  PROVE  Covered'
<1>1. 1 * Ceiling <= Cardinality(Procs) * Ceiling
  BY ProcsCounted, ProductMonotone, CrossRunAssumption
<1>2. Cardinality(Procs) * Ceiling \in Nat /\ 1 * Ceiling = Ceiling
  BY ProcsCounted, CrossRunAssumption
<1>3. Cardinality(Open') = 0
  BY FS_EmptySet
<1>4. Cardinality(Open') * Ceiling = 0
  BY <1>3, CrossRunAssumption
<1>5. booked'.plain + Cardinality(Open') * Ceiling + Projection
        <= Cap + Cardinality(Procs) * Ceiling
  BY <1>1, <1>2, <1>4, CrossRunAssumption
<1> QED
  BY <1>5 DEF Covered
-----------------------------------------------------------------------------
(* At first nobody is in, and the cap covers what is recorded.             *)
LEMMA CrossInit == Init => IInv
<1> SUFFICES ASSUME Init
             PROVE  IInv
  OBVIOUS
<1>1. TypeOK
  BY CrossRunAssumption DEF Init, TypeOK, Results
<1>2. Open = {}
  BY DEF Init, Open, Inside
<1>3. booked.plain \in 0..Cap
  BY DEF Init
<1>4. 1 * Ceiling <= Cardinality(Procs) * Ceiling
  BY ProcsCounted, ProductMonotone, CrossRunAssumption
<1>5. Cardinality(Open) * Ceiling = 0 /\ 1 * Ceiling = Ceiling
      /\ Cardinality(Procs) * Ceiling \in Nat
  BY <1>2, FS_EmptySet, ProcsCounted, CrossRunAssumption
<1>6. booked.plain + Cardinality(Open) * Ceiling + Projection
        <= Cap + Cardinality(Procs) * Ceiling
  BY <1>3, <1>4, <1>5, CrossRunAssumption
<1> QED
  BY <1>1, <1>2, <1>6 DEF IInv, Covered

(* A process that exits leaves everything typed, and is no longer in.      *)
LEMMA ExitLemma ==
  ASSUME TypeOK, NEW p \in Procs, NEW how \in Results, Exit(p, how)
  PROVE  /\ pc' \in [Procs -> {"off", "draining"} \cup Reading \cup Inside]
         /\ ignore' \in [Procs -> BOOLEAN]
         /\ spent' \in [Procs -> 0..Ceiling] /\ rec' \in [Procs -> 0..Ceiling]
         /\ result' \in [Procs -> Results] /\ short' \in SUBSET Procs
         /\ Open' \subseteq Open \ {p}
<1>1. /\ pc' = [pc EXCEPT ![p] = "off"]
      /\ ignore' = [ignore EXCEPT ![p] = FALSE]
      /\ spent' = [spent EXCEPT ![p] = 0]
      /\ rec' = [rec EXCEPT ![p] = 0]
      /\ result' = [result EXCEPT ![p] = how]
  BY DEF Exit, Goto
<1>2. short' \in SUBSET Procs
  BY DEF Exit, TypeOK
<1>3. pc' \in [Procs -> {"off", "draining"} \cup Reading \cup Inside]
  BY <1>1 DEF TypeOK
<1>4. ignore' \in [Procs -> BOOLEAN]
  BY <1>1 DEF TypeOK
<1>5. 0 \in 0..Ceiling
  BY CrossRunAssumption
<1>6. spent' \in [Procs -> 0..Ceiling] /\ rec' \in [Procs -> 0..Ceiling]
  BY <1>1, <1>5 DEF TypeOK
<1>7. result' \in [Procs -> Results]
  BY <1>1 DEF TypeOK
<1>8. Open' \subseteq Open \ {p}
  BY <1>1 DEF Open, Inside, TypeOK
<1> QED
  BY <1>2, <1>3, <1>4, <1>6, <1>7, <1>8

(* The count of lost records stays a natural number.                       *)
LEMMA MissedType ==
  ASSUME TypeOK, NEW p \in Procs, Missed(p)
  PROVE  lost' \in Nat
  BY DEF Missed, TypeOK

(* A run that starts has not been admitted yet.                            *)
LEMMA StartStep ==
  ASSUME IInv, NEW p \in Procs, NEW flag \in BOOLEAN, Start(p, flag)
  PROVE  IInv'
<1>1. /\ pc[p] = "off" /\ pc' = [pc EXCEPT ![p] = "opening"]
      /\ ignore' = [ignore EXCEPT ![p] = flag]
      /\ result' = [result EXCEPT ![p] = "none"]
      /\ short' = short \ {p}
      /\ UNCHANGED <<spent, rec, booked, real, lost, blind>>
  BY DEF Start, Goto, history
<1>2. TypeOK'
  <2>1. pc' \in [Procs -> {"off", "draining"} \cup Reading \cup Inside]
    BY <1>1 DEF IInv, TypeOK, Reading
  <2>2. ignore' \in [Procs -> BOOLEAN]
    BY <1>1 DEF IInv, TypeOK
  <2>3. result' \in [Procs -> Results]
    BY <1>1 DEF IInv, TypeOK, Results
  <2> QED
    BY <1>1, <2>1, <2>2, <2>3 DEF IInv, TypeOK
<1>3. Open' \subseteq Open
  BY <1>1 DEF Open, Inside, IInv, TypeOK
<1> QED
  BY <1>1, <1>2, <1>3, CoverKept DEF IInv

(* A step that ends in Exit and records nothing.                           *)
LEMMA ExitStep ==
  ASSUME IInv, NEW p \in Procs, NEW how \in Results, Exit(p, how),
         booked' = booked, real' \in Nat, lost' \in Nat, blind' \in Nat
  PROVE  IInv'
<1>1. TypeOK'
  BY ExitLemma DEF IInv, TypeOK
<1>2. Open' \subseteq Open
  BY ExitLemma DEF IInv
<1> QED
  BY <1>1, <1>2, CoverKept DEF IInv

(* The first check admits nobody.                                          *)
LEMMA FirstCheckStep ==
  ASSUME IInv, NEW p \in Procs, FirstCheck(p)
  PROVE  IInv'
<1>t. /\ real \in Nat /\ lost \in Nat /\ blind \in Nat /\ pc[p] = "opening"
      /\ UNCHANGED <<booked, real, lost>>
  BY DEF FirstCheck, IInv, TypeOK
<1>1. CASE /\ Goto(p, "preflight")
           /\ UNCHANGED <<ignore, spent, rec, result, short, blind>>
  <2>1. pc' = [pc EXCEPT ![p] = "preflight"]
    BY <1>1 DEF Goto
  <2>2. pc' \in [Procs -> {"off", "draining"} \cup Reading \cup Inside]
    BY <2>1 DEF IInv, TypeOK, Reading
  <2>3. TypeOK'
    BY <1>1, <1>t, <2>2 DEF IInv, TypeOK
  <2>4. Open' \subseteq Open
    BY <1>1, <2>1 DEF Open, Inside, IInv, TypeOK
  <2> QED
    BY <1>t, <2>3, <2>4, CoverKept DEF IInv
<1>2. CASE Exit(p, "budget") /\ UNCHANGED blind
  <2>1. "budget" \in Results
    BY DEF Results
  <2> QED
    BY <1>2, <1>t, <2>1, ExitStep
<1>3. CASE Exit(p, "failed") /\ blind' = blind + 1
  <2>1. "failed" \in Results /\ blind' \in Nat
    BY <1>3, <1>t DEF Results
  <2> QED
    BY <1>3, <1>t, <2>1, ExitStep
<1> QED
  BY <1>1, <1>2, <1>3 DEF FirstCheck

(* Who is admitted found room for the projection just now, and then every  *)
(* process may be in.                                                      *)
LEMMA SecondCheckStep ==
  ASSUME IInv, NEW p \in Procs, SecondCheck(p)
  PROVE  IInv'
<1>t. /\ real \in Nat /\ lost \in Nat /\ blind \in Nat /\ pc[p] = "preflight"
      /\ UNCHANGED <<booked, real, lost, blind>>
  BY DEF SecondCheck, IInv, TypeOK, history
<1>1. CASE (Projection <= Remaining \/ ignore[p]) /\ Admit(p)
  <2>1. /\ pc' = [pc EXCEPT ![p] = "running"]
        /\ UNCHANGED <<ignore, spent, rec, result, short>>
    BY <1>1 DEF Admit, Goto
  <2>2. pc' \in [Procs -> {"off", "draining"} \cup Reading \cup Inside]
    BY <2>1 DEF IInv, TypeOK, Inside
  <2>3. TypeOK'
    BY <1>t, <2>1, <2>2 DEF IInv, TypeOK
  <2>4. CASE ignore[p]
    <3>1. Open' \subseteq Open
      BY <2>1, <2>4 DEF Open, Inside, IInv, TypeOK
    <3> QED
      BY <1>t, <2>3, <3>1, CoverKept DEF IInv
  <2>5. CASE Projection <= Remaining
    <3>1. booked.plain \in Nat /\ booked.forced \in Nat
      BY DEF IInv, TypeOK
    <3>2. booked'.plain + Projection <= Cap
      BY <1>t, <2>5, <3>1, CrossRunAssumption DEF Remaining
    <3> QED
      BY <1>t, <2>3, <3>1, <3>2, CoverFresh DEF IInv
  <2> QED
    BY <1>1, <2>4, <2>5
<1>2. CASE Exit(p, "budget")
  <2>1. "budget" \in Results
    BY DEF Results
  <2> QED
    BY <1>2, <1>t, <2>1, ExitStep
<1> QED
  BY <1>1, <1>2 DEF SecondCheck

(* A charge below the ceiling is covered already.                          *)
LEMMA ChargeStep ==
  ASSUME IInv, NEW p \in Procs, Charge(p)
  PROVE  IInv'
<1>1. PICK c \in 1..Ceiling - spent[p] :
        /\ spent' = [spent EXCEPT ![p] = @ + c]
        /\ real' = IF ignore[p] THEN real ELSE real + c
  BY DEF Charge
<1>2. UNCHANGED <<pc, ignore, rec, result, short, booked, lost, blind>>
  BY DEF Charge
<1>3. spent[p] \in 0..Ceiling /\ real \in Nat
  BY DEF IInv, TypeOK
<1>4. spent[p] + c \in 0..Ceiling /\ real' \in Nat
  BY <1>1, <1>3, CrossRunAssumption
<1>5. spent' \in [Procs -> 0..Ceiling]
  BY <1>1, <1>4 DEF IInv, TypeOK
<1>6. TypeOK'
  BY <1>2, <1>4, <1>5 DEF IInv, TypeOK
<1>7. Open' \subseteq Open
  BY <1>2 DEF Open
<1> QED
  BY <1>2, <1>6, <1>7, CoverKept DEF IInv

(* A run that ends is still in until it has recorded.                      *)
LEMMA EndRunStep ==
  ASSUME IInv, NEW p \in Procs, EndRun(p)
  PROVE  IInv'
<1>1. PICK how \in {"merged", "failed", "budget"} :
        result' = [result EXCEPT ![p] = how]
  BY DEF EndRun
<1>2. /\ pc[p] = "running" /\ pc' = [pc EXCEPT ![p] = "settling"]
      /\ UNCHANGED <<ignore, spent, rec, short, booked, real, lost, blind>>
  BY DEF EndRun, Goto, history
<1>3. pc' \in [Procs -> {"off", "draining"} \cup Reading \cup Inside]
  BY <1>2 DEF IInv, TypeOK, Inside
<1>4. result' \in [Procs -> Results]
  BY <1>1 DEF IInv, TypeOK, Results
<1>5. TypeOK'
  BY <1>2, <1>3, <1>4 DEF IInv, TypeOK
<1>6. Open' \subseteq Open
  BY <1>2 DEF Open, Inside, IInv, TypeOK
<1> QED
  BY <1>2, <1>5, <1>6, CoverKept DEF IInv

(* A record moves at most one ceiling from the runs that are in to the     *)
(* books.                                                                  *)
LEMMA RecordStep ==
  ASSUME IInv, NEW p \in Procs, Record(p)
  PROVE  IInv'
<1>1. /\ pc[p] = "settling" /\ pc' = [pc EXCEPT ![p] = "draining"]
      /\ rec' = [rec EXCEPT ![p] = spent[p]]
      /\ UNCHANGED <<ignore, spent, result, short, real, lost, blind>>
  BY DEF Record, Book, Goto, history
<1>2. booked' = IF ignore[p] THEN [booked EXCEPT !.forced = @ + spent[p]]
                             ELSE [booked EXCEPT !.plain = @ + spent[p]]
  BY DEF Record, Book
<1>3. /\ spent[p] \in 0..Ceiling /\ booked \in [plain : Nat, forced : Nat]
      /\ ignore[p] \in BOOLEAN
  BY DEF IInv, TypeOK
<1>4. booked' \in [plain : Nat, forced : Nat]
  BY <1>2, <1>3, CrossRunAssumption
<1>5. pc' \in [Procs -> {"off", "draining"} \cup Reading \cup Inside]
  BY <1>1 DEF IInv, TypeOK
<1>6. rec' \in [Procs -> 0..Ceiling]
  BY <1>1, <1>3 DEF IInv, TypeOK
<1>7. TypeOK'
  BY <1>1, <1>4, <1>5, <1>6 DEF IInv, TypeOK
<1>8. Open' \subseteq Open \ {p}
  BY <1>1 DEF Open, Inside, IInv, TypeOK
<1>9. CASE ignore[p]
  <2>1. booked'.plain = booked.plain
    BY <1>2, <1>3, <1>9
  <2>2. Cardinality(Open') <= Cardinality(Open)
    BY <1>8, OpenCounted, FS_Subset
  <2>3. Cardinality(Open') * Ceiling <= Cardinality(Open) * Ceiling
    BY <2>2, OpenCounted, OpenCountedNext, ProductMonotone, CrossRunAssumption
  <2> QED
    <3>1. booked'.plain + Cardinality(Open') * Ceiling
            <= booked.plain + Cardinality(Open) * Ceiling
      BY <1>3, <2>1, <2>3, OpenCounted, OpenCountedNext, CrossRunAssumption
    <3> QED
      BY <1>3, <1>4, <1>7, <1>8, <3>1, CoverMoved DEF IInv
<1>10. CASE ~ignore[p]
  <2>1. booked'.plain = booked.plain + spent[p]
    BY <1>2, <1>3, <1>10
  <2>2. p \in Open
    BY <1>1, <1>10 DEF Open, Inside
  <2>3. Cardinality(Open \ {p}) = Cardinality(Open) - 1 /\ IsFiniteSet(Open \ {p})
    BY <2>2, OpenCounted, FS_RemoveElement
  <2>4. Cardinality(Open') <= Cardinality(Open) - 1
    BY <1>8, <2>3, FS_Subset
  <2>5. Cardinality(Open') + 1 \in Nat /\ Cardinality(Open') + 1 <= Cardinality(Open)
    BY <2>4, OpenCounted, OpenCountedNext
  <2>6. (Cardinality(Open') + 1) * Ceiling <= Cardinality(Open) * Ceiling
    BY <2>5, OpenCounted, ProductMonotone, CrossRunAssumption
  <2>7. (Cardinality(Open') + 1) * Ceiling = Cardinality(Open') * Ceiling + Ceiling
    BY OpenCountedNext, ProductSuccessor, CrossRunAssumption
  <2>8. Cardinality(Open') * Ceiling + Ceiling <= Cardinality(Open) * Ceiling
    BY <2>6, <2>7
  <2> QED
    <3>1. booked'.plain + Cardinality(Open') * Ceiling
            <= booked.plain + Cardinality(Open) * Ceiling
      <4>1. Cardinality(Open') * Ceiling \in Nat /\ Cardinality(Open) * Ceiling \in Nat
        BY OpenCounted, OpenCountedNext, CrossRunAssumption
      <4> QED
        BY <1>3, <2>1, <2>8, <4>1, CrossRunAssumption
    <3> QED
      BY <1>3, <1>4, <1>7, <1>8, <3>1, CoverMoved DEF IInv
<1> QED
  BY <1>3, <1>9, <1>10

(* A record that fails books nothing, and the run is out.                  *)
LEMMA RecordFailsStep ==
  ASSUME IInv, NEW p \in Procs, RecordFails(p)
  PROVE  IInv'
<1>1. Exit(p, "failed") /\ Missed(p) /\ UNCHANGED <<booked, real, blind>>
  BY DEF RecordFails
<1>2. real \in Nat /\ blind \in Nat /\ lost' \in Nat /\ "failed" \in Results
  BY <1>1, MissedType DEF IInv, TypeOK, Results
<1> QED
  BY <1>1, <1>2, ExitStep

(* A drained run was out already.                                          *)
LEMMA DrainedStep ==
  ASSUME IInv, NEW p \in Procs, Drained(p)
  PROVE  IInv'
<1>1. Exit(p, result[p]) /\ Missed(p) /\ UNCHANGED <<booked, real, blind>>
  BY DEF Drained
<1>2. real \in Nat /\ blind \in Nat /\ lost' \in Nat /\ result[p] \in Results
  BY <1>1, MissedType DEF IInv, TypeOK
<1> QED
  BY <1>1, <1>2, ExitStep

(* A killed run is out, and books nothing.                                 *)
LEMMA KillStep ==
  ASSUME IInv, NEW p \in Procs, Kill(p)
  PROVE  IInv'
<1>1. Exit(p, "failed") /\ Missed(p) /\ UNCHANGED <<booked, real>>
  BY DEF Kill
<1>2. blind' \in Nat
  BY DEF Kill, IInv, TypeOK
<1>3. real \in Nat /\ lost' \in Nat /\ "failed" \in Results
  BY <1>1, MissedType DEF IInv, TypeOK, Results
<1> QED
  BY <1>1, <1>2, <1>3, ExitStep

(* An empty window has room for whatever was admitted to the one before.   *)
LEMMA RolloverStep ==
  ASSUME IInv, Rollover
  PROVE  IInv'
<1>1. /\ booked' = [plain |-> 0, forced |-> 0] /\ real' = 0 /\ lost' = 0 /\ blind' = 0
      /\ UNCHANGED <<pc, ignore, spent, rec, result, short>>
  BY DEF Rollover, procs
<1>2. TypeOK'
  BY <1>1 DEF IInv, TypeOK
<1>3. Open' = Open
  BY <1>1 DEF Open
<1>4. CASE Open = {}
  BY <1>1, <1>2, <1>3, <1>4, CoverEmpty, CrossRunAssumption DEF IInv
<1>5. CASE Open # {}
  <2>1. booked'.plain + Projection <= Cap /\ booked'.plain \in Nat
    BY <1>1, <1>5, CrossRunAssumption DEF IInv, Covered
  <2> QED
    BY <1>2, <2>1, CoverFresh DEF IInv
<1> QED
  BY <1>4, <1>5

(* The invariant of the window is inductive.                               *)
LEMMA CrossStep == IInv /\ [Next]_vars => IInv'
<1> SUFFICES ASSUME IInv, [Next]_vars
             PROVE  IInv'
  OBVIOUS
<1>1. ASSUME NEW p \in Procs, Run(p)
      PROVE  IInv'
  BY <1>1, FirstCheckStep, SecondCheckStep, ChargeStep, EndRunStep, RecordStep,
     RecordFailsStep, DrainedStep, KillStep DEF Run
<1>2. ASSUME NEW p \in Procs, NEW flag \in BOOLEAN, Start(p, flag)
      PROVE  IInv'
  BY <1>2, StartStep
<1>3. CASE Rollover
  BY <1>3, RolloverStep
<1>4. CASE UNCHANGED vars
  <2>1. booked' = booked /\ Open' = Open
    BY <1>4 DEF vars, Open
  <2>2. TypeOK'
    BY <1>4 DEF vars, IInv, TypeOK
  <2> QED
    BY <2>1, <2>2, CoverKept DEF IInv
<1> QED
  BY <1>1, <1>2, <1>3, <1>4 DEF Next

(* The cover implies the bound on what is recorded.                        *)
LEMMA CoverMeansBound == IInv => OvershootBounded
<1> SUFFICES ASSUME IInv
             PROVE  OvershootBounded
  OBVIOUS
<1>1. /\ Cardinality(Open) * Ceiling \in Nat /\ Cardinality(Procs) * Ceiling \in Nat
      /\ booked.plain \in Nat
  BY OpenCounted, ProcsCounted, CrossRunAssumption DEF IInv, TypeOK
<1>2. booked.plain + Cardinality(Open) * Ceiling + Projection
        <= Cap + Cardinality(Procs) * Ceiling
  BY DEF IInv, Covered
<1>3. booked.plain + Projection <= Cap + Cardinality(Procs) * Ceiling
  BY <1>1, <1>2, CrossRunAssumption
<1> QED
  BY <1>3 DEF OvershootBounded

(* The inductive invariant of the window: types, and that every admitted   *)
(* run is covered as though its ceiling were recorded already.             *)
THEOREM CrossInvariant == Spec => []IInv
<1>1. Init => IInv
  BY CrossInit
<1>2. IInv /\ [Next]_vars => IInv'
  BY CrossStep
<1> QED
  BY <1>1, <1>2, PTL DEF Spec

(* cli._run checks the window without reserving: it is overdrawn by at     *)
(* most one ceiling per process at a time.                                 *)
THEOREM OvershootTheorem == Spec => []OvershootBounded
<1>1. IInv => OvershootBounded
  BY CoverMeansBound
<1> QED
  BY <1>1, CrossInvariant, PTL
-----------------------------------------------------------------------------
(* The benchmark script over the window                                    *)

(* What a step of one process does to itself when it exits.                *)
LEMMA ExitOf ==
  ASSUME TypeOK, NEW p \in Procs, NEW how \in Results, Exit(p, how)
  PROVE  /\ pc'[p] = "off" /\ result'[p] = how /\ ignore'[p] = FALSE
         /\ p \in short' <=> p \in short \/ Unrecorded(p)
  BY DEF Exit, Goto, TypeOK

(* ... and to every other process: nothing.                                *)
Same(q) == /\ pc'[q] = pc[q] /\ ignore'[q] = ignore[q] /\ spent'[q] = spent[q]
           /\ rec'[q] = rec[q] /\ result'[q] = result[q]
           /\ q \in short' <=> q \in short

(* A process that exits leaves the others alone.                           *)
LEMMA ExitFrame ==
  ASSUME TypeOK, NEW p \in Procs, NEW q \in Procs, q # p, NEW how, Exit(p, how)
  PROVE  Same(q)
<1>1. /\ pc'[q] = pc[q] /\ ignore'[q] = ignore[q] /\ spent'[q] = spent[q]
      /\ rec'[q] = rec[q] /\ result'[q] = result[q]
  BY DEF Exit, Goto, TypeOK
<1>2. q \in short' <=> q \in short
  BY DEF Exit
<1> QED
  BY <1>1, <1>2 DEF Same

(* A step of one process leaves the others alone.                          *)
LEMMA Frame ==
  ASSUME TypeOK, NEW p \in Procs, NEW q \in Procs, q # p,
         Run(p) \/ \E flag \in BOOLEAN : Start(p, flag)
  PROVE  Same(q)
<1>1. CASE FirstCheck(p)
  <2>1. CASE Exit(p, "budget") \/ Exit(p, "failed")
    BY <2>1, ExitFrame
  <2>2. CASE Goto(p, "preflight") /\ UNCHANGED <<ignore, spent, rec, result, short>>
    BY <2>2 DEF Goto, Same, TypeOK
  <2> QED
    BY <1>1, <2>1, <2>2 DEF FirstCheck
<1>2. CASE SecondCheck(p)
  <2>1. CASE Exit(p, "budget")
    BY <2>1, ExitFrame
  <2>2. CASE Admit(p)
    BY <2>2 DEF Admit, Goto, Same, TypeOK
  <2> QED
    BY <1>2, <2>1, <2>2 DEF SecondCheck
<1>3. CASE Charge(p)
  <2>1. spent'[q] = spent[q]
    BY <1>3 DEF Charge, TypeOK
  <2> QED
    BY <1>3, <2>1 DEF Charge, Same
<1>4. CASE EndRun(p)
  <2>1. pc'[q] = pc[q] /\ result'[q] = result[q]
    BY <1>4 DEF EndRun, Goto, TypeOK
  <2> QED
    BY <1>4, <2>1 DEF EndRun, Same
<1>5. CASE Record(p)
  <2>1. pc'[q] = pc[q] /\ rec'[q] = rec[q]
    BY <1>5 DEF Record, Book, Goto, TypeOK
  <2> QED
    BY <1>5, <2>1 DEF Record, Book, Same
<1>6. CASE RecordFails(p) \/ Drained(p) \/ Kill(p)
  BY <1>6, ExitFrame DEF RecordFails, Drained, Kill
<1>7. ASSUME NEW flag \in BOOLEAN, Start(p, flag)
      PROVE  Same(q)
  <2>1. pc'[q] = pc[q] /\ ignore'[q] = ignore[q] /\ result'[q] = result[q]
    BY <1>7 DEF Start, Goto, TypeOK
  <2>2. q \in short' <=> q \in short
    BY <1>7 DEF Start
  <2> QED
    BY <1>7, <2>1, <2>2 DEF Start, Same
<1> QED
  BY <1>1, <1>2, <1>3, <1>4, <1>5, <1>6, <1>7 DEF Run

(* No step but Start leads out of "off".                                   *)
LEMMA RunsAreOn ==
  ASSUME NEW p \in Procs, Run(p)
  PROVE  pc[p] # "off"
  BY DEF Run, FirstCheck, SecondCheck, Charge, EndRun, Record, RecordFails, Drained, Kill

(* Within a window the allowance shrinks and the failed reads add up.      *)
LEMMA Monotone ==
  ASSUME TypeOK, NEW p \in Procs, Run(p) \/ \E flag \in BOOLEAN : Start(p, flag)
  PROVE  Remaining' <= Remaining /\ blind' >= blind
<1>1. /\ booked \in [plain : Nat, forced : Nat] /\ blind \in Nat
      /\ spent[p] \in 0..Ceiling
  BY DEF TypeOK
<1>2. CASE booked' = booked /\ blind' \in {blind, blind + 1}
  BY <1>1, <1>2, CrossRunAssumption DEF Remaining
<1>3. CASE Record(p)
  <2>1. booked' = IF ignore[p] THEN [booked EXCEPT !.forced = @ + spent[p]]
                               ELSE [booked EXCEPT !.plain = @ + spent[p]]
    BY <1>3 DEF Record, Book
  <2>2. booked'.plain + booked'.forced = booked.plain + booked.forced + spent[p]
    BY <1>1, <2>1
  <2>3. blind' = blind
    BY <1>3 DEF Record, Book, history
  <2>4. booked' \in [plain : Nat, forced : Nat]
    BY <1>1, <2>1, CrossRunAssumption
  <2> QED
    BY <1>1, <2>2, <2>3, <2>4, CrossRunAssumption DEF Remaining
<1> QED
  BY <1>2, <1>3 DEF Run, FirstCheck, SecondCheck, Charge, EndRun, RecordFails, Drained,
     Kill, Start, history

(* No step of a process leaves a merged run short.                         *)
LEMMA SettledStep ==
  ASSUME TypeOK, Settled, NEW p \in Procs, Run(p) \/ \E flag \in BOOLEAN : Start(p, flag)
  PROVE  Settled'
<1>1. ASSUME NEW q \in Procs, q # p
      PROVE  /\ pc'[q] # "off" => q \notin short'
             /\ result'[q] = "merged" /\ pc'[q] = "off" => q \notin short'
             /\ result'[q] = "merged" /\ pc'[q] = "draining" => ~Unrecorded(q)'
  BY <1>1, Frame DEF Settled, Same, Unrecorded
<1>2. /\ pc'[p] # "off" => p \notin short'
      /\ result'[p] = "merged" /\ pc'[p] = "off" => p \notin short'
      /\ result'[p] = "merged" /\ pc'[p] = "draining" => ~Unrecorded(p)'
  <2>0. /\ pc[p] # "off" => p \notin short
        /\ result[p] = "merged" /\ pc[p] = "draining" => ~Unrecorded(p)
        /\ spent[p] \in 0..Ceiling
    BY DEF Settled, TypeOK
  <2>1. CASE Exit(p, "budget") \/ Exit(p, "failed")
    <3>1. CASE Exit(p, "budget")
      <4>1. "budget" \in Results
        BY DEF Results
      <4>2. pc'[p] = "off" /\ result'[p] = "budget"
        BY <3>1, <4>1, ExitOf
      <4> QED
        BY <4>2
    <3>2. CASE Exit(p, "failed")
      <4>1. "failed" \in Results
        BY DEF Results
      <4>2. pc'[p] = "off" /\ result'[p] = "failed"
        BY <3>2, <4>1, ExitOf
      <4> QED
        BY <4>2
    <3> QED
      BY <2>1, <3>1, <3>2
  <2>2. CASE FirstCheck(p) /\ Goto(p, "preflight") /\ UNCHANGED short
    BY <2>0, <2>2 DEF FirstCheck, Goto, TypeOK
  <2>3. CASE SecondCheck(p) /\ Admit(p)
    BY <2>0, <2>3 DEF SecondCheck, Admit, Goto, TypeOK
  <2>4. CASE Charge(p)
    <3>1. UNCHANGED <<pc, result, short>>
      BY <2>4 DEF Charge
    <3>2. pc[p] # "off" /\ (pc[p] = "draining" => result[p] # "merged")
      BY <2>4 DEF Charge
    <3> QED
      BY <2>0, <3>1, <3>2
  <2>5. CASE EndRun(p)
    <3>1. pc[p] = "running" /\ pc' = [pc EXCEPT ![p] = "settling"] /\ UNCHANGED short
      BY <2>5 DEF EndRun, Goto
    <3>2. pc'[p] = "settling"
      BY <3>1 DEF TypeOK
    <3> QED
      BY <2>0, <3>1, <3>2
  <2>6. CASE Record(p)
    <3>1. /\ pc[p] = "settling" /\ pc' = [pc EXCEPT ![p] = "draining"]
          /\ rec' = [rec EXCEPT ![p] = spent[p]] /\ UNCHANGED <<spent, short>>
      BY <2>6 DEF Record, Book, Goto
    <3>2. pc'[p] = "draining" /\ rec'[p] = spent[p] /\ spent'[p] = spent[p]
      BY <3>1 DEF TypeOK
    <3>3. ~Unrecorded(p)'
      BY <2>0, <3>2 DEF Unrecorded
    <3> QED
      BY <2>0, <3>1, <3>2, <3>3
  <2>7. CASE Drained(p)
    <3>1. Exit(p, result[p]) /\ pc[p] = "draining"
      BY <2>7 DEF Drained
    <3>2. result[p] \in Results
      BY DEF TypeOK
    <3> QED
      BY <2>0, <3>1, <3>2, ExitOf
  <2>8. ASSUME NEW flag \in BOOLEAN, Start(p, flag)
        PROVE  /\ pc'[p] = "opening" /\ p \notin short'
    BY <2>8 DEF Start, Goto, TypeOK
  <2> QED
    BY <2>1, <2>2, <2>3, <2>4, <2>5, <2>6, <2>7, <2>8
    DEF Run, FirstCheck, SecondCheck, RecordFails, Kill
<1> QED
  BY <1>1, <1>2 DEF Settled

(* A run without the override never gets it.                               *)
LEMMA IgnoreKept ==
  ASSUME TypeOK, NEW p \in Procs, Run(p), ~ignore[p]
  PROVE  ~ignore'[p]
<1>1. CASE UNCHANGED ignore
  BY <1>1
<1>2. ASSUME NEW how, Exit(p, how)
      PROVE  ~ignore'[p]
  BY <1>2 DEF Exit, TypeOK
<1>3. UNCHANGED ignore \/ (\E how \in {"budget", "failed", result[p]} : Exit(p, how))
  BY DEF Run, FirstCheck, SecondCheck, Admit, Charge, EndRun, Record, Book, RecordFails,
     Drained, Kill
<1> QED
  BY <1>1, <1>2, <1>3

(* A run that meets an exhausted window is refused, or fails to read it.   *)
LEMMA OpeningRefused ==
  ASSUME TypeOK, NEW p \in Procs, Run(p), pc[p] = "opening", Remaining <= 0, ~ignore[p]
  PROVE  (pc'[p] = "off" /\ result'[p] = "budget") \/ blind' = blind + 1
<1>0. Remaining \in Int
  BY CrossRunAssumption DEF Remaining, TypeOK
<1>1. CASE FirstCheck(p)
  <2>1. Exit(p, "budget") \/ blind' = blind + 1
    BY <1>0, <1>1 DEF FirstCheck
  <2>2. "budget" \in Results
    BY DEF Results
  <2>3. ASSUME Exit(p, "budget")
        PROVE  pc'[p] = "off" /\ result'[p] = "budget"
    BY <2>2, <2>3, ExitOf
  <2> QED
    BY <2>1, <2>3
<1>2. CASE Kill(p)
  BY <1>2 DEF Kill, Reading
<1> QED
  BY <1>1, <1>2 DEF Run, SecondCheck, Charge, EndRun, Record, RecordFails, Drained

(* A read that fails makes up for a run started in vain.                   *)
LEMMA Slack ==
  ASSUME NEW a \in Nat, NEW b \in Nat, NEW c \in Nat, a <= b + 1, c >= b
  PROVE  a <= c + 1 /\ (c >= b + 1 => a <= c)
  BY SMT

(* At first the script has started nothing and read nothing.               *)
LEMMA BenchInitial == BenchInit => BenchInv
<1> SUFFICES ASSUME BenchInit
             PROVE  BenchInv
  OBVIOUS
<1>1. IInv
  BY CrossInit DEF BenchInit
<1>2. BenchTypes
  <2>1. lines \in Seq(BOOLEAN)
    BY DEF BenchInit
  <2>2. task \in 1..Tasks /\ vain \in Nat
    BY BenchAssumption DEF BenchInit
  <2>3. stop \in BOOLEAN /\ patch \in BOOLEAN
    BY DEF BenchInit
  <2>4. at \in {"clone", "install", "wait", "probe", "write", "ended"}
    BY DEF BenchInit
  <2> QED
    BY <2>1, <2>2, <2>3, <2>4 DEF BenchTypes
<1>3. Settled
  BY DEF BenchInit, Init, Settled
<1>4. BillInv
  BY <1>3 DEF BenchInit, BillInv
<1>5. VainInv
  BY DEF BenchInit, Init, VainInv
<1> QED
  BY <1>1, <1>2, <1>4, <1>5 DEF BenchInv

(* The child of a task has a process slot.                                 *)
LEMMA TaskIsProc == ASSUME BenchTypes PROVE task \in Procs
  BY BenchAssumption DEF BenchTypes

(* A failed read is no step of a process: it only counts.                  *)
LEMMA BlindStep ==
  ASSUME IInv, Settled, UNCHANGED <<procs, booked, real, lost>>, blind' \in Nat
  PROVE  IInv' /\ Settled'
<1>1. UNCHANGED <<pc, ignore, spent, rec, result, short, booked, real, lost>>
  BY DEF procs
<1>2. TypeOK'
  BY <1>1 DEF IInv, TypeOK
<1>3. Open' \subseteq Open
  BY <1>1 DEF Open
<1>4. Settled'
  BY <1>1 DEF Settled, Unrecorded
<1> QED
  BY <1>1, <1>2, <1>3, <1>4, CoverKept DEF IInv

(* The processes beside the script: they leave what it has read alone.     *)
LEMMA ElsewhereStep ==
  ASSUME BenchInv, NEW p \in Procs, UNCHANGED bench,
         \/ Run(p)
         \/ p \notin task..Tasks /\ \E flag \in BOOLEAN : Start(p, flag)
  PROVE  BenchInv'
<1>u. UNCHANGED <<at, task, stop, patch, lines, vain>>
  BY DEF bench
<1>t. TypeOK /\ task \in Procs /\ task \in 1..Tasks /\ task \in task..Tasks
  BY TaskIsProc, BenchAssumption DEF BenchInv, IInv, BenchTypes
<1>1. IInv'
  BY CrossStep DEF BenchInv, Next
<1>2. BenchTypes'
  BY <1>u DEF BenchInv, BenchTypes
<1>3. Settled'
  BY <1>t, SettledStep DEF BenchInv, BillInv
<1>4. pc[task] = "off" => Same(task)
  <2>1. CASE p = task
    BY <1>t, <2>1, RunsAreOn
  <2>2. CASE p # task
    BY <1>t, <2>2, Frame
  <2> QED
    BY <2>1, <2>2
<1>5. BillInv'
  BY <1>u, <1>3, <1>4 DEF BenchInv, BillInv, Same
<1>6. at = "wait" => ~ignore'[task]
  <2>1. CASE p = task
    BY <1>t, <2>1, IgnoreKept DEF BenchInv, VainInv
  <2>2. CASE p # task
    BY <1>t, <2>2, Frame DEF BenchInv, VainInv, Same
  <2> QED
    BY <2>1, <2>2
<1>7. /\ Remaining' <= Remaining /\ blind' >= blind
      /\ Remaining \in Int /\ Remaining' \in Int /\ blind \in Nat /\ blind' \in Nat
      /\ vain \in Nat
  <2>1. Remaining' <= Remaining /\ blind' >= blind
    BY <1>t, Monotone
  <2>2. Remaining \in Int /\ blind \in Nat
    BY <1>t, CrossRunAssumption DEF Remaining, TypeOK
  <2>3. Remaining' \in Int /\ blind' \in Nat
    BY <1>1, CrossRunAssumption DEF Remaining, IInv, TypeOK
  <2> QED
    BY <2>1, <2>2, <2>3 DEF BenchInv, BenchTypes
<1>8. Refused => Refused' \/ blind' >= blind + 1
  <2> SUFFICES ASSUME Refused
               PROVE  Refused' \/ blind' >= blind + 1
    OBVIOUS
  <2>0. Remaining' <= 0
    BY <1>7 DEF Refused
  <2>1. CASE at = "probe"
    BY <1>u, <2>0, <2>1 DEF Refused
  <2>2. CASE at = "wait" /\ pc[task] = "off" /\ result[task] = "budget"
    BY <1>u, <1>4, <2>0, <2>2 DEF Refused, Same
  <2>3. CASE at = "wait" /\ pc[task] = "opening"
    <3>1. CASE p = task
      <4>1. Run(task)
        BY <1>t, <3>1
      <4>2. ~ignore[task] /\ Remaining <= 0
        BY <2>3 DEF BenchInv, VainInv, Refused
      <4>3. (pc'[task] = "off" /\ result'[task] = "budget") \/ blind' = blind + 1
        BY <1>t, <2>3, <4>1, <4>2, OpeningRefused
      <4> QED
        BY <1>u, <1>7, <2>0, <2>3, <4>3 DEF Refused
    <3>2. CASE p # task
      <4>1. Same(task)
        BY <1>t, <3>2, Frame
      <4> QED
        BY <1>u, <2>0, <2>3, <4>1 DEF Refused, Same
    <3> QED
      BY <3>1, <3>2
  <2> QED
    BY <2>1, <2>2, <2>3 DEF Refused
<1>9. vain <= blind \/ (vain <= blind + 1 /\ (stop \/ Refused))
  BY DEF BenchInv, VainInv
<1>10. vain' <= blind' \/ (vain' <= blind' + 1 /\ (stop' \/ Refused'))
  <2>1. CASE vain <= blind
    <3>1. vain' <= blind'
      BY <1>u, <1>7, <2>1
    <3> QED
      BY <3>1
  <2>2. CASE vain <= blind + 1 /\ stop
    <3>0. vain <= blind + 1
      BY <2>2
    <3>1. vain' <= blind' + 1 /\ (blind' >= blind + 1 => vain' <= blind')
      BY <1>u, <1>7, <3>0, Slack
    <3> QED
      BY <1>u, <2>2, <3>1
  <2>3. CASE vain <= blind + 1 /\ Refused
    <3>0. vain <= blind + 1
      BY Zenon, <2>3
    <3>1. vain' <= blind' + 1 /\ (blind' >= blind + 1 => vain' <= blind')
      BY <1>u, <1>7, <3>0, Slack
    <3>4. Refused
      BY <2>3
    <3>2. CASE blind' >= blind + 1
      <4>1. vain' <= blind'
        BY <3>1, <3>2
      <4> QED
        BY <4>1
    <3>3. CASE Refused'
      BY <3>1, <3>3
    <3> QED
      BY <1>8, <3>4, <3>2, <3>3
  <2> QED
    BY <1>9, <2>1, <2>2, <2>3
<1>11. VainInv'
  BY <1>u, <1>6, <1>10 DEF BenchInv, VainInv
<1> QED
  BY <1>1, <1>2, <1>5, <1>11 DEF BenchInv
(* The window and its processes as they were.                              *)
LEMMA QuietStep ==
  ASSUME BenchInv, UNCHANGED vars
  PROVE  /\ IInv' /\ Settled' /\ Remaining' = Remaining
         /\ UNCHANGED <<pc, ignore, result, short, blind>>
<1>1. /\ UNCHANGED <<pc, ignore, spent, rec, result, short, booked, real, lost, blind>>
  BY DEF vars
<1>2. blind \in Nat
  BY DEF BenchInv, IInv, TypeOK
<1>3. IInv' /\ Settled'
  BY <1>1, <1>2, BlindStep DEF BenchInv, BillInv, procs
<1>4. Remaining' = Remaining
  BY <1>1 DEF Remaining
<1> QED
  BY <1>1, <1>3, <1>4

(* Outside "wait" and "probe" nothing is refused.                          *)
LEMMA NotRefused ==
  ASSUME BenchInv, at \in {"clone", "install", "write"}, ~stop
  PROVE  vain <= blind
<1>1. ~Refused
  BY DEF Refused
<1>2. vain <= blind \/ (vain <= blind + 1 /\ (stop \/ Refused))
  BY DEF BenchInv, VainInv
<1> QED
  BY <1>1, <1>2

(* Neither the clone nor the installation touches the window.              *)
LEMMA CloneStep == ASSUME BenchInv, Clone \/ InstallRaises PROVE BenchInv'
<1>1. /\ at \in {"clone", "install"} /\ at' \in {"install", "write", "ended"}
      /\ UNCHANGED <<task, stop, patch, lines, vain>> /\ UNCHANGED vars
  BY DEF Clone, InstallRaises, loop
<1>2. /\ IInv' /\ Settled' /\ UNCHANGED <<pc, ignore, result, short, blind>>
  BY <1>1, QuietStep
<1>3. ~stop /\ ~patch
  BY <1>1 DEF BenchInv, VainInv, BillInv
<1>4. vain <= blind
  BY <1>1, <1>3, NotRefused
<1>5. BenchTypes'
  BY <1>1 DEF BenchInv, BenchTypes
<1>6. BillInv'
  BY <1>1, <1>2, <1>3 DEF BillInv
<1>7. VainInv'
  <2>1. vain' <= blind'
    BY <1>1, <1>2, <1>4
  <2>2. at' # "wait" /\ ~stop'
    BY <1>1, <1>3
  <2> QED
    BY <2>1, <2>2 DEF VainInv
<1> QED
  BY <1>2, <1>5, <1>6, <1>7 DEF BenchInv

(* A run may be started in vain, but then it is about to be refused.       *)
LEMMA LaunchStep == ASSUME BenchInv, Launch PROVE BenchInv'
<1>1. /\ at = "install" /\ at' = "wait" /\ Start(task, FALSE)
      /\ UNCHANGED <<task, stop, patch, lines>>
  BY DEF Launch, loop
<1>2. vain' = IF Remaining <= 0 THEN vain + 1 ELSE vain
  BY DEF Launch
<1>t. TypeOK /\ Settled /\ task \in Procs
  BY TaskIsProc DEF BenchInv, IInv, BillInv
<1>3. IInv'
  BY <1>1, <1>t, StartStep DEF BenchInv
<1>4. Settled'
  BY <1>1, <1>t, SettledStep
<1>5. ~stop /\ ~patch
  BY <1>1 DEF BenchInv, VainInv, BillInv
<1>6. vain <= blind
  BY <1>1, <1>5, NotRefused
<1>7. pc'[task] = "opening" /\ ignore'[task] = FALSE
  BY <1>1, <1>t DEF Start, Goto, TypeOK
<1>8. UNCHANGED <<booked, blind>>
  BY <1>1 DEF Start, history
<1>9. vain \in Nat /\ blind \in Nat /\ Remaining' = Remaining
  BY <1>8 DEF BenchInv, BenchTypes, IInv, TypeOK, Remaining
<1>10. BenchTypes'
  <2>1. vain' \in Nat
    BY <1>2, <1>9
  <2> QED
    BY <1>1, <2>1 DEF BenchInv, BenchTypes
<1>11. BillInv'
  BY <1>1, <1>4, <1>5 DEF BillInv
<1>12. VainInv'
  <2>1. CASE Remaining <= 0
    <3>1. vain' <= blind' + 1
      BY <1>2, <1>6, <1>8, <1>9, <2>1
    <3>2. Refused'
      BY <1>1, <1>7, <1>9, <2>1 DEF Refused
    <3> QED
      BY <1>1, <1>5, <1>7, <3>1, <3>2 DEF VainInv
  <2>2. CASE ~(Remaining <= 0)
    <3>1. vain' <= blind'
      BY <1>2, <1>6, <1>8, <2>2
    <3> QED
      BY <1>1, <1>5, <1>7, <3>1 DEF VainInv
  <2> QED
    BY <2>1, <2>2
<1> QED
  BY <1>3, <1>10, <1>11, <1>12 DEF BenchInv

(* The patch of a merged run owes nothing; a refused run is looked into.   *)
LEMMA ReapStep == ASSUME BenchInv, Reap PROVE BenchInv'
<1>1. /\ at = "wait" /\ pc[task] = "off" /\ at' \in {"probe", "write"}
      /\ UNCHANGED <<task, stop, lines, vain>> /\ UNCHANGED vars
  BY DEF Reap, Exited
<1>2. /\ IInv' /\ Settled' /\ Remaining' = Remaining
      /\ UNCHANGED <<pc, ignore, result, short, blind>>
  BY <1>1, QuietStep
<1>3. ~stop /\ ~patch /\ patch \in BOOLEAN
  BY <1>1 DEF BenchInv, VainInv, BillInv, BenchTypes
<1>4. task \in Procs
  BY TaskIsProc DEF BenchInv
<1>5. patch' \in BOOLEAN /\ (patch' => at' = "write" /\ result[task] = "merged")
  BY <1>3 DEF Reap
<1>6. BenchTypes'
  BY <1>1, <1>5 DEF BenchInv, BenchTypes
<1>7. BillInv'
  <2>1. patch' => at' = "write" /\ pc'[task'] = "off" /\ task' \notin short'
    BY <1>1, <1>2, <1>4, <1>5 DEF BenchInv, BillInv, Settled
  <2> QED
    BY <1>2, <2>1 DEF BillInv
<1>8. vain <= blind \/ (vain <= blind + 1 /\ Refused)
  BY <1>3 DEF BenchInv, VainInv
<1>9. Refused => at' = "probe" /\ Refused'
  BY <1>1, <1>2 DEF Refused, Reap
<1>10. VainInv'
  <2>1. vain' <= blind' \/ (vain' <= blind' + 1 /\ Refused')
    BY <1>1, <1>2, <1>8, <1>9
  <2> QED
    BY <1>1, <1>3, <2>1 DEF VainInv
<1> QED
  BY <1>2, <1>6, <1>7, <1>10 DEF BenchInv

(* A child that is killed or left alone before it has read the window is   *)
(* one read that never came.                                               *)
LEMMA TimeoutStep == ASSUME BenchInv, Timeout PROVE BenchInv'
<1>1. /\ at = "wait" /\ pc[task] # "off" /\ at' = "write"
      /\ UNCHANGED <<task, stop, patch, lines, vain>>
  BY DEF Timeout, loop, Exited
<1>t. TypeOK /\ Settled /\ task \in Procs /\ blind \in Nat /\ vain \in Nat
  BY TaskIsProc DEF BenchInv, IInv, TypeOK, BillInv, BenchTypes
<1>2. blind' = IF pc[task] \in Reading THEN blind + 1 ELSE blind
  BY DEF Timeout, Kill
<1>3. blind' \in Nat
  BY <1>t, <1>2
<1>4. IInv' /\ Settled'
  <2>1. CASE Kill(task)
    BY <1>t, <2>1, KillStep, SettledStep DEF BenchInv, Run
  <2>2. CASE UNCHANGED <<procs, booked, real, lost>>
    BY <1>t, <1>3, <2>2, BlindStep DEF BenchInv
  <2> QED
    BY <2>1, <2>2 DEF Timeout
<1>5. ~stop /\ ~patch
  BY <1>1 DEF BenchInv, VainInv, BillInv
<1>6. BenchTypes'
  BY <1>1 DEF BenchInv, BenchTypes
<1>7. BillInv'
  BY <1>1, <1>4, <1>5 DEF BillInv
<1>8. vain <= blind \/ (vain <= blind + 1 /\ Refused)
  BY <1>5 DEF BenchInv, VainInv
<1>9. Refused => pc[task] \in Reading
  BY <1>1 DEF Refused, Reading
<1>10. vain' <= blind'
  <2>1. CASE vain <= blind
    BY <1>1, <1>t, <1>2, <2>1
  <2>2. CASE vain <= blind + 1 /\ pc[task] \in Reading
    BY <1>1, <1>t, <1>2, <2>2
  <2> QED
    BY <1>8, <1>9, <2>1, <2>2
<1>11. VainInv'
  BY <1>1, <1>5, <1>10 DEF VainInv
<1> QED
  BY <1>4, <1>6, <1>7, <1>11 DEF BenchInv

(* The window is still exhausted, or this read fails too.                  *)
LEMMA ProbeStep == ASSUME BenchInv, Probe PROVE BenchInv'
<1>1. at = "probe" /\ at' = "write" /\ UNCHANGED <<task, patch, lines, vain>>
  BY DEF Probe
<1>t. TypeOK /\ Settled /\ blind \in Nat /\ vain \in Nat /\ Remaining \in Int
  BY CrossRunAssumption DEF BenchInv, IInv, TypeOK, BillInv, BenchTypes, Remaining
<1>2. ~stop /\ ~patch
  BY <1>1 DEF BenchInv, VainInv, BillInv
<1>3. vain <= blind \/ (vain <= blind + 1 /\ Remaining <= 0)
  BY <1>2 DEF BenchInv, VainInv, Refused
<1>4. CASE stop' = (Remaining <= 0) /\ UNCHANGED vars
  <2>1. IInv' /\ Settled' /\ blind' = blind
    BY <1>4, QuietStep
  <2>2. stop' \in BOOLEAN
    BY <1>4
  <2>3. BenchTypes'
    BY <1>1, <2>2 DEF BenchInv, BenchTypes
  <2>4. BillInv'
    BY <1>1, <1>2, <2>1 DEF BillInv
  <2>5. vain' <= blind' \/ (vain' <= blind' + 1 /\ stop')
    BY <1>1, <1>3, <1>4, <2>1
  <2>6. VainInv'
    BY <1>1, <2>5 DEF VainInv
  <2> QED
    BY <2>1, <2>3, <2>4, <2>6 DEF BenchInv
<1>5. CASE blind' = blind + 1 /\ stop' = FALSE /\ UNCHANGED <<procs, booked, real, lost>>
  <2>1. blind' \in Nat
    BY <1>t, <1>5
  <2>2. IInv' /\ Settled'
    BY <1>t, <1>5, <2>1, BlindStep DEF BenchInv
  <2>3. BenchTypes'
    BY <1>1, <1>5 DEF BenchInv, BenchTypes
  <2>4. BillInv'
    BY <1>1, <1>2, <2>2 DEF BillInv
  <2>5. vain <= blind + 1
    BY <1>t, <1>3
  <2>6. vain' <= blind'
    BY <1>1, <1>5, <2>5
  <2>7. VainInv'
    BY <1>1, <1>5, <2>6 DEF VainInv
  <2> QED
    BY <2>2, <2>3, <2>4, <2>7 DEF BenchInv
<1> QED
  BY <1>4, <1>5 DEF Probe

(* The line is written when the window has been looked into.               *)
LEMMA WriteStep == ASSUME BenchInv, Write PROVE BenchInv'
<1>1. /\ at = "write" /\ lines' = Append(lines, patch) /\ patch' = FALSE
      /\ UNCHANGED <<stop, vain>> /\ UNCHANGED vars
  BY DEF Write
<1>2. /\ IInv' /\ Settled' /\ UNCHANGED blind
  BY <1>1, QuietStep
<1>3. \/ at' = "ended" /\ task' = task
      \/ ~stop /\ at' = "clone" /\ task # Tasks /\ task' = task + 1
  BY DEF Write
<1>4. BenchTypes'
  <2>1. lines' \in Seq(BOOLEAN)
    BY <1>1 DEF BenchInv, BenchTypes
  <2>2. task' \in 1..Tasks
    BY <1>3, BenchAssumption DEF BenchInv, BenchTypes
  <2>3. at' \in {"clone", "install", "wait", "probe", "write", "ended"}
    BY <1>3
  <2>4. stop' \in BOOLEAN /\ patch' \in BOOLEAN /\ vain' \in Nat
    BY <1>1 DEF BenchInv, BenchTypes
  <2> QED
    BY <2>1, <2>2, <2>3, <2>4 DEF BenchTypes
<1>5. BillInv'
  BY <1>1, <1>2 DEF BillInv
<1>6. ~Refused
  BY <1>1 DEF Refused
<1>7. vain <= blind \/ (vain <= blind + 1 /\ stop)
  BY <1>6 DEF BenchInv, VainInv
<1>8. stop' => at' = "ended"
  BY <1>1, <1>3
<1>9. VainInv'
  <2>1. at' # "wait"
    BY <1>3
  <2>2. vain' <= blind' \/ (vain' <= blind' + 1 /\ stop')
    BY <1>1, <1>2, <1>7
  <2> QED
    BY <1>8, <2>1, <2>2 DEF VainInv
<1> QED
  BY <1>2, <1>4, <1>5, <1>9 DEF BenchInv

(* A new window starts the counts again.                                   *)
LEMMA NewWindowStep == ASSUME BenchInv, NewWindow PROVE BenchInv'
<1>1. /\ UNCHANGED <<at, task, stop, patch, lines>> /\ vain' = 0 /\ blind' = 0
      /\ UNCHANGED <<pc, ignore, spent, rec, result, short>>
  BY DEF NewWindow, Rollover, loop, procs
<1>2. IInv'
  BY RolloverStep DEF BenchInv, NewWindow
<1>3. Settled'
  BY <1>1 DEF BenchInv, BillInv, Settled, Unrecorded
<1>4. BenchTypes'
  BY <1>1 DEF BenchInv, BenchTypes
<1>5. BillInv'
  BY <1>1, <1>3 DEF BenchInv, BillInv
<1>6. vain' <= blind'
  BY <1>1
<1>7. VainInv'
  BY <1>1, <1>6 DEF BenchInv, VainInv
<1> QED
  BY <1>2, <1>4, <1>5, <1>7 DEF BenchInv

(* The invariant of the script over the window is inductive.               *)
LEMMA BenchStep == BenchInv /\ [BenchNext]_<<vars, bench>> => BenchInv'
<1> SUFFICES ASSUME BenchInv, [BenchNext]_<<vars, bench>>
             PROVE  BenchInv'
  OBVIOUS
<1>1. CASE Main
  BY <1>1, CloneStep, LaunchStep, ReapStep, TimeoutStep, ProbeStep, WriteStep DEF Main
<1>2. CASE Elsewhere
  BY <1>2, ElsewhereStep DEF Elsewhere
<1>3. CASE NewWindow
  BY <1>3, NewWindowStep
<1>4. CASE UNCHANGED <<vars, bench>>
  <2>1. /\ IInv' /\ Settled' /\ Remaining' = Remaining
        /\ UNCHANGED <<pc, ignore, result, short, blind>>
    BY <1>4, QuietStep
  <2>2. UNCHANGED <<at, task, stop, patch, lines, vain>>
    BY <1>4 DEF bench
  <2>3. BenchTypes'
    BY <2>2 DEF BenchInv, BenchTypes
  <2>4. BillInv'
    BY <2>1, <2>2 DEF BenchInv, BillInv
  <2>5. VainInv'
    BY <2>1, <2>2 DEF BenchInv, VainInv, Refused
  <2> QED
    BY <2>1, <2>3, <2>4, <2>5 DEF BenchInv
<1> QED
  BY <1>1, <1>2, <1>3, <1>4 DEF BenchNext

(* The inductive invariant of the window with the script at it.            *)
THEOREM BenchInvariant == BenchSpec => []BenchInv
<1>1. BenchInit => BenchInv
  BY BenchInitial
<1>2. BenchInv /\ [BenchNext]_<<vars, bench>> => BenchInv'
  BY BenchStep
<1> QED
  BY <1>1, <1>2, PTL DEF BenchSpec

(* The bound of the window holds under the script and its operators too.   *)
THEOREM BenchOvershoot == BenchSpec => []OvershootBounded
<1>1. BenchInv => OvershootBounded
  BY CoverMeansBound DEF BenchInv
<1> QED
  BY <1>1, BenchInvariant, PTL

(* main() stops when the window is exhausted: one more run at most, unless *)
(* a read failed.                                                          *)
THEOREM StopTheorem == BenchSpec => []StopsWhenExhausted
<1>1. BenchInv => StopsWhenExhausted
  <2> SUFFICES ASSUME BenchInv
               PROVE  vain <= 1 + blind
    BY DEF StopsWhenExhausted
  <2>1. vain \in Nat /\ blind \in Nat
    BY DEF BenchInv, BenchTypes, IInv, TypeOK
  <2>2. vain <= blind \/ vain <= blind + 1
    BY DEF BenchInv, VainInv
  <2> QED
    BY <2>1, <2>2
<1> QED
  BY <1>1, BenchInvariant, PTL

(* Every patch main() writes is of a run whose spend is all recorded.      *)
THEOREM BillTheorem == BenchSpec => []PatchIsBilled
<1>1. BenchInv => PatchIsBilled
  BY DEF BenchInv, BillInv, PatchIsBilled
<1> QED
  BY <1>1, BenchInvariant, PTL
-----------------------------------------------------------------------------
(* What the window's runs owe                                              *)

(* The sums over the processes are natural numbers.                        *)
LEMMA DebtTypes ==
  ASSUME TypeOK, DebtInv
  PROVE  /\ \A p \in Procs : Owed[p] \in 0..Ceiling
         /\ SumFunctionOnSet(Owed, Procs) \in Nat
         /\ lost * Ceiling \in Nat
<1>1. ASSUME NEW p \in Procs
      PROVE  Owed[p] \in 0..Ceiling
  <2>1. spent[p] \in 0..Ceiling /\ rec[p] \in 0..Ceiling /\ rec[p] <= spent[p]
    BY DEF TypeOK, DebtInv
  <2>2. Owed[p] = IF ignore[p] THEN 0 ELSE spent[p] - rec[p]
    BY DEF Owed
  <2>3. spent[p] - rec[p] \in 0..Ceiling /\ 0 \in 0..Ceiling
    BY <2>1, CrossRunAssumption
  <2>4. QED
    BY <2>2, <2>3
<1>2. \A p \in Procs : Owed[p] \in Nat
  BY <1>1, CrossRunAssumption
<1>3. IsFiniteSet(Procs)
  BY CrossRunAssumption
<1>4. SumFunctionOnSet(Owed, Procs) \in Nat
  BY <1>2, <1>3, SumNat
<1>5. lost * Ceiling \in Nat
  BY CrossRunAssumption DEF TypeOK
<1>6. QED
  BY <1>1, <1>4, <1>5

(* When one process moves, the debt changes by what it owes.               *)
LEMMA DebtOfOne ==
  ASSUME TypeOK, DebtInv, NEW p \in Procs, Owed'[p] \in Nat,
         \A q \in Procs \ {p} : Same(q)
  PROVE  /\ SumFunctionOnSet(Owed', Procs)
              = SumFunctionOnSet(Owed, Procs) - Owed[p] + Owed'[p]
         /\ \A q \in Procs \ {p} :
              /\ rec'[q] <= spent'[q]
              /\ pc'[q] \in Reading \cup {"off"} => spent'[q] = 0
              /\ pc'[q] \in Inside => rec'[q] = 0
<1> DEFINE owed_1 == Owed'
<1>1. \A q \in Procs \ {p} : owed_1[q] = Owed[q]
  BY DEF Same, Owed
<1>2. \A q \in Procs : Owed[q] \in Nat
  BY DebtTypes, CrossRunAssumption
<1>3. owed_1[p] \in Nat
  OBVIOUS
<1>4. \A q \in Procs \ {p} : /\ rec'[q] <= spent'[q]
                             /\ pc'[q] \in Reading \cup {"off"} => spent'[q] = 0
                             /\ pc'[q] \in Inside => rec'[q] = 0
  BY DEF Same, DebtInv
<1>5. IsFiniteSet(Procs)
  BY CrossRunAssumption
<1> HIDE DEF owed_1
<1>6. \A q \in Procs : Owed[q] \in Nat /\ owed_1[q] \in Nat
  BY <1>1, <1>2, <1>3
<1>7. SumFunctionOnSet(owed_1, Procs) = SumFunctionOnSet(Owed, Procs) - Owed[p] + owed_1[p]
  BY <1>1, <1>5, <1>6, SumChange
<1>8. QED
  BY <1>4, <1>7 DEF owed_1

(* A step of p keeps the books when what it adds to them, to its debt and  *)
(* to what is lost covers what it spends.                                  *)
LEMMA DebtMoved ==
  ASSUME TypeOK, DebtInv, NEW p \in Procs, \A q \in Procs \ {p} : Same(q),
         booked'.plain \in Nat, real' \in Nat, lost' \in Nat, Owed'[p] \in Nat,
         /\ rec'[p] <= spent'[p]
         /\ pc'[p] \in Reading \cup {"off"} => spent'[p] = 0
         /\ pc'[p] \in Inside => rec'[p] = 0,
         real' - real + Owed[p] + lost * Ceiling
           <= booked'.plain - booked.plain + Owed'[p] + lost' * Ceiling
  PROVE  DebtInv'
<1>1. /\ SumFunctionOnSet(Owed', Procs)
           = SumFunctionOnSet(Owed, Procs) - Owed[p] + Owed'[p]
      /\ \A q \in Procs \ {p} :
           /\ rec'[q] <= spent'[q]
           /\ pc'[q] \in Reading \cup {"off"} => spent'[q] = 0
           /\ pc'[q] \in Inside => rec'[q] = 0
  BY DebtOfOne
<1>c. Ceiling \in Nat /\ lost' * Ceiling \in Nat
  <2>1. Ceiling \in Nat
    BY CrossRunAssumption
  <2>2. QED
    BY <2>1, ProductType
<1>2. /\ SumFunctionOnSet(Owed, Procs) \in Nat /\ Owed[p] \in 0..Ceiling
      /\ lost * Ceiling \in Nat /\ lost' * Ceiling \in Nat
      /\ booked.plain \in Nat /\ real \in Nat
  BY <1>c, DebtTypes DEF TypeOK
<1>3. real <= booked.plain + SumFunctionOnSet(Owed, Procs) + lost * Ceiling
  BY DEF DebtInv
<1>4. real' <= booked'.plain + SumFunctionOnSet(Owed', Procs) + lost' * Ceiling
  BY <1>c, <1>1, <1>2, <1>3
<1>5. \A q \in Procs : /\ rec'[q] <= spent'[q]
                       /\ pc'[q] \in Reading \cup {"off"} => spent'[q] = 0
                       /\ pc'[q] \in Inside => rec'[q] = 0
  BY <1>1
<1>6. QED
  BY <1>4, <1>5 DEF DebtInv

(* A run that exits owes nothing any more; what it did not record is lost. *)
LEMMA DebtExit ==
  ASSUME TypeOK, DebtInv, NEW p \in Procs, NEW how \in Results, Exit(p, how),
         \A q \in Procs \ {p} : Same(q), UNCHANGED <<booked, real>>,
         Missed(p) \/ (spent[p] = 0 /\ UNCHANGED lost)
  PROVE  DebtInv'
<1>1. pc'[p] = "off" /\ ignore'[p] = FALSE /\ spent'[p] = 0 /\ rec'[p] = 0
  BY DEF Exit, Goto, TypeOK
<1>2. Owed'[p] = 0
  BY <1>1 DEF Owed
<1>3. /\ real \in Nat /\ booked.plain \in Nat /\ lost \in Nat /\ Owed[p] \in 0..Ceiling
      /\ lost * Ceiling \in Nat
  BY DebtTypes DEF TypeOK
<1>4. spent[p] \in 0..Ceiling /\ rec[p] \in 0..Ceiling /\ rec[p] <= spent[p]
  BY DEF TypeOK, DebtInv
<1>5. Owed[p] > 0 => Unrecorded(p)
  BY <1>4, CrossRunAssumption DEF Owed, Unrecorded
<1>6. lost' \in Nat /\ Owed[p] + lost * Ceiling <= lost' * Ceiling
  <2>1. CASE lost' = lost + 1
    <3>1. lost' * Ceiling = lost * Ceiling + Ceiling
      BY <1>3, <2>1, ProductSuccessor, CrossRunAssumption
    <3>2. QED
      BY <1>3, <2>1, <3>1, CrossRunAssumption
  <2>2. CASE lost' = lost /\ Owed[p] = 0
    BY <1>3, <2>2, CrossRunAssumption
  <2>3. CASE Missed(p)
    <3>1. lost' = IF Unrecorded(p) THEN lost + 1 ELSE lost
      BY <2>3 DEF Missed
    <3>2. Unrecorded(p) \/ Owed[p] = 0
      BY <1>3, <1>5, CrossRunAssumption
    <3>3. QED
      BY <2>1, <2>2, <3>1, <3>2
  <2>4. CASE spent[p] = 0 /\ UNCHANGED lost
    <3>1. Owed[p] = 0
      BY <1>4, <2>4, CrossRunAssumption DEF Owed
    <3>2. QED
      BY <2>2, <2>4, <3>1
  <2>5. QED
    BY <2>3, <2>4
<1>7. lost' * Ceiling \in Nat
  <2>1. Ceiling \in Nat
    BY CrossRunAssumption
  <2>2. QED
    BY <1>6, <2>1, ProductType
<1>8. real' - real + Owed[p] + lost * Ceiling
        <= booked'.plain - booked.plain + Owed'[p] + lost' * Ceiling
  BY <1>2, <1>3, <1>6, <1>7, CrossRunAssumption
<1>9. /\ rec'[p] <= spent'[p]
      /\ pc'[p] \in Reading \cup {"off"} => spent'[p] = 0
      /\ pc'[p] \in Inside => rec'[p] = 0
  BY <1>1
<1>10. booked'.plain \in Nat /\ real' \in Nat /\ Owed'[p] \in Nat
  BY <1>2, <1>3
<1>11. QED
  BY <1>6, <1>8, <1>9, <1>10, DebtMoved

(* A step that moves no money: the run only gets on, or starts.            *)
LEMMA DebtQuiet ==
  ASSUME TypeOK, DebtInv, NEW p \in Procs, \A q \in Procs \ {p} : Same(q),
         UNCHANGED <<spent, rec, booked, real, lost>>,
         pc'[p] \in Reading \cup {"off"} => spent[p] = 0,
         pc'[p] \in Inside => rec[p] = 0,
         ignore'[p] = ignore[p] \/ spent[p] = 0
  PROVE  DebtInv'
<1>1. spent[p] \in 0..Ceiling /\ rec[p] \in 0..Ceiling /\ rec[p] <= spent[p]
  BY DEF TypeOK, DebtInv
<1>2. Owed'[p] = IF ignore'[p] THEN 0 ELSE spent[p] - rec[p]
  BY DEF Owed
<1>3. Owed[p] = IF ignore[p] THEN 0 ELSE spent[p] - rec[p]
  BY DEF Owed
<1>4. spent[p] = 0 => spent[p] - rec[p] = 0
  BY <1>1, CrossRunAssumption
<1>5. Owed'[p] = Owed[p]
  BY <1>2, <1>3, <1>4
<1>6. /\ real \in Nat /\ booked.plain \in Nat /\ lost \in Nat /\ Owed[p] \in 0..Ceiling
      /\ lost * Ceiling \in Nat
  BY DebtTypes DEF TypeOK
<1>7. /\ real' \in Nat /\ booked'.plain \in Nat /\ lost' \in Nat /\ Owed'[p] \in Nat
      /\ real' - real + Owed[p] + lost * Ceiling
           <= booked'.plain - booked.plain + Owed'[p] + lost' * Ceiling
  BY <1>5, <1>6, CrossRunAssumption
<1>8. /\ rec'[p] <= spent'[p]
      /\ pc'[p] \in Reading \cup {"off"} => spent'[p] = 0
      /\ pc'[p] \in Inside => rec'[p] = 0
  BY <1>1
<1>9. QED
  BY <1>7, <1>8, DebtMoved

(* What a run charges is charged to the window and to the run's own debt.  *)
LEMMA DebtCharge ==
  ASSUME TypeOK, DebtInv, NEW p \in Procs, \A q \in Procs \ {p} : Same(q), Charge(p)
  PROVE  DebtInv'
<1>1. PICK c \in 1..Ceiling - spent[p] :
        /\ spent' = [spent EXCEPT ![p] = @ + c]
        /\ real' = IF ignore[p] THEN real ELSE real + c
  BY DEF Charge
<1>2. /\ UNCHANGED <<pc, ignore, rec, booked, lost>>
      /\ pc[p] \in {"running", "settling", "draining"}
  BY DEF Charge
<1>3. spent[p] \in 0..Ceiling /\ rec[p] \in 0..Ceiling /\ rec[p] <= spent[p]
  BY DEF TypeOK, DebtInv
<1>4. c \in Nat /\ spent'[p] = spent[p] + c /\ ignore'[p] = ignore[p] /\ rec'[p] = rec[p]
  BY <1>1, <1>2, <1>3, CrossRunAssumption DEF TypeOK
<1>5. Owed[p] = IF ignore[p] THEN 0 ELSE spent[p] - rec[p]
  BY DEF Owed
<1>6. Owed'[p] = IF ignore[p] THEN 0 ELSE spent[p] + c - rec[p]
  <2>1. Owed'[p] = IF ignore'[p] THEN 0 ELSE spent'[p] - rec'[p]
    BY DEF Owed
  <2>2. spent'[p] - rec'[p] = spent[p] + c - rec[p]
    BY <1>3, <1>4, CrossRunAssumption
  <2>3. QED
    BY <1>2, <2>1, <2>2
<1>7. /\ real \in Nat /\ booked.plain \in Nat /\ lost \in Nat /\ Owed[p] \in 0..Ceiling
      /\ lost * Ceiling \in Nat
  BY DebtTypes DEF TypeOK
<1>8. Owed'[p] \in Nat /\ real' \in Nat /\ real' - real + Owed[p] = Owed'[p]
  <2>1. CASE ignore[p]
    BY <1>1, <1>5, <1>6, <1>7, <2>1
  <2>2. CASE ~ignore[p]
    BY <1>1, <1>3, <1>4, <1>5, <1>6, <1>7, <2>2, CrossRunAssumption
  <2>3. QED
    BY <2>1, <2>2
<1>9. /\ booked'.plain \in Nat /\ lost' \in Nat
      /\ real' - real + Owed[p] + lost * Ceiling
           <= booked'.plain - booked.plain + Owed'[p] + lost' * Ceiling
  BY <1>2, <1>7, <1>8, CrossRunAssumption
<1>10. rec'[p] <= spent'[p]
  BY <1>3, <1>4, CrossRunAssumption
<1>11. /\ pc'[p] \in Reading \cup {"off"} => spent'[p] = 0
       /\ pc'[p] \in Inside => rec'[p] = 0
  BY <1>2 DEF DebtInv, Reading
<1>12. QED
  BY <1>8, <1>9, <1>10, <1>11, DebtMoved

(* A record turns the debt of the run into rows.                           *)
LEMMA DebtRecord ==
  ASSUME TypeOK, DebtInv, NEW p \in Procs, \A q \in Procs \ {p} : Same(q), Record(p)
  PROVE  DebtInv'
<1>1. /\ pc[p] = "settling" /\ pc'[p] = "draining" /\ rec'[p] = spent[p]
      /\ UNCHANGED <<ignore, spent, real, lost>>
  BY DEF Record, Book, Goto, history, TypeOK
<1>2. booked' = IF ignore[p] THEN [booked EXCEPT !.forced = @ + spent[p]]
                             ELSE [booked EXCEPT !.plain = @ + spent[p]]
  BY DEF Record, Book
<1>3. /\ spent[p] \in 0..Ceiling /\ rec[p] = 0
      /\ booked \in [plain : Nat, forced : Nat]
  BY <1>1 DEF TypeOK, DebtInv, Inside
<1>4. Owed[p] = IF ignore[p] THEN 0 ELSE spent[p]
  BY <1>3, CrossRunAssumption DEF Owed
<1>5. spent[p] - spent[p] = 0
  BY <1>3, CrossRunAssumption
<1>6. Owed'[p] = 0
  BY <1>1, <1>5 DEF Owed
<1>7. booked'.plain = IF ignore[p] THEN booked.plain ELSE booked.plain + spent[p]
  BY <1>2, <1>3
<1>8. booked'.plain = booked.plain + Owed[p]
  BY <1>3, <1>4, <1>7, CrossRunAssumption
<1>9. /\ real \in Nat /\ booked.plain \in Nat /\ lost \in Nat /\ Owed[p] \in 0..Ceiling
      /\ lost * Ceiling \in Nat
  BY DebtTypes DEF TypeOK
<1>10. /\ real' \in Nat /\ booked'.plain \in Nat /\ lost' \in Nat /\ Owed'[p] \in Nat
       /\ real' - real + Owed[p] + lost * Ceiling
            <= booked'.plain - booked.plain + Owed'[p] + lost' * Ceiling
  BY <1>1, <1>6, <1>8, <1>9, CrossRunAssumption
<1>11. /\ rec'[p] <= spent'[p]
       /\ pc'[p] \in Reading \cup {"off"} => spent'[p] = 0
       /\ pc'[p] \in Inside => rec'[p] = 0
  BY <1>1, <1>3, CrossRunAssumption DEF Reading, Inside
<1>12. QED
  BY <1>10, <1>11, DebtMoved

(* Every step of one process keeps the books of the window.                *)
LEMMA DebtOfProcess ==
  ASSUME TypeOK, DebtInv, NEW p \in Procs, Run(p) \/ \E flag \in BOOLEAN : Start(p, flag)
  PROVE  DebtInv'
<1>f. \A q \in Procs \ {p} : Same(q)
  BY Frame
<1>t. /\ result[p] \in Results /\ "budget" \in Results /\ "failed" \in Results
      /\ pc[p] \in Reading \cup {"off"} => spent[p] = 0
      /\ pc[p] \in Inside => rec[p] = 0
      /\ spent[p] \in 0..Ceiling /\ rec[p] \in 0..Ceiling /\ rec[p] <= spent[p]
  BY DEF TypeOK, Results, DebtInv
<1>0. pc[p] \in Reading \cup {"off"} => rec[p] = 0
  BY <1>t, CrossRunAssumption
<1>1. CASE FirstCheck(p)
  <2>1. pc[p] = "opening" /\ spent[p] = 0 /\ UNCHANGED <<booked, real, lost>>
    BY <1>1, <1>t DEF FirstCheck, Reading
  <2>2. CASE Exit(p, "budget") \/ Exit(p, "failed")
    BY <1>f, <1>t, <2>1, <2>2, DebtExit
  <2>3. CASE Goto(p, "preflight") /\ UNCHANGED <<ignore, spent, rec>>
    <3>1. pc'[p] = "preflight"
      BY <2>3 DEF Goto, TypeOK
    <3>2. QED
      BY <1>f, <2>1, <2>3, <3>1, DebtQuiet DEF Inside
  <2>4. QED
    BY <1>1, <2>2, <2>3 DEF FirstCheck
<1>2. CASE SecondCheck(p)
  <2>1. pc[p] = "preflight" /\ UNCHANGED <<booked, real, lost>>
    BY <1>2 DEF SecondCheck, history
  <2>2. spent[p] = 0 /\ rec[p] = 0
    BY <1>0, <1>t, <2>1 DEF Reading
  <2>3. CASE Exit(p, "budget")
    BY <1>f, <1>t, <2>1, <2>2, <2>3, DebtExit
  <2>4. CASE Admit(p)
    <3>1. UNCHANGED <<ignore, spent, rec>>
      BY <2>4 DEF Admit
    <3>2. QED
      BY <1>f, <2>1, <2>2, <3>1, DebtQuiet
  <2>5. QED
    BY <1>2, <2>3, <2>4 DEF SecondCheck
<1>3. CASE Charge(p)
  BY <1>3, <1>f, DebtCharge
<1>4. CASE EndRun(p)
  <2>1. /\ pc[p] = "running" /\ pc'[p] = "settling"
        /\ UNCHANGED <<ignore, spent, rec, booked, real, lost>>
    BY <1>4 DEF EndRun, Goto, history, TypeOK
  <2>2. rec[p] = 0
    BY <1>t, <2>1 DEF Inside
  <2>3. QED
    BY <1>f, <2>1, <2>2, DebtQuiet DEF Reading
<1>5. CASE Record(p)
  BY <1>5, <1>f, DebtRecord
<1>6. CASE RecordFails(p) \/ Drained(p) \/ Kill(p)
  <2>1. PICK how \in {"failed", result[p]} : Exit(p, how)
    BY <1>6 DEF RecordFails, Drained, Kill
  <2>2. Missed(p) /\ UNCHANGED <<booked, real>>
    BY <1>6 DEF RecordFails, Drained, Kill
  <2>3. how \in Results
    BY <1>t
  <2>4. QED
    BY <1>f, <2>1, <2>2, <2>3, DebtExit
<1>7. ASSUME NEW flag \in BOOLEAN, Start(p, flag)
      PROVE  DebtInv'
  <2>1. /\ pc[p] = "off" /\ pc'[p] = "opening"
        /\ UNCHANGED <<spent, rec, booked, real, lost>>
    BY <1>7 DEF Start, Goto, history, TypeOK
  <2>2. spent[p] = 0
    BY <1>t, <2>1
  <2>3. QED
    BY <1>f, <2>1, <2>2, DebtQuiet DEF Inside
<1>8. QED
  BY <1>1, <1>2, <1>3, <1>4, <1>5, <1>6, <1>7 DEF Run

(* What the books speak of is as it was.                                   *)
LEMMA DebtSame ==
  ASSUME DebtInv, UNCHANGED <<pc, ignore, spent, rec, booked, real, lost>>
  PROVE  DebtInv'
<1>1. Owed' = Owed
  BY DEF Owed
<1>2. QED
  BY <1>1 DEF DebtInv

(* At first everything charged is in the books.                            *)
LEMMA DebtInit == Init => DebtInv
<1> SUFFICES ASSUME Init
             PROVE  DebtInv
  OBVIOUS
<1>1. /\ \A p \in Procs : pc[p] = "off" /\ spent[p] = 0 /\ rec[p] = 0
      /\ booked.plain \in 0..Cap /\ real = booked.plain /\ lost = 0
  BY DEF Init
<1>2. \A p \in Procs : Owed[p] = 0
  BY <1>1 DEF Owed
<1>3. SumFunctionOnSet(Owed, Procs) = 0
  BY <1>2, SumZero, CrossRunAssumption
<1>4. lost * Ceiling = 0
  BY <1>1, CrossRunAssumption
<1>5. real <= booked.plain + SumFunctionOnSet(Owed, Procs) + lost * Ceiling
  BY <1>1, <1>3, <1>4, CrossRunAssumption
<1>6. QED
  BY <1>1, <1>5 DEF DebtInv, Inside

(* Every step keeps the books, and so does a failed read of the script.    *)
LEMMA DebtStep ==
  ASSUME IInv, IInv', DebtInv, [Next]_vars
  PROVE  DebtInv'
<1>1. TypeOK /\ TypeOK'
  BY DEF IInv
<1>2. ASSUME NEW p \in Procs, Run(p) \/ \E flag \in BOOLEAN : Start(p, flag)
      PROVE  DebtInv'
  BY <1>1, <1>2, DebtOfProcess
<1>3. CASE Rollover
  <2>1. /\ booked' = [plain |-> 0, forced |-> 0] /\ real' = 0 /\ lost' = 0
        /\ UNCHANGED <<pc, ignore, spent, rec>>
    BY <1>3 DEF Rollover, procs
  <2>2. SumFunctionOnSet(Owed, Procs) \in Nat
    BY <1>1, DebtTypes
  <2>3. Owed' = Owed
    BY <2>1 DEF Owed
  <2>4. lost' * Ceiling = 0
    BY <2>1, CrossRunAssumption
  <2>5. real' <= booked'.plain + SumFunctionOnSet(Owed', Procs) + lost' * Ceiling
    BY <2>1, <2>2, <2>3, <2>4
  <2>6. QED
    BY <2>1, <2>5 DEF DebtInv
<1>4. CASE UNCHANGED vars
  BY <1>4, DebtSame DEF vars
<1>5. QED
  BY <1>2, <1>3, <1>4 DEF Next

(* The books and the cover together bound what the window really costs:    *)
(* only runs that are in, or still draining, owe anything.                 *)
LEMMA DebtMeansBound == IInv /\ DebtInv => RealSpendBounded
<1> DEFINE late == {p \in Procs : pc[p] = "draining" /\ Unrecorded(p)}
<1> SUFFICES ASSUME IInv, DebtInv
             PROVE  RealSpendBounded
  OBVIOUS
<1>1. TypeOK /\ Covered
  BY DEF IInv
<1>2. late \subseteq Procs /\ Open \subseteq Procs /\ IsFiniteSet(Procs)
  BY CrossRunAssumption DEF Open
<1>3. /\ IsFiniteSet(late) /\ IsFiniteSet(Open)
      /\ Cardinality(late) \in Nat /\ Cardinality(Open) \in Nat
  BY <1>2, FS_Subset, FS_CardinalityType
<1>4. /\ IsFiniteSet(Open \cup late)
      /\ Cardinality(Open \cup late) \in Nat
      /\ Cardinality(Open \cup late) <= Cardinality(Open) + Cardinality(late)
  <2>1. /\ IsFiniteSet(Open \cup late)
        /\ Cardinality(Open \cup late)
             = Cardinality(Open) + Cardinality(late) - Cardinality(Open \cap late)
    BY <1>3, FS_Union
  <2>2. Cardinality(Open \cap late) \in Nat /\ Cardinality(Open \cup late) \in Nat
    BY <1>3, <2>1, FS_Intersection, FS_CardinalityType
  <2>3. QED
    BY <1>3, <2>1, <2>2
<1>5. ASSUME NEW p \in Procs
      PROVE  Owed[p] \in Nat /\ Owed[p] <= IF p \in Open \cup late THEN Ceiling ELSE 0
  <2>1. Owed[p] \in 0..Ceiling
    BY <1>1, DebtTypes
  <2>2. /\ spent[p] \in 0..Ceiling /\ rec[p] \in 0..Ceiling /\ rec[p] <= spent[p]
        /\ pc[p] \in {"off", "draining"} \cup Reading \cup Inside
    BY <1>1 DEF TypeOK, DebtInv
  <2>3. CASE p \in Open \cup late
    BY <2>1, <2>3, CrossRunAssumption
  <2>4. CASE p \notin Open \cup late
    <3>1. ignore[p] \/ pc[p] \in Reading \cup {"off"} \/ ~(spent[p] > rec[p])
      BY <2>2, <2>4 DEF Open, Unrecorded
    <3>2. pc[p] \in Reading \cup {"off"} => spent[p] = 0
      BY DEF DebtInv
    <3>3. ignore[p] \/ spent[p] = rec[p]
      BY <2>2, <3>1, <3>2, CrossRunAssumption
    <3>4. spent[p] - spent[p] = 0
      BY <2>2, CrossRunAssumption
    <3>5. Owed[p] = 0
      BY <3>3, <3>4 DEF Owed
    <3>6. QED
      BY <2>4, <3>5
  <2>5. QED
    BY <2>3, <2>4
<1> HIDE DEF late
<1>6. SumFunctionOnSet(Owed, Procs) <= Ceiling * Cardinality(Open \cup late)
  <2>1. Open \cup late \in SUBSET Procs
    BY <1>2
  <2>2. Ceiling \in Nat
    BY CrossRunAssumption
  <2>3. QED
    BY <1>2, <1>5, <2>1, <2>2, SumBound
<1>7. /\ lost \in Nat /\ real \in Nat /\ booked.plain \in Nat
      /\ Cardinality(Procs) \in Nat /\ Ceiling \in Nat /\ Projection \in Nat /\ Cap \in Nat
  BY <1>1, ProcsCounted, CrossRunAssumption DEF TypeOK
<1>8. /\ Cardinality(Open) * Ceiling \in Nat /\ Cardinality(late) * Ceiling \in Nat
      /\ Cardinality(Procs) * Ceiling \in Nat /\ lost * Ceiling \in Nat
      /\ SumFunctionOnSet(Owed, Procs) \in Nat
  BY <1>1, <1>3, <1>7, DebtTypes
<1>9. Ceiling * Cardinality(Open \cup late)
        <= Cardinality(Open) * Ceiling + Cardinality(late) * Ceiling
  <2>1. Ceiling * Cardinality(Open \cup late) = Cardinality(Open \cup late) * Ceiling
    BY <1>4, <1>7, ProductSwap
  <2>2. Cardinality(Open \cup late) * Ceiling
          <= (Cardinality(Open) + Cardinality(late)) * Ceiling
    BY <1>3, <1>4, <1>7, ProductMonotone
  <2>3. (Cardinality(Open) + Cardinality(late)) * Ceiling
          = Cardinality(Open) * Ceiling + Cardinality(late) * Ceiling
    BY <1>3, <1>7, ProductSum
  <2>4. QED
    BY <2>1, <2>2, <2>3
<1>10. (Cardinality(Procs) + Cardinality(late) + lost) * Ceiling
         = Cardinality(Procs) * Ceiling + Cardinality(late) * Ceiling + lost * Ceiling
  <2>1. Cardinality(Procs) + Cardinality(late) \in Nat
    BY <1>3, <1>7
  <2>2. (Cardinality(Procs) + Cardinality(late) + lost) * Ceiling
          = (Cardinality(Procs) + Cardinality(late)) * Ceiling + lost * Ceiling
    BY <1>7, <2>1, ProductSum
  <2>3. (Cardinality(Procs) + Cardinality(late)) * Ceiling
          = Cardinality(Procs) * Ceiling + Cardinality(late) * Ceiling
    BY <1>3, <1>7, ProductSum
  <2>4. QED
    BY <2>2, <2>3
<1>11. real <= booked.plain + SumFunctionOnSet(Owed, Procs) + lost * Ceiling
  BY DEF DebtInv
<1>12. booked.plain + Cardinality(Open) * Ceiling + Projection
         <= Cap + Cardinality(Procs) * Ceiling
  BY <1>1 DEF Covered
<1>13. SumFunctionOnSet(Owed, Procs)
         <= Cardinality(Open) * Ceiling + Cardinality(late) * Ceiling
  <2>1. Cardinality(Open \cup late) \in Nat /\ Ceiling * Cardinality(Open \cup late) \in Nat
    BY <1>4, <1>7
  <2>2. QED
    BY <1>6, <1>8, <1>9, <2>1
<1>14. real + Projection
         <= Cap + (Cardinality(Procs) * Ceiling + Cardinality(late) * Ceiling + lost * Ceiling)
  BY <1>7, <1>8, <1>11, <1>12, <1>13
<1>15. real + Projection <= Cap + (Cardinality(Procs) + Cardinality(late) + lost) * Ceiling
  BY <1>10, <1>14
<1>16. QED
  BY <1>15 DEF RealSpendBounded, late

(* The books of the window: what it costs is recorded, owed by a run that  *)
(* is still there, or lost, a ceiling at most for each.                    *)
THEOREM DebtTheorem == Spec => []DebtInv
<1>1. Init => DebtInv
  BY DebtInit
<1>2. IInv /\ IInv' /\ DebtInv /\ [Next]_vars => DebtInv'
  BY DebtStep
<1>3. QED
  BY <1>1, <1>2, CrossInvariant, PTL DEF Spec

(* What a window really costs, recorded or not: one ceiling per process,   *)
(* and one per run that was killed, could not write its record, or went on *)
(* charging after it.                                                      *)
THEOREM RealSpendTheorem == Spec => []RealSpendBounded
<1>1. IInv /\ DebtInv => RealSpendBounded
  BY DebtMeansBound
<1>2. QED
  BY <1>1, CrossInvariant, DebtTheorem, PTL

(* The same under the benchmark script and its operators.                  *)
THEOREM BenchRealSpend == BenchSpec => []RealSpendBounded
<1>1. BenchInit => DebtInv
  BY DebtInit DEF BenchInit
<1>2. ASSUME BenchInv, BenchInv', DebtInv, [BenchNext]_<<vars, bench>>
      PROVE  DebtInv'
  <2>0. IInv /\ IInv'
    BY <1>2 DEF BenchInv
  <2>t. TypeOK /\ task \in Procs
    BY <1>2, TaskIsProc DEF BenchInv, IInv
  <2>1. CASE [Next]_vars
    BY <1>2, <2>0, <2>1, DebtStep
  <2>2. CASE UNCHANGED <<procs, booked, real, lost>>
    BY <1>2, <2>2, DebtSame DEF procs
  <2>3. ASSUME NEW p \in Procs, Run(p) \/ \E flag \in BOOLEAN : Start(p, flag)
        PROVE  Next
    BY <2>3 DEF Next
  <2>4. CASE Clone \/ InstallRaises \/ Reap \/ Probe \/ Write
    <3>1. UNCHANGED vars \/ UNCHANGED <<procs, booked, real, lost>>
      BY <2>4 DEF Clone, InstallRaises, Reap, Probe, Write
    <3>2. QED
      BY <2>1, <2>2, <3>1
  <2>5. CASE Launch
    BY <2>1, <2>3, <2>5, <2>t DEF Launch
  <2>6. CASE Timeout
    <3>1. Kill(task) \/ UNCHANGED <<procs, booked, real, lost>>
      BY <2>6 DEF Timeout
    <3>2. QED
      BY <2>1, <2>2, <2>3, <2>t, <3>1 DEF Run
  <2>7. CASE Elsewhere
    BY <2>1, <2>3, <2>7 DEF Elsewhere
  <2>8. CASE NewWindow
    BY <2>1, <2>8 DEF NewWindow, Next
  <2>9. CASE UNCHANGED <<vars, bench>>
    BY <2>1, <2>9
  <2>10. QED
    BY <1>2, <2>4, <2>5, <2>6, <2>7, <2>8, <2>9 DEF BenchNext, Main
<1>3. BenchInv /\ DebtInv => RealSpendBounded
  BY DebtMeansBound DEF BenchInv
<1>4. QED
  BY <1>1, <1>2, <1>3, BenchInvariant, PTL DEF BenchSpec
=============================================================================

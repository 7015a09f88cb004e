--------------------------- MODULE PipelineProofs ---------------------------
(***************************************************************************)
(* For any set of subtasks, any number of plan revisions and any options   *)
(* (a negative --max-iter too): types, what the integration branch rests   *)
(* on, how a run leaves, and the proof that Pipeline implements RunSpec.   *)
(***************************************************************************)
EXTENDS Pipeline, TLAPS

(* Raising keeps the run record and the program counter well typed.        *)
LEMMA RaiseType ==
  ASSUME run \in Runs, NEW kinds \in SUBSET Faults, Raise(kinds)
  PROVE  run' \in Runs /\ pc' \in Places
<1>1. PICK k \in Faults : run' = [run EXCEPT !.fault = k]
  BY DEF Raise
<1>2. QED
  BY <1>1 DEF Raise, Runs, Places

(* A refusal before the run keeps the types.                               *)
LEMMA RefuseType ==
  ASSUME run \in Runs, NEW kinds \in SUBSET Faults, Refuse(kinds)
  PROVE  run' \in Runs /\ pc' \in Places
<1>1. PICK k \in Faults : run' = [run EXCEPT !.fault = k]
  BY DEF Refuse
<1>2. QED
  BY <1>1 DEF Refuse, Runs, Places

(* The cross-run record, written or failed, keeps the run record typed.    *)
LEMMA SpendType ==
  ASSUME run \in Runs, NEW s \in {"open", "recorded", "failed"}
  PROVE  /\ [run EXCEPT !.spend = s] \in Runs
         /\ [run EXCEPT !.spend = s, !.fault = "other"] \in Runs
<1>1. [run EXCEPT !.spend = s] \in Runs
  BY DEF Runs
<1>2. [run EXCEPT !.spend = s, !.fault = "other"] \in Runs
  BY DEF Runs, Faults
<1>3. QED
  BY <1>1, <1>2

-----------------------------------------------------------------------------
(* The run starts with values of their types.                              *)
LEMMA TypeInit == Init => TypeOK
<1> SUFFICES ASSUME Init
             PROVE  TypeOK
  OBVIOUS
<1>1. run \in Runs
  BY DEF Init, Runs
<1>2. work \in [Tasks -> Versions] /\ diffs \in [Tasks -> Versions]
  BY DEF Init, Versions, Untouched
<1>3. gates \in [plan : Decisions \cup {"none"}, merge : Decisions \cup {"none"}]
  BY DEF Init
<1>4. QED
  BY <1>1, <1>2, <1>3 DEF Init, TypeOK, Places, Untouched

(* What a worker leaves in its worktree is well typed.                     *)
LEMMA ReworkType ==
  ASSUME TypeOK, NEW t \in Tasks
  PROVE  Rework(t) \subseteq Versions
  BY DEF Rework, Versions, TypeOK

(* The worktrees after an implement step are worktrees again.              *)
LEMMA WrittenType ==
  ASSUME TypeOK, NEW ts \in SUBSET Tasks, NEW f \in Written(ts)
  PROVE  f \in [Tasks -> Versions]
<1>1. \A t \in Tasks : f[t] \in Versions
  <2> TAKE t \in Tasks
  <2>1. f[t] \in IF t \in ts THEN Rework(t) ELSE {work[t]}
    BY Zenon DEF Written
  <2>2. QED
    BY <2>1, ReworkType DEF TypeOK
<1>2. f \in [Tasks -> UNION {Rework(t) : t \in Tasks}]
  BY Zenon DEF Written
<1>3. QED
  BY <1>1, <1>2

(* So are the worktrees after the tests ran in them.                       *)
LEMMA TestedType ==
  ASSUME TypeOK, NEW f \in Tested
  PROVE  f \in [Tasks -> Versions]
<1>1. ASSUME NEW ts \in SUBSET opts.writable,
             f = [t \in Tasks |-> IF t \in ts THEN [work[t] EXCEPT !.tested = iteration + 1]
                                              ELSE work[t]]
      PROVE  f \in [Tasks -> Versions]
  <2>1. \A t \in Tasks : work[t] \in Versions /\ iteration \in Nat
    BY DEF TypeOK
  <2>2. ASSUME NEW v \in Versions
        PROVE  [v EXCEPT !.tested = iteration + 1] \in Versions
    BY <2>2 DEF TypeOK, Versions
  <2>3. QED
    BY <1>1, <2>1, <2>2
<1>2. QED
  BY <1>1 DEF Tested

(* The report after the secret scan is a report.                           *)
LEMMA ScannedType ==
  ASSUME report \in Reports \cup {NoReport}
  PROVE  /\ Scanned \in Reports \cup {NoReport}
         /\ Scanned.verdict \in Verdicts \cup {"none"}
<1>1. CASE leaks = {}
  BY <1>1 DEF Scanned, Reports, NoReport
<1>2. CASE leaks # {}
  BY <1>2 DEF Scanned, Reports, Verdicts
<1>3. QED
  BY <1>1, <1>2

(* Every step keeps the types.                                             *)
LEMMA TypeStep == TypeOK /\ [Next]_vars => TypeOK'
<1> SUFFICES ASSUME TypeOK, [Next]_vars
             PROVE  TypeOK'
  OBVIOUS
<1>t. /\ run \in Runs /\ pc \in Places /\ revision \in Nat /\ iteration \in Nat
      /\ outcome \in Statuses \cup {"none"}
  BY DEF TypeOK
<1>o. opts' = opts
  BY DEF Next, vars
<1> USE <1>o
<1>1. CASE LoadConfig
  <2>1. run' \in Runs /\ pc' \in Places
    BY <1>1, <1>t, RefuseType DEF LoadConfig, Faults, Places
  <2>2. QED
    BY <1>1, <2>1 DEF LoadConfig, TypeOK, plan, loop, judged, merged
<1>2. CASE Admission
  <2>1. run' \in Runs /\ pc' \in Places
    BY <1>2, <1>t, RefuseType DEF Admission, Faults, Places
  <2>2. QED
    BY <1>2, <2>1 DEF Admission, TypeOK, plan, loop, judged, merged
<1>3. CASE Register
  <2>1. CASE run' = [run EXCEPT !.row = "running"] /\ pc' = "construct"
    BY <1>3, <1>t, <2>1 DEF Register, Runs, Places, TypeOK, plan, loop, judged, merged
  <2>2. CASE Refuse({"other"})
    <3>1. run' \in Runs /\ pc' \in Places
      BY <1>t, <2>2, RefuseType DEF Faults
    <3>2. QED
      BY <1>3, <3>1 DEF Register, TypeOK, plan, loop, judged, merged
  <2>3. QED
    BY <1>3, <2>1, <2>2 DEF Register
<1>4. CASE Construct
  <2>1. CASE TryRevision(0) /\ run' = [run EXCEPT !.begun = TRUE]
    <3>1. run' \in Runs
      BY <1>t, <2>1 DEF Runs
    <3>2. pc' \in Places /\ revision' \in Nat /\ outcome' \in Statuses \cup {"none"}
      BY <1>t, <2>1 DEF TryRevision, Return, Places, Statuses
    <3>3. QED
      BY <1>4, <2>1, <3>1, <3>2 DEF Construct, Refuse, TryRevision, Return, TypeOK, loop, judged, merged
  <2>2. CASE Refuse({"other"}) /\ UNCHANGED <<revision, gates, outcome>>
    <3>1. run' \in Runs /\ pc' \in Places
      BY <1>t, <2>2, RefuseType DEF Faults
    <3>2. QED
      BY <1>4, <2>2, <3>1 DEF Construct, TypeOK, loop, judged, merged
  <2>3. QED
    BY <1>4, <2>1, <2>2 DEF Construct
<1>5. CASE PlanStep
  <2>1. run' \in Runs /\ pc' \in Places
    BY <1>5, <1>t, RaiseType DEF PlanStep, Faults, Places
  <2>2. QED
    BY <1>5, <2>1 DEF PlanStep, TypeOK, plan, loop, judged, merged
<1>6. CASE CritiqueStep
  <2>1. run' \in Runs
    BY <1>6, <1>t, RaiseType DEF CritiqueStep, Faults
  <2>2. pc' \in Places /\ revision' \in Nat /\ outcome' \in Statuses \cup {"none"}
    BY <1>6, <1>t DEF CritiqueStep, TryRevision, Return, Raise, Places, Statuses
  <2>3. QED
    BY <1>6, <2>1, <2>2 DEF CritiqueStep, TypeOK, plan, loop, judged, merged
<1>7. CASE PlanGate
  <2>0. run' \in Runs
    BY <1>7, <1>t, RaiseType DEF PlanGate, Faults
  <2>1. pc' \in Places /\ outcome' \in Statuses \cup {"none"}
    BY <1>7, <1>t DEF PlanGate, Return, Raise, Places, Statuses
  <2>2. gates' \in [plan : Decisions \cup {"none"}, merge : Decisions \cup {"none"}]
    BY <1>7, <1>t DEF PlanGate, TypeOK
  <2>3. QED
    BY <1>7, <2>0, <2>1, <2>2 DEF PlanGate, TypeOK, plan, loop, judged, merged
<1>8. CASE Setup
  <2>1. run' \in Runs /\ pc' \in Places
    BY <1>8, <1>t, RaiseType DEF Setup, Faults, Places
  <2>2. trees' \in SUBSET Tasks
    BY <1>8, <1>t DEF Setup
  <2>3. QED
    BY <1>8, <2>1, <2>2 DEF Setup, TypeOK, plan, loop, judged, merged
<1>9. CASE Implement
  <2>1. run' \in Runs /\ pc' \in Places
    BY <1>9, <1>t, RaiseType DEF Implement, Faults, Places
  <2>2. work' \in [Tasks -> Versions]
    BY <1>9, <1>t, WrittenType DEF Implement, TypeOK
  <2>3. QED
    BY <1>9, <2>1, <2>2 DEF Implement, TypeOK, plan, loop, judged, merged
<1>10. CASE Interrupt
  <2>1. run' \in Runs /\ pc' \in Places
    BY <1>10, <1>t DEF Interrupt, Runs, Places
  <2>2. QED
    BY <1>10, <2>1 DEF Interrupt, TypeOK, plan, loop, judged, merged
<1>11. CASE Collect
  <2>1. run' \in Runs /\ pc' \in Places
    BY <1>11, <1>t, RaiseType DEF Collect, Faults, Places
  <2>2. diffs' \in [Tasks -> Versions] /\ leaks' \in SUBSET Tasks
    BY <1>11, <1>t DEF Collect, DiffOf, Versions, TypeOK
  <2>3. work' \in [Tasks -> Versions]
    BY <1>11, TestedType DEF Collect
  <2>4. QED
    BY <1>11, <2>1, <2>2, <2>3 DEF Collect, TypeOK, plan, loop, merged
<1>12. CASE Verify
  <2>1. run' \in Runs /\ pc' \in Places
    BY <1>12, <1>t, RaiseType DEF Verify, Faults, Places
  <2>2. report' \in Reports \cup {NoReport}
    BY <1>12, <1>t DEF Verify, TypeOK
  <2>3. QED
    BY <1>12, <2>1, <2>2 DEF Verify, TypeOK, plan, loop, judged, merged
<1>13. CASE Judge
  <2>1. report' \in Reports \cup {NoReport} /\ report'.verdict \in Verdicts \cup {"none"}
    BY <1>13, ScannedType DEF Judge, TypeOK
  <2>2. CASE Raise({"other"}) /\ UNCHANGED <<loop, outcome>>
    <3>1. run' \in Runs /\ pc' \in Places
      BY <1>t, <2>2, RaiseType DEF Faults
    <3>2. QED
      BY <1>13, <2>1, <2>2, <3>1 DEF Judge, TypeOK, plan, loop, merged
  <2>3. CASE /\ run' = [run EXCEPT !.verdict = report'.verdict]
             /\ \/ pc' = "mergeGate" /\ UNCHANGED <<loop, outcome>>
                \/ Return("rejected") /\ UNCHANGED loop
                \/ IterateOn(report')
    <3>1. run' \in Runs
      BY <1>t, <2>1, <2>3 DEF Runs
    <3>2. pc' \in Places /\ outcome' \in Statuses \cup {"none"}
      BY <1>t, <2>3 DEF IterateOn, Return, Places, Statuses
    <3>3. pending' \in SUBSET Tasks /\ iteration' \in Nat
      BY <1>t, <2>3 DEF IterateOn, Requeued, loop, TypeOK
    <3>4. QED
      BY <1>13, <2>1, <3>1, <3>2, <3>3 DEF Judge, TypeOK, plan, merged
  <2>4. QED
    BY <1>13, <2>2, <2>3 DEF Judge
<1>14. CASE MergeGate
  <2>0. run' \in Runs
    BY <1>14, <1>t, RaiseType DEF MergeGate, Faults
  <2>1. pc' \in Places /\ outcome' \in Statuses \cup {"none"}
    BY <1>14, <1>t DEF MergeGate, Return, Raise, Places, Statuses
  <2>2. gates' \in [plan : Decisions \cup {"none"}, merge : Decisions \cup {"none"}]
    BY <1>14, <1>t DEF MergeGate, TypeOK
  <2>3. QED
    BY <1>14, <2>0, <2>1, <2>2 DEF MergeGate, TypeOK, plan, loop, judged, merged
<1>15. CASE Merge
  <2>1. run' \in Runs
    BY <1>15, <1>t, RaiseType DEF Merge, Faults
  <2>2. pc' \in Places /\ outcome' \in Statuses \cup {"none"}
    BY <1>15, <1>t DEF Merge, Return, Raise, Places, Statuses
  <2>3. integration' \in BOOLEAN /\ delivered' \in SUBSET Tasks
    BY <1>15, <1>t DEF Merge, Approved
  <2>4. QED
    BY <1>15, <2>1, <2>2, <2>3 DEF Merge, TypeOK, plan, loop, judged, merged
<1>16. CASE Finalize
  <2>1. CASE pc' = "account" /\ run' = [run EXCEPT !.row = outcome]
    <3>1. run' \in Runs /\ pc' \in Places
      BY <1>t, <2>1 DEF Runs, Places
    <3>2. QED
      BY <1>16, <3>1 DEF Finalize, TypeOK, plan, loop, judged, merged
  <2>2. CASE Raise({"other"})
    <3>1. run' \in Runs /\ pc' \in Places
      BY <1>t, <2>2, RaiseType DEF Faults
    <3>2. QED
      BY <1>16, <3>1 DEF Finalize, TypeOK, plan, loop, judged, merged
  <2>3. QED
    BY <1>16, <2>1, <2>2 DEF Finalize
<1>17. CASE MarkCrashed
  <2>1. run' \in Runs /\ pc' \in Places
    BY <1>17, <1>t DEF MarkCrashed, Runs, Places
  <2>2. QED
    BY <1>17, <2>1 DEF MarkCrashed, TypeOK, plan, loop, judged, merged
<1>18. CASE Account
  <2>1. run' \in Runs /\ pc' \in Places
    <3>1. run.spend \in {"open", "recorded", "failed"}
      BY <1>t DEF Runs
    <3>2. \E s \in {"open", "recorded", "failed"} :
             run' \in {[run EXCEPT !.spend = s], [run EXCEPT !.spend = s, !.fault = "other"]}
      BY <1>18, <3>1 DEF Account
    <3>3. pc' \in Places
      BY <1>18 DEF Account, Places
    <3>4. QED
      BY <1>t, <3>2, <3>3, SpendType
  <2>2. trees' \in SUBSET Tasks
    BY <1>18, <1>t DEF Account, CleanUp, TypeOK
  <2>3. QED
    BY <1>18, <2>1, <2>2 DEF Account, TypeOK, plan, loop, judged, merged
<1>19. CASE Leave
  <2>1. ExitCode \in {-1, 0, 1, 2, 3, 130}
    BY DEF ExitCode
  <2>2. Counted \in BOOLEAN
    BY Zenon DEF Counted
  <2>3. run' \in Runs /\ pc' \in Places
    BY <1>19, <1>t, <2>1, <2>2 DEF Leave, Runs, Places
  <2>4. QED
    BY <1>19, <2>3 DEF Leave, TypeOK, plan, loop, judged, merged
<1>20. CASE UNCHANGED vars
  BY <1>20 DEF vars, TypeOK
<1>21. QED
  BY <1>1, <1>2, <1>3, <1>4, <1>5, <1>6, <1>7, <1>8, <1>9, <1>10, <1>11, <1>12, <1>13,
     <1>14, <1>15, <1>16, <1>17, <1>18, <1>19, <1>20 DEF Next

(* Every variable keeps its type, for any options.                         *)
THEOREM TypeCorrect == Spec => []TypeOK
  BY TypeInit, TypeStep, PTL DEF Spec

-----------------------------------------------------------------------------
(* At first no gate is passed and nothing is merged.                       *)
LEMMA MergeInit == Init => GateInv /\ MergeInv
  BY DEF Init, GateInv, MergeInv, StageOf, MergeNeedsShip

(* Only Judge writes a verdict row.                                        *)
LEMMA VerdictRow ==
  ASSUME TypeOK, [Next]_vars, ~Judge
  PROVE  run'.verdict = run.verdict
<1> run \in Runs
  BY DEF TypeOK
<1>1. ASSUME NEW kinds, Raise(kinds) \/ Refuse(kinds)
      PROVE  run'.verdict = run.verdict
  BY <1>1 DEF Raise, Refuse, Runs
<1>2. CASE LoadConfig \/ Admission \/ PlanStep \/ CritiqueStep
  BY <1>1, <1>2 DEF LoadConfig, Admission, PlanStep, CritiqueStep
<1>3. CASE Setup \/ Implement \/ Collect \/ Verify \/ Merge
  BY <1>1, <1>3 DEF Setup, Implement, Collect, Verify, Merge
<1>4. CASE Register \/ Construct \/ Finalize
  BY <1>1, <1>4 DEF Register, Construct, Finalize, Runs
<1>5. CASE Interrupt \/ MarkCrashed \/ Account \/ Leave
  BY <1>5 DEF Interrupt, MarkCrashed, Account, Leave, Runs
<1>6. CASE PlanGate \/ MergeGate \/ UNCHANGED vars
  BY <1>1, <1>6 DEF PlanGate, MergeGate, vars
<1>7. QED
  BY <1>2, <1>3, <1>4, <1>5, <1>6 DEF Next

(* The gates, the verdict and the scan that a merge rests on, step by step.*)
(* With a negative --max-iter Setup jumps to the merge gate.               *)
LEMMA MergeStep ==
  ASSUME TypeOK, GateInv, MergeInv, [Next]_vars
  PROVE  GateInv' /\ MergeInv'
<1> USE DEF GateInv, MergeInv, StageOf, MergeNeedsShip
<1>0. pc # "judge" => run'.verdict = run.verdict
  BY VerdictRow DEF Judge
<1>o. opts' = opts
  BY DEF Next, vars
<1>m. opts.max_iter \in Int /\ iteration \in Nat
  BY PipelineAssumption DEF TypeOK
<1> USE <1>o, <1>m
<1>1. CASE LoadConfig \/ Admission \/ Register
  BY <1>0, <1>1 DEF LoadConfig, Admission, Register, Refuse, plan, loop, judged, merged
<1>2. CASE Construct
  BY <1>0, <1>2 DEF Construct, TryRevision, Return, Refuse, loop, judged, merged
<1>3. CASE PlanStep
  BY <1>0, <1>3 DEF PlanStep, Raise, plan, loop, judged, merged
<1>4. CASE CritiqueStep
  BY <1>0, <1>4 DEF CritiqueStep, TryRevision, Return, Raise, loop, judged, merged
<1>5. CASE PlanGate
  <2>1. integration = FALSE /\ delivered = {} /\ UNCHANGED <<integration, delivered>>
    BY <1>5 DEF PlanGate, merged, TypeOK
  <2>2. pc' \in {"setup", "finalize", "crash"}
        /\ (pc' = "setup" => gates'.plan = "approve")
    BY <1>5 DEF PlanGate, Return, Raise, TypeOK
  <2>3. QED
    BY <1>0, <1>5, <2>1, <2>2 DEF PlanGate, loop, judged
<1>6. CASE Setup
  BY <1>0, <1>6 DEF Setup, Raise, plan, loop, judged, merged
<1>7. CASE Implement \/ Interrupt
  BY <1>0, <1>7 DEF Implement, Interrupt, Raise, plan, loop, judged, merged
<1>8. CASE Collect
  BY <1>0, <1>8 DEF Collect, Raise, plan, loop, merged
<1>9. CASE Verify
  BY <1>0, <1>9 DEF Verify, Raise, plan, loop, merged
<1>10. CASE Judge
  <2>1. report'.verdict = "ship" => leaks' = {}
    BY <1>10 DEF Judge, Scanned
  <2>2. integration = FALSE /\ delivered = {} /\ opts.max_iter >= 0
    BY <1>10 DEF Judge, TypeOK
  <2>3. UNCHANGED <<gates, integration, delivered>> /\ gates.plan = "approve"
    BY <1>10 DEF Judge, plan, merged
  <2>4. /\ pc' \in {"mergeGate", "implement", "finalize", "crash"}
        /\ pc' = "mergeGate" => report'.verdict = "ship" /\ run'.verdict = "ship"
        /\ pc' = "implement" => iteration' <= opts.max_iter
    <3>1. CASE Raise({"other"})
      BY <3>1 DEF Raise
    <3>2. CASE run' = [run EXCEPT !.verdict = report'.verdict]
      BY <1>10, <3>2 DEF Judge, IterateOn, Return, TypeOK, Runs, Raise
    <3>3. QED
      BY <1>10, <3>1, <3>2 DEF Judge
  <2>5. QED
    BY <2>1, <2>2, <2>3, <2>4
<1>11. CASE MergeGate
  <2>1. integration = FALSE /\ delivered = {} /\ UNCHANGED <<integration, delivered>>
    BY <1>11 DEF MergeGate, merged, TypeOK
  <2>2. /\ pc' \in {"merge", "finalize", "crash"}
        /\ pc' = "merge" => gates'.merge = "approve" /\ gates'.plan = gates.plan
    BY <1>11 DEF MergeGate, Return, Raise, TypeOK
  <2>3. QED
    BY <1>0, <1>11, <2>1, <2>2 DEF MergeGate, loop, judged
<1>12. CASE Merge
  <2>1. /\ gates = [plan |-> "approve", merge |-> "approve"]
        /\ UNCHANGED <<gates, leaks, report>> /\ run'.verdict = run.verdict
        /\ pc' \in {"finalize", "crash"}
    BY <1>0, <1>12 DEF Merge, Return, Raise, plan, judged, TypeOK
  <2>2. delivered' # {} => integration'
    BY <1>12 DEF Merge
  <2>3. opts.max_iter < 0 => delivered' = {}
    BY <1>12 DEF Merge, Approved
  <2>4. QED
    BY <1>12, <2>1, <2>2, <2>3 DEF Merge
<1>13. CASE Finalize \/ MarkCrashed
  BY <1>0, <1>13 DEF Finalize, MarkCrashed, Raise, plan, judged, merged
<1>14. CASE Account \/ Leave
  BY <1>0, <1>14 DEF Account, Leave, plan, judged, merged
<1>15. CASE UNCHANGED vars
  BY <1>15 DEF vars
<1>16. QED
  BY <1>1, <1>2, <1>3, <1>4, <1>5, <1>6, <1>7, <1>8, <1>9, <1>10, <1>11, <1>12, <1>13,
     <1>14, <1>15 DEF Next

(* The inductive invariant, for all options.                               *)
THEOREM Invariance == Spec => []IInv
<1>1. Init => IInv
  BY TypeInit, MergeInit DEF IInv
<1>2. IInv /\ [Next]_vars => IInv'
  BY TypeStep, MergeStep DEF IInv
<1>3. QED
  BY <1>1, <1>2, PTL DEF Spec

(* ADR-0001: no run touches the integration branch without an approved     *)
(* plan and an approved merge gate, and none puts a subtask on it without  *)
(* a clean "ship" on record, however many rounds --max-iter allows, none   *)
(* included.                                                               *)
THEOREM MergeTheorem == Spec => []MergeNeedsShip
<1>1. IInv => MergeNeedsShip
  BY DEF IInv, MergeInv
<1>2. QED
  BY <1>1, Invariance, PTL

-----------------------------------------------------------------------------
(* The run starts where its lifecycle does, with its rounds before it.     *)
LEMMA InitRefines == Init => RunStages!Init
  BY PipelineAssumption DEF Init, RunStages!Init, StageOf, RoundsLeft

(* Every step of the run is a step of RunSpec or leaves it unchanged. Only *)
(* PlanGate, Setup without rounds, Judge, MergeGate and Merge advance the  *)
(* abstract run; a step that raises or returns stops it.                   *)
LEMMA StepRefines ==
  ASSUME IInv, [Next]_vars
  PROVE  [RunStages!Next]_(RunStages!vars)
<1> USE DEF StageOf, RoundsLeft, RunStages!Next, RunStages!vars, RunStages!Stop
<1>0. pc # "judge" => run'.verdict = run.verdict
  BY VerdictRow DEF Judge, IInv
<1>o. opts' = opts
  BY DEF Next, vars
<1>m. opts.max_iter \in Int /\ iteration \in Nat
  BY PipelineAssumption DEF IInv, TypeOK
<1> USE <1>o, <1>m
<1>1. CASE LoadConfig \/ Admission \/ Register
  BY <1>0, <1>1 DEF LoadConfig, Admission, Register, Refuse, loop, merged
<1>2. CASE Construct
  BY <1>0, <1>2 DEF Construct, TryRevision, Return, Refuse, loop, merged
<1>3. CASE PlanStep
  BY <1>0, <1>3 DEF PlanStep, Raise, loop, merged
<1>4. CASE CritiqueStep
  BY <1>0, <1>4 DEF CritiqueStep, TryRevision, Return, Raise, loop, merged
<1>5. CASE PlanGate
  BY <1>0, <1>5 DEF PlanGate, Return, Raise, loop, merged, RunStages!ApprovePlan
<1>6. CASE Setup
  <2>1. CASE Raise({"notfound", "other"})
    BY <1>0, <1>6, <2>1 DEF Setup, Raise, loop, merged
  <2>2. CASE pc' = "implement"
    BY <1>0, <1>6, <2>2 DEF Setup, loop, merged
  <2>3. CASE opts.max_iter < 0 /\ pc' = "mergeGate"
    <3>1. RunStages!SkipRounds
      BY <1>0, <1>6, <2>3 DEF Setup, loop, merged, RunStages!SkipRounds
    <3>2. QED
      BY <3>1
  <2>4. QED
    BY <1>6, <2>1, <2>2, <2>3 DEF Setup
<1>7. CASE Implement \/ Interrupt
  BY <1>0, <1>7 DEF Implement, Interrupt, Raise, loop, merged
<1>8. CASE Collect \/ Verify
  BY <1>0, <1>8 DEF Collect, Verify, Raise, loop, merged
<1>9. CASE Judge
  <2>1. CASE Raise({"other"})
    <3>1. run'.verdict = run.verdict
      BY <2>1 DEF Raise, IInv, TypeOK, Runs
    <3>2. QED
      BY <1>9, <2>1, <3>1 DEF Judge, Raise, merged
  <2>2. CASE /\ run' = [run EXCEPT !.verdict = report'.verdict]
             /\ \/ /\ report'.verdict = "ship"
                   /\ pc' = "mergeGate" /\ UNCHANGED <<loop, outcome>>
                \/ /\ report'.verdict = "reject"
                   /\ Return("rejected") /\ UNCHANGED loop
                \/ /\ report'.verdict = "iterate"
                   /\ IterateOn(report')
    <3>1. run'.verdict = report'.verdict
      BY <2>2 DEF IInv, TypeOK, Runs
    <3>2. /\ pc = "judge" /\ UNCHANGED delivered
          /\ opts.max_iter >= 0 /\ iteration <= opts.max_iter
      BY <1>9 DEF Judge, merged, IInv, GateInv
    <3>3. RunStages!Judge
      <4>1. CASE report'.verdict = "ship"
        BY <2>2, <3>1, <3>2, <4>1 DEF RunStages!Judge
      <4>2. CASE report'.verdict = "reject"
        BY <2>2, <3>1, <3>2, <4>2 DEF Return, Verdicts, RunStages!Judge
      <4>3. CASE report'.verdict = "iterate" /\ IterateOn(report')
        BY <3>1, <3>2, <4>3 DEF IterateOn, Return, Verdicts, RunStages!Judge
      <4>4. QED
        BY <2>2, <4>1, <4>2, <4>3
    <3>4. QED
      BY <3>3
  <2>3. QED
    BY <1>9, <2>1, <2>2 DEF Judge
<1>10. CASE MergeGate
  BY <1>0, <1>10 DEF MergeGate, Return, Raise, loop, merged, RunStages!ApproveMerge
<1>11. CASE Merge
  <2>1. run.verdict # "ship" => Approved = {}
    BY <1>11 DEF Merge, IInv, GateInv, Approved
  <2>2. Approved \subseteq Tasks
    BY DEF Approved
  <2>3. RunStages!Integrate
    BY <1>0, <1>11, <2>1, <2>2 DEF Merge, Return, Raise, RunStages!Integrate
  <2>4. QED
    BY <2>3
<1>12. CASE Finalize \/ MarkCrashed \/ Account \/ Leave
  BY <1>0, <1>12 DEF Finalize, MarkCrashed, Account, Leave, Raise, merged
<1>13. CASE UNCHANGED vars
  BY <1>13 DEF vars
<1>14. QED
  BY <1>1, <1>2, <1>3, <1>4, <1>5, <1>6, <1>7, <1>8, <1>9, <1>10, <1>11, <1>12, <1>13 DEF Next

(* The pipeline implements the run its operator was promised.              *)
THEOREM PipelineImplementsRunSpec == Spec => ImplementsRunSpec
<1>1. IInv /\ [Next]_vars => [RunStages!Next]_(RunStages!vars)
  BY StepRefines
<1>2. QED
  BY <1>1, Invariance, InitRefines, PTL DEF Spec, ImplementsRunSpec, RunStages!Spec

-----------------------------------------------------------------------------
(* The way out.  What an exception does to the run as the outside sees it. *)
LEMMA FaultEffect ==
  ASSUME run \in Runs, NEW kinds \in SUBSET Faults, Raise(kinds) \/ Refuse(kinds)
  PROVE  /\ run'.row = run.row /\ run'.begun = run.begun /\ run'.spend = run.spend
         /\ run'.exit = run.exit /\ run'.fault # "none"
         /\ pc' = IF Raise(kinds) THEN "crash" ELSE "leave"
<1>1. PICK k \in kinds : run' = [run EXCEPT !.fault = k]
  BY DEF Raise, Refuse
<1>2. k # "none"
  BY DEF Faults
<1>3. QED
  BY <1>1, <1>2 DEF Runs, Raise, Refuse

(* Every step keeps the books of the run.                                  *)
LEMMA BookStep ==
  ASSUME TypeOK, BookInv, [Next]_vars
  PROVE  BookInv'
<1> USE DEF BookInv, StageOf, Ending
<1>t. run \in Runs /\ outcome \in Statuses \cup {"none"}
  BY DEF TypeOK
<1>1. CASE LoadConfig
  <2>1. CASE Refuse({"notfound", "other"})
    BY <1>1, <1>t, <2>1, FaultEffect DEF LoadConfig, Faults, Refuse, merged
  <2>2. QED
    BY <1>1, <2>1 DEF LoadConfig, merged
<1>2. CASE Admission
  <2>1. CASE Refuse({"budget", "other"})
    BY <1>2, <1>t, <2>1, FaultEffect DEF Admission, Faults, Refuse, merged
  <2>2. QED
    BY <1>2, <2>1 DEF Admission, merged
<1>3. CASE Register
  <2>1. CASE Refuse({"other"})
    BY <1>3, <1>t, <2>1, FaultEffect DEF Register, Faults, Refuse, merged
  <2>2. QED
    BY <1>3, <1>t, <2>1 DEF Register, Runs, merged
<1>4. CASE Construct
  <2>1. CASE Refuse({"other"}) /\ UNCHANGED outcome
    BY <1>4, <1>t, <2>1, FaultEffect DEF Construct, Faults, Refuse, merged
  <2>2. CASE TryRevision(0) /\ run' = [run EXCEPT !.begun = TRUE]
    BY <1>4, <1>t, <2>2 DEF Construct, Runs, TryRevision, Return, Statuses, merged
  <2>3. QED
    BY <1>4, <2>1, <2>2 DEF Construct
<1>5. CASE PlanStep
  <2>1. CASE Raise({"budget", "other"})
    BY <1>5, <1>t, <2>1, FaultEffect DEF PlanStep, Faults, Raise, merged
  <2>2. QED
    BY <1>5, <2>1 DEF PlanStep, merged
<1>6. CASE CritiqueStep
  <2>1. CASE Raise({"budget", "other"}) /\ UNCHANGED outcome
    BY <1>6, <1>t, <2>1, FaultEffect DEF CritiqueStep, Faults, Raise, merged
  <2>2. CASE /\ UNCHANGED run
             /\ \/ pc' = "planGate" /\ UNCHANGED outcome
                \/ TryRevision(revision + 1)
    BY <1>6, <2>2 DEF CritiqueStep, TryRevision, Return, merged
  <2>3. QED
    BY <1>6, <2>1, <2>2 DEF CritiqueStep
<1>7. CASE PlanGate \/ MergeGate
  <2>1. CASE Raise({"other"}) /\ UNCHANGED outcome
    BY <1>7, <1>t, <2>1, FaultEffect DEF PlanGate, MergeGate, Faults, Raise, merged
  <2>2. CASE /\ UNCHANGED run
             /\ \/ pc' \in {"setup", "merge"} /\ UNCHANGED outcome
                \/ \E status \in {"aborted_plan", "merge_rejected"} : Return(status)
    BY <1>7, <2>2 DEF PlanGate, MergeGate, Return, merged
  <2>3. QED
    BY <1>7, <2>1, <2>2 DEF PlanGate, MergeGate
<1>8. CASE Setup
  <2>1. CASE Raise({"notfound", "other"})
    BY <1>8, <1>t, <2>1, FaultEffect DEF Setup, Faults, Raise, merged
  <2>2. CASE UNCHANGED run /\ trees' = Tasks
    BY <1>8, <2>2 DEF Setup, merged
  <2>3. QED
    BY <1>8, <2>1, <2>2 DEF Setup
<1>9. CASE Implement
  <2>1. CASE Raise(Faults)
    BY <1>9, <1>t, <2>1, FaultEffect DEF Implement, Raise, merged
  <2>2. QED
    BY <1>9, <2>1 DEF Implement, merged
<1>10. CASE Interrupt
  BY <1>10, <1>t DEF Interrupt, Runs, merged
<1>11. CASE Collect
  <2>1. CASE Raise({"notfound", "other"})
    BY <1>11, <1>t, <2>1, FaultEffect DEF Collect, Faults, Raise, merged
  <2>2. QED
    BY <1>11, <2>1 DEF Collect, merged
<1>12. CASE Verify
  <2>1. CASE Raise({"budget", "other"})
    BY <1>12, <1>t, <2>1, FaultEffect DEF Verify, Faults, Raise, merged
  <2>2. QED
    BY <1>12, <2>1 DEF Verify, merged
<1>13. CASE Judge
  <2>1. CASE Raise({"other"}) /\ UNCHANGED outcome
    BY <1>13, <1>t, <2>1, FaultEffect DEF Judge, Faults, Raise, merged
  <2>2. CASE /\ run' = [run EXCEPT !.verdict = report'.verdict]
             /\ \/ pc' \in {"mergeGate", "implement"} /\ UNCHANGED outcome
                \/ \E status \in {"rejected", "inconclusive", "iteration_cap"} : Return(status)
    <3>1. /\ run'.row = run.row /\ run'.begun = run.begun /\ run'.spend = run.spend
          /\ run'.exit = run.exit /\ run'.fault = run.fault
      BY <1>t, <2>2 DEF Runs
    <3>2. QED
      BY <1>13, <2>2, <3>1 DEF Judge, Return, merged
  <2>3. QED
    BY <1>13, <2>1, <2>2 DEF Judge, IterateOn
<1>14. CASE Merge
  <2>1. CASE Raise({"notfound", "other"}) /\ UNCHANGED outcome
    BY <1>14, <1>t, <2>1, FaultEffect DEF Merge, Faults, Raise
  <2>2. CASE integration' = TRUE /\ Return("merged") /\ UNCHANGED run
    BY <1>14, <2>2 DEF Merge, Return
  <2>3. QED
    BY <1>14, <2>1, <2>2 DEF Merge
<1>15. CASE Finalize
  <2>1. CASE Raise({"other"})
    BY <1>15, <1>t, <2>1, FaultEffect DEF Finalize, Faults, Raise, merged
  <2>2. CASE pc' = "account" /\ run' = [run EXCEPT !.row = outcome]
    BY <1>15, <1>t, <2>2 DEF Finalize, Runs, merged
  <2>3. QED
    BY <1>15, <2>1, <2>2 DEF Finalize
<1>16. CASE MarkCrashed
  BY <1>16, <1>t DEF MarkCrashed, Runs, merged
<1>17. CASE Account
  <2>1. /\ run'.row = run.row /\ run'.begun = run.begun /\ run'.exit = run.exit
        /\ \/ run'.spend = (IF CapSet THEN "recorded" ELSE run.spend) /\ run'.fault = run.fault
           \/ CapSet /\ run'.spend = "failed" /\ run'.fault = "other"
    BY <1>17, <1>t DEF Account, Runs
  <2>2. QED
    BY <1>17, <2>1 DEF Account, merged
<1>18. CASE Leave
  <2>1. /\ run'.row = run.row /\ run'.begun = run.begun /\ run'.spend = run.spend
        /\ run'.fault = run.fault /\ run'.exit = ExitCode
    BY <1>18, <1>t DEF Leave, Runs
  <2>2. ExitCode = 0 <=> run.fault = "none" /\ outcome = "merged"
    BY <1>t DEF ExitCode, Runs, Faults
  <2>3. QED
    BY <1>18, <2>1, <2>2 DEF Leave, merged
<1>19. CASE UNCHANGED vars
  BY <1>19 DEF vars
<1>20. QED
  BY <1>1, <1>2, <1>3, <1>4, <1>5, <1>6, <1>7, <1>8, <1>9, <1>10, <1>11, <1>12, <1>13,
     <1>14, <1>15, <1>16, <1>17, <1>18, <1>19 DEF Next

(* The types and the books together are an invariant.                      *)
LEMMA Books == Spec => [](TypeOK /\ BookInv)
<1>1. Init => TypeOK /\ BookInv
  BY TypeInit DEF Init, BookInv, StageOf, Ending
<1>2. TypeOK /\ BookInv /\ [Next]_vars => (TypeOK /\ BookInv)'
  BY TypeStep, BookStep
<1>3. QED
  BY <1>1, <1>2, PTL DEF Spec

(* Exit code 0 means merged, on record and accounted for, for any options. *)
THEOREM ExitTheorem == Spec => []ExitIsTruthful
<1>1. ASSUME TypeOK, BookInv
      PROVE  ExitIsTruthful
  <2>1. CASE pc # "exited"
    BY <1>1, <2>1 DEF BookInv, ExitIsTruthful
  <2>2. CASE pc = "exited"
    BY <1>1, <2>2 DEF BookInv, ExitIsTruthful, Ending
  <2>3. QED
    BY <2>1, <2>2
<1>2. QED
  BY <1>1, Books, PTL

(* With a cross-run cap every run that has begun tries to record its spend.*)
THEOREM SpendTheorem == Spec => []SpendAlwaysRecorded
<1>1. BookInv => SpendAlwaysRecorded
  BY DEF BookInv, SpendAlwaysRecorded
<1>2. QED
  BY <1>1, Books, PTL
=============================================================================

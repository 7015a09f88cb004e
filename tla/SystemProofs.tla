---------------------------- MODULE SystemProofs ----------------------------
(***************************************************************************)
(* For any plan, any options, any hunks and any committers: what is on the *)
(* integration branch is what the shipping verdict looked at, as far as    *)
(* git and the tests allow, and the run with its merge loop implements     *)
(* Pipeline.                                                               *)
(***************************************************************************)
EXTENDS System, TLAPS

USE SystemAssumption

(* The initial states satisfy the invariant.                               *)
LEMMA InitHolds == Init => IInv
<1> SUFFICES ASSUME Init
             PROVE  IInv
  OBVIOUS
<1>1. /\ pc = "config" /\ leaks = {} /\ iteration = 0 /\ opts \in Options /\ pending = Tasks
      /\ work = [t \in Tasks |-> P!Untouched] /\ diffs = work /\ commits = work
  BY DEF Init, P!Init
<1>2. step = "start" /\ at = 0 /\ result = [t \in Tasks |-> "none"]
  BY DEF Init
<1>3. WorkType
  BY <1>1 DEF WorkType, P!Versions, P!Untouched
<1>4. RunInv
  BY <1>1 DEF RunInv, Before, Holds
<1>5. StepInv
  BY <1>1, <1>2 DEF StepInv, M!Reasons
<1>6. BranchIsJudged
  BY <1>2 DEF BranchIsJudged, M!Built
<1>7. QED
  BY <1>3, <1>4, <1>5, <1>6 DEF IInv

(* A round of the workers: those that commit leave nothing uncommitted.    *)
LEMMA ImplementFrame ==
  ASSUME WorkType, RunInv, RunStep, P!Implement
  PROVE  WorkType' /\ RunInv'
<1>1. /\ pc = "implement" /\ pc' \in {"collect", "crash"}
      /\ UNCHANGED <<opts, iteration, pending, diffs, leaks>>
  BY DEF P!Implement, P!Raise, P!loop, P!judged, RunStep
<1>2. work' \in P!Written(pending) /\ work' \in [Tasks -> UNION {P!Rework(t) : t \in Tasks}]
  BY DEF P!Implement, P!Written
<1>3. \A t \in Tasks : /\ t \in pending => work'[t] \in P!Rework(t)
                       /\ t \notin pending => work'[t] = work[t]
  <2> TAKE t \in Tasks
  <2>1. work'[t] \in IF t \in pending THEN P!Rework(t) ELSE {work[t]}
    BY <1>2, Zenon DEF P!Written
  <2>2. QED
    BY <2>1
<1>4. \A t \in Tasks : P!Rework(t) \subseteq P!Versions
  <2> SUFFICES ASSUME NEW t \in Tasks, NEW v \in P!Rework(t)
               PROVE  v \in P!Versions
    OBVIOUS
  <2>1. work[t] \in P!Versions /\ iteration \in Nat
    BY DEF WorkType
  <2>2. PICK e \in {work[t].edited, iteration + 1}, c \in {work[t].created, iteration + 1} :
          v = [edited |-> e, created |-> c,
               tested |-> IF e = work[t].edited THEN work[t].tested ELSE 0]
    BY DEF P!Rework
  <2>3. QED
    BY <2>1, <2>2 DEF P!Versions
<1>5. work' \in [Tasks -> P!Versions]
  <2>1. \A t \in Tasks : work[t] \in P!Versions
    BY DEF WorkType
  <2>2. \A t \in Tasks : work'[t] \in P!Versions
    BY <1>3, <1>4, <2>1
  <2>3. QED
    BY <1>2, <2>2
<1>6. commits' = [t \in Tasks |-> IF t \in pending \cap Committers THEN work'[t] ELSE commits[t]]
  BY <1>1 DEF RunStep
<1>7. WorkType'
  BY <1>1, <1>5, <1>6 DEF WorkType
<1>8. \A t \in Tasks \ Committers : commits'[t] = P!Untouched
  BY <1>6 DEF RunInv
<1>9. \A t \in Committers : Holds(work'[t], commits'[t])
  BY <1>1, <1>3, <1>6 DEF RunInv, Holds, After
<1>10. QED
  BY <1>1, <1>7, <1>8, <1>9 DEF RunInv, Before, Holds

(* The diffs are taken before the tests write, so that both hold what is   *)
(* committed.                                                              *)
LEMMA CollectFrame ==
  ASSUME WorkType, RunInv, RunStep, P!Collect
  PROVE  WorkType' /\ RunInv'
<1>1. /\ pc = "collect" /\ pc' \in {"verify", "crash"}
      /\ UNCHANGED <<opts, iteration, pending>>
      /\ diffs' = diffs \/ diffs' = [t \in Tasks |-> P!DiffOf(t)]
      /\ pc' = "verify" => diffs' = [t \in Tasks |-> P!DiffOf(t)]
  BY DEF P!Collect, P!Raise, P!loop, RunStep
<1>2. commits' = commits
  BY <1>1 DEF RunStep, WorkType
<1>3. PICK ts \in SUBSET opts.writable :
        work' = [t \in Tasks |-> IF t \in ts THEN [work[t] EXCEPT !.tested = iteration + 1]
                                            ELSE work[t]]
  BY DEF P!Collect, P!Tested
<1>4. \A t \in Tasks : /\ work[t] \in P!Versions /\ work'[t] \in P!Versions
                       /\ work'[t].edited = work[t].edited
                       /\ work'[t].created = work[t].created
                       /\ work'[t].tested = 0 => work[t].tested = 0
  <2> TAKE t \in Tasks
  <2>1. work[t] \in P!Versions /\ iteration \in Nat
    BY DEF WorkType
  <2>2. CASE t \in ts
    BY <1>3, <2>1, <2>2 DEF P!Versions
  <2>3. CASE t \notin ts
    BY <1>3, <2>1, <2>3
  <2>4. QED
    BY <2>2, <2>3
<1>5. \A t \in Tasks : P!DiffOf(t) \in P!Versions
  BY <1>4 DEF P!DiffOf, P!Versions
<1>6. WorkType'
  BY <1>1, <1>2, <1>3, <1>4, <1>5 DEF WorkType
<1>7. \A t \in Committers : Holds(work[t], commits[t])
  BY <1>1 DEF RunInv, After
<1>8. \A t \in Committers : P!DiffOf(t) = work[t]
  BY <1>4 DEF P!DiffOf, P!Versions
<1>9. \A t \in Committers : Holds(work'[t], commits[t]) /\ Holds(P!DiffOf(t), commits[t])
  BY <1>4, <1>7, <1>8 DEF Holds
<1>10. QED
  BY <1>1, <1>2, <1>6, <1>9 DEF RunInv, Before, Holds

(* The steps of the run that end after the merge write neither verdict,    *)
(* diff, scan, nor commits; only Implement and Collect write worktrees.    *)
LEMMA RunFrame ==
  ASSUME WorkType, RunInv, RunStep
  PROVE  /\ UNCHANGED git
         /\ pc # "merge" /\ WorkType' /\ RunInv'
         /\ pc \in After => pc' \in After /\ UNCHANGED <<report, diffs, leaks, commits>>
<1>0. UNCHANGED <<opts, git>> /\ (pc # "implement" => commits' = commits)
  BY DEF RunStep, WorkType
<1> DEFINE Same == /\ UNCHANGED <<opts, work, diffs, commits, report, leaks>>
                   /\ iteration' \in Nat /\ pending' \subseteq Tasks
<1>1. ASSUME P!LoadConfig \/ P!Admission \/ P!Register
      PROVE  pc \in Before /\ pc' \in Before \cup After /\ Same
  BY <1>0, <1>1 DEF P!LoadConfig, P!Admission, P!Register, P!Refuse, P!judged, P!loop,
                    WorkType, Before, After
<1>2. ASSUME P!Construct \/ P!CritiqueStep
      PROVE  pc \in Before /\ pc' \in Before \cup After /\ Same
  BY <1>0, <1>2 DEF P!Construct, P!CritiqueStep, P!TryRevision, P!Return, P!Refuse, P!Raise,
                    P!judged, P!loop, WorkType, Before, After
<1>3. ASSUME P!PlanStep \/ P!PlanGate
      PROVE  pc \in Before /\ pc' \in Before \cup After /\ Same
  BY <1>0, <1>3 DEF P!PlanStep, P!PlanGate, P!Return, P!Raise, P!judged, P!loop,
                    WorkType, Before, After
<1>4. ASSUME P!Setup
      PROVE  pc \in Before /\ pc' \in {"implement", "mergeGate", "crash"} /\ Same
  BY <1>0, <1>4 DEF P!Setup, P!Raise, P!judged, P!loop, WorkType, Before
<1>5. ASSUME P!MergeGate
      PROVE  pc = "mergeGate" /\ pc' \in {"merge", "finalize", "crash"} /\ Same
  BY <1>0, <1>5 DEF P!MergeGate, P!Return, P!Raise, P!judged, P!loop, WorkType
<1>6. ASSUME P!Interrupt
      PROVE  /\ pc = "implement" /\ pc' = "account" /\ WorkType'
             /\ \A t \in Tasks \ Committers : commits'[t] = P!Untouched
  <2>1. /\ pc = "implement" /\ pc' = "account" /\ UNCHANGED <<work, diffs, iteration, pending>>
        /\ commits' = [t \in Tasks |-> IF t \in pending \cap Committers THEN work[t] ELSE commits[t]]
    BY <1>6 DEF P!Interrupt, P!judged, P!loop, RunStep
  <2>2. QED
    BY <1>0, <2>1 DEF WorkType, RunInv
<1>7. ASSUME P!Implement
      PROVE  pc = "implement" /\ WorkType' /\ RunInv'
  BY <1>7, ImplementFrame DEF P!Implement
<1>8. ASSUME P!Collect
      PROVE  pc = "collect" /\ WorkType' /\ RunInv'
  BY <1>8, CollectFrame DEF P!Collect
<1>9. ASSUME P!Verify
      PROVE  /\ pc = "verify" /\ pc' \in {"judge", "crash"}
             /\ UNCHANGED <<opts, work, diffs, commits, leaks>>
             /\ iteration' \in Nat /\ pending' \subseteq Tasks
  BY <1>0, <1>9 DEF P!Verify, P!Raise, P!loop, WorkType
<1>10. ASSUME P!Judge
       PROVE  /\ pc = "judge" /\ UNCHANGED <<opts, work, diffs, commits, leaks>>
              /\ iteration' \in Nat /\ pending' \subseteq Tasks
              /\ pc' \in {"mergeGate", "implement", "finalize", "crash"}
              /\ pc' = "mergeGate" => leaks = {}
  <2>1. /\ pc = "judge" /\ UNCHANGED <<opts, work, diffs, commits, leaks>> /\ report' = P!Scanned
    BY <1>0, <1>10 DEF P!Judge
  <2>2. \/ pc' \in {"implement", "finalize", "crash"}
        \/ pc' = "mergeGate" /\ report'.verdict = "ship"
    BY <1>10 DEF P!Judge, P!IterateOn, P!Return, P!Raise
  <2>3. leaks # {} => report'.verdict = "reject"
    BY <2>1 DEF P!Scanned
  <2>4. iteration' \in Nat /\ pending' \subseteq Tasks
    BY <1>10 DEF P!Judge, P!IterateOn, P!Requeued, P!Return, P!loop, WorkType
  <2>5. QED
    BY <2>1, <2>2, <2>3, <2>4
<1>11. ASSUME P!Finalize \/ P!MarkCrashed \/ P!Account \/ P!Leave
       PROVE  pc \in After /\ pc' \in After /\ Same
  BY <1>0, <1>11 DEF P!Finalize, P!MarkCrashed, P!Account, P!Leave, P!Raise, P!judged, P!loop,
                     WorkType, After
<1>12. WorkType'
  BY <1>1, <1>2, <1>3, <1>4, <1>5, <1>6, <1>7, <1>8, <1>9, <1>10, <1>11 DEF RunStep, WorkType
<1>13. RunInv'
  <2> USE DEF RunInv, Before, After, Holds
  <2>1. CASE P!LoadConfig \/ P!Admission \/ P!Register \/ P!Construct \/ P!CritiqueStep
             \/ P!PlanStep \/ P!PlanGate
    BY <1>1, <1>2, <1>3, <2>1
  <2>2. CASE P!Setup \/ P!MergeGate
    BY <1>4, <1>5, <2>2
  <2>3. CASE P!Interrupt
    BY <1>6, <2>3
  <2>4. CASE P!Implement \/ P!Collect
    BY <1>7, <1>8, <2>4
  <2>5. CASE P!Verify
    BY <1>9, <2>5
  <2>6. CASE P!Judge
    BY <1>10, <2>6
  <2>7. CASE P!Finalize \/ P!MarkCrashed \/ P!Account \/ P!Leave
    BY <1>11, <2>7
  <2>8. QED
    BY <2>1, <2>2, <2>3, <2>4, <2>5, <2>6, <2>7 DEF RunStep
<1>14. pc # "merge"
  BY <1>1, <1>2, <1>3, <1>4, <1>5, <1>6, <1>7, <1>8, <1>9, <1>10, <1>11 DEF RunStep, Before, After
<1>15. pc \in After => pc' \in After /\ UNCHANGED <<report, diffs, leaks, commits>>
  BY <1>1, <1>2, <1>3, <1>4, <1>5, <1>6, <1>7, <1>8, <1>9, <1>10, <1>11 DEF RunStep, Before, After
<1>16. QED
  BY <1>0, <1>12, <1>13, <1>14, <1>15

-----------------------------------------------------------------------------
(* What a branch holds is what was seen of it; a branch that changes a     *)
(* hunk has a commit, and its diff shows something.                        *)
LEMMA BranchSeen ==
  ASSUME WorkType, RunInv, pc = "merge", NEW t \in Tasks
  PROVE  /\ \A f \in Hunks : Tips[t][f] = Content(t, Seen(t))[f]
         /\ M!Changed(t) # {} => t \in Committers /\ P!Shows(diffs[t])
         /\ \A f \in M!Changed(t) : f \in Hunks /\ Tips[t][f] # Base[f]
<1>1. Tips[t] = Content(t, commits[t])
  BY DEF Tips
<1>2. diffs[t] \in P!Versions /\ commits[t] \in P!Versions
  BY DEF WorkType
<1>3. CASE t \notin Committers
  <2>1. commits[t] = P!Untouched /\ Seen(t) = commits[t]
    BY <1>3 DEF RunInv, Seen
  <2>2. \A f \in Hunks : Content(t, commits[t])[f] = Base[f]
    BY <2>1 DEF Content, P!Untouched
  <2>3. QED
    BY <1>1, <2>1, <2>2 DEF M!Changed
<1>4. CASE t \in Committers
  <2>1. /\ diffs[t].edited = commits[t].edited /\ diffs[t].created = commits[t].created
        /\ diffs[t].tested = 0 => commits[t].tested = 0
    BY <1>4 DEF RunInv, Holds
  <2>2. \A f \in Hunks : Content(t, commits[t])[f] = Content(t, Seen(t))[f]
    BY <2>1 DEF Content, Seen
  <2>3. ASSUME NEW f \in M!Changed(t)
        PROVE  f \in Hunks /\ Tips[t][f] # Base[f] /\ P!Shows(diffs[t])
    <3>1. f \in Hunks /\ Tips[t][f] # Base[f]
      BY DEF M!Changed
    <3>2. commits[t].edited > 0 \/ commits[t].created > 0 \/ commits[t].tested > 0
      BY <1>1, <3>1 DEF Content
    <3>3. P!Shows(diffs[t])
      BY <1>2, <2>1, <3>2 DEF P!Shows, P!Versions
    <3>4. QED
      BY <3>1, <3>3
  <2>4. QED
    BY <1>1, <1>4, <2>2, <2>3
<1>5. QED
  BY <1>3, <1>4

(* An approved subtask whose branch changes something is one that a squash *)
(* can find something on.                                                  *)
LEMMA ChangedReady ==
  ASSUME WorkType, RunInv, pc = "merge", NEW t \in P!Approved, M!Changed(t) # {}
  PROVE  P!Ready # {}
<1>1. t \in Tasks
  BY DEF P!Approved
<1>2. t \in P!Ready
  BY <1>1, BranchSeen DEF P!Ready
<1>3. QED
  BY <1>2

(* Where a branch changes nothing, a merge of it writes nothing.           *)
LEMMA NothingMerged ==
  ASSUME NEW t, M!Changed(t) = {}
  PROVE  M!Merged(t) = [f \in Hunks |-> wt[f]] /\ M!Conflicts(t) = {}
  BY DEF M!Merged, M!Conflicts

(* The subtask of an iteration is one of the plan.                         *)
LEMMA TaskOfPlan ==
  ASSUME StepInv, M!InLoop
  PROVE  M!Task \in Tasks /\ step = "loop"
<1>1. at + 1 \in 1..Len(Order)
  BY DEF StepInv, M!InLoop
<1>2. QED
  BY <1>1 DEF M!Task, M!InLoop

(* While the merge runs, what it works from stays as it is.                *)
LEMMA InputsStay ==
  ASSUME UNCHANGED <<report, diffs, leaks, commits>>
  PROVE  /\ P!Approved' = P!Approved /\ P!Ready' = P!Ready
         /\ \A t \in Tasks : /\ P!Effective(report, t)' = P!Effective(report, t)
                             /\ Content(t, Seen(t))' = Content(t, Seen(t))
  BY DEF P!Approved, P!Ready, P!NoReport, P!Effective, P!Shows, Content, Seen

(* Steps of the merge keep the part of the invariant about the run.        *)
LEMMA MergeFrame ==
  ASSUME IInv, pc = "merge", UNCHANGED <<run_vars, commits>>
  PROVE  /\ WorkType' /\ RunInv' /\ leaks = {}
         /\ UNCHANGED <<pc, report, diffs, leaks, commits>>
<1>1. UNCHANGED <<opts, pc, iteration, pending, work, report, diffs, leaks, commits>>
  BY DEF run_vars
<1>2. WorkType'
  BY <1>1 DEF IInv, WorkType
<1>3. RunInv'
  BY <1>1 DEF IInv, RunInv, Holds
<1>4. leaks = {}
  BY DEF IInv, RunInv
<1>5. QED
  BY <1>1, <1>2, <1>3, <1>4

(* A skipped subtask leaves the branch, and what was merged before, alone. *)
LEMMA SkipHolds ==
  ASSUME IInv, pc = "merge", UNCHANGED <<run_vars, commits>>, M!InLoop,
         NEW how \in M!Reasons, M!Settle(how), UNCHANGED head, spilt \subseteq spilt',
         ~unmerged' => \A f \in Hunks \ spilt' : wt'[f] = head[f],
         P!Ready = {} => wt' = wt
  PROVE  IInv'
<1>1. /\ M!Task \in Tasks /\ step = "loop" /\ step' = "loop" /\ at' = at + 1
      /\ result' = [result EXCEPT ![M!Task] = how]
  BY TaskOfPlan DEF IInv, M!Settle
<1>2. /\ result' \in [Tasks -> M!Reasons \cup {"none", "merged"}]
      /\ \A t \in Tasks : result'[t] = "merged" => result[t] = "merged"
  BY <1>1 DEF IInv, StepInv, M!Reasons
<1>3. WorkType' /\ RunInv' /\ UNCHANGED <<pc, report, diffs, leaks, commits>>
  BY MergeFrame
<1>4. /\ P!Approved' = P!Approved /\ P!Ready' = P!Ready
      /\ \A t \in Tasks : /\ P!Effective(report, t)' = P!Effective(report, t)
                          /\ Content(t, Seen(t))' = Content(t, Seen(t))
  BY <1>3, InputsStay
<1>5. StepInv'
  BY <1>1, <1>2, <1>3, <1>4 DEF IInv, StepInv, M!Reasons
<1>6. BranchIsJudged'
  BY <1>1, <1>2, <1>3, <1>4 DEF IInv, BranchIsJudged, M!Built
<1>7. QED
  BY <1>3, <1>5, <1>6 DEF IInv

(* A git merge that fails for a reason of its own writes nothing, or some  *)
(* of what it was to write, which is remembered as spilt.                  *)
LEMMA FailedHolds ==
  ASSUME IInv, pc = "merge", UNCHANGED <<run_vars, commits>>, M!SkipFailed
  PROVE  IInv'
<1>1. /\ M!InLoop /\ M!Task \in P!Approved /\ ~unmerged /\ UNCHANGED <<head, unmerged>>
      /\ M!Settle("merge_conflict") /\ spilt' = spilt \cup {f \in Hunks : wt'[f] # wt[f]}
  BY DEF M!SkipFailed
<1>2. step = "loop" /\ \A f \in Hunks \ spilt : wt[f] = head[f]
  BY <1>1, TaskOfPlan DEF IInv, StepInv
<1>3. \A f \in Hunks \ spilt' : wt'[f] = head[f]
  BY <1>1, <1>2
<1>4. ASSUME P!Ready = {}
      PROVE  wt' = wt
  <2>1. M!Changed(M!Task) = {}
    BY <1>1, <1>4, ChangedReady DEF IInv
  <2>2. wt = [f \in Hunks |-> wt[f]]
    BY <1>2, <1>4 DEF IInv, StepInv
  <2>3. ASSUME NEW fs \in SUBSET Hunks,
               wt' = [f \in Hunks |-> IF f \in fs THEN M!Merged(M!Task)[f] ELSE wt[f]]
        PROVE  wt' = wt
    <3>1. \A f \in Hunks : M!Merged(M!Task)[f] = wt[f]
      BY <2>1, NothingMerged
    <3>2. wt' = [f \in Hunks |-> wt[f]]
      BY <2>3, <3>1
    <3>3. QED
      BY <2>2, <3>2
  <2>4. QED
    BY <2>3 DEF M!SkipFailed
<1>5. QED
  BY <1>1, <1>3, <1>4, SkipHolds DEF M!Reasons

(* A squash keeps what is on the branch: where it changes a hunk another   *)
(* subtask has changed, both agree.                                        *)
LEMMA SquashHolds ==
  ASSUME IInv, pc = "merge", UNCHANGED <<run_vars, commits>>, M!Squash
  PROVE  IInv'
<1> DEFINE T == M!Task
<1>1. /\ T \in Tasks /\ step = "loop" /\ step' = "loop" /\ at' = at + 1
      /\ result' = [result EXCEPT ![T] = "merged"]
      /\ T \in P!Approved /\ ~unmerged /\ M!Conflicts(T) = {}
      /\ UNCHANGED <<unmerged, spilt>> /\ wt' = head'
      /\ head' = M!Merged(T) /\ M!Merged(T) # head
  BY TaskOfPlan DEF IInv, M!Squash, M!Merges, M!Starts, M!Settle
<1> HIDE DEF T
<1>2. WorkType' /\ RunInv' /\ leaks = {} /\ UNCHANGED <<pc, report, diffs, leaks, commits>>
  BY MergeFrame
<1>3. /\ P!Approved' = P!Approved /\ P!Ready' = P!Ready
      /\ \A t \in Tasks : /\ P!Effective(report, t)' = P!Effective(report, t)
                          /\ Content(t, Seen(t))' = Content(t, Seen(t))
  BY <1>2, InputsStay
<1>4. P!Ready # {}
  <2> SUFFICES ASSUME P!Ready = {}
               PROVE  FALSE
    OBVIOUS
  <2>1. M!Changed(T) = {}
    BY <1>1, ChangedReady DEF IInv
  <2>2. M!Merged(T) = [f \in Hunks |-> wt[f]]
    BY <2>1, NothingMerged
  <2>3. wt = head /\ wt = [f \in Hunks |-> wt[f]]
    BY <1>1 DEF IInv, StepInv
  <2>4. QED
    BY <1>1, <2>2, <2>3
<1>5. \A f \in Hunks \ spilt : wt[f] = head[f]
  BY <1>1 DEF IInv, StepInv
<1>6. \A f \in M!Changed(T) : /\ f \in Hunks /\ Tips[T][f] # Base[f]
                              /\ head[f] \in {Base[f], Tips[T][f]}
  BY <1>1, BranchSeen DEF IInv, M!Conflicts
<1>7. \A f \in Hunks \ spilt : head'[f] = IF f \in M!Changed(T) THEN Tips[T][f] ELSE head[f]
  BY <1>1, <1>5, <1>6 DEF M!Merged
<1>8. \A f \in Hunks : /\ Tips[T][f] = Content(T, Seen(T))[f]
                       /\ f \notin M!Changed(T) => Content(T, Seen(T))[f] = Base[f]
  BY <1>1, BranchSeen DEF IInv, M!Changed
<1>9. result'[T] = "merged" /\ \A t \in Tasks \ {T} : result'[t] = result[t]
  BY <1>1 DEF IInv, StepInv
<1>10. P!Effective(report, T) = "ship" /\ T \notin leaks
  BY <1>1, <1>2 DEF P!Approved
<1>11. StepInv'
  <2>1. at' \in Nat /\ result' \in [Tasks -> M!Reasons \cup {"none", "merged"}]
    BY <1>1 DEF IInv, StepInv
  <2>2. \A t \in Tasks : result'[t] = "merged" => t \in P!Approved /\ P!Ready # {}
    BY <1>1, <1>4, <1>9 DEF IInv, StepInv
  <2>3. QED
    BY <1>1, <1>2, <1>3, <1>4, <2>1, <2>2 DEF IInv, StepInv
<1>12. BranchIsJudged'
  <2>1. \A f \in Hunks \ spilt :
          \/ head'[f] = Base[f]
          \/ \E t \in Tasks \ leaks : /\ P!Effective(report, t) = "ship"
                                      /\ head'[f] = Content(t, Seen(t))[f]
    BY <1>1, <1>7, <1>8, <1>10 DEF IInv, BranchIsJudged, M!Built
  <2>2. ASSUME NEW t \in Tasks, result'[t] = "merged", NEW f \in Hunks \ spilt
        PROVE  Content(t, Seen(t))[f] \in {Base[f], head'[f]}
    <3>1. CASE t = T
      BY <1>7, <1>8, <3>1
    <3>2. CASE t # T
      <4>1. Content(t, Seen(t))[f] \in {Base[f], head[f]}
        BY <1>9, <2>2, <3>2 DEF IInv, BranchIsJudged
      <4>2. QED
        BY <1>6, <1>7, <4>1
    <3>3. QED
      BY <3>1, <3>2
  <2>3. QED
    BY <1>1, <1>2, <1>3, <2>1, <2>2 DEF BranchIsJudged
<1>13. QED
  BY <1>2, <1>11, <1>12 DEF IInv

(* The merge loop, step by step.                                           *)
LEMMA MergeHolds ==
  ASSUME IInv, MergeStep
  PROVE  IInv'
<1>0. pc = "merge" /\ UNCHANGED <<run_vars, commits>>
  BY DEF MergeStep
<1>1. WorkType' /\ RunInv' /\ UNCHANGED <<pc, report, diffs, leaks, commits>>
  BY <1>0, MergeFrame
<1>s. /\ P!Approved' = P!Approved /\ P!Ready' = P!Ready
      /\ \A t \in Tasks : /\ P!Effective(report, t)' = P!Effective(report, t)
                          /\ Content(t, Seen(t))' = Content(t, Seen(t))
  BY <1>1, InputsStay
<1>w. M!InLoop => /\ ~unmerged => \A f \in Hunks \ spilt : wt[f] = head[f]
                  /\ P!Ready = {} => wt = head
  BY DEF IInv, StepInv, M!InLoop
<1>2. CASE M!Prepare
  <2>1. /\ step = "start" /\ step' = "loop" /\ head' = Base /\ wt' = Base
        /\ UNCHANGED <<at, unmerged, spilt, result>>
    BY <1>2 DEF M!Prepare
  <2>2. \A t \in Tasks : result[t] = "none"
    BY <2>1 DEF IInv, StepInv
  <2>3. wt' = [f \in Hunks |-> wt'[f]]
    BY <2>1 DEF Base
  <2>4. StepInv'
    BY <1>0, <1>1, <2>1, <2>2, <2>3 DEF IInv, StepInv, M!Reasons
  <2>5. BranchIsJudged'
    BY <2>1, <2>2 DEF BranchIsJudged
  <2>6. QED
    BY <1>1, <2>4, <2>5 DEF IInv
<1>3. CASE M!SkipUnapproved
  <2>1. M!InLoop /\ M!Settle("not_approved") /\ UNCHANGED <<head, wt, unmerged, spilt>>
    BY <1>3 DEF M!SkipUnapproved
  <2>2. QED
    BY <1>0, <1>w, <2>1, SkipHolds DEF M!Reasons
<1>4. CASE M!SkipBlocked
  <2>1. /\ M!InLoop /\ M!Settle("merge_conflict") /\ unmerged
        /\ UNCHANGED <<head, wt, unmerged, spilt>>
    BY <1>4 DEF M!SkipBlocked
  <2>2. QED
    BY <1>0, <2>1, SkipHolds DEF M!Reasons
<1>5. CASE M!SkipFailed
  BY <1>0, <1>5, FailedHolds
<1>6. CASE M!SkipConflict
  <2>1. /\ M!InLoop /\ M!Settle("merge_conflict") /\ unmerged' /\ UNCHANGED <<head, spilt>>
        /\ M!Conflicts(M!Task) # {} /\ M!Task \in P!Approved
    BY <1>6 DEF M!SkipConflict, M!Starts
  <2>2. P!Ready # {}
    <3>1. M!Changed(M!Task) # {}
      BY <2>1, NothingMerged
    <3>2. QED
      BY <1>0, <2>1, <3>1, ChangedReady DEF IInv
  <2>3. QED
    BY <1>0, <2>1, <2>2, SkipHolds DEF M!Reasons
<1>7. CASE M!SkipEmpty
  <2>1. /\ M!InLoop /\ M!Settle("empty_diff") /\ ~unmerged /\ UNCHANGED <<head, spilt>>
        /\ wt' = head
    BY <1>7 DEF M!SkipEmpty, M!Merges, M!Starts
  <2>2. QED
    BY <1>0, <1>w, <2>1, SkipHolds DEF M!Reasons
<1>8. CASE M!Squash
  BY <1>0, <1>8, SquashHolds
<1>9. CASE M!CommitFails
  <2>1. /\ step = "loop" /\ step' = "raising"
        /\ UNCHANGED <<at, head, unmerged, spilt, result>>
    BY <1>9 DEF M!CommitFails, M!Merges, M!Starts, M!InLoop
  <2>2. StepInv'
    BY <1>0, <1>1, <1>s, <2>1 DEF IInv, StepInv
  <2>3. BranchIsJudged'
    BY <1>1, <1>s, <2>1 DEF IInv, BranchIsJudged, M!Built
  <2>4. QED
    BY <1>1, <2>2, <2>3 DEF IInv
<1>10. QED
  BY <1>2, <1>3, <1>4, <1>5, <1>6, <1>7, <1>8, <1>9 DEF MergeStep

(* Leaving the merge, by the finally clause or by the refusal.             *)
LEMMA EndHolds ==
  ASSUME IInv, MergeEnd
  PROVE  IInv'
<1>1. /\ pc = "merge" /\ pc' \in After
      /\ UNCHANGED <<opts, iteration, pending, work, leaks, diffs, report, commits,
                     at, unmerged, spilt, result>>
      /\ step' \in {"returned", "raised", "refused"}
      /\ step' = "refused" => step = "start"
      /\ step' \in {"returned", "raised"} => step \in {"loop", "raising"} /\ UNCHANGED head
  BY DEF MergeEnd, M!Remove, M!PrepareRefused, P!Return, P!Raise, After
<1>2. WorkType' /\ RunInv'
  BY <1>1 DEF IInv, WorkType, RunInv, After, Before
<1>3. /\ P!Approved' = P!Approved /\ P!Ready' = P!Ready
      /\ \A t \in Tasks : /\ P!Effective(report, t)' = P!Effective(report, t)
                          /\ Content(t, Seen(t))' = Content(t, Seen(t))
  BY <1>1, InputsStay
<1>4. StepInv'
  BY <1>1, <1>3 DEF IInv, StepInv, After
<1>5. CASE step' = "refused"
  <2>1. \A t \in Tasks : result'[t] = "none"
    BY <1>1, <1>5 DEF IInv, StepInv
  <2>2. BranchIsJudged'
    BY <1>5, <2>1 DEF BranchIsJudged, M!Built
  <2>3. QED
    BY <1>2, <1>4, <2>2 DEF IInv
<1>6. CASE step' \in {"returned", "raised"}
  <2>1. BranchIsJudged'
    BY <1>1, <1>3, <1>6 DEF IInv, BranchIsJudged, M!Built
  <2>2. QED
    BY <1>2, <1>4, <2>1 DEF IInv
<1>7. QED
  BY <1>1, <1>5, <1>6

(* The steps of the run before the merge and after it.                     *)
LEMMA RunHolds ==
  ASSUME IInv, RunStep
  PROVE  IInv'
<1>1. /\ UNCHANGED git /\ pc # "merge" /\ WorkType' /\ RunInv'
      /\ pc \in After => pc' \in After /\ UNCHANGED <<report, diffs, leaks, commits>>
  BY RunFrame DEF IInv
<1>2. UNCHANGED <<step, at, head, wt, unmerged, spilt, result>>
  BY <1>1 DEF git
<1>3. CASE step = "start"
  <2>1. \A t \in Tasks : result[t] = "none"
    BY <1>3 DEF IInv, StepInv
  <2>2. StepInv'
    BY <1>2, <1>3, <2>1 DEF IInv, StepInv
  <2>3. BranchIsJudged'
    BY <1>2, <1>3, <2>1 DEF BranchIsJudged, M!Built
  <2>4. QED
    BY <1>1, <2>2, <2>3 DEF IInv
<1>4. CASE step # "start"
  <2>1. pc \in After /\ pc' \in After /\ UNCHANGED <<report, diffs, leaks, commits>>
    BY <1>1, <1>4 DEF IInv, StepInv
  <2>2. pc' # "merge"
    BY <2>1 DEF After
  <2>3. /\ P!Approved' = P!Approved /\ P!Ready' = P!Ready
        /\ \A t \in Tasks : /\ P!Effective(report, t)' = P!Effective(report, t)
                            /\ Content(t, Seen(t))' = Content(t, Seen(t))
    BY <2>1, InputsStay
  <2>4. StepInv'
    BY <1>2, <2>1, <2>2, <2>3 DEF IInv, StepInv
  <2>5. BranchIsJudged'
    BY <1>2, <2>1, <2>3 DEF IInv, BranchIsJudged, M!Built
  <2>6. QED
    BY <1>1, <2>4, <2>5 DEF IInv
<1>5. QED
  BY <1>3, <1>4

(* The invariant of the composed run is inductive.                         *)
LEMMA StepHolds == IInv /\ [Next]_vars => IInv'
<1> SUFFICES ASSUME IInv, [Next]_vars
             PROVE  IInv'
  OBVIOUS
<1>1. CASE UNCHANGED vars
  <2>1. UNCHANGED <<opts, iteration, pending, work, pc, report, diffs, leaks, commits,
                    step, at, head, wt, unmerged, spilt, result>>
    BY <1>1 DEF vars, run_vars, git
  <2>2. WorkType' /\ RunInv'
    BY <2>1 DEF IInv, WorkType, RunInv, Holds
  <2>3. /\ P!Approved' = P!Approved /\ P!Ready' = P!Ready
        /\ \A t \in Tasks : /\ P!Effective(report, t)' = P!Effective(report, t)
                            /\ Content(t, Seen(t))' = Content(t, Seen(t))
    BY <2>1, InputsStay
  <2>4. StepInv' /\ BranchIsJudged'
    BY <2>1, <2>3 DEF IInv, StepInv, BranchIsJudged, M!Built
  <2>5. QED
    BY <2>2, <2>4 DEF IInv
<1>2. QED
  BY <1>1, RunHolds, MergeHolds, EndHolds DEF Next

(* The inductive invariant of the composed run, for any plan.              *)
THEOREM Invariance == Spec => []IInv
  BY InitHolds, StepHolds, PTL DEF Spec

(* End to end, hunk by hunk: the integration branch holds the base and     *)
(* what was seen of shipped subtasks, and every merged subtask in full,    *)
(* but for what a git merge that died half-way wrote.                      *)
THEOREM JudgedTheorem == Spec => []BranchIsJudged
<1>1. IInv => BranchIsJudged
  BY DEF IInv
<1>2. QED
  BY <1>1, Invariance, PTL

-----------------------------------------------------------------------------
(* Initial states are initial states of Pipeline.                          *)
LEMMA InitRefines == Init => P!Init
  BY DEF Init

(* A step of the run is the same step of Pipeline; the merge loop is not   *)
(* seen there until it is left, and that is its one merge step.            *)
LEMMA StepRefines == IInv /\ [Next]_vars => [P!Next]_(P!vars)
<1> SUFFICES ASSUME IInv, [Next]_vars
             PROVE  [P!Next]_(P!vars)
  OBVIOUS
<1>1. CASE RunStep
  BY <1>1 DEF RunStep, P!Next
<1>2. CASE MergeStep
  <2>1. UNCHANGED run_vars /\ step \in {"start", "loop"} /\ step' \in {"loop", "raising"}
    BY <1>2 DEF MergeStep, M!Prepare, M!SkipUnapproved, M!SkipBlocked, M!SkipFailed,
                M!SkipConflict, M!SkipEmpty, M!Squash, M!CommitFails, M!Merges, M!Starts,
                M!InLoop, M!Settle
  <2>2. QED
    BY <2>1 DEF P!vars, run_vars, Left
<1>3. CASE MergeEnd
  <2> DEFINE delivered == IF Left THEN {t \in Tasks : result[t] = "merged"} ELSE {}
  <2>1. /\ pc = "merge" /\ UNCHANGED result
        /\ UNCHANGED <<opts, revision, iteration, pending, work, diffs, leaks, report,
                       gates, trees>>
        /\ \/ step' = "returned" /\ P!Return("merged") /\ UNCHANGED run
           \/ step' \in {"raised", "refused"} /\ P!Raise({"notfound", "other"})
              /\ UNCHANGED outcome
    BY <1>3 DEF MergeEnd, M!Remove, M!PrepareRefused
  <2>2. UNCHANGED <<opts, P!plan, P!loop, work, P!judged, trees>>
    BY <2>1 DEF P!plan, P!loop, P!judged
  <2>3. delivered' \in SUBSET P!Approved /\ (P!Ready = {} => delivered' = {})
    BY <2>1 DEF IInv, StepInv
  <2>4. CASE step' = "returned"
    <3>1. Left' /\ P!Return("merged") /\ UNCHANGED run
      BY <2>1, <2>4 DEF Left
    <3>2. P!Merge
      BY <2>1, <2>2, <2>3, <3>1 DEF P!Merge
    <3>3. QED
      BY <2>2, <3>2 DEF P!Next
  <2>5. CASE step' = "raised"
    <3>1. Left' /\ P!Raise({"notfound", "other"}) /\ UNCHANGED outcome
      BY <2>1, <2>5 DEF Left
    <3>2. P!Merge
      BY <2>1, <2>2, <2>3, <3>1 DEF P!Merge
    <3>3. QED
      BY <2>2, <3>2 DEF P!Next
  <2>6. CASE step' = "refused"
    <3>1. ~Left' /\ P!Raise({"notfound", "other"}) /\ UNCHANGED outcome
      BY <2>1, <2>6 DEF Left
    <3>2. delivered' = {}
      BY <3>1
    <3>3. Left' = FALSE
      BY <2>6 DEF Left
    <3>4. (delivered' # {}) = FALSE
      BY <3>2
    <3> HIDE DEF delivered
    <3>5. Left' \in {TRUE, delivered' # {}}
      BY <3>3, <3>4
    <3> USE DEF delivered
    <3>6. P!Merge
      BY <2>1, <2>2, <2>3, <3>1, <3>5 DEF P!Merge
    <3>7. QED
      BY <2>2, <3>6 DEF P!Next
  <2>7. QED
    BY <2>1, <2>4, <2>5, <2>6
<1>4. CASE UNCHANGED vars
  BY <1>4 DEF vars, run_vars, git, P!vars, Left
<1>5. QED
  BY <1>1, <1>2, <1>3, <1>4 DEF Next

(* The run with its merge loop is a run of Pipeline: what is proved of     *)
(* Pipeline with one merge step holds of it.                               *)
THEOREM SystemImplementsPipeline == Spec => P!Spec
<1>1. Spec => []IInv
  BY Invariance
<1>2. QED
  BY <1>1, InitRefines, StepRefines, PTL DEF Spec, P!Spec
=============================================================================

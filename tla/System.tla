------------------------------- MODULE System -------------------------------
(***************************************************************************)
(* A run with the loop of squash_integration in it: Pipeline.tla up to the *)
(* merge gate, then the steps of Merge.tla over the branches the run left, *)
(* then the rest of Pipeline.  What the two share is git: the approved     *)
(* subtasks come from the verdict, the tips of the branches from the       *)
(* worktrees, and whether an integration branch exists from the merge.     *)
(*                                                                         *)
(* Every subtask may edit one hunk of base_ref and create one file;        *)
(* subtasks may share them, and tests may write where a subtask edits.  A  *)
(* worker that commits does so at the end of its round, so that what tests *)
(* write after it is in the worktree and in the next diff, but not in the  *)
(* branch.  A subtask may be called "integration": its own branch has the  *)
(* name of the integration branch then, and the merge is refused.          *)
(***************************************************************************)
EXTENDS Sequences, Integers

CONSTANTS Tasks, Order, Options, MaxPlanRevisions, CapSet, Committers,
          Known,    \* per subtask, the hunk of base_ref it may edit
          Fresh,    \* per subtask, the file it may create
          Pinned,   \* a subtask is called "integration"
          Named,    \* bound: what a verdict may say of a subtask
          Nobody, Markers, Absent

Hunks   == {Known[t] : t \in Tasks} \cup {Fresh[t] : t \in Tasks}
Written == [by : Tasks \cup {Nobody}, round : Nat, tested : Nat]
Base    == [f \in Hunks |-> [by |-> Nobody, round |-> 0, tested |-> 0]]

ASSUME SystemAssumption ==
         /\ Tasks # {} /\ Committers \subseteq Tasks
         /\ Options \subseteq [max_iter : Int, cleanup : BOOLEAN, writable : SUBSET Tasks]
         /\ MaxPlanRevisions \in Int /\ CapSet \in BOOLEAN
         /\ Pinned \in BOOLEAN
         /\ Named \subseteq {"ship", "iterate", "reject", "absent"}
         /\ Order \in Seq(Tasks)
         /\ \A i, j \in 1..Len(Order) : Order[i] = Order[j] => i = j
         /\ \A t, u \in Tasks : Known[t] # Fresh[u]
         /\ Nobody \notin Tasks
         /\ Markers \notin Written
         /\ Absent \notin [Hunks -> Written \cup {Markers}]

VARIABLES opts, pc, revision, iteration, pending, work, diffs, leaks, report,
          gates, trees, outcome, run,                    \* of Pipeline
          pinned, step, at, head, wt, unmerged, failed,
          spilt, result,                                 \* of Merge
          commits    \* per subtask, the work its branch holds

run_vars == <<opts, pc, revision, iteration, pending, work, diffs, leaks, report,
              gates, trees, outcome, run>>
git      == <<pinned, step, at, head, wt, unmerged, failed, spilt, result>>
vars     == <<run_vars, git, commits>>

-----------------------------------------------------------------------------
(* The outside sees the integration branch once squash_integration is left.*)
Left == step \in {"returned", "raised"}

P == INSTANCE Pipeline WITH
       integration <- Left,
       delivered <- IF Left THEN {t \in Tasks : result[t] = "merged"} ELSE {}

(* The hunks of a branch, or of a diff, whose versions are v.              *)
Content(t, v) ==
  [f \in Hunks |->
     IF f = Known[t] /\ (v.edited > 0 \/ v.tested > 0)
     THEN [by |-> t, round |-> v.edited, tested |-> v.tested]
     ELSE IF f = Fresh[t] /\ v.created > 0
     THEN [by |-> t, round |-> v.created, tested |-> 0]
     ELSE Base[f]]

(* A branch without a commit is where it was cut.                          *)
Tips == [t \in Tasks |-> Content(t, commits[t])]

M == INSTANCE Merge WITH
       approved <- P!Approved, tip <- Tips, Versions <- Written,
       pc <- step, outcome <- result

Init == /\ pinned = Pinned
        /\ step = "start" /\ at = 0 /\ head = Absent /\ wt = Base
        /\ unmerged = FALSE /\ failed = {} /\ spilt = {}
        /\ result = [t \in Tasks |-> "none"]
        /\ commits = [t \in Tasks |-> P!Untouched]
        /\ P!Init

(* Every step of the run but the merge, which it takes in one.             *)
RunStep == /\ UNCHANGED <<opts, git>>
           /\ \/ P!LoadConfig \/ P!Admission \/ P!Register \/ P!Construct
              \/ P!PlanStep \/ P!CritiqueStep \/ P!PlanGate \/ P!Setup
              \/ P!Implement \/ P!Interrupt \/ P!Collect \/ P!Verify \/ P!Judge
              \/ P!MergeGate
              \/ P!Finalize \/ P!MarkCrashed \/ P!Account \/ P!Leave
           /\ pc' = "judge" => \A t \in Tasks : report'.per[t] \in Named
           /\ commits' = [t \in Tasks |-> IF pc = "implement" /\ t \in pending \cap Committers
                                         THEN work'[t] ELSE commits[t]]

(* squash_integration up to its finally clause.                            *)
MergeStep == /\ pc = "merge"
             /\ UNCHANGED <<run_vars, commits>>
             /\ \/ M!Prepare \/ M!SkipUnapproved \/ M!SkipBlocked \/ M!SkipFailed
                \/ M!SkipConflict \/ M!SkipEmpty \/ M!Squash \/ M!CommitFails

(* The finally clause, or the refusal before it, and what Pipeline.run     *)
(* makes of it.                                                            *)
MergeEnd == /\ pc = "merge"
            /\ UNCHANGED <<opts, revision, iteration, pending, work, diffs, leaks,
                           report, gates, trees, commits>>
            /\ M!Remove \/ M!PrepareRefused
            /\ \/ step' = "returned" /\ P!Return("merged") /\ UNCHANGED run
               \/ step' \in {"raised", "refused"} /\ P!Raise({"notfound", "other"}) /\ UNCHANGED outcome

Next == RunStep \/ MergeStep \/ MergeEnd

Spec == Init /\ [][Next]_vars

FairSpec == Spec /\ WF_vars(Next)

-----------------------------------------------------------------------------
(* The composition is a run as Pipeline describes it: the merge loop looks *)
(* like its one step, and delivers only approved branches, and none where  *)
(* no approved branch has a commit that shows in its diff.                 *)
ImplementsPipeline == P!FairSpec

(* What the verifier and the scanner saw of a branch: the diff, where the  *)
(* work is committed and no test has written the worktree since.           *)
Seen(t) == IF t \in Committers /\ diffs[t].tested = commits[t].tested
           THEN diffs[t] ELSE commits[t]

(* End to end, at every point of the merge: a hunk of the integration      *)
(* branch is as it was, or as the diff of a shipped subtask showed it to   *)
(* the verifier and the scanner; and a subtask reported as merged is there *)
(* with everything its diff showed, also beside others on the same hunks.  *)
(* A file is not a hunk: one that two subtasks changed in different places *)
(* is a mix that no diff showed.  Nor does it hold of what a git merge     *)
(* that died half-way wrote; and where tests wrote the worktree after the  *)
(* last commit, the branch is what was committed, not what was shown.      *)
BranchIsJudged ==
  /\ M!Built =>
       \A f \in Hunks \ spilt :
         \/ head[f] = Base[f]
         \/ \E t \in Tasks \ leaks : /\ P!Effective(report, t) = "ship"
                                     /\ head[f] = Content(t, Seen(t))[f]
  /\ \A t \in Tasks : result[t] = "merged" =>
       \A f \in Hunks \ spilt : Content(t, Seen(t))[f] \in {Base[f], head[f]}

(* The inductive invariant behind the two, on the types it needs: what is  *)
(* committed is in the worktrees, but for what tests wrote, and from the   *)
(* verifier to the merge in the diffs; no finding is open at the merge     *)
(* gate; the merge loop is inside the run's merge, and what it reports as  *)
(* merged is shipped.                                                      *)
Before == {"config", "admission", "register", "construct", "plan", "critique",
           "planGate", "setup"}
After  == {"finalize", "crash", "account", "leave", "exited"}

Holds(v, c) == /\ v.edited = c.edited /\ v.created = c.created
               /\ v.tested = 0 => c.tested = 0

WorkType == /\ {work, diffs, commits} \subseteq [Tasks -> P!Versions]
            /\ iteration \in Nat /\ opts \in Options /\ pending \subseteq Tasks

RunInv ==
  /\ pc \in Before \cup {"mergeGate", "merge"} => leaks = {}
  /\ \A t \in Tasks \ Committers : commits[t] = P!Untouched
  /\ pc \notin After => \A t \in Committers : Holds(work[t], commits[t])
  /\ pc \in Before \cup {"verify", "judge", "mergeGate", "merge"} =>
       \A t \in Committers : Holds(diffs[t], commits[t])

StepInv ==
  /\ at \in Nat /\ result \in [Tasks -> M!Reasons \cup {"none", "merged"}]
  /\ step \in {"start", "loop", "raising", "refused", "returned", "raised"}
  /\ pc = "merge" => step \in {"start", "loop", "raising"}
  /\ step # "start" => pc \in After \cup {"merge"}
  /\ step \in {"start", "refused"} => \A t \in Tasks : result[t] = "none"
  /\ step = "loop" /\ ~unmerged => \A f \in Hunks \ spilt : wt[f] = head[f]
  /\ step = "loop" /\ P!Ready = {} => wt = head /\ wt = [f \in Hunks |-> wt[f]]
  /\ \A t \in Tasks : result[t] = "merged" => t \in P!Approved /\ P!Ready # {}

IInv == WorkType /\ RunInv /\ StepInv /\ BranchIsJudged
=============================================================================

------------------------------ MODULE Pipeline ------------------------------
(***************************************************************************)
(* One `pciv run`: cli.run_cmd and cli._run around Pipeline.run of         *)
(* workflow.py, from the preflight to the exit code.  The four agents, the *)
(* operator and git are nondeterministic; what is deterministic is every   *)
(* branch the code takes on their answers, what it writes to the run row   *)
(* and the verdict rows, and what it leaves behind when a step raises.     *)
(*                                                                         *)
(* The fan-out inside the implement phase is one step here (FanOut.tla has *)
(* its threads), and so is squash_integration (Merge.tla has its loop).    *)
(***************************************************************************)
EXTENDS Integers

CONSTANTS Tasks,             \* the subtask ids of the plan
          Options,           \* what a run may be started with
          MaxPlanRevisions,  \* iteration.max_plan_revisions
          CapSet,            \* budget.monthly_cap_usd is configured
          Committers         \* subtasks whose branch gets a commit: the workers
                             \* of src/ make none, those of the tests all do

ASSUME PipelineAssumption == /\ Tasks # {}
                             /\ Options \subseteq [max_iter : Int, cleanup : BOOLEAN,
                                                  writable : SUBSET Tasks]
                             /\ MaxPlanRevisions \in Int
                             /\ CapSet \in BOOLEAN
                             /\ Committers \subseteq Tasks

VARIABLES opts,        \* --max-iter, --cleanup, and the subtasks whose tests
                       \* write the worktree they run in, as they can when
                       \* trusted on the host or in an evaluation image
          pc,          \* the statement the run is at
          revision,    \* _revision of the plan loop
          iteration,   \* iteration of the verify loop
          pending,     \* pending_tasks
          work,        \* per subtask, the rounds that last wrote its worktree
          diffs,       \* per subtask, the work the latest diff shows
          leaks,       \* subtasks in whose diff the scanner finds a secret
          report,      \* verdict
          gates,       \* the decision at each gate, "none" before
          trees,       \* subtasks that have a worktree and a branch
          integration, \* the integration branch exists
          delivered,   \* subtasks squashed onto it
          outcome,     \* outcome.status, "none" while outcome is None
          run          \* the run as the outside sees it: its ledger row, the
                       \* latest verdict row, whether Pipeline.run has begun,
                       \* the cross-run record, the fault, the exit code and
                       \* the counter runs_failed_total

plan    == <<revision, gates>>
loop    == <<iteration, pending>>
judged  == <<diffs, leaks, report>>
merged  == <<integration, delivered>>
vars    == <<opts, pc, revision, iteration, pending, work, diffs, leaks, report,
             gates, trees, integration, delivered, outcome, run>>

Verdicts  == {"ship", "iterate", "reject"}
Decisions == {"approve", "revise", "reject", "abort"}
Faults    == {"budget", "notfound", "other"}
NoReport  == [verdict |-> "none", per |-> [t \in Tasks |-> "absent"]]
Reports   == [verdict : Verdicts, per : [Tasks -> Verdicts \cup {"absent"}]]

(* per_subtask.get(id, verdict)                                            *)
Effective(r, t) == IF r.per[t] = "absent" THEN r.verdict ELSE r.per[t]

Untouched == [edited |-> 0, created |-> 0, tested |-> 0]

Init == /\ opts \in Options
        /\ pc = "config"
        /\ revision = 0 /\ iteration = 0
        /\ pending = Tasks
        /\ work = [t \in Tasks |-> Untouched]
        /\ diffs = [t \in Tasks |-> Untouched]
        /\ leaks = {} /\ report = NoReport
        /\ gates = [plan |-> "none", merge |-> "none"]
        /\ trees = {} /\ integration = FALSE /\ delivered = {}
        /\ outcome = "none"
        /\ run = [row |-> "absent", verdict |-> "none", begun |-> FALSE,
                  spend |-> "open", fault |-> "none", exit |-> -1, failed |-> FALSE]

(* An exception inside the try block of cli._run, or before it.            *)
Raise(kinds) == /\ pc' = "crash"
                /\ \E k \in kinds : run' = [run EXCEPT !.fault = k]
Refuse(kinds) == pc' = "leave" /\ \E k \in kinds : run' = [run EXCEPT !.fault = k]
Return(status) == pc' = "finalize" /\ outcome' = status

-----------------------------------------------------------------------------
(* cli._run up to the try block                                            *)

LoadConfig == /\ pc = "config"
              /\ \/ pc' = "admission" /\ UNCHANGED run
                 \/ Refuse({"notfound", "other"})
              /\ UNCHANGED <<plan, loop, work, judged, trees, merged, outcome>>

(* The cross-run cap and the projection against --budget.                  *)
Admission == /\ pc = "admission"
             /\ \/ pc' = "register" /\ UNCHANGED run
                \/ Refuse({"budget", "other"})
             /\ UNCHANGED <<plan, loop, work, judged, trees, merged, outcome>>

Register == /\ pc = "register"
            /\ \/ pc' = "construct" /\ run' = [run EXCEPT !.row = "running"]
               \/ Refuse({"other"})
            /\ UNCHANGED <<plan, loop, work, judged, trees, merged, outcome>>

(* Head of the plan loop: its else branch aborts the run.                  *)
TryRevision(r) == /\ revision' = r
                  /\ IF r <= MaxPlanRevisions
                     THEN pc' = "plan" /\ UNCHANGED outcome
                     ELSE Return("aborted_plan")

(* The constructor of Pipeline runs after record_run, before the try.      *)
Construct == /\ pc = "construct"
             /\ \/ /\ TryRevision(0)
                   /\ run' = [run EXCEPT !.begun = TRUE] /\ UNCHANGED gates
                \/ Refuse({"other"}) /\ UNCHANGED <<revision, gates, outcome>>
             /\ UNCHANGED <<loop, work, judged, trees, merged>>

-----------------------------------------------------------------------------
(* Pipeline.run                                                            *)

PlanStep == /\ pc = "plan"
            /\ \/ pc' = "critique" /\ UNCHANGED run
               \/ Raise({"budget", "other"})
            /\ UNCHANGED <<plan, loop, work, judged, trees, merged, outcome>>

\* Faulty variant: a blocked revision does not count.
CritiqueUncounted == /\ pc = "critique"
                     /\ \/ pc' = "planGate" /\ UNCHANGED <<revision, outcome, run>>
                        \/ TryRevision(revision) /\ UNCHANGED run
                     /\ UNCHANGED <<gates, loop, work, judged, trees, merged>>

CritiqueStep == /\ pc = "critique"
                /\ \/ pc' = "planGate" /\ UNCHANGED <<revision, outcome, run>>
                   \/ TryRevision(revision + 1) /\ UNCHANGED run
                   \/ Raise({"budget", "other"}) /\ UNCHANGED <<revision, outcome>>
                /\ UNCHANGED <<gates, loop, work, judged, trees, merged>>

(* The operator answers, or the prompt is aborted (Ctrl-C, end of input).  *)
PlanGate == /\ pc = "planGate"
            /\ \/ \E d \in Decisions :
                    /\ gates' = [gates EXCEPT !.plan = d]
                    /\ IF d = "approve" THEN pc' = "setup" /\ UNCHANGED outcome
                                        ELSE Return("aborted_plan")
                    /\ UNCHANGED run
               \/ Raise({"other"}) /\ UNCHANGED <<gates, outcome>>
            /\ UNCHANGED <<revision, loop, work, judged, trees, merged>>

(* record_tasks and one worktree after the other; with --max-iter below 0  *)
(* the loop body never runs.                                               *)
Setup == /\ pc = "setup"
         /\ \/ /\ trees' = Tasks
               /\ pc' = IF opts.max_iter >= 0 THEN "implement" ELSE "mergeGate"
               /\ UNCHANGED run
            \/ /\ trees' \in (SUBSET Tasks) \ {Tasks}
               /\ Raise({"notfound", "other"})
         /\ UNCHANGED <<plan, loop, work, judged, merged, outcome>>

(* A worker may edit files of the base commit, what tests have written in  *)
(* them included, and create new ones.                                     *)
Rework(t) == {[edited  |-> e, created |-> c,
               tested  |-> IF e = work[t].edited THEN work[t].tested ELSE 0] :
                e \in {work[t].edited, iteration + 1}, c \in {work[t].created, iteration + 1}}

Written(ts) == {f \in [Tasks -> UNION {Rework(t) : t \in Tasks}] :
                  \A t \in Tasks : f[t] \in IF t \in ts THEN Rework(t) ELSE {work[t]}}

Implement == /\ pc = "implement"
             /\ work' \in Written(pending)
             /\ \/ pc' = "collect" /\ UNCHANGED run
                \/ Raise(Faults)
             /\ UNCHANGED <<plan, loop, judged, trees, merged, outcome>>

(* Ctrl-C cancels the gather: CancelledError passes the except clause of   *)
(* cli._run, so that no status is written.                                 *)
Interrupt == /\ pc = "implement"
             /\ pc' = "account"
             /\ run' = [run EXCEPT !.fault = "interrupt"]
             /\ UNCHANGED <<plan, loop, work, judged, trees, merged, outcome>>

(* `git diff base_ref` shows files git knows; a created file is known only *)
(* where something commits it.                                             *)
DiffOf(t) == [work[t] EXCEPT !.created = IF t \in Committers THEN @ ELSE 0]
Shows(d) == d.edited > 0 \/ d.created > 0 \/ d.tested > 0

(* The tests of this round: pytest runs in every worktree after its diff   *)
(* was taken, and it, or a process it leaves behind, may write files git   *)
(* knows before the next diff.                                             *)
Tested == {[t \in Tasks |-> IF t \in ts THEN [work[t] EXCEPT !.tested = iteration + 1]
                                        ELSE work[t]] : ts \in SUBSET opts.writable}

\* Faulty variant: only the pending subtasks are scanned and diffed.
CollectPending == /\ pc = "collect"
                  /\ diffs' = [t \in Tasks |-> IF t \in pending THEN DiffOf(t) ELSE Untouched]
                  /\ leaks' \in SUBSET {t \in Tasks : Shows(diffs'[t])}
                  /\ work' \in Tested
                  /\ pc' = "verify"
                  /\ UNCHANGED <<plan, loop, report, trees, merged, outcome, run>>

Collect == /\ pc = "collect"
           /\ work' \in Tested
           /\ \/ /\ diffs' = [t \in Tasks |-> DiffOf(t)]
                 /\ leaks' \in SUBSET {t \in Tasks : Shows(diffs'[t])}
                 /\ pc' = "verify" /\ UNCHANGED run
              \/ Raise({"notfound", "other"}) /\ UNCHANGED <<diffs, leaks>>
           /\ UNCHANGED <<plan, loop, report, trees, merged, outcome>>

Verify == /\ pc = "verify"
          /\ \/ report' \in Reports /\ pc' = "judge" /\ UNCHANGED run
             \/ Raise({"budget", "other"}) /\ UNCHANGED report
          /\ UNCHANGED <<plan, loop, work, diffs, leaks, trees, merged, outcome>>

\* Faulty variant: a finding rejects its subtask but not the run.
ScannedNarrow == [report EXCEPT !.per = [t \in Tasks |-> IF t \in leaks THEN "reject" ELSE @[t]]]

(* The verdict after the scanner pass: a finding rejects the run, names    *)
(* the subtasks found and those the verifier rejected, and no other.       *)
Scanned == IF leaks = {} THEN report
           ELSE [verdict |-> "reject",
                 per |-> [t \in Tasks |-> IF t \in leaks \/ report.per[t] = "reject"
                                          THEN "reject" ELSE "absent"]]

Requeued(r) == {t \in Tasks : Effective(r, t) = "iterate"}

\* Faulty variant: an iterate verdict without targets falls through to the gate.
IterateMerging(r) == /\ pending' = Requeued(r)
                     /\ IF pending' = {}
                        THEN pc' = "mergeGate" /\ UNCHANGED <<iteration, outcome>>
                        ELSE IF iteration >= opts.max_iter
                             THEN Return("iteration_cap") /\ UNCHANGED iteration
                             ELSE /\ iteration' = iteration + 1
                                  /\ pc' = "implement" /\ UNCHANGED outcome

(* An iterate verdict, after its row is written.  prior_feedback, the same *)
(* reasons for all of them, is only read into the workers' prompts.        *)
IterateOn(r) == /\ pending' = Requeued(r)
                /\ IF pending' = {}
                   THEN Return("inconclusive") /\ UNCHANGED iteration
                   ELSE IF iteration >= opts.max_iter
                        THEN Return("iteration_cap") /\ UNCHANGED iteration
                        ELSE /\ iteration' = iteration + 1
                             /\ pc' = "implement" /\ UNCHANGED outcome

(* record_verdict and the branch on it.                                    *)
Judge == /\ pc = "judge"
         /\ report' = Scanned
         /\ \/ /\ run' = [run EXCEPT !.verdict = report'.verdict]
               /\ \/ /\ report'.verdict = "ship"
                     /\ pc' = "mergeGate" /\ UNCHANGED <<loop, outcome>>
                  \/ /\ report'.verdict = "reject"
                     /\ Return("rejected") /\ UNCHANGED loop
                  \/ /\ report'.verdict = "iterate"
                     /\ IterateOn(report')
            \/ Raise({"other"}) /\ UNCHANGED <<loop, outcome>>
         /\ UNCHANGED <<plan, work, diffs, leaks, trees, merged>>

\* Faulty variant: only an explicit rejection stops the merge.
MergeGateLax == /\ pc = "mergeGate"
                /\ \E d \in Decisions :
                     /\ gates' = [gates EXCEPT !.merge = d]
                     /\ IF d # "reject" THEN pc' = "merge" /\ UNCHANGED outcome
                                        ELSE Return("merge_rejected")
                /\ UNCHANGED <<revision, loop, work, judged, trees, merged, run>>

MergeGate == /\ pc = "mergeGate"
             /\ \/ \E d \in Decisions :
                     /\ gates' = [gates EXCEPT !.merge = d]
                     /\ IF d = "approve" THEN pc' = "merge" /\ UNCHANGED outcome
                                         ELSE Return("merge_rejected")
                     /\ UNCHANGED run
                \/ Raise({"other"}) /\ UNCHANGED <<gates, outcome>>
             /\ UNCHANGED <<revision, loop, work, judged, trees, merged>>

(* approved_ids; without a verdict nothing is approved.                    *)
Approved == IF report = NoReport THEN {}
            ELSE {t \in Tasks : Effective(report, t) = "ship"}

(* Approved branches that a squash can find something on.                  *)
Ready == {t \in Approved \cap Committers : Shows(diffs[t])}

(* squash_integration: an approved branch without a commit squashes to an  *)
(* empty diff, others may conflict; a git failure leaves what was done.    *)
(* Only where another merge died may an empty branch count as merged, for  *)
(* the leftovers that are committed in its name.                           *)
Merge == /\ pc = "merge"
         /\ delivered' \in SUBSET Approved
         /\ Ready = {} => delivered' = {}
         /\ \/ integration' = TRUE /\ Return("merged") /\ UNCHANGED run
            \/ /\ integration' \in {TRUE, delivered' # {}}
               /\ Raise({"notfound", "other"}) /\ UNCHANGED outcome
         /\ UNCHANGED <<plan, loop, work, judged, trees>>

-----------------------------------------------------------------------------
(* cli._run around Pipeline.run, and cli.run_cmd                           *)

(* finalize_run inside the try: when it raises, the except clause follows  *)
(* with outcome already set.                                               *)
Finalize == /\ pc = "finalize"
            /\ \/ pc' = "account" /\ run' = [run EXCEPT !.row = outcome]
               \/ Raise({"other"})
            /\ UNCHANGED <<plan, loop, work, judged, trees, merged, outcome>>

(* The except clause: the status is written if the ledger takes it.        *)
MarkCrashed == /\ pc = "crash"
               /\ \E row \in {"crashed", run.row} : run' = [run EXCEPT !.row = row]
               /\ pc' = "account"
               /\ UNCHANGED <<plan, loop, work, judged, trees, merged, outcome>>

(* --cleanup, for a run that has an outcome: what cannot be removed stays, *)
(* and nobody is told.                                                     *)
CleanUp == trees' \in IF opts.cleanup /\ outcome # "none" THEN SUBSET trees ELSE {trees}

\* Faulty variant: the spend is recorded for a run that has an outcome.
AccountIfOutcome == /\ pc = "account"
                    /\ CleanUp
                    /\ run' = [run EXCEPT !.spend = IF CapSet /\ outcome # "none"
                                                    THEN "recorded" ELSE @]
                    /\ pc' = "leave"
                    /\ UNCHANGED <<plan, loop, work, judged, merged, outcome>>

(* The finally clause: --cleanup, then the cross-run record, which a       *)
(* database error turns into the exception the run ends with.              *)
Account == /\ pc = "account"
           /\ CleanUp
           /\ \/ run' = [run EXCEPT !.spend = IF CapSet THEN "recorded" ELSE @]
              \/ /\ CapSet
                 /\ run' = [run EXCEPT !.spend = "failed", !.fault = "other"]
           /\ pc' = "leave"
           /\ UNCHANGED <<plan, loop, work, judged, merged, outcome>>

(* The exit code of run_cmd and the counter runs_failed_total, which only  *)
(* the three except clauses of run_cmd increment.                          *)
ExitCode == CASE run.fault = "budget" -> 2
              [] run.fault = "notfound" -> 3
              [] run.fault = "other" -> 1
              [] run.fault = "interrupt" -> 130
              [] OTHER -> IF outcome = "merged" THEN 0 ELSE 1

Counted == \/ run.fault \in {"budget", "notfound"}
           \/ run.fault = "none" /\ outcome # "merged"

\* Faulty variant: a run whose merge was done exits 0 whatever came after.
LeaveByOutcome == /\ pc = "leave"
                  /\ pc' = "exited"
                  /\ run' = [run EXCEPT !.exit = IF outcome = "merged" THEN 0 ELSE 1]
                  /\ UNCHANGED <<plan, loop, work, judged, trees, merged, outcome>>

Leave == /\ pc = "leave"
         /\ pc' = "exited"
         /\ run' = [run EXCEPT !.exit = ExitCode, !.failed = Counted]
         /\ UNCHANGED <<plan, loop, work, judged, trees, merged, outcome>>

Next == /\ UNCHANGED opts
        /\ \/ LoadConfig \/ Admission \/ Register \/ Construct
           \/ PlanStep \/ CritiqueStep \/ PlanGate \/ Setup
           \/ Implement \/ Interrupt \/ Collect \/ Verify \/ Judge
           \/ MergeGate \/ Merge
           \/ Finalize \/ MarkCrashed \/ Account \/ Leave

Spec == Init /\ [][Next]_vars

(* The run takes its next step: model calls and test runs have timeouts,   *)
(* the operator answers the prompts.                                       *)
FairSpec == Spec /\ WF_vars(Next)

-----------------------------------------------------------------------------
Statuses == {"aborted_plan", "rejected", "inconclusive", "iteration_cap",
             "merge_rejected", "merged"}

Places == {"config", "admission", "register", "construct", "plan", "critique",
           "planGate", "setup", "implement", "collect", "verify", "judge",
           "mergeGate", "merge", "finalize", "crash", "account", "leave", "exited"}

Versions == [edited : Nat, created : Nat, tested : Nat]

Runs == [row : Statuses \cup {"none", "absent", "running", "crashed"},
         verdict : Verdicts \cup {"none"}, begun : BOOLEAN,
         spend : {"open", "recorded", "failed"},
         fault : Faults \cup {"none", "interrupt"},
         exit : {-1, 0, 1, 2, 3, 130}, failed : BOOLEAN]

TypeOK ==
  /\ opts \in Options /\ pc \in Places
  /\ revision \in Nat /\ iteration \in Nat
  /\ pending \in SUBSET Tasks
  /\ work \in [Tasks -> Versions] /\ diffs \in [Tasks -> Versions]
  /\ leaks \in SUBSET Tasks
  /\ report \in Reports \cup {NoReport}
  /\ gates \in [plan : Decisions \cup {"none"}, merge : Decisions \cup {"none"}]
  /\ trees \in SUBSET Tasks /\ integration \in BOOLEAN /\ delivered \in SUBSET Tasks
  /\ outcome \in Statuses \cup {"none"}
  /\ run \in Runs

(* ADR-0001: the integration branch is touched only after an approved      *)
(* plan, a "ship" verdict on record with a clean scan of the same diffs,   *)
(* and an approved merge gate.  A negative --max-iter verifies nothing and *)
(* reaches the gate without a verdict: then nothing is delivered.          *)
MergeNeedsShip ==
  integration => /\ gates = [plan |-> "approve", merge |-> "approve"]
                 /\ opts.max_iter >= 0 \/ delivered # {} =>
                      report.verdict = "ship" /\ run.verdict = "ship" /\ leaks = {}

(* The exit code can be believed: code 0 is only seen when the merge       *)
(* happened, the run row says so and the cross-run record did not fail,    *)
(* whatever raised on the way.                                             *)
ExitIsTruthful ==
  run.exit = 0 => run.row = "merged" /\ integration /\ run.spend # "failed"

(* With a cross-run cap no run that may have called a model exits without  *)
(* an attempt to record its spend, crashed and interrupted runs included.  *)
SpendAlwaysRecorded == pc = "exited" /\ CapSet /\ run.begun => run.spend # "open"

(* Every run ends: the plan revisions and the verify rounds are bounded.   *)
Terminates == <>(pc = "exited")

(* Pipeline implements RunSpec: the stage is read off the program counter, *)
(* the verdict is the latest verdict row.                                  *)
StageOf(p) == CASE p \in {"config", "admission", "register", "construct", "plan",
                          "critique", "planGate"} -> "planning"
                [] p \in {"setup", "implement", "collect", "verify", "judge"} -> "building"
                [] p = "mergeGate" -> "shipped"
                [] p = "merge" -> "cleared"
                [] OTHER -> "over"

(* The verdicts a run that is not past its rounds may still get.           *)
RoundsLeft == IF StageOf(pc) \in {"planning", "building"} /\ opts.max_iter >= 0
              THEN opts.max_iter + 1 - iteration ELSE 0

RunStages == INSTANCE RunSpec WITH stage <- StageOf(pc), left <- RoundsLeft,
                                   verdict <- run.verdict

ImplementsRunSpec == RunStages!Spec

(* The inductive invariant behind the merge properties: what has been      *)
(* passed on the way to where the run is.                                  *)
GateInv == /\ StageOf(pc) = "planning" \/ pc = "setup" =>
                report = NoReport /\ run.verdict = "none" /\ leaks = {} /\ iteration = 0
           /\ StageOf(pc) = "building" /\ pc # "setup" => iteration <= opts.max_iter
           /\ StageOf(pc) \in {"building", "shipped", "cleared"} => gates.plan = "approve"
           /\ pc = "merge" => gates.merge = "approve"
           /\ pc \in {"mergeGate", "merge"} =>
                /\ leaks = {}
                /\ IF opts.max_iter >= 0
                   THEN report.verdict = "ship" /\ run.verdict = "ship"
                   ELSE report = NoReport /\ run.verdict = "none"

MergeInv == /\ delivered # {} => integration
            /\ integration => StageOf(pc) = "over"
            /\ MergeNeedsShip

IInv == TypeOK /\ GateInv /\ MergeInv

(* The inductive invariant behind the end of a run: what row, fault and    *)
(* outcome may be on the way out.                                          *)
Ending == {"account", "leave", "exited"}

BookInv ==
  /\ pc \in {"config", "admission", "register", "construct"} => ~run.begun
  /\ StageOf(pc) # "over" => outcome = "none"
  /\ StageOf(pc) # "over" \/ pc = "finalize" => run.fault = "none"
  /\ pc \notin {"leave", "exited"} => run.spend = "open"
  /\ pc = "finalize" => outcome # "none"
  /\ pc = "crash" => run.fault # "none"
  /\ outcome = "merged" => integration
  /\ pc \in Ending /\ run.fault = "none" => outcome # "none" /\ run.row = outcome
  /\ pc \in {"leave", "exited"} =>
       /\ CapSet /\ run.begun => run.spend # "open"
       /\ run.spend = "failed" => run.fault # "none"
  /\ IF pc = "exited" THEN run.exit = 0 <=> run.fault = "none" /\ outcome = "merged"
                      ELSE run.exit = -1

-----------------------------------------------------------------------------
(* What the repository's texts say and the code does not keep.             *)

(* merge.py: each approved branch is squash-merged and committed.          *)
ShippedIsDelivered == outcome = "merged" /\ Approved # {} => delivered # {}
=============================================================================

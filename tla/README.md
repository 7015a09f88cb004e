# A TLA+ model of PCIV

PCIV (`src/src/pciv/`) runs a coding task through plan, critique, implement and
verify agents: it cuts the task into subtasks with dependencies, gives each a git
worktree, lets workers edit them in parallel, judges the diffs, and squashes the
approved branches onto `pciv/<run_id>/integration`, under a budget and with two
human gates. This directory models the parts of it that decide something: who may
spend money, what may be merged, in which order things run, and what the ledger
says afterwards. Every definition cites its source lines in `PROJECT.json`
(`map`); the hazards and divergences are listed there too, and explained here.

Paths such as `merge.py` are relative to `src/src/pciv/`.

## 1. Inventory

| Component | State | Operations | Talks to | Hard about it | Must hold |
|---|---|---|---|---|---|
| Budget governor, `budget.py` | `_spent`, `_lines`, `_lock` | `preflight`, `charge`, `spent_usd`, `lines` | called by every agent; workers are threads; read by `cli._run` | test and addition must be one step; exception inside the lock; two separate reads by the report | ceiling, books add up, every charge answered |
| Run lifecycle, `cli.py` 106-315 and `workflow.Pipeline.run` | run row, verdict rows, pending subtasks, worktrees, gates, exit code | configuration, admission, plan loop, gates, verify loop, merge, finalize, account | everything below | nested try/except/finally, early returns, Ctrl-C, aborted prompts, a verdict that names only some subtasks | only shipped and approved work is merged; the spend is recorded whatever happens; the run ends |
| Implement phase, `workflow._phase_implement`, `agents/implement_agent.py` | coroutines, semaphore, worker threads, invocation rows, cost events | layers, start, turns, charge, close row, gather, teardown | governor, SQLite ledger, event loop | threads cannot be cancelled and outlive the gather, the run and the ledger; a locked ledger; requests the client repeats | dependencies first, at most `max_concurrency`, money accounted for, process ends |
| Squash integration, `merge.py` | integration branch and worktree, its index, `merged`/`skipped` | prepare, one iteration per subtask, remove | git | conflicts half-way, a failing merge or commit, leftovers of earlier branches | provenance, no merge undoes another |
| Plan graph, `types.Plan` and `workflow._topological_order` | in-degrees, stack, layers | validate, cut into layers | planner's answer, implement phase | counting edges; re-queued rounds order a subset | accepts exactly the well-formed acyclic plans; layers complete, in order |
| JSON agents, `agents/_json_agent.py`, `_azure.py` | attempt, row, cost event | one attempt, retry | governor, ledger, model client | retries at two levels; a ledger write between charge and record fails | bounded requests; a returned phase is exactly accounted for |
| Cross-run window, `cli.py` 186-238 and 284-299 | spend per window (library `agentcore`) | two checks, record, forced record | one per process, and the benchmark script | check-then-act across processes, kills, rollover, records that fail | bounded overshoot of recorded and of real spend |
| Benchmark script, `src/scripts/swe_bench_run.py` | task counter, output file, "budget exhausted" | clone, install, launch, reap, time out, probe, write | starts `pciv run` processes, reads the window | a timeout kills `uv`, not what is behind it; a failed read counts as "not exhausted" | stops on an exhausted window; no patch that is not in the books; ends |
| Implement tools, `implement_agent.py` 97-330 | worktree files, the conversation | read, write, list, pytest, answer | one worker, sandbox | several calls in a reply, arguments that are no JSON, scope, tools that raise | every call answered once; edits in scope |
| Test sandbox, `sandbox.py` | container or host process | run the tests, time out | tools, `Pipeline.run` | timeouts that leave processes behind, a missing runtime, a writable mount | tests write only where they may; the branch merged is one that was judged |
| Worktrees, `worktree.py` | directories, branches | create, diff, cleanup | git | partial creation, a diff taken before the tests, removals that fail silently | part of `Pipeline`, `Worker`, `System` |
| SQLite ledger, `state/db.py` | tables, connection, lock | rows of runs, invocations, costs, verdicts | all writers | closed under running workers; locked by other processes | rows, as seen in `FanOut`, `Pipeline`, `JsonAgent` |
| Configuration, telemetry, redaction, other CLI commands | - | parse, print, run one command | - | no state that decides anything | not modelled (section 5) |

How they interact. `cli._run` creates one governor, one ledger connection and one
`Pipeline`, and awaits `Pipeline.run` inside `asyncio.run`. The JSON agents run in
the main thread. The implement phase runs each subtask in a thread of the default
executor, behind a semaphore, and gathers one layer after the other. All threads
share the governor (its lock) and the ledger (its lock, except in `close`). Git
worktrees and branches are the only channel from a worker to the merge. Between
processes there is one more piece of shared state, the table of the cross-run window.

## 2. Modules

| Module | Models | Abstract specification | Proofs |
|---|---|---|---|
| `Governor` | `BudgetGovernor`, one action per statement another thread can see | `BudgetSpec`: a charge is one indivisible decision | `AgentProofs` |
| `Pipeline` | `cli.run_cmd`, `cli._run`, `Pipeline.run` | `RunSpec`: stages, the verdicts left, the latest one, what is delivered | `PipelineProofs` |
| `FanOut` | `_phase_implement`, `ImplementAgent.run`, teardown of the process | - | `FanOutProofs` |
| `Merge` | `squash_integration` over three-way merges, hunk by hunk | - | `MergeProofs` |
| `System` | a run with the loop of `Merge` in it | `Pipeline` | `SystemProofs` |
| `Worker` | the conversation of one worker, its tools, the sandbox, diff and tests after it | - | `AgentProofs` |
| `PlanGraph` | `Plan._dependencies_resolve`, `_topological_order` | the declarative definition in `AcceptsExactly` | `PlanGraphProofs` |
| `JsonAgent` | `_run_loop`, `_invoke`, the client's repetitions | - | `AgentProofs` |
| `CrossRun` | the window, over any number of processes | a cap with bounded overshoot, `OvershootBounded` | `CrossRunProofs` |
| `Bench` | the benchmark script, over `CrossRun` | - | `CrossRunProofs` |

`AgentProofs` holds the proofs about one caller of a model: its charges (`Governor`),
its retries (`JsonAgent`) and its tools (`Worker`). `SumTheorems` holds what the proofs
need of sums over finite sets.

How they fit together. `System` instantiates `Pipeline` and `Merge` over shared
variables and is shown to implement `Pipeline`, which implements `RunSpec`: the merge
loop may stand for `Pipeline`'s one merge step. `Bench` extends `CrossRun`: the
children of the script are processes of the window. The other links are by argument:
`Governor` implements `BudgetSpec`, whose one-step charge is the `Charge` of `FanOut`,
`JsonAgent` and `CrossRun`; `FanOut` is one step of `Pipeline` (`Implement`,
`Interrupt`) and explains the charges `CrossRun` allows after a record of a failed run,
and forbids after one of a merged run (`CompletedSpendTheorem`); `Worker` is
one thread of `FanOut`, with what it does to its worktree; the layers `PlanGraph`
computes are the `Deps` assumption and `Ready` of `FanOut`.

`MC<Module>` gives the constants their values. Operators introduced by a comment
"Faulty variant" are plausible bugs, one or more for each checked property: with
the variant in place of the real definition TLC finds the property violated, so
that the property is known to depend on the code. No `Next` uses them.

### Governor
`at[w]` is the statement of `charge()` thread `w` is at; `lock`, `spent`,
`recorded` are `_lock`, `_spent`, the total of `_lines`. `Acquire` to `AppendLine`
is the `with` block, `Emit` the telemetry after it (outside the lock, exceptions
swallowed; it changes nothing here), `ReadSpent` and `ReadLines` the two properties `cli._run` reads. Money
is in integer units. The price lookup cannot fail: `preflight()` has priced every
model. A worker whose charge is refused makes no further one: in every agent the
exception ends the call.

### Pipeline
`pc` follows `run_cmd`, `_run` and `Pipeline.run`; each action is one awaited step
with its outcomes, every exception that can leave it, and the assignments that
follow. `opts` is what a run is started with: `--max-iter`, also a negative one,
`--cleanup`, and the subtasks whose tests write the worktree they run in, as tests may
on a trusted host and in a `sweb.eval` image. `run` is what the outside sees: the row
of `runs`, the latest verdict row, the cross-run record, the exit code,
`runs_failed_total`. `work` and `diffs` carry the round in which a worktree was last
edited, given a new file, or written by tests, which is all that "the verdict looked at
this" needs. `Collect` is the loop over all worktrees, each diffed and then tested, so
that what tests write is in the next diff (`Tested`). Answers are free: any verdict
with any subset of subtasks named, any gate decision ("revise" has no branch and ends
the run like "abort") or an aborted prompt, any leak in a non-empty diff. `CleanUp`
keeps whatever could not be removed, because every failure of a removal is suppressed.
The feedback of a re-queued round is only read into a prompt and is not modelled. `Committers` is the set of
subtasks whose branch gets a commit: empty for the workers of `src/`, which never
commit, everything for the tests, which patch `ImplementAgent.run` to do so
(`src/tests/test_workflow.py:109`). The first
Ctrl-C is a cancellation asyncio delivers at the next `await` that suspends, and the
gather of an implement phase is the only one: everything else runs synchronously in
the main coroutine. A second Ctrl-C, which Python raises at once, is not modelled.
`cfg.gates` is never consulted by the code, so
it is not in the model.

### FanOut
`co` is the coroutine `_run_one`, `th` the thread in `ImplementAgent.run`, `main` the
main coroutine and then `asyncio.run`. `Settle` is where a coroutine ends and wakes
the next waiter, *before* the main coroutine learns of a failure. After the gather
nothing yields to the event loop any more, so that the waiters stay where they are
until `CancelAll`, while threads run on through `FinalizeCrashed`, `RecordSpend` and
`CloseLedger`. A closed ledger raises in every write, and an open one may, for the
subtasks in `Contended`, when another process holds the database longer than
`busy_timeout` (`MayRefuse`): a refused `start_invocation` ends the worker, a refused
`record_cost` or closing row goes to the except clause, and a refused write there
leaves the row `running` (`"unclosed"`). `billed` is what the provider takes: each
request of a turn that the client repeated, and the response whether its charge is
granted or not. A response without usage is charged 0, which is one of the `Costs`. The
executor's own thread limit is not modelled (it is larger than any sensible
`max_concurrency`). Tool calls are the choice "the reply asks for another turn".

### Merge
A branch is a function from hunks to versions (nothing is a version). A hunk is what git
merges or reports as a conflict in one piece: a region of a file, or a whole file. Two
branches that change different hunks of a file merge cleanly, into a file that neither
of them had. `SkipFailed` is every other failure of `git merge` (a lock, a full disk, a
file in the way), which the code catches and reports as a conflict: it is refused at
the start or dies half-way, and what it wrote then (`spilt`) stays in the worktree, for
the `add -A` of the next subtask that merges. `base_ref` is the commit pinned at set-up, so it
is the merge base of all subtask branches, and squash commits do not move it. A
branch called `integration` exists beforehand only if a subtask has that id; it is
then checked out in that subtask's worktree and `branch -D` is refused (`pinned`).

### System
`P` is `Pipeline` with `integration` and `delivered` read off the merge loop, `M` is
`Merge` with its inputs read off the run: the approved subtasks off the latest
verdict, the tips of the branches off the worktrees. `RunStep` is every step of the
run but the merge, `MergeStep` the loop up to its finally clause, `MergeEnd` that
clause with what `Pipeline.run` makes of it. A version is who wrote it, in which round,
and in which round tests wrote over it, so that "what the verifier was shown" and "what
is on the branch" can be compared. `commits` is what the branches hold: a worker that
commits does so at the end of its round, and what tests write afterwards is in the
worktree and in the next diff only. Each subtask may edit one hunk of `base_ref` and
create one file, and subtasks may share both. `Named` bounds what a verdict may say of a
subtask in a run; the theorems hold for any. `pinned` is a subtask that is called `integration`.

### Worker
The conversation is a sequence of roles with the number of calls still open; `left` is
the position in the `for tool_call in tool_calls` loop. A tool that raises is answered
with its exception (`_dispatch` catches everything), so that each tool is
its effects, or none. `RunPytest` is `sandbox.run_pytest`: on the host for a trusted
task, in a container otherwise, with the read-only mount or the writable one of the
`sweb.eval` images, or not at all. `stray` is what a timeout leaves behind: the code
kills the process it started, and what that one started goes on (`StrayWrites`, at any
time). `InScope` compares names without leading dots, as the code does. What the diff
shows is in `Pipeline` and `System`. The bounds on calls and rounds are the constants `MaxCalls` and
`MaxRounds`; the number of rounds is `--max-iter` and one.

### CrossRun
A process is a slot, used again by the next run. `FirstCheck` and `SecondCheck` are the
two readings of the allowance, the second against the projection of `preflight()`;
admission and the second reading are one step because nothing is read in between.
`Charge` continues after the record for runs that failed, whose workers nobody waits
for. `Record` writes to the window of its own instant, in one transaction; the library
writes first and raises afterwards, and `cli._run` suppresses that exception only.
`Kill` is a kill or a crash of the machine at any point, `Rollover` the next window.
The history variables count what the books cannot know: `real` spend, `lost` runs, and
reads of the table that failed or never came (`blind`).

### Bench
`at` is the place in the loop of `main`; a child is `Start` of `CrossRun` in the slot of
its task, its exit code is what `Reap` finds. `Timeout` either takes the python process
down with `uv` or leaves it on its own. `Probe` is `_monthly_cap_exhausted`. `vain`
counts the children started in an exhausted window. Operators start other runs beside
it, in slots of their own, in every state.

### PlanGraph
A plan is a set of ids with dependency sets and the length of the list it came as
(longer than the set of ids when one is repeated). `Visit` pops any ready id: the
verdict does not depend on the order. `StartRound` takes any non-empty set of
pending subtasks, which covers the first round and every re-queued one. The syntax
of ids is not modelled.

### JsonAgent
The retry loop of the three JSON agents; `place` is where it is, `charged` what the
governor granted it. The client is built with the same `retries`
the loop uses, so that one attempt is up to `retries + 1` requests; a repeated
request may have been billed. Every ledger write may fail (another process holds the
database longer than `busy_timeout`).

## 3. Runs

| Run | Bounds | Question |
|---|---|---|
| `governor` | 3 threads, 2 charges each, costs 1 and 2, ceiling 3 | Is `charge()` atomic, does the ceiling hold, does the report stay honest, is every charge answered? |
| `pipeline` | 2 subtasks, 2 plan revisions, cap set; 2 verify rounds, or 1 with `--cleanup` and tests that write, or `--max-iter -1` | What may be merged, what does the outside see, does it end? |
| `fan_out` | 4 subtasks in two layers, 2 places, 1 turn, 1 client retry, costs 0 and 1, ceiling 2, a subtask of each layer with a locked ledger | Order, concurrency, rows and money under failures, refused writes and Ctrl-C anywhere; does the process end? |
| `merge` | 3 subtasks, 2 hunks, 3 versions each, every set of approvals | What is on the branch, and does the result tell the truth? |
| `system` | 2 subtasks that share a hunk and a new file, the tests of one write, 2 rounds, verdicts that name every subtask "ship" or "iterate" (`Named`) | Does the composed run implement `Pipeline`; is every hunk of the branch one that was judged? |
| `worker` | 2 names (4 files), 3 turns, 2 calls a reply, 2 rounds, every trust and image | Is every call answered, what may change in the worktree? |
| `cross_run` | 2 tasks, 2 process slots, cap 2, ceiling 3, projection 2, 1 miss a window | How far can a window be overdrawn, does the script stop, does it end, is every patch in the books? |
| `plan_graph` | every plan over 4 ids, every pending subset | Are validation and layering exact? |
| `json_agent` | 2 retries, costs 1 and 2, ceiling 4 | How many requests, and what can go missing from the books? |
| `delivery`, `spend_recorded`, `conflict` | as in `pipeline` (no committers), `fan_out` (but 2 turns, cost 1, ceiling 4), `merge` | divergences, section 6 |

Why the bounds are enough. Three threads are the smallest number with one inside the
lock, one waiting and one arriving; a ceiling of 3 makes two of the charges fit alone
and not together. Two subtasks let one ship while the other is sent back, and two
rounds let the second act on the verdict of the first and hit the iteration cap. In
`fan_out` the first layer has more subtasks than places, so that a place is handed on
after a failure, and the second layer shows what must not start; the ceiling pays for
two responses, so that a third is refused, in the layer of the others or in the next,
and the phase completes only with responses that carry no usage; one repetition of a
request is one the governor does not see, and a locked ledger is met beside other
workers and in the second layer, where it decides whether the phase completes. Several
turns are run in `spend_recorded` (two) and `worker` (three); for the rest they are
proved, like a ledger that is locked for any other set of subtasks. The options of `pipeline` are one
run for each question: sent back and shipped, written by tests and cleaned up, and
never verified. In `merge` three branches are needed for a conflict with a subtask
after it, two hunks for a branch that is half in conflict, or a merge that dies
half-way. In `system` two subtasks with one hunk in common give every outcome of a
merge but the skip after a conflict, which `merge` has, the verdicts every set to ship
and to send back (`pipeline` has those that name only some), and two rounds a diff that is
older than the work, and a commit older than what the tests wrote; the file both create
makes a branch with two hunks. In `worker` two calls leave one open while the other is answered,
three turns a retry between two tool turns, and the second round a test process that
outlived the first. In `cross_run` a run may cost more than was projected, two
processes can both be admitted, the slot of the first task is free for an operator
beside the second, and one miss a window is a kill, a failed read or a failed record
at any of its places (`MaxMisses`; the theorems hold for any number). A forced run may
start while nothing is forced in the window (`MaxForced` 0). Four ids are enough for
a cycle hanging off a chain and for two incomparable branches that join.
`CHECK_DEADLOCK FALSE` is set because every component stops when it is done.

What the properties say (each is stated in a comment above its definition):

* `governor`: `CeilingRespected`, `ReportConsistent`, `ImplementsBudget` (refinement),
  `ChargeAnswered` (liveness).
* `pipeline`: `IInv`, `MergeNeedsShip`, `ExitIsTruthful`, `SpendAlwaysRecorded`,
  `ImplementsRunSpec` (refinement), `Terminates` (liveness). That only shipped subtasks
  are delivered is part of `BranchIsJudged` below, which follows them to the branch.
* `fan_out`: `IInv`, `ConcurrencyBound`, `PaidCallsHaveARow`, `AccountsBalance`,
  `StuckRowsAreOrphans`, `OverspendBounded`, `DependencyOrder`, `Exits` (liveness).
* `merge`: `Provenance`, `Delivered`, both but for what a merge that died has written.
* `system`: `BranchIsJudged`, `ImplementsPipeline` (refinement with its fairness). The
  first is about hunks: a file that two subtasks changed in different places is a mix
  that no diff showed. Where tests wrote a worktree after its last commit, what is
  merged is what was committed, and `Seen` says so.
* `worker`: `ConversationAnswered`, `EditsInScope`.
* `cross_run`: `OvershootBounded`, `RealSpendBounded`, `StopsWhenExhausted`,
  `PatchIsBilled`, `DriverEnds` (liveness).
* `plan_graph`: `AcceptsExactly`, `NeverStuck` (the branch "dependency cycle in plan"
  of `_topological_order` is unreachable after validation, also for a re-queued
  subset), `LayersInOrder`.
* `json_agent`: `RequestsBounded`, `ReturnedIsExact`, `LossIsLast`.

`IInv` is, in every module that has one, the type invariant with the strengthening
that makes it inductive; `GovernorInv`, `JsonInv`, `BenchInv`, `DebtInv` of `CrossRun`,
and `BookInv` of `Pipeline` are further ones of the same kind. The theorems of section 4 prove them; `pipeline` and `fan_out` check
theirs as well.

Fairness. `Governor`: a thread inside `charge()` keeps running; all its steps but the
lock are local, and each thread makes finitely many charges, so weak fairness per
thread is enough although Python's lock is not fair. `Pipeline`: weak fairness of the
whole run; model calls and test runs have timeouts, and the operator answers the
prompts. `FanOut`: weak fairness of the event loop and the threads together: as long as
one of them can move, one of them does, since a model call returns or times out
(`timeout_s`). Fairness between them is not needed, because each thread takes finitely
many steps. Nobody has to press Ctrl-C, and no fairness
is assumed of it. `Bench`: weak fairness of the
script alone, because every command it runs has a timeout; nothing is assumed of the
runs it starts, so that `DriverEnds` holds although a child may hang. `System`: weak
fairness of the whole run, for the reason given for `Pipeline`. `Merge`, `Worker`,
`PlanGraph` and `JsonAgent` promise safety only.

## 4. Proofs

The proofs hold for every value of the constants that satisfies the named assumption
of the module (`GovernorAssumption`, `PipelineAssumption`, `FanOutAssumption`,
`MergeAssumption`, `PlanGraphAssumption`, `CrossRunAssumption`, `BenchAssumption`,
`WorkerAssumption`, `JsonAgentAssumption`, `SystemAssumption`). Every safety property
that a passing run checks is a theorem.

* `AgentProofs`, `Governor`. The ceiling is not inductive: a thread between test and
  addition needs "what I tested still holds", which is true because nobody else can be
  between them. `GovernorInv` therefore says that the thread inside holds the lock
  (`LockInv`) and what its position says of the two totals (`TotalsInv`), and relates
  the report to them (`ReportInv`). From it: `CeilingTheorem`, `LinesTheorem`,
  `ReportTheorem`, and `GovernorImplementsBudget` (`Add` maps to `Grant`, `Refuse` to
  `Refuse`, the rest to stutters, or to `Ask` and `Return`).
* `AgentProofs`, `JsonAgent`. For any number of retries, also a negative one, which
  makes no attempt. The bound on the requests is not inductive, since it says nothing
  of how many an attempt has left: `RequestsInv` counts `Retries + 1` for each attempt
  that is over and those of the one in progress (`RequestsTheorem`). `BooksInv` says at
  each place of an attempt what has reached the events and the rows of what was
  charged, and that rows of attempts to come are empty (`ExactTheorem`, `LossTheorem`).
* `AgentProofs`, `Worker`. `ConvInv` says which message is the last at each place of
  the loop; `stray => Writable` is what a timeout cannot break. From it:
  `ConversationTheorem`, `ScopeTheorem`.
* `PipelineProofs`. For any plan, any number of revisions, any `--max-iter`, a negative
  one included: no theorem has a hypothesis beyond `PipelineAssumption`. `GateInv`
  carries the decisions taken from the gate to the merge, and says that a run without a
  round has no verdict; `MergeInv` says that nothing touches the branch before the run
  is over, which is why later actions cannot invalidate it. From it: `MergeTheorem`,
  `PipelineImplementsRunSpec`. `BookInv`, which follows row, fault and outcome through
  the nested handlers, gives `ExitTheorem` and `SpendTheorem`.
* `FanOutProofs`. `CoInv` ties a coroutine to its thread (a waiter has none, a failed
  one has a thread that raised and closed its row, or could not close it), `RowInv` a thread to its row, and
  `PlaceInv` counts the places: `Live`, the threads that run, cannot be bounded by
  itself, because a coroutine that has not been settled keeps its place, and an
  orphan keeps its thread after its coroutine is gone; `Placed` is both, and no step
  but `NextLayer` and a hand-over in `Settle` adds to it. From these (`PhaseInv`):
  `OrderTheorem`, `ConcurrencyTheorem`, `RowTheorem`, `OrphanTheorem`. `AccountInv`
  follows the money of every worker from the governor to its row and its event: the
  spend is the sum of the workers' totals, a closed row carries its worker's total, and
  so does the event of a worker that is about to return; a completed phase has
  every worker returned, so that nothing moves when the ledger closes
  (`AccountsTheorem`). `CreditInv` is about what the provider bills beyond the spend:
  no more than the repetitions of each turn begun and what the workers hold in hand or
  ended with (`Slack`), and a worker of an earlier layer ended with nothing, because it
  returned; so at most one response for each subtask of the layer, and the repetitions
  (`OverspendTheorem`). `CompletedSpendTheorem` is the positive side of the
  divergence `spend_recorded`: after a completed phase the record is of all that was
  spent. `NoPlacesTheorem` is about `max_concurrency` 0 (section 6).
* `MergeProofs`. `SyncInv` says that the worktree equals the branch, but for what a merge
  that died has written (`spilt`), as long as the index is merged, which is what makes the merge of git (into the worktree) an
  operation on the branch, and that a conflict leaves the index unmerged, so that no
  commit follows it. From it: `ProvenanceTheorem` and `DeliveredTheorem`. In the
  second, a later merge keeps an earlier one's changes because it would otherwise
  conflict.
* `SystemProofs`. `RunInv` ties the commits to the worktrees, and from the verifier to
  the merge to the diffs, but for what tests wrote; `StepInv` places the loop of
  `Merge` inside the run and says that what it reports as merged is approved, and that
  where no approved branch has a commit that shows, nothing is merged. From it: `JudgedTheorem`, at every step of the loop,
  and `SystemImplementsPipeline`, the safety part of the refinement (loop steps are
  stutters of `Pipeline`, the last one is its merge step).
* `CrossRunProofs`. The bound on the recorded spend is not inductive, since a record
  adds what was admitted long before. `Covered` counts every open run as though its
  ceiling were recorded: admission needs room for the projection and adds one ceiling,
  a record exchanges it for what was spent, and a new window leaves at most one open
  run for each process. From it: `OvershootTheorem`, alone and under the script. For
  the money itself, `DebtInv` says that what was charged to a window is in its books,
  owed by a run that is still there (`Owed`, summed over the processes), or lost with
  one that is not, at most a ceiling for each. Only runs that are in, or draining with
  something unrecorded, owe anything, and the first are in `Covered` already:
  `RealSpendTheorem`, and `BenchRealSpend` under the script. For the script, `VainInv` says that a run started in vain is on its way to stopping it
  unless a read failed, and `BillInv` that a run that ended `merged` owes nothing:
  `StopTheorem`, `BillTheorem`.
* `PlanGraphProofs`. `Visited` is the set Kahn's algorithm has removed; `KahnInv` says
  that a degree is the number of dependencies not yet in it, and that what is removed
  is well-founded. A plan is accepted when all is removed, and then every non-empty set
  of ids has a member that waits for none of the others, which is what keeps the
  layering from getting stuck (`AcceptsTheorem`, `NeverStuckTheorem`). `RoundInv` says
  that every subtask left waits for exactly its dependencies among those left
  (`LayersTheorem`).

* `SumTheorems`. The sums above are `SumFunctionOnSet` of the community modules, a fold
  over a finite set. A theorem that takes a predicate as its parameter is out of the
  provers' reach, so induction is stated for a *set* of numbers (`Induction`, by the
  least number that is not in it) and for a set of subsets (`SubsetInduction`, over
  their cardinality, taking out the element the fold takes out). `SumIsSums` says what
  the fold computes by one step of it; from there on `SumNat`, `SumMonotone`, `SumSame`,
  `SumChange`, `SumZero` and `SumBound` are each one induction.

Only model-checked: liveness (`ChargeAnswered`, `Terminates`, `Exits`, `DriverEnds`)
and the fairness part of `ImplementsPipeline`, which need ENABLED. The three
divergences of section 6 are counterexamples, found by their runs.

## 5. Not modelled

* Prompts, schemas, formatting, logging, tracing, redaction; the syntax of ids and
  paths, and the resolution of symbolic links inside a worktree.
* The configuration: it is parsed and overridden from the environment once, before
  anything else; its numbers are the CONSTANTS of the modules and a failure to load it
  is the first branch of `Pipeline`.
* Telemetry and redaction: output only. The two counters with a meaning, the spend and
  the failed runs, are in `Governor` and `Pipeline`.
* `doctor`, the state commands and the reports: they read and print.
* The schema of the SQLite file, its opening and the reporting queries. Its rows are
  modelled where a writer or a reader depends on them.
* In the sandbox, the network and capability flags of the container. Tests write the
  worktree they run in; that code on a trusted host can write any file is left out.
* In `worktree.py`, whether the directory or the branch is what a failed removal left.
* The library behind the cross-run window, external to the repository: one
  transaction per call, as `cli.py` and ADR-0007 use it.
* In `Merge`, a branch removed from outside while it runs, and a `git worktree add` that
  fails after the branch was deleted. In `Pipeline`, a second Ctrl-C.

What remains is output, parsing and queries that decide nothing the modules depend on;
no further component has state of its own that an interleaving or a failure could break.

## 6. Divergences

Shown by a run (the counterexample is the evidence):

* `conflict`: after a squash merge that conflicts there is no `MERGE_HEAD`, so `git
  merge --abort` fails, the failure is suppressed, and every later approved subtask is
  reported as `merge_conflict` whatever it contains (`merge.py:89-102`).
* `delivery`: nothing in `src/` commits on a subtask branch, so every approved branch
  is an `empty_diff`, the run ends `merged` with exit code 0, and `--cleanup` then
  removes the worktrees that hold the work.
* `spend_recorded`: the cross-run record is written while abandoned workers go on
  charging.

Seen while modelling, without a run of their own:

* `git diff <base_ref>` omits untracked files (`worktree.py:45-51`), so a file a worker
  creates is in no diff, for the verifier as for the secret scan; ADR-0006 says new
  files appear. `DiffOf` models what the code does.
* `runs_failed_total` is not incremented for exceptions other than the three
  `run_cmd` names (`Counted`).
* A `FileNotFoundError` from inside the pipeline exits with 3, the code of a missing
  configuration (`ExitCode`).
* A negative `--max-iter` skips the verify loop, and the run reaches the merge gate
  without a verdict, against ADR-0001:83 (`workflow.py:123`). It ends `merged` and
  leaves an integration branch, but one that delivers nothing: that much holds
  (`MergeNeedsShip`, `ImplementsRunSpec`).
* ADR-0001:80-82 says that only subtasks with the verdict `iterate` are re-queued, each
  with its own feedback. The code re-queues those that the verdict does not name, too,
  when the overall verdict is `iterate` (`workflow.py:186`), gives every one the same
  joined reasons of the whole verdict (`workflow.py:204`), and drops them when they are
  empty (`implement_agent.py:500`).
* A failing `Pipeline` constructor, or Ctrl-C, leaves the row `running`
  (`cli.py:243`, `cli.py:256-257`).
* `--cleanup` (its help at `cli.py:94`, ADR-0001:61) removes nothing when `Pipeline.run`
  raised (`CleanUp`), and it deletes branch and worktree of a shipped subtask that was
  skipped as a conflict. After a `reject`, or a `ship` that was not approved, it deletes
  the branches that ADR-0001:83-85 says are preserved for inspection. Every failure of a
  removal is suppressed (`cli.py:264-266`, `workflow.py:338-341`, `worktree.py:54-61`),
  and `cli.py:312-313` then prints that all of them were cleaned up.
* Any failure of `git merge` is reported as `merge_conflict` (`merge.py:91`), and what
  it wrote before it failed is committed with the next subtask (`SkipFailed`, `spilt`).
* Where tests write the worktree, the verifier and the scanner of a later round judge
  what they wrote, while the merge takes the branch (`Seen` of `System`).
* The scope check strips every leading dot with `lstrip("./")`
  (`implement_agent.py:221-224`), so that `.name` passes for `name` (`InScope`).
* A completion with the status `failed` is treated like a `complete` one (`Complete`).
* ADR-0007 says that processes share the cap through WAL and `BEGIN IMMEDIATE`; the
  check reserves nothing, so that several pass it with room for one
  (`OvershootBounded` is the bound that does hold).
* The script "stops automatically when monthly_cap_usd is hit"; a window with an
  allowance below the projection, but above 0, refuses every task and is reported as
  "per-task budget hit - skipping".
* A task that finds the window exhausted gets an empty line in the output, so that a
  later run with `--start` behind it never attempts it; and the count of patches
  includes empty ones.
* The time limits of `_install_deps` are not caught and end the script
  (`InstallRaises`).
* The docstring of the sandbox promises a read-only mount; `sweb.eval` images get a
  writable one (`RunContainer`).
* The deployment of a model may be overridden from the environment, while the price is
  that of the configured model.
* The cost events omit what a failing worker was charged: only the success path of
  `ImplementAgent.run` writes one (`Fail`), while query 1 of the README sums them.
* The provider may bill, beyond `--budget`, one refused response per worker of a layer
  and every request that the client of `_azure.py:39` repeats in a turn; the governor
  sees neither (`OverspendBounded` is the bound that does hold).
* A response that carries no usage is charged 0 (`_azure.py:53-56`); what it cost is not
  in that bound.
* A worker whose closing row an open but locked ledger refuses leaves the row `running`,
  and the error of that write replaces the one it failed with (`Fail`,
  `implement_agent.py:482-486`).
* A subtask called `integration` makes `squash_integration` fail before its `try`.
* `max_concurrency: 0` is accepted by the configuration and hangs the phase: no worker
  ever starts, and only an interrupt ends the run (`NoPlacesTheorem` of `FanOutProofs`).

## 7. Plan

Done, in this order: `Governor`, `Pipeline`, `FanOut`, `Merge`, `PlanGraph`,
`JsonAgent`, with the proofs of the first four; then `CrossRun` and `Bench`, `Worker`,
`System`, their proofs, `PlanGraphProofs`, and the remaining safety theorems of
`Pipeline` and `Merge`; then `SumTheorems`, and with it the theorems about money in
`FanOut`, `JsonAgent` and `CrossRun`; then failures the first versions had left out,
with the proofs over them: merges that fail without a conflict, a ledger that refuses
writes while it is open, requests the client repeats, tests that write, removals that
fail, aborted prompts and a negative `--max-iter`.

Worth doing next, should the code grow there:

1. `FanOut` inside `System`, with `Worker` threads whose edits reach the branches: the
   two are linked by argument now, because the product is beyond what TLC can visit.
2. The ledger's rows across a crash, once something reads rows a killed process left
   `running`; nothing in `src/` does.
3. A reservation in the window: `OvershootBounded` would tighten to one projection, and
   `Covered` is already the invariant for it.

-------------------------------- MODULE Bench --------------------------------
(***************************************************************************)
(* scripts/swe_bench_run.py: one `pciv run` per benchmark task, one after  *)
(* the other, over the window of CrossRun.tla.  The child of task t runs in *)
(* process slot t; operators start runs of their own in any slot the       *)
(* script is past, or never uses.                                          *)
(*                                                                         *)
(* A timeout kills what subprocess.run started, which is `uv`: the python  *)
(* process behind it may go down with it or go on alone.                   *)
(***************************************************************************)
EXTENDS CrossRun, Sequences

CONSTANTS Tasks  \* the number of tasks to run: all_tasks[start:]

ASSUME BenchAssumption == Tasks \in Nat \ {0} /\ 1..Tasks \subseteq Procs

VARIABLES at,     \* where main is
          task,   \* i + 1
          stop,   \* budget_exhausted
          patch,  \* the patch of this task is not empty
          lines,  \* the output file: per line, whether it holds a patch
          vain    \* children started in this window when it was exhausted

loop == <<task, stop, patch, lines>>
bench == <<at, task, stop, patch, lines, vain>>

BenchInit == /\ Init
             /\ at = "clone" /\ task = 1 /\ stop = FALSE /\ patch = FALSE
             /\ lines = <<>> /\ vain = 0

-----------------------------------------------------------------------------
(* A clone that fails or times out leaves the task without a run.          *)
Clone == /\ at = "clone"
         /\ at' \in {"install", "write"}
         /\ UNCHANGED <<loop, vain, vars>>

(* A timeout of the installation is not caught: the file is closed and the *)
(* script ends without a line for the task.                                *)
InstallRaises == /\ at = "install"
                 /\ at' = "ended"
                 /\ UNCHANGED <<loop, vain, vars>>

Launch == /\ at = "install"
          /\ Start(task, FALSE)
          /\ at' = "wait"
          /\ vain' = IF Remaining <= 0 THEN vain + 1 ELSE vain
          /\ UNCHANGED loop

Exited == pc[task] = "off"

(* Exit code 2 leads to the window; a branch to its diff, which may be     *)
(* empty or fail to be read; anything else is skipped.                     *)
Reap == /\ at = "wait" /\ Exited
        /\ \/ result[task] = "budget" /\ at' = "probe" /\ UNCHANGED patch
           \/ result[task] = "merged" /\ at' = "write" /\ patch' \in BOOLEAN
           \/ result[task] \notin {"budget", "merged"} /\ at' = "write" /\ UNCHANGED patch
        /\ UNCHANGED <<task, stop, lines, vain, vars>>

\* Faulty variant: the script waits for its child without a timeout.
TimeoutNever == at = "wait" /\ FALSE /\ UNCHANGED <<bench, vars>>

(* 30 minutes are over: the child is gone, or on its own.                  *)
Timeout == /\ at = "wait" /\ ~Exited
           /\ \/ Kill(task)
              \/ /\ blind' = IF pc[task] \in Reading THEN blind + 1 ELSE blind
                 /\ UNCHANGED <<procs, booked, real, lost>>
           /\ at' = "write"
           /\ UNCHANGED <<loop, vain>>

\* Faulty variant: the window counts as exhausted when it is overdrawn.
ProbeOverdrawn == /\ at = "probe"
                  /\ \/ stop' = (Remaining < 0) /\ UNCHANGED vars
                     \/ /\ lost + blind < MaxMisses
                        /\ blind' = blind + 1 /\ stop' = FALSE
                        /\ UNCHANGED <<procs, booked, real, lost>>
                  /\ at' = "write"
                  /\ UNCHANGED <<task, patch, lines, vain>>

(* _monthly_cap_exhausted reads the table once more; any exception counts  *)
(* as "not exhausted".                                                     *)
Probe == /\ at = "probe"
         /\ \/ stop' = (Remaining <= 0) /\ UNCHANGED vars
            \/ /\ lost + blind < MaxMisses
               /\ blind' = blind + 1 /\ stop' = FALSE
               /\ UNCHANGED <<procs, booked, real, lost>>
         /\ at' = "write"
         /\ UNCHANGED <<task, patch, lines, vain>>

(* One line per task, an empty patch where there is none, then the next    *)
(* task unless the window is exhausted or there is none.                   *)
Write == /\ at = "write"
         /\ lines' = Append(lines, patch)
         /\ patch' = FALSE
         /\ IF stop \/ task = Tasks THEN at' = "ended" /\ UNCHANGED task
                                    ELSE at' = "clone" /\ task' = task + 1
         /\ UNCHANGED <<stop, vain, vars>>

Main == Clone \/ InstallRaises \/ Launch \/ Reap \/ Timeout \/ Probe \/ Write

(* The children the script has started, and the operators' own runs.       *)
Elsewhere == /\ \/ \E p \in Procs : Run(p)
                \/ \E p \in Procs \ (task..Tasks), flag \in BOOLEAN : Start(p, flag)
             /\ UNCHANGED bench

NewWindow == Rollover /\ vain' = 0 /\ UNCHANGED <<at, loop>>

BenchNext == Main \/ Elsewhere \/ NewWindow

(* Every command the script runs has a timeout, so it keeps going; nothing *)
(* is assumed of the processes it starts.                                  *)
BenchSpec == BenchInit /\ [][BenchNext]_<<vars, bench>> /\ WF_<<vars, bench>>(Main)

-----------------------------------------------------------------------------
(* "Full run - stops automatically when the monthly_cap_usd is hit": once  *)
(* the window is exhausted the script starts at most one more run in it,   *)
(* which is refused, and one more for every read that failed or never came.*)
StopsWhenExhausted == vain <= 1 + blind

(* A patch in the predictions was paid for in the books: the spend of its  *)
(* run is recorded in full, whatever was killed or timed out beside it.    *)
PatchIsBilled == patch => task \notin short

(* The script ends even if every run it starts hangs.                      *)
DriverEnds == <>(at = "ended")

(* The inductive invariant behind the two: a run that ended "merged" owes  *)
(* nothing to the books, and a run started in vain is still on its way to  *)
(* stopping the script unless a read for it failed.                        *)
BenchTypes == /\ at \in {"clone", "install", "wait", "probe", "write", "ended"}
              /\ task \in 1..Tasks /\ stop \in BOOLEAN /\ patch \in BOOLEAN
              /\ lines \in Seq(BOOLEAN) /\ vain \in Nat

Settled == \A p \in Procs :
             /\ pc[p] # "off" => p \notin short
             /\ result[p] = "merged" /\ pc[p] = "off" => p \notin short
             /\ result[p] = "merged" /\ pc[p] = "draining" => ~Unrecorded(p)

BillInv == Settled /\ (patch => at = "write" /\ pc[task] = "off" /\ task \notin short)

Refused == /\ Remaining <= 0
           /\ \/ at = "probe"
              \/ at = "wait" /\ pc[task] = "opening"
              \/ at = "wait" /\ pc[task] = "off" /\ result[task] = "budget"

VainInv == /\ at = "wait" => ~ignore[task]
           /\ stop => at \in {"write", "ended"}
           /\ vain <= blind \/ (vain <= blind + 1 /\ (stop \/ Refused))

BenchInv == IInv /\ BenchTypes /\ BillInv /\ VainInv
=============================================================================

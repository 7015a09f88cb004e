------------------------------- MODULE Merge -------------------------------
(***************************************************************************)
(* merge.py, squash_integration: the approved subtask branches are squash- *)
(* merged one after another onto pciv/<run_id>/integration, in a worktree  *)
(* of its own that the function adds and removes.                          *)
(*                                                                         *)
(* Git is modelled by what the function relies on: a merge is three-way,   *)
(* hunk by hunk, and every merge is refused while the index has unmerged   *)
(* entries.  A hunk is a region of a file, or a whole file, that git takes *)
(* from one side or reports as a conflict; hunks of one file that do not   *)
(* touch merge cleanly, so that a merged file may be a mix no branch had.  *)
(* base_ref is the commit the subtask branches were cut from, so it is the *)
(* merge base of all of them, and squash commits never change that.        *)
(***************************************************************************)
EXTENDS Sequences, Naturals

CONSTANTS Tasks,     \* the subtask ids of the plan
          Order,     \* all_task_ids
          Hunks,     \* the regions that merge or conflict as a whole
          Versions,  \* what may stand there; nothing is a version too
          Base,      \* the contents of base_ref
          Markers,   \* the conflict markers git leaves in a hunk
          Absent     \* no such branch

ASSUME MergeAssumption ==
         /\ Order \in Seq(Tasks)
         \* Plan validation refuses duplicate ids:
         /\ \A i, j \in 1..Len(Order) : Order[i] = Order[j] => i = j
         /\ Base \in [Hunks -> Versions]
         /\ Markers \notin Versions
         /\ Absent \notin [Hunks -> Versions \cup {Markers}]

VARIABLES approved,  \* approved_task_ids
          tip,       \* per subtask, what its branch holds
          pinned,    \* a branch of that name is checked out in another worktree
          pc,        \* where the function is
          at,        \* how many ids the loop is past
          head,      \* what the integration branch holds
          wt,        \* what its worktree holds
          unmerged,  \* its index has unmerged entries
          failed,    \* subtasks whose git merge failed without a conflict
          spilt,     \* the hunks such a merge wrote before it died
          outcome    \* per subtask: in merged_tasks, or its skip reason

input == <<approved, tip, pinned>>
vars  == <<approved, tip, pinned, pc, at, head, wt, unmerged, failed, spilt, outcome>>

Contents == [Hunks -> Versions]

(* A branch of that name may exist: run ids are fresh, but a subtask may   *)
(* be called "integration", and then its worktree holds the branch.        *)
Init == /\ approved \in SUBSET Tasks
        /\ tip \in [Tasks -> Contents]
        /\ head \in {Absent} \cup {tip[t] : t \in Tasks}
        /\ pinned \in BOOLEAN /\ (pinned => head # Absent)
        /\ pc = "start" /\ at = 0
        /\ wt = Base /\ unmerged = FALSE /\ failed = {} /\ spilt = {}
        /\ outcome = [t \in Tasks |-> "none"]

-----------------------------------------------------------------------------
(* The directory is cleared, an existing branch deleted, the worktree      *)
(* added.  Git refuses to delete a branch that a worktree has checked out, *)
(* and may fail at either command: that raises before the try.             *)
PrepareRefused == /\ pc = "start"
                  /\ pc' = "refused"
                  /\ head' \in IF pinned THEN {head} ELSE {head, Absent, Base}
                  /\ UNCHANGED <<input, at, wt, unmerged, failed, spilt, outcome>>

Prepare == /\ pc = "start" /\ ~pinned
           /\ pc' = "loop"
           /\ head' = Base /\ wt' = Base
           /\ UNCHANGED <<input, at, unmerged, failed, spilt, outcome>>

InLoop == pc = "loop" /\ at < Len(Order)
Task   == Order[at + 1]

(* One iteration ends with an entry in merged or in skipped.               *)
Settle(result) == /\ outcome' = [outcome EXCEPT ![Task] = result]
                  /\ at' = at + 1
                  /\ UNCHANGED <<input, pc>>

SkipUnapproved == /\ InLoop /\ Task \notin approved
                  /\ Settle("not_approved")
                  /\ UNCHANGED <<head, wt, unmerged, failed, spilt>>

Changed(t) == {f \in Hunks : tip[t][f] # Base[f]}

\* Faulty variant: the merge is run with -X ours.
ConflictsNone(t) == {}

Conflicts(t) == {f \in Changed(t) : head[f] \notin {Base[f], tip[t][f]}}

(* The worktree after the merge: what only the branch changed is taken     *)
(* from it, what conflicts gets markers, the rest stays.                   *)
Merged(t) == [f \in Hunks |-> IF f \in Conflicts(t) THEN Markers
                              ELSE IF f \in Changed(t) /\ head[f] = Base[f] THEN tip[t][f]
                              ELSE wt[f]]

(* A merge starts on a merged index, and where the worktree holds what is  *)
(* committed in everything it would write.                                 *)
Starts == /\ InLoop /\ Task \in approved
          /\ ~unmerged
          /\ \A f \in Hunks : Merged(Task)[f] # wt[f] => wt[f] = head[f]

(* git merge refuses to start on an unmerged index.                        *)
SkipBlocked == /\ InLoop /\ Task \in approved
               /\ unmerged
               /\ Settle("merge_conflict")
               /\ UNCHANGED <<head, wt, unmerged, failed, spilt>>

(* Any other failure of git merge is caught, and reported, as a conflict.  *)
(* It is refused at the start (a lock, a file in the way, local changes)   *)
(* or dies half-way (a full disk), and nothing takes back what it wrote.   *)
SkipFailed == /\ InLoop /\ Task \in approved
              /\ ~unmerged
              /\ \/ wt' = wt
                 \/ /\ Starts
                    /\ \E fs \in SUBSET Hunks :
                         wt' = [f \in Hunks |-> IF f \in fs THEN Merged(Task)[f] ELSE wt[f]]
              /\ spilt' = spilt \cup {f \in Hunks : wt'[f] # wt[f]}
              /\ failed' = failed \cup {Task}
              /\ Settle("merge_conflict")
              /\ UNCHANGED <<head, unmerged>>

\* Faulty variant: a mixed reset where the code tries merge --abort.
SkipConflictReset == /\ Starts /\ Conflicts(Task) # {}
                     /\ wt' = Merged(Task)
                     /\ Settle("merge_conflict")
                     /\ UNCHANGED <<head, unmerged, failed, spilt>>

(* A squash merge that conflicts leaves no MERGE_HEAD, so merge --abort    *)
(* fails, is suppressed, and markers and unmerged entries stay.            *)
SkipConflict == /\ Starts /\ Conflicts(Task) # {}
                /\ wt' = Merged(Task)
                /\ unmerged' = TRUE
                /\ Settle("merge_conflict")
                /\ UNCHANGED <<head, failed, spilt>>

Merges == Starts /\ Conflicts(Task) = {}

(* git status is clean after the merge.                                    *)
SkipEmpty == /\ Merges
             /\ Merged(Task) = head
             /\ wt' = Merged(Task)
             /\ Settle("empty_diff")
             /\ UNCHANGED <<head, unmerged, failed, spilt>>

\* Faulty variant: the status is not looked at and the commit may be empty.
SquashAny == /\ Merges
             /\ wt' = Merged(Task) /\ head' = wt'
             /\ Settle("merged")
             /\ UNCHANGED <<unmerged, failed, spilt>>

(* add -A and commit take what the worktree holds, leftovers of a merge    *)
(* that died included.                                                     *)
Squash == /\ Merges
          /\ Merged(Task) # head
          /\ wt' = Merged(Task) /\ head' = wt'
          /\ Settle("merged")
          /\ UNCHANGED <<unmerged, failed, spilt>>

(* status, add or commit fails (a hook, no identity, a full disk): the     *)
(* exception leaves the loop with the branch at the last commit.           *)
CommitFails == /\ Merges
               /\ wt' = Merged(Task)
               /\ pc' = "raising"
               /\ UNCHANGED <<input, at, head, unmerged, failed, spilt, outcome>>

(* The finally clause, which removes the worktree if it can.               *)
Remove == /\ \/ pc = "loop" /\ at = Len(Order) /\ pc' = "returned"
             \/ pc = "raising" /\ pc' = "raised"
          /\ UNCHANGED <<input, at, head, wt, unmerged, failed, spilt, outcome>>

Next == \/ PrepareRefused \/ Prepare
        \/ SkipUnapproved \/ SkipBlocked \/ SkipFailed \/ SkipConflict \/ SkipEmpty
        \/ Squash \/ CommitFails \/ Remove

Spec == Init /\ [][Next]_vars

-----------------------------------------------------------------------------
Reasons == {"not_approved", "merge_conflict", "empty_diff"}

TypeOK ==
  /\ approved \in SUBSET Tasks /\ tip \in [Tasks -> Contents] /\ pinned \in BOOLEAN
  /\ pc \in {"start", "loop", "raising", "refused", "returned", "raised"}
  /\ at \in 0..Len(Order)
  /\ head \in {Absent} \cup [Hunks -> Versions \cup {Markers}]
  /\ wt \in [Hunks -> Versions \cup {Markers}]
  /\ unmerged \in BOOLEAN /\ failed \in SUBSET approved /\ spilt \in SUBSET Hunks
  /\ outcome \in [Tasks -> Reasons \cup {"none", "merged"}]

Built == pc \in {"loop", "raising", "returned", "raised"}

(* Whatever is on the integration branch is the base or the change of a    *)
(* subtask that is approved and reported as merged: no leftover branch, no *)
(* conflict markers, no half of a skipped subtask, but where a git merge   *)
(* died half-way: what it had written is committed with the next subtask.  *)
Provenance ==
  Built => \A f \in Hunks :
             \/ head[f] = Base[f] \/ f \in spilt
             \/ \E t \in approved : /\ outcome[t] = "merged"
                                    /\ f \in Changed(t) /\ head[f] = tip[t][f]

(* No later merge undoes an earlier one: every change of a subtask that is *)
(* reported as merged, or as empty because it was there already, is on the *)
(* branch, also when a later commit raises; but for what a merge that died *)
(* half-way wrote over it.                                                 *)
Delivered ==
  \A t \in Tasks : outcome[t] \in {"merged", "empty_diff"} =>
                     /\ t \in approved
                     /\ \A f \in Changed(t) : head[f] = tip[t][f] \/ f \in spilt

(* While the index is merged, the worktree holds what the branch holds,    *)
(* but for what a merge that died has left in it.                          *)
SyncInv == /\ pc = "loop" /\ ~unmerged => \A f \in Hunks : wt[f] = head[f] \/ f \in spilt
           /\ Built => head # Absent
           /\ pc \in {"start", "refused"} => spilt = {} /\ \A t \in Tasks : outcome[t] = "none"
           /\ \A i \in 1..Len(Order) : i > at => outcome[Order[i]] = "none"

IInv == TypeOK /\ SyncInv /\ Provenance /\ Delivered

-----------------------------------------------------------------------------
(* The module's docstring: "Each approved subtask branch is squash-merged  *)
(* and committed on top"; a subtask reported as merge_conflict, without a  *)
(* git merge that failed for a reason of its own, conflicts with what is   *)
(* on the branch.                                                          *)
ConflictIsReal ==
  \A t \in Tasks \ failed : outcome[t] = "merge_conflict" => Conflicts(t) # {}
=============================================================================

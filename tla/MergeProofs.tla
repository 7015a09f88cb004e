---------------------------- MODULE MergeProofs ----------------------------
(***************************************************************************)
(* For every plan, every set of branches and every set of approvals: what  *)
(* is on the integration branch.                                           *)
(***************************************************************************)
EXTENDS Merge, TLAPS

USE MergeAssumption

(* The initial states satisfy the invariant.                               *)
LEMMA InitEstablishes == Init => IInv
  <1> SUFFICES ASSUME Init PROVE IInv
    OBVIOUS
  <1>1. /\ pc = "start" /\ at = 0 /\ wt = Base /\ ~unmerged /\ failed = {} /\ spilt = {}
        /\ \A t \in Tasks : outcome[t] = "none"
    BY DEF Init
  <1>2. \A i \in 1..Len(Order) : Order[i] \in Tasks
    OBVIOUS
  <1>3. at \in 0..Len(Order) /\ Len(Order) \in Nat
    BY <1>1
  <1>4. head \in {Absent} \cup Contents
    BY DEF Init
  <1>5. TypeOK
    BY <1>3, <1>4 DEF Init, TypeOK, Contents
  <1>6. SyncInv
    BY <1>1, <1>2 DEF SyncInv, Built
  <1>7. Provenance /\ Delivered
    BY <1>1 DEF Provenance, Delivered, Built
  <1> QED BY <1>5, <1>6, <1>7 DEF IInv

(* The subtask of an iteration is one of the plan, not decided yet.        *)
LEMMA TaskIsNext ==
  ASSUME IInv, InLoop
  PROVE  /\ Task \in Tasks /\ at + 1 \in 1..Len(Order) /\ at \in Nat
         /\ outcome[Task] = "none"
  BY DEF IInv, TypeOK, SyncInv, InLoop, Task

(* An iteration decides only its own subtask.                              *)
LEMMA SettleType ==
  ASSUME IInv, InLoop, NEW result \in Reasons \cup {"merged"}, Settle(result)
  PROVE  /\ at' \in 0..Len(Order) /\ outcome' \in [Tasks -> Reasons \cup {"none", "merged"}]
         /\ outcome'[Task] = result
         /\ \A t \in Tasks \ {Task} : outcome'[t] = outcome[t]
         /\ \A i \in 1..Len(Order) : i > at' => outcome'[Order[i]] = "none"
  <1>1. at' = at + 1 /\ at \in Nat /\ Task \in Tasks
    BY TaskIsNext DEF Settle
  <1>2. at' \in 0..Len(Order) /\ outcome' \in [Tasks -> Reasons \cup {"none", "merged"}]
    BY <1>1, TaskIsNext DEF Settle, IInv, TypeOK
  <1>3. outcome'[Task] = result /\ \A t \in Tasks \ {Task} : outcome'[t] = outcome[t]
    BY <1>1 DEF Settle, IInv, TypeOK
  <1>4. ASSUME NEW i \in 1..Len(Order), i > at'
        PROVE  outcome'[Order[i]] = "none"
    <2>1. Order[i] \in Tasks /\ Order[i] # Task /\ i > at
      BY <1>1, <1>4, TaskIsNext DEF Task
    <2> QED BY <1>3, <2>1 DEF IInv, SyncInv
  <1> QED BY <1>2, <1>3, <1>4

(* A subtask that is skipped for a reason that promises nothing.           *)
LEMMA SkipKeeps ==
  ASSUME IInv, InLoop, NEW reason \in {"not_approved", "merge_conflict"}, Settle(reason),
         UNCHANGED head, spilt \subseteq spilt'
  PROVE  Provenance' /\ Delivered'
  <1>1. /\ UNCHANGED <<approved, tip, pc>> /\ pc = "loop"
        /\ Task \in Tasks /\ outcome[Task] = "none"
        /\ outcome'[Task] = reason
        /\ \A t \in Tasks \ {Task} : outcome'[t] = outcome[t]
    BY TaskIsNext, SettleType DEF Settle, input, InLoop, Reasons
  <1>2. \A t \in Tasks : outcome'[t] \in {"merged", "empty_diff"} => outcome'[t] = outcome[t]
    BY <1>1
  <1>3. \A t \in Tasks : outcome[t] = "merged" => outcome'[t] = "merged"
    BY <1>1
  <1>4. approved \subseteq Tasks
    BY DEF IInv, TypeOK
  <1>5. Provenance'
    BY <1>1, <1>3, <1>4 DEF IInv, Provenance, Built, Changed
  <1>6. Delivered'
    BY <1>1, <1>2 DEF IInv, Delivered, Changed
  <1> QED BY <1>5, <1>6

(* What a merge writes keeps the types, with or without a conflict.        *)
LEMMA MergedType ==
  ASSUME IInv, InLoop
  PROVE  Merged(Task) \in [Hunks -> Versions \cup {Markers}]
  <1>1. Task \in Tasks
    BY TaskIsNext
  <1>2. tip[Task] \in Contents /\ wt \in [Hunks -> Versions \cup {Markers}]
    BY <1>1 DEF IInv, TypeOK
  <1> QED BY <1>2 DEF Merged, Contents

(* What a merge without conflict produces, against the branch as it is:    *)
(* every hunk is the branch's own, or one this subtask changes, or one a   *)
(* merge that died has written.                                            *)
LEMMA MergedContent ==
  ASSUME IInv, Merges
  PROVE  /\ Merged(Task) \in [Hunks -> Versions \cup {Markers}]
         /\ head \in [Hunks -> Versions \cup {Markers}]
         /\ \A f \in Hunks \ spilt :
              IF f \in Changed(Task)
              THEN Merged(Task)[f] = tip[Task][f] /\ head[f] \in {Base[f], tip[Task][f]}
              ELSE Merged(Task)[f] = head[f]
  <1>1. Task \in Tasks /\ pc = "loop" /\ ~unmerged /\ Conflicts(Task) = {} /\ InLoop
    BY TaskIsNext DEF Merges, Starts, InLoop
  <1>2. head \in [Hunks -> Versions \cup {Markers}]
    BY <1>1 DEF IInv, TypeOK, SyncInv, Built
  <1>3. \A f \in Hunks \ spilt : wt[f] = head[f]
    BY <1>1 DEF IInv, SyncInv
  <1>4. \A f \in Changed(Task) : head[f] \in {Base[f], tip[Task][f]}
    BY <1>1 DEF Conflicts
  <1>5. \A f \in Hunks : Merged(Task)[f] = IF f \in Changed(Task) /\ head[f] = Base[f]
                                          THEN tip[Task][f] ELSE wt[f]
    BY <1>1 DEF Merged
  <1>6. \A f \in Changed(Task) : f \in Hunks /\ tip[Task][f] # Base[f]
    BY DEF Changed
  <1> QED BY <1>1, <1>2, <1>3, <1>4, <1>5, <1>6, MergedType

(* A merge keeps what was delivered: a hunk that two subtasks changed      *)
(* without a conflict is the same in both.                                 *)
LEMMA MergeKeeps ==
  ASSUME IInv, Merges,
         NEW t \in Tasks, outcome[t] \in {"merged", "empty_diff"},
         NEW f \in Changed(t), f \notin spilt
  PROVE  Merged(Task)[f] = tip[t][f]
  <1>1. f \in Hunks /\ tip[t][f] # Base[f] /\ head[f] = tip[t][f]
    BY DEF IInv, Delivered, Changed
  <1> QED BY <1>1, MergedContent

(* Every step preserves the invariant.                                     *)
LEMMA StepPreserves == IInv /\ [Next]_vars => IInv'
  <1> SUFFICES ASSUME IInv, [Next]_vars PROVE IInv'
    OBVIOUS
  <1>1. CASE PrepareRefused
    <2>1. head' \in {Absent} \cup [Hunks -> Versions \cup {Markers}]
      BY <1>1 DEF PrepareRefused, IInv, TypeOK
    <2> QED BY <1>1, <2>1 DEF PrepareRefused, input, IInv, TypeOK, SyncInv, Provenance,
               Delivered, Built, Changed
  <1>2. CASE Prepare
    BY <1>2 DEF Prepare, input, IInv, TypeOK, SyncInv, Provenance, Delivered, Built, Changed
  <1>3. CASE SkipUnapproved
    <2>1. Task \notin approved /\ Settle("not_approved") /\ InLoop
          /\ UNCHANGED <<head, wt, unmerged, failed, spilt>>
          /\ UNCHANGED <<approved, tip, pinned, pc>>
      BY <1>3 DEF SkipUnapproved, Settle, input
    <2>2. Task \in Tasks /\ outcome[Task] = "none"
      BY <2>1, TaskIsNext
    <2>3. TypeOK'
      BY <2>1, SettleType DEF IInv, TypeOK, Reasons
    <2>4. SyncInv'
      BY <2>1, <2>2, SettleType DEF IInv, SyncInv, Built, InLoop, Reasons
    <2> QED BY <2>1, <2>3, <2>4, SkipKeeps DEF IInv
  <1>4. CASE SkipBlocked
    <2>1. unmerged /\ Settle("merge_conflict") /\ InLoop
          /\ UNCHANGED <<head, wt, unmerged, failed, spilt>>
          /\ UNCHANGED <<approved, tip, pinned, pc>>
      BY <1>4 DEF SkipBlocked, Settle, input
    <2>2. Task \in Tasks /\ outcome[Task] = "none"
      BY <2>1, TaskIsNext
    <2>3. TypeOK'
      BY <2>1, SettleType DEF IInv, TypeOK, Reasons
    <2>4. SyncInv'
      BY <2>1, <2>2, SettleType DEF IInv, SyncInv, Built, InLoop, Reasons
    <2> QED BY <2>1, <2>3, <2>4, SkipKeeps DEF IInv
  <1>5. CASE SkipConflict
    <2>1. unmerged' = TRUE /\ Settle("merge_conflict") /\ InLoop /\ wt' = Merged(Task)
          /\ UNCHANGED <<head, failed, spilt>> /\ UNCHANGED <<approved, tip, pinned, pc>>
      BY <1>5 DEF SkipConflict, Starts, Settle, input
    <2>2. Task \in Tasks /\ outcome[Task] = "none"
      BY <2>1, TaskIsNext
    <2>3. TypeOK'
      BY <2>1, MergedType, SettleType DEF IInv, TypeOK, Reasons
    <2>4. SyncInv'
      BY <2>1, <2>2, SettleType DEF IInv, SyncInv, Built, InLoop, Reasons
    <2> QED BY <2>1, <2>3, <2>4, SkipKeeps DEF IInv
  <1>6. CASE SkipFailed
    <2>1. /\ ~unmerged /\ Settle("merge_conflict") /\ InLoop /\ Task \in approved
          /\ UNCHANGED <<head, unmerged>> /\ UNCHANGED <<approved, tip, pinned, pc>>
          /\ failed' = failed \cup {Task}
          /\ spilt' = spilt \cup {f \in Hunks : wt'[f] # wt[f]}
      BY <1>6 DEF SkipFailed, Settle, input
    <2>2. Task \in Tasks /\ outcome[Task] = "none"
      BY <2>1, TaskIsNext
    <2>3. wt' \in [Hunks -> Versions \cup {Markers}]
      <3>1. CASE wt' = wt
        BY <3>1 DEF IInv, TypeOK
      <3>2. ASSUME NEW fs \in SUBSET Hunks,
                   wt' = [f \in Hunks |-> IF f \in fs THEN Merged(Task)[f] ELSE wt[f]]
            PROVE  wt' \in [Hunks -> Versions \cup {Markers}]
        BY <2>1, <3>2, MergedType DEF IInv, TypeOK
      <3> QED BY <1>6, <3>1, <3>2 DEF SkipFailed
    <2>4. TypeOK'
      BY <2>1, <2>3, SettleType DEF IInv, TypeOK, Reasons
    <2>5. \A f \in Hunks : wt'[f] = head'[f] \/ f \in spilt'
      BY <2>1 DEF IInv, SyncInv, InLoop
    <2>6. SyncInv'
      BY <2>1, <2>2, <2>5, SettleType DEF IInv, SyncInv, Built, InLoop, Reasons
    <2> QED BY <2>1, <2>4, <2>6, SkipKeeps DEF IInv
  <1>7. CASE SkipEmpty
    <2>1. Merges /\ Task \in approved /\ Settle("empty_diff") /\ InLoop /\ ~unmerged
          /\ UNCHANGED <<head, unmerged, failed, spilt>>
          /\ UNCHANGED <<approved, tip, pinned, pc>>
          /\ Merged(Task) = head /\ wt' = head
      BY <1>7 DEF SkipEmpty, Merges, Starts, Settle, input
    <2>2. Task \in Tasks /\ outcome[Task] = "none"
      BY <2>1, TaskIsNext
    <2>3. TypeOK'
      BY <2>1, <2>2, SettleType, MergedContent DEF IInv, TypeOK, Reasons
    <2>4. SyncInv'
      BY <2>1, <2>2, SettleType DEF IInv, TypeOK, SyncInv, Built, InLoop, Reasons
    <2>5. Provenance'
      <3>1. \A t \in Tasks : outcome[t] = "merged" => outcome'[t] = "merged"
        BY <2>2, <2>1, SettleType DEF Reasons
      <3>2. approved \subseteq Tasks
        BY DEF IInv, TypeOK
      <3> QED BY <2>1, <3>1, <3>2 DEF IInv, Provenance, Built, Changed
    <2>6. ASSUME NEW t \in Tasks, outcome'[t] \in {"merged", "empty_diff"}
          PROVE  t \in approved /\ \A f \in Changed(t) : head[f] = tip[t][f] \/ f \in spilt
      <3>1. CASE t = Task
        BY <2>1, <3>1, MergedContent DEF Changed
      <3>2. CASE t # Task
        BY <2>1, <2>6, <3>2, SettleType DEF IInv, Delivered, Reasons
      <3> QED BY <3>1, <3>2
    <2>7. Delivered'
      BY <2>1, <2>6 DEF Delivered, Changed
    <2> QED BY <2>3, <2>4, <2>5, <2>7 DEF IInv
  <1>8. CASE Squash
    <2>1. Merges /\ Task \in approved /\ Settle("merged") /\ InLoop /\ ~unmerged
          /\ UNCHANGED <<unmerged, failed, spilt>> /\ UNCHANGED <<approved, tip, pinned, pc>>
          /\ head' = Merged(Task) /\ wt' = head'
      BY <1>8 DEF Squash, Merges, Starts, Settle, input
    <2>2. Task \in Tasks /\ outcome[Task] = "none" /\ pc = "loop"
      BY <2>1, TaskIsNext DEF InLoop
    <2>3. TypeOK'
      BY <2>1, <2>2, SettleType, MergedContent DEF IInv, TypeOK, Reasons
    <2>4. SyncInv'
      <3>1. head' # Absent
        BY <2>1, MergedContent
      <3> QED BY <2>1, <2>2, <3>1, SettleType DEF IInv, TypeOK, SyncInv, Built, Reasons
    <2>5. ASSUME NEW f \in Hunks \ spilt
          PROVE  \/ head'[f] = Base[f]
                 \/ \E t \in approved : /\ outcome'[t] = "merged"
                                        /\ f \in Changed(t) /\ head'[f] = tip[t][f]
      <3>1. CASE f \in Changed(Task)
        BY <2>1, <3>1, SettleType, MergedContent DEF Reasons
      <3>2. CASE f \notin Changed(Task)
        <4>1. head'[f] = head[f]
          BY <2>1, <3>2, MergedContent
        <4>2. CASE head[f] = Base[f]
          BY <4>1, <4>2
        <4>3. CASE head[f] # Base[f]
          <5>1. PICK t \in approved : /\ outcome[t] = "merged"
                                      /\ f \in Changed(t) /\ head[f] = tip[t][f]
            BY <2>2, <4>3 DEF IInv, Provenance, Built
          <5>2. t \in Tasks /\ t # Task
            BY <2>2, <5>1 DEF IInv, TypeOK
          <5>3. outcome'[t] = "merged"
            BY <2>1, <5>1, <5>2, SettleType DEF Reasons
          <5> QED BY <4>1, <5>1, <5>3
        <4> QED BY <4>2, <4>3
      <3> QED BY <3>1, <3>2
    <2>6. Provenance'
      BY <2>1, <2>5 DEF Provenance, Changed
    <2>7. ASSUME NEW t \in Tasks, outcome'[t] \in {"merged", "empty_diff"}
          PROVE  t \in approved /\ \A f \in Changed(t) : head'[f] = tip[t][f] \/ f \in spilt
      <3>1. CASE t = Task
        BY <2>1, <3>1, MergedContent DEF Changed
      <3>2. CASE t # Task
        <4>1. outcome[t] \in {"merged", "empty_diff"}
          BY <2>1, <2>7, <3>2, SettleType DEF Reasons
        <4>2. t \in approved
          BY <4>1 DEF IInv, Delivered
        <4> QED BY <2>1, <4>1, <4>2, MergeKeeps
      <3> QED BY <3>1, <3>2
    <2>8. Delivered'
      BY <2>1, <2>7 DEF Delivered, Changed
    <2> QED BY <2>3, <2>4, <2>6, <2>8 DEF IInv
  <1>9. CASE CommitFails
    <2>1. /\ Merges /\ wt' = Merged(Task) /\ pc = "loop" /\ pc' = "raising"
          /\ UNCHANGED <<approved, tip, pinned, at, head, unmerged, failed, spilt, outcome>>
      BY <1>9 DEF CommitFails, Merges, Starts, InLoop, input
    <2>2. wt' \in [Hunks -> Versions \cup {Markers}]
      BY <2>1, MergedContent
    <2>3. TypeOK' /\ SyncInv'
      BY <2>1, <2>2 DEF IInv, TypeOK, SyncInv, Built
    <2>4. Provenance' /\ Delivered'
      BY <2>1 DEF IInv, Provenance, Delivered, Built, Changed
    <2> QED BY <2>3, <2>4 DEF IInv
  <1>10. CASE Remove
    <2>1. /\ UNCHANGED <<approved, tip, pinned, at, head, wt, unmerged, failed, spilt, outcome>>
          /\ pc \in {"loop", "raising"} /\ pc' \in {"returned", "raised"}
      BY <1>10 DEF Remove, input
    <2>2. TypeOK' /\ SyncInv'
      BY <2>1 DEF IInv, TypeOK, SyncInv, Built
    <2>3. Provenance' /\ Delivered'
      BY <2>1 DEF IInv, Provenance, Delivered, Built, Changed
    <2> QED BY <2>2, <2>3 DEF IInv
  <1>11. CASE UNCHANGED vars
    BY <1>11 DEF vars, IInv, TypeOK, SyncInv, Provenance, Delivered, Built, Changed
  <1> QED BY <1>1, <1>2, <1>3, <1>4, <1>5, <1>6, <1>7, <1>8, <1>9, <1>10, <1>11 DEF Next

(* The invariant holds in every reachable state.                           *)
THEOREM Invariance == Spec => []IInv
  BY InitEstablishes, StepPreserves, PTL DEF Spec

(* squash_integration puts nothing on the branch that is not the change of *)
(* an approved subtask it reports as merged, or left by a merge that died. *)
THEOREM ProvenanceTheorem == Spec => []Provenance
  <1>1. IInv => Provenance
    BY DEF IInv
  <1> QED BY <1>1, Invariance, PTL

(* What squash_integration reports as merged, or as empty, is on the       *)
(* branch, whatever was merged after it and however the function ends.     *)
THEOREM DeliveredTheorem == Spec => []Delivered
  <1>1. IInv => Delivered
    BY DEF IInv
  <1> QED BY <1>1, Invariance, PTL

=============================================================================

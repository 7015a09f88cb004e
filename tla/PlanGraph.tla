----------------------------- MODULE PlanGraph -----------------------------
(***************************************************************************)
(* The two graph algorithms a plan goes through: the validation of         *)
(* types.py (Kahn's algorithm over in-degrees), which decides whether the  *)
(* planner's answer is a plan at all, and _topological_order of            *)
(* workflow.py, which cuts the pending subtasks of a round into layers.    *)
(*                                                                         *)
(* A plan is the set of its ids with their dependencies, and the length of *)
(* the list it came as: more than the ids when an id is repeated.          *)
(***************************************************************************)
EXTENDS Integers, Sequences, FiniteSets

CONSTANTS Ids,          \* ids a planner may use
          MaxSubtasks,  \* MAX_SUBTASKS
          MaxListed     \* bound: the longest list tried

ASSUME PlanGraphAssumption == /\ IsFiniteSet(Ids)
                              /\ MaxSubtasks \in Nat /\ MaxListed \in Nat

VARIABLES pc,        \* "names", "kahn", "accepted", "rejected" or "layering"
          listed,    \* the length of the list
          graph,     \* per id of the plan, its dependencies
          degree,    \* in_degree
          ready,     \* the ids on the stack ready
          visited,   \* visited
          pending,   \* the subtasks of the round
          remaining, \* remaining: what each subtask not yet in a layer waits for
          layers     \* layers

plan  == <<listed, graph>>
kahn  == <<degree, ready, visited>>
order == <<pending, remaining, layers>>
vars  == <<pc, listed, graph, degree, ready, visited, pending, remaining, layers>>

Nodes == DOMAIN graph
Empty == [t \in {} |-> {}]

Init == /\ pc = "names"
        /\ \E N \in (SUBSET Ids) \ {{}} : /\ graph \in [N -> SUBSET Ids]
                                          /\ listed \in Cardinality(N)..MaxListed
        /\ degree = Empty /\ ready = {} /\ visited = 0
        /\ pending = {} /\ remaining = Empty /\ layers = <<>>

-----------------------------------------------------------------------------
(* Plan._dependencies_resolve                                              *)

WellNamed == /\ listed <= MaxSubtasks
             /\ listed = Cardinality(Nodes)
             /\ \A t \in Nodes : graph[t] \subseteq Nodes

RefuseNames == /\ pc = "names" /\ ~WellNamed
               /\ pc' = "rejected"
               /\ UNCHANGED <<plan, kahn, order>>

\* Faulty variant: the degree counts the subtasks that wait for this one.
DegreeOut(t) == Cardinality({u \in Nodes : t \in graph[u]})

Degree(t) == Cardinality(graph[t])

StartKahn == /\ pc = "names" /\ WellNamed
             /\ pc' = "kahn"
             /\ degree' = [t \in Nodes |-> Degree(t)]
             /\ ready' = {t \in Nodes : degree'[t] = 0}
             /\ visited' = 0
             /\ UNCHANGED <<plan, order>>

(* One id leaves the stack (the order does not matter to the outcome) and  *)
(* those that waited for it alone go onto it.                              *)
Visit(t) == /\ pc = "kahn" /\ t \in ready
            /\ visited' = visited + 1
            /\ degree' = [u \in Nodes |-> IF t \in graph[u] THEN degree[u] - 1 ELSE degree[u]]
            /\ ready' = (ready \ {t}) \cup {u \in Nodes : t \in graph[u] /\ degree'[u] = 0}
            /\ UNCHANGED <<pc, plan, order>>

Decide == /\ pc = "kahn" /\ ready = {}
          /\ pc' = IF visited = Cardinality(Nodes) THEN "accepted" ELSE "rejected"
          /\ UNCHANGED <<plan, kahn, order>>

-----------------------------------------------------------------------------
(* _topological_order, for the first round and for any re-queued one       *)

\* Faulty variant: a dependency that is not pending is waited for, too.
WaitsForAll(P) == [t \in P |-> graph[t]]

WaitsFor(P) == [t \in P |-> graph[t] \cap P]

StartRound == /\ pc = "accepted"
              /\ pending' \in (SUBSET Nodes) \ {{}}
              /\ remaining' = WaitsFor(pending')
              /\ layers' = <<>>
              /\ pc' = "layering"
              /\ UNCHANGED <<plan, kahn>>

Left == DOMAIN remaining

\* Faulty variant: the sets shrink while the layer is being collected.
FreeGreedy == {t \in Left : remaining[t] \subseteq {u \in Left : remaining[u] = {}}}

Free == {t \in Left : remaining[t] = {}}

(* The branch that raises "dependency cycle in plan".                      *)
CycleFound == pc = "layering" /\ Left # {} /\ Free = {}

AddLayer == /\ pc = "layering" /\ Free # {}
            /\ layers' = Append(layers, Free)
            /\ remaining' = [t \in Left \ Free |-> remaining[t] \ Free]
            /\ UNCHANGED <<pc, plan, kahn, pending>>

(* The layers have been run; a verdict may send subtasks back.             *)
EndRound == /\ pc = "layering" /\ Left = {}
            /\ pc' = "accepted"
            /\ pending' = {} /\ remaining' = Empty /\ layers' = <<>>
            /\ UNCHANGED <<plan, kahn>>

Next == \/ RefuseNames \/ StartKahn \/ (\E t \in ready : Visit(t)) \/ Decide
        \/ StartRound \/ AddLayer \/ EndRound

Spec == Init /\ [][Next]_vars

-----------------------------------------------------------------------------
TypeOK ==
  /\ pc \in {"names", "kahn", "accepted", "rejected", "layering"}
  /\ listed \in Nat
  /\ Nodes \subseteq Ids /\ graph \in [Nodes -> SUBSET Ids]
  /\ ready \subseteq Nodes /\ visited \in Nat
  /\ pc = "kahn" => degree \in [Nodes -> Nat]
  /\ pending \subseteq Nodes /\ Left \subseteq pending
  /\ remaining \in [Left -> SUBSET pending]
  /\ layers \in Seq(SUBSET pending)

(* No dependency cycle, said without an algorithm: every group of subtasks *)
(* has one that waits for none of the group.                               *)
Acyclic == \A S \in SUBSET Nodes : S # {} => \E t \in S : graph[t] \cap S = {}

(* The validation accepts exactly the plans that are well named and have   *)
(* no cycle: what it lets through can be layered, and what it refuses is   *)
(* not a plan the workflow could have run.                                 *)
AcceptsExactly == /\ pc \in {"accepted", "layering"} => WellNamed /\ Acyclic
                  /\ pc = "rejected" => ~WellNamed \/ ~Acyclic

(* _topological_order never meets a cycle, for no choice of pending        *)
(* subtasks of a plan that was accepted (the comment in types.py).         *)
NeverStuck == ~CycleFound

Before(i) == UNION {layers[j] : j \in 1..i - 1}

(* The layers order the round: what a subtask waits for among the pending  *)
(* ones is in an earlier layer, it is in no earlier layer itself, and none *)
(* is lost on the way.                                                     *)
LayersInOrder ==
  /\ \A i \in DOMAIN layers : \A t \in layers[i] :
       graph[t] \cap pending \subseteq Before(i) /\ t \notin Before(i)
  /\ pc = "layering" => pending = Left \cup Before(Len(layers) + 1)

(* The inductive invariant behind the three: while Kahn's algorithm runs,  *)
(* a degree counts the dependencies not yet visited, and what has been     *)
(* visited has no cycle; while a round is cut into layers, every subtask   *)
(* left waits for exactly its dependencies among those left.               *)
Visited == {t \in Nodes : degree[t] = 0} \ ready

KahnInv ==
  pc = "kahn" =>
    /\ WellNamed
    /\ ready \subseteq {t \in Nodes : degree[t] = 0}
    /\ \A t \in Nodes : degree[t] = Cardinality(graph[t] \ Visited)
    /\ visited = Cardinality(Visited)
    /\ \A S \in SUBSET Visited : S # {} => \E t \in S : graph[t] \cap S = {}

RoundInv ==
  /\ pc # "layering" => layers = <<>>
  /\ pc = "layering" => /\ \A t \in Left : remaining[t] = graph[t] \cap Left
                        /\ Left \cap Before(Len(layers) + 1) = {}

IInv == TypeOK /\ KahnInv /\ AcceptsExactly /\ RoundInv /\ LayersInOrder
=============================================================================

-------------------------- MODULE PlanGraphProofs --------------------------
(***************************************************************************)
(* For any finite set of ids and any plan over them: the validation of     *)
(* types.py accepts exactly the well-named plans without a cycle, and what *)
(* it accepts is layered by _topological_order without getting stuck.      *)
(***************************************************************************)
EXTENDS PlanGraph, FiniteSetTheorems, TLAPS

USE PlanGraphAssumption

(* Everything the algorithms count is finite.                              *)
LEMMA Finite ==
  ASSUME Nodes \subseteq Ids
  PROVE  /\ IsFiniteSet(Nodes)
         /\ \A S \in SUBSET Nodes : /\ IsFiniteSet(S) /\ Cardinality(S) \in Nat
                                    /\ Cardinality(S) = 0 <=> S = {}
<1>1. IsFiniteSet(Nodes)
  BY FS_Subset
<1>2. \A S \in SUBSET Nodes : IsFiniteSet(S)
  BY <1>1, FS_Subset
<1>3. QED
  BY <1>1, <1>2, FS_CardinalityType, FS_EmptySet

(* A plan that nobody has looked at satisfies the invariant.               *)
LEMMA InitHolds == Init => IInv
<1> SUFFICES ASSUME Init
             PROVE  IInv
  OBVIOUS
<1>1. PICK N \in SUBSET Ids : /\ graph \in [N -> SUBSET Ids]
                              /\ listed \in Cardinality(N)..MaxListed /\ N # {}
  BY DEF Init
<1>2. Nodes = N /\ IsFiniteSet(N)
  BY <1>1, FS_Subset DEF Nodes
<1>3. listed \in Nat
  BY <1>1, <1>2, FS_CardinalityType
<1>4. /\ pc = "names" /\ ready = {} /\ visited = 0 /\ pending = {} /\ layers = <<>>
      /\ remaining = Empty
  BY DEF Init
<1>5. Left = {} /\ remaining \in [Left -> SUBSET pending]
  BY <1>4 DEF Left, Empty
<1>6. TypeOK
  BY <1>1, <1>2, <1>3, <1>4, <1>5 DEF TypeOK
<1>7. KahnInv /\ AcceptsExactly /\ RoundInv /\ LayersInOrder
  BY <1>4 DEF KahnInv, AcceptsExactly, RoundInv, LayersInOrder
<1>8. QED
  BY <1>6, <1>7 DEF IInv

-----------------------------------------------------------------------------
(* Kahn's algorithm                                                        *)

(* An id on the stack waits for visited ids only, and so does a visited    *)
(* one.                                                                    *)
LEMMA ZeroIsFree ==
  ASSUME TypeOK, KahnInv, pc = "kahn", NEW t \in Nodes, degree[t] = 0
  PROVE  graph[t] \subseteq Visited
<1>1. graph[t] \subseteq Nodes
  BY DEF KahnInv, WellNamed
<1>2. Cardinality(graph[t] \ Visited) = 0
  BY DEF KahnInv
<1>3. graph[t] \ Visited = {}
  <2>1. graph[t] \ Visited \in SUBSET Nodes
    BY <1>1
  <2>2. QED
    BY <1>2, <2>1, Finite DEF TypeOK
<1>4. QED
  BY <1>3

(* The step of the loop: the visited ids grow by the one popped.           *)
LEMMA VisitGrows ==
  ASSUME TypeOK, KahnInv, NEW t \in ready, Visit(t)
  PROVE  /\ pc = "kahn" /\ t \in Nodes /\ t \notin Visited /\ graph[t] \subseteq Visited
         /\ Visited' = Visited \cup {t}
<1>1. pc = "kahn" /\ t \in Nodes /\ degree[t] = 0 /\ t \notin Visited
  BY DEF Visit, KahnInv, Visited
<1>2. graph[t] \subseteq Visited
  BY <1>1, ZeroIsFree
<1>3. \A u \in Visited : graph[u] \subseteq Visited
  BY <1>1, ZeroIsFree DEF Visited
<1>4. Nodes' = Nodes
  BY DEF Visit, plan, Nodes
<1>5. \A u \in Nodes : degree'[u] = IF t \in graph[u] THEN degree[u] - 1 ELSE degree[u]
  BY DEF Visit
<1>6. ready' = (ready \ {t}) \cup {u \in Nodes : t \in graph[u] /\ degree'[u] = 0}
  BY DEF Visit
<1>7. ASSUME NEW u \in Nodes
      PROVE  u \in Visited' <=> u \in Visited \cup {t}
  <2>1. u \in Visited' <=> degree'[u] = 0 /\ u \notin ready'
    BY <1>4 DEF Visited
  <2>2. u \in Visited <=> degree[u] = 0 /\ u \notin ready
    BY DEF Visited
  <2>3. CASE t \in graph[u]
    <3>1. u \notin Visited /\ u # t
      BY <1>1, <1>2, <1>3, <2>3
    <3>2. degree'[u] = 0 => u \in ready'
      BY <1>6, <2>3
    <3>3. QED
      BY <2>1, <3>1, <3>2
  <2>4. CASE t \notin graph[u]
    <3>1. degree'[u] = degree[u] /\ (u \in ready' <=> u \in ready \ {t})
      BY <1>5, <1>6, <2>4
    <3>2. QED
      BY <1>1, <2>1, <2>2, <3>1
  <2>5. QED
    BY <2>3, <2>4
<1>8. Visited' \subseteq Nodes /\ Visited \cup {t} \subseteq Nodes
  BY <1>1, <1>4 DEF Visited
<1>9. QED
  BY <1>1, <1>2, <1>7, <1>8

(* Visiting a free node keeps the degrees exact.                           *)
LEMMA VisitHolds ==
  ASSUME IInv, NEW t \in ready, Visit(t)
  PROVE  IInv'
<1>0. TypeOK /\ KahnInv
  BY DEF IInv
<1>1. /\ pc = "kahn" /\ t \in Nodes /\ t \notin Visited /\ graph[t] \subseteq Visited
      /\ Visited' = Visited \cup {t}
  BY <1>0, VisitGrows
<1>2. /\ UNCHANGED <<pc, listed, graph, pending, remaining, layers>>
      /\ visited' = visited + 1
      /\ degree' = [u \in Nodes |-> IF t \in graph[u] THEN degree[u] - 1 ELSE degree[u]]
      /\ ready' = (ready \ {t}) \cup {u \in Nodes : t \in graph[u] /\ degree'[u] = 0}
  BY DEF Visit, plan, order
<1>a. Nodes' = Nodes /\ Left' = Left
  BY <1>2 DEF Nodes, Left
<1>3. WellNamed /\ ready \subseteq {u \in Nodes : degree[u] = 0}
      /\ visited = Cardinality(Visited)
      /\ \A S \in SUBSET Visited : S # {} => \E u \in S : graph[u] \cap S = {}
  BY <1>0, <1>1 DEF KahnInv
<1>4. \A u \in Nodes : degree'[u] = Cardinality(graph[u] \ Visited')
  <2> SUFFICES ASSUME NEW u \in Nodes
               PROVE  degree'[u] = Cardinality(graph[u] \ Visited')
    OBVIOUS
  <2>1. degree[u] = Cardinality(graph[u] \ Visited)
    BY <1>0, <1>1 DEF KahnInv
  <2>2. graph[u] \ Visited' = (graph[u] \ Visited) \ {t}
    BY <1>1
  <2>3. graph[u] \ Visited \in SUBSET Nodes
    BY <1>3 DEF WellNamed
  <2>4. IsFiniteSet(graph[u] \ Visited)
    BY <1>0, <2>3, Finite DEF TypeOK
  <2>5. Cardinality((graph[u] \ Visited) \ {t}) =
          IF t \in graph[u] \ Visited THEN degree[u] - 1 ELSE degree[u]
    BY <2>1, <2>4, FS_RemoveElement
  <2>6. QED
    BY <1>1, <1>2, <2>2, <2>5
<1>5. degree' \in [Nodes -> Nat]
  <2>1. ASSUME NEW u \in Nodes
        PROVE  Cardinality(graph[u] \ Visited') \in Nat
    <3>1. graph[u] \ Visited' \in SUBSET Nodes
      BY <1>3 DEF WellNamed
    <3>2. QED
      BY <1>0, <3>1, Finite DEF TypeOK
  <2>2. QED
    BY <1>2, <1>4, <2>1
<1>6. \A u \in Nodes : degree[u] = 0 => t \notin graph[u]
  BY <1>0, <1>1, ZeroIsFree
<1>7. ready' \subseteq {u \in Nodes : degree'[u] = 0}
  BY <1>2, <1>3, <1>6
<1>8. visited' = Cardinality(Visited')
  <2>1. IsFiniteSet(Visited)
    BY <1>0, Finite DEF TypeOK, Visited
  <2>2. Cardinality(Visited \cup {t}) = Cardinality(Visited) + 1
    BY <1>1, <2>1, FS_AddElement
  <2>3. QED
    BY <1>1, <1>2, <1>3, <2>2
<1>9. \A S \in SUBSET Visited' : S # {} => \E u \in S : graph[u] \cap S = {}
  <2> SUFFICES ASSUME NEW S \in SUBSET (Visited \cup {t}), S # {}
               PROVE  \E u \in S : graph[u] \cap S = {}
    BY <1>1
  <2>1. CASE S \ {t} = {}
    <3>1. S = {t}
      BY <2>1
    <3>2. graph[t] \cap S = {}
      BY <1>1, <3>1
    <3>3. QED
      BY <3>1, <3>2
  <2>2. CASE S \ {t} # {}
    <3>1. PICK u \in S \ {t} : graph[u] \cap (S \ {t}) = {}
      BY <1>3, <2>2
    <3>2. u \in Visited /\ u \in Nodes /\ degree[u] = 0
      BY <3>1 DEF Visited
    <3>3. t \notin graph[u]
      BY <1>6, <3>2
    <3>4. QED
      BY <3>1, <3>3
  <2>3. QED
    BY <2>1, <2>2
<1>10. TypeOK'
  <2>1. ready' \subseteq Nodes
    BY <1>7
  <2>2. visited' \in Nat
    BY <1>0, <1>2 DEF TypeOK
  <2>3. QED
    BY <1>0, <1>2, <1>a, <1>5, <2>1, <2>2 DEF TypeOK
<1>11. KahnInv'
  <2>1. WellNamed'
    BY <1>2, <1>3, <1>a DEF WellNamed
  <2>2. QED
    BY <1>2, <1>a, <1>4, <1>7, <1>8, <1>9, <2>1 DEF KahnInv
<1>12. AcceptsExactly' /\ RoundInv' /\ LayersInOrder'
  BY <1>1, <1>2 DEF IInv, AcceptsExactly, RoundInv, LayersInOrder
<1>13. QED
  BY <1>10, <1>11, <1>12 DEF IInv

(* The first degrees count every dependency, and nothing is visited.       *)
LEMMA StartKahnHolds ==
  ASSUME IInv, StartKahn
  PROVE  IInv'
<1>1. /\ UNCHANGED <<listed, graph, pending, remaining, layers>>
      /\ pc = "names" /\ pc' = "kahn" /\ visited' = 0 /\ WellNamed
      /\ degree' = [u \in Nodes |-> Degree(u)]
      /\ ready' = {u \in Nodes : degree'[u] = 0}
  BY DEF StartKahn, plan, order
<1>2. Nodes' = Nodes /\ Left' = Left /\ Visited' = {}
  BY <1>1 DEF Nodes, Left, Visited
<1>3. TypeOK
  BY DEF IInv
<1>4. ASSUME NEW u \in Nodes
      PROVE  /\ Cardinality(graph[u]) \in Nat
             /\ degree'[u] = Cardinality(graph[u] \ Visited')
  <2>1. graph[u] \in SUBSET Nodes
    BY <1>1 DEF WellNamed
  <2>2. Cardinality(graph[u]) \in Nat
    BY <1>3, <2>1, Finite DEF TypeOK
  <2>3. graph[u] \ Visited' = graph[u]
    BY <1>2
  <2>4. QED
    BY <1>1, <2>2, <2>3 DEF Degree
<1>5. degree' \in [Nodes -> Nat]
  BY <1>1, <1>4 DEF Degree
<1>6. TypeOK'
  BY <1>1, <1>2, <1>3, <1>5 DEF TypeOK
<1>7. KahnInv'
  <2>1. WellNamed' /\ visited' = Cardinality(Visited')
    BY <1>1, <1>2, FS_EmptySet DEF WellNamed
  <2>2. QED
    BY <1>1, <1>2, <1>4, <2>1 DEF KahnInv
<1>8. AcceptsExactly' /\ RoundInv' /\ LayersInOrder'
  BY <1>1, <1>2 DEF IInv, AcceptsExactly, RoundInv, LayersInOrder
<1>9. QED
  BY <1>6, <1>7, <1>8 DEF IInv

(* The stack is empty.  Everything was visited: what is visited has no     *)
(* cycle.  Or the subtasks not visited each wait for another of them.      *)
LEMMA DecideExact ==
  ASSUME IInv, pc = "kahn", ready = {}
  PROVE  visited = Cardinality(Nodes) <=> Acyclic
<1>1. TypeOK /\ KahnInv
  BY DEF IInv
<1>2. /\ WellNamed /\ visited = Cardinality(Visited)
      /\ \A u \in Nodes : degree[u] = Cardinality(graph[u] \ Visited)
      /\ \A S \in SUBSET Visited : S # {} => \E u \in S : graph[u] \cap S = {}
  BY <1>1 DEF KahnInv
<1>3. IsFiniteSet(Nodes) /\ Visited \subseteq Nodes
  BY <1>1, Finite DEF TypeOK, Visited
<1>4. CASE Visited = Nodes
  BY <1>2, <1>4 DEF Acyclic
<1>5. CASE Visited # Nodes
  <2>1. Cardinality(Visited) # Cardinality(Nodes)
    BY <1>3, <1>5, FS_Subset
  <2>2. ASSUME NEW u \in Nodes \ Visited
        PROVE  graph[u] \cap (Nodes \ Visited) # {}
    <3>1. degree[u] # 0
      BY DEF Visited
    <3>2. graph[u] \ Visited \in SUBSET Nodes
      BY <1>2 DEF WellNamed
    <3>3. graph[u] \ Visited # {}
      BY <1>1, <1>2, <3>1, <3>2, Finite DEF TypeOK
    <3>4. QED
      BY <3>2, <3>3
  <2>3. ~Acyclic
    <3>1. Nodes \ Visited \in SUBSET Nodes /\ Nodes \ Visited # {}
      BY <1>3, <1>5
    <3>2. QED
      BY <2>2, <3>1 DEF Acyclic
  <2>4. QED
    BY <1>2, <2>1, <2>3
<1>6. QED
  BY <1>4, <1>5

(* The verdict is exact, over the names and over the cycles.               *)
LEMMA VerdictHolds ==
  ASSUME IInv, RefuseNames \/ Decide
  PROVE  IInv'
<1>1. /\ UNCHANGED <<listed, graph, degree, ready, visited, pending, remaining, layers>>
      /\ pc \in {"names", "kahn"} /\ pc' \in {"accepted", "rejected"}
  BY DEF RefuseNames, Decide, plan, kahn, order
<1>2. Nodes' = Nodes /\ Left' = Left
  BY <1>1 DEF Nodes, Left
<1>3. WellNamed' = WellNamed /\ Acyclic' = Acyclic
  BY <1>1, <1>2 DEF WellNamed, Acyclic
<1>4. AcceptsExactly'
  <2>1. CASE RefuseNames
    BY <1>3, <2>1 DEF RefuseNames, AcceptsExactly
  <2>2. CASE Decide
    <3>1. WellNamed
      BY <2>2 DEF Decide, IInv, KahnInv
    <3>2. visited = Cardinality(Nodes) <=> Acyclic
      BY <2>2, DecideExact DEF Decide
    <3>3. QED
      BY <1>3, <2>2, <3>1, <3>2 DEF Decide, AcceptsExactly
  <2>3. QED
    BY <2>1, <2>2
<1>6. TypeOK' /\ KahnInv'
  BY <1>1, <1>2 DEF IInv, TypeOK, KahnInv
<1>7. RoundInv' /\ LayersInOrder'
  BY <1>1 DEF IInv, RoundInv, LayersInOrder
<1>8. QED
  BY <1>4, <1>6, <1>7 DEF IInv

-----------------------------------------------------------------------------
(* The layers of a round                                                   *)

(* A round starts with all its pending subtasks left.                      *)
LEMMA StartRoundHolds ==
  ASSUME IInv, StartRound
  PROVE  IInv'
<1>1. /\ UNCHANGED <<listed, graph, degree, ready, visited>>
      /\ pc = "accepted" /\ pc' = "layering" /\ layers' = <<>>
      /\ pending' \subseteq Nodes /\ remaining' = [t \in pending' |-> graph[t] \cap pending']
  BY DEF StartRound, WaitsFor, plan, kahn
<1>2. Nodes' = Nodes /\ Left' = pending'
  BY <1>1 DEF Nodes, Left
<1>3. TypeOK'
  BY <1>1, <1>2 DEF IInv, TypeOK
<1>4. AcceptsExactly' /\ KahnInv'
  BY <1>1, <1>2 DEF IInv, AcceptsExactly, KahnInv, WellNamed, Acyclic
<1>5. Len(layers') = 0 /\ DOMAIN layers' = {}
  BY <1>1
<1>6. Before(Len(layers) + 1)' = {}
  BY <1>5 DEF Before
<1>7. RoundInv' /\ LayersInOrder'
  BY <1>1, <1>2, <1>5, <1>6 DEF RoundInv, LayersInOrder
<1>8. QED
  BY <1>3, <1>4, <1>7 DEF IInv

(* A layer takes the free subtasks, and the others wait for one less.      *)
LEMMA AddLayerHolds ==
  ASSUME IInv, AddLayer
  PROVE  IInv'
<1>1. /\ UNCHANGED <<pc, listed, graph, degree, ready, visited, pending>>
      /\ pc = "layering" /\ layers' = Append(layers, Free)
      /\ remaining' = [t \in Left \ Free |-> remaining[t] \ Free]
  BY DEF AddLayer, plan, kahn
<1>2. Nodes' = Nodes /\ Left' = Left \ Free /\ Free \subseteq Left
  BY <1>1 DEF Nodes, Left, Free
<1>3. /\ TypeOK /\ Left \subseteq pending /\ layers \in Seq(SUBSET pending)
      /\ remaining \in [Left -> SUBSET pending]
  BY DEF IInv, TypeOK
<1>p. PICK n \in Nat : n = Len(layers)
  BY <1>3
<1>4. /\ Len(layers) = n /\ DOMAIN layers = 1..n /\ Len(layers') = n + 1 /\ DOMAIN layers' = 1..n + 1
      /\ \A i \in 1..n : layers'[i] = layers[i]
      /\ layers'[n + 1] = Free
  BY <1>p, <1>1, <1>3
<1>d. layers'[n + 1] = Free
  BY <1>4
<1>5. \A i \in 1..n + 1 : Before(i)' = Before(i)
  BY <1>4 DEF Before
<1>6. Before(n + 2)' = Before(n + 1) \cup Free
  <2>1. Before(n + 2)' = UNION {layers'[j] : j \in 1..n + 1}
    BY DEF Before
  <2>2. Before(n + 1) = UNION {layers[j] : j \in 1..n}
    BY DEF Before
  <2>3. 1..n + 1 = 1..n \cup {n + 1}
    OBVIOUS
  <2>4. \A x : x \in UNION {layers'[j] : j \in 1..n + 1}
               <=> x \in Free \/ \E j \in 1..n : x \in layers[j]
    <3>1. \A j \in 1..n : layers'[j] = layers[j]
      BY <1>4
    <3>2. QED
      BY <1>d, <2>3, <3>1, Zenon
  <2>5. QED
    BY <2>1, <2>2, <2>4
<1>7. TypeOK'
  <2>1. layers' \in Seq(SUBSET pending)
    BY <1>1, <1>2, <1>3
  <2>2. remaining' \in [Left' -> SUBSET pending']
    BY <1>1, <1>2, <1>3
  <2>3. QED
    BY <1>1, <1>2, <1>3, <2>1, <2>2 DEF TypeOK
<1>8. AcceptsExactly' /\ KahnInv'
  BY <1>1, <1>2 DEF IInv, AcceptsExactly, KahnInv, WellNamed, Acyclic
<1>9. /\ \A t \in Left : remaining[t] = graph[t] \cap Left
      /\ Left \cap Before(n + 1) = {}
      /\ pending = Left \cup Before(n + 1)
      /\ \A i \in 1..n : \A t \in layers[i] :
           graph[t] \cap pending \subseteq Before(i) /\ t \notin Before(i)
  BY <1>1, <1>4 DEF IInv, RoundInv, LayersInOrder
<1>10. RoundInv'
  <2>1. \A t \in Left' : remaining'[t] = graph[t] \cap Left'
    BY <1>1, <1>2, <1>9
  <2>2. Left' \cap Before(n + 2)' = {}
    BY <1>2, <1>6, <1>9
  <2>3. Before(Len(layers) + 1)' = Before(n + 2)'
    BY <1>4 DEF Before
  <2>4. QED
    BY <1>1, <2>1, <2>2, <2>3 DEF RoundInv
<1>11. LayersInOrder'
  <2>1. ASSUME NEW i \in 1..n + 1, NEW t \in layers'[i]
        PROVE  graph[t] \cap pending \subseteq Before(i)' /\ t \notin Before(i)'
    <3>1. CASE i \in 1..n
      BY <1>4, <1>5, <1>9, <3>1
    <3>2. CASE i = n + 1
      <4>0. n + 1 \in 1..n + 1
        OBVIOUS
      <4>1. t \in Free
        BY <1>d, <3>2, Zenon
      <4>2. Before(n + 1)' = Before(n + 1)
        BY <1>5, <4>0
      <4>3. Before(i)' = Before(n + 1)
        BY <3>2, <4>2 DEF Before
      <4>4. t \in Left /\ graph[t] \cap Left = {}
        BY <1>9, <4>1 DEF Free
      <4>5. QED
        BY <1>9, <4>3, <4>4
    <3>3. QED
      BY <1>4, <3>1, <3>2
  <2>2. pending = Left' \cup Before(n + 2)'
    BY <1>2, <1>6, <1>9
  <2>3. QED
    BY <1>1, <1>4, <2>1, <2>2 DEF LayersInOrder
<1>12. QED
  BY <1>7, <1>8, <1>10, <1>11 DEF IInv

(* A round that ends leaves no layers behind.                              *)
LEMMA EndRoundHolds ==
  ASSUME IInv, EndRound
  PROVE  IInv'
<1>1. /\ UNCHANGED <<listed, graph, degree, ready, visited>>
      /\ pc = "layering" /\ pc' = "accepted" /\ layers' = <<>>
      /\ pending' = {} /\ remaining' = Empty
  BY DEF EndRound, plan, kahn
<1>2. Nodes' = Nodes /\ Left' = {}
  BY <1>1 DEF Nodes, Left, Empty
<1>3. remaining' \in [Left' -> SUBSET pending']
  BY <1>1, <1>2 DEF Empty
<1>4. TypeOK'
  BY <1>1, <1>2, <1>3 DEF IInv, TypeOK
<1>5. AcceptsExactly' /\ KahnInv'
  BY <1>1, <1>2 DEF IInv, AcceptsExactly, KahnInv, WellNamed, Acyclic
<1>6. RoundInv' /\ LayersInOrder'
  BY <1>1 DEF RoundInv, LayersInOrder
<1>7. QED
  BY <1>4, <1>5, <1>6 DEF IInv

(* The invariant is inductive.                                             *)
LEMMA StepHolds == IInv /\ [Next]_vars => IInv'
<1> SUFFICES ASSUME IInv, [Next]_vars
             PROVE  IInv'
  OBVIOUS
<1>1. CASE Next
  BY <1>1, StartKahnHolds, VisitHolds, VerdictHolds, StartRoundHolds, AddLayerHolds,
     EndRoundHolds DEF Next
<1>2. CASE UNCHANGED vars
  <2>1. /\ UNCHANGED <<pc, listed, graph, degree, ready, visited>>
        /\ UNCHANGED <<pending, remaining, layers>>
    BY <1>2 DEF vars
  <2>2. Nodes' = Nodes /\ Left' = Left /\ Visited' = Visited /\ WellNamed' = WellNamed
        /\ Acyclic' = Acyclic
    BY <2>1 DEF Nodes, Left, Visited, WellNamed, Acyclic
  <2>3. TypeOK' /\ KahnInv' /\ AcceptsExactly'
    BY <2>1, <2>2 DEF IInv, TypeOK, KahnInv, AcceptsExactly
  <2>4. RoundInv' /\ LayersInOrder'
    BY <2>1, <2>2 DEF IInv, RoundInv, LayersInOrder, Before
  <2>5. QED
    BY <2>3, <2>4 DEF IInv
<1>3. QED
  BY <1>1, <1>2

-----------------------------------------------------------------------------
(* The inductive invariant holds in every reachable state.                 *)
THEOREM Invariance == Spec => []IInv
<1>1. Init => IInv
  BY InitHolds
<1>2. QED
  BY <1>1, StepHolds, PTL DEF Spec

(* The validator accepts a plan exactly when its names are unique and      *)
(* resolve and it has no dependency cycle, for any number of subtasks.     *)
THEOREM AcceptsTheorem == Spec => []AcceptsExactly
<1>1. IInv => AcceptsExactly
  BY DEF IInv
<1>2. QED
  BY <1>1, Invariance, PTL

(* Whatever subset of an accepted plan is pending, _topological_order      *)
(* finds a free subtask until none is left: its "dependency cycle" error   *)
(* is never raised.                                                        *)
THEOREM NeverStuckTheorem == Spec => []NeverStuck
<1>1. ASSUME IInv, CycleFound
      PROVE  FALSE
  <2>1. pc = "layering" /\ Left # {} /\ Free = {}
    BY <1>1 DEF CycleFound
  <2>2. Left \in SUBSET Nodes
    BY <1>1 DEF IInv, TypeOK
  <2>3. PICK t \in Left : graph[t] \cap Left = {}
    BY <1>1, <2>1, <2>2 DEF IInv, AcceptsExactly, Acyclic
  <2>4. remaining[t] = {}
    BY <1>1, <2>1, <2>3 DEF IInv, RoundInv
  <2>5. QED
    BY <2>1, <2>4 DEF Free
<1>2. IInv => NeverStuck
  BY <1>1 DEF NeverStuck
<1>3. QED
  BY <1>2, Invariance, PTL

(* The layers of every round put a subtask after all it waits for, once,   *)
(* and lose none.                                                          *)
THEOREM LayersTheorem == Spec => []LayersInOrder
<1>1. IInv => LayersInOrder
  BY DEF IInv
<1>2. QED
  BY <1>1, Invariance, PTL
=============================================================================

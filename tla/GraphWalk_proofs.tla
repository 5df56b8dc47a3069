-------------------------- MODULE GraphWalk_proofs --------------------------
(***************************************************************************)
(* A walk over any graph, finite or not, that finishes has seen exactly    *)
(* what is reachable.                                                      *)
(***************************************************************************)
EXTENDS GraphWalk, TLAPS

(* What the walk knows at every turn: all it met is reachable, it has met  *)
(* Start, and (until it gives up) it has met every successor of what it    *)
(* visited.                                                                *)
Met == seen \cup pending
Frontier ==
    /\ Met \subseteq ReachableIn(graph)
    /\ status # "abandoned" => Start \in Met /\ \A n \in seen : graph[n] \subseteq Met
    /\ status = "done" => pending = {}

(* The state a walk is in is always well formed.                           *)
THEOREM WalkTypeCorrect == Spec => []TypeOK
<1>1. Init => TypeOK
  BY DEF Init, TypeOK
<1>2. TypeOK /\ [Next]_vars => TypeOK'
  <2> SUFFICES ASSUME TypeOK, [Next]_vars PROVE TypeOK'
    OBVIOUS
  <2>1. ASSUME NEW n \in Node, Visit(n) PROVE TypeOK'
    BY <2>1 DEF TypeOK, Visit
  <2>2. CASE Finish
    BY <2>2 DEF TypeOK, Finish
  <2>3. CASE Abandon
    BY <2>3 DEF TypeOK, Abandon
  <2>4. CASE UNCHANGED vars
    BY <2>4 DEF TypeOK, vars
  <2> QED BY <2>1, <2>2, <2>3, <2>4 DEF Next
<1> QED BY <1>1, <1>2, PTL DEF Spec

LEMMA ReachableSuccessors ==
    ASSUME NEW g \in [Node -> SUBSET Node], NEW n \in ReachableIn(g)
    PROVE  g[n] \subseteq ReachableIn(g)
<1> SUFFICES ASSUME NEW m \in g[n], NEW S \in SUBSET Node, ClosedSet(S, g)
             PROVE  m \in S
  BY DEF ReachableIn
<1>1. n \in S
  BY DEF ReachableIn
<1> QED BY <1>1 DEF ClosedSet

LEMMA ClosedSetHoldsReachable ==
    ASSUME NEW g, NEW S \in SUBSET Node, ClosedSet(S, g)
    PROVE  ReachableIn(g) \subseteq S
BY DEF ReachableIn

LEMMA WalkFrontier == Spec => []Frontier
<1> USE DEF Met
<1>1. Init => Frontier
  BY DEF Init, Frontier, ReachableIn, ClosedSet
<1>2. TypeOK /\ Frontier /\ [Next]_vars => Frontier'
  <2> SUFFICES ASSUME TypeOK, Frontier, [Next]_vars PROVE Frontier'
    OBVIOUS
  <2>1. ASSUME NEW n \in Node, Visit(n) PROVE Frontier'
    <3>1. n \in ReachableIn(graph) /\ graph[n] \subseteq ReachableIn(graph)
      BY <2>1, ReachableSuccessors DEF TypeOK, Visit, Frontier
    <3>2. graph' = graph /\ status' = "walking" /\ (seen \cup pending)' = seen \cup pending \cup graph[n]
      BY <2>1 DEF TypeOK, Visit
    <3>3. (seen \cup pending)' \subseteq ReachableIn(graph)
      BY <3>1, <3>2 DEF Frontier
    <3>4. /\ Start \in (seen \cup pending)'
          /\ \A m \in seen' : graph[m] \subseteq (seen \cup pending)'
      BY <2>1, <3>2 DEF Frontier, Visit
    <3> QED BY <3>2, <3>3, <3>4 DEF Frontier
  <2>2. CASE Finish
    BY <2>2 DEF Frontier, Finish
  <2>3. CASE Abandon
    BY <2>3 DEF Frontier, Abandon
  <2>4. CASE UNCHANGED vars
    BY <2>4 DEF Frontier, vars
  <2> QED BY <2>1, <2>2, <2>3, <2>4 DEF Next
<1> QED BY <1>1, <1>2, WalkTypeCorrect, PTL DEF Spec

(* A finished walk saw exactly what is reachable.                          *)
THEOREM WalkSeesReachable == Spec => []DoneSawReachable
<1> USE DEF Met
<1>1. TypeOK /\ Frontier => DoneSawReachable
  <2> SUFFICES ASSUME TypeOK, Frontier, status = "done" PROVE seen = ReachableIn(graph)
    BY DEF DoneSawReachable
  <2>1. pending = {} /\ ClosedSet(seen, graph)
    BY DEF Frontier, ClosedSet
  <2>2. ReachableIn(graph) \subseteq seen
    BY <2>1, ClosedSetHoldsReachable DEF TypeOK
  <2> QED BY <2>1, <2>2 DEF Frontier
<1> QED BY <1>1, WalkFrontier, WalkTypeCorrect, PTL
=============================================================================

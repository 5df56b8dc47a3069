----------------------------- MODULE GraphWalk -----------------------------
(***************************************************************************)
(* What every closure walk in this package promises, whatever order it     *)
(* visits in: starting from one node, follow edges until nothing reached   *)
(* is left unvisited, or give up.  Close walks bundle directories this     *)
(* way; closeTerraform walks module directories this way while it copies.  *)
(***************************************************************************)
CONSTANTS Node, Start

VARIABLES
    graph,    \* Node -> its successors; fixed for one walk
    seen,     \* nodes visited
    pending,  \* nodes reached and not visited
    status    \* "walking", "done", or "abandoned"

vars == <<graph, seen, pending, status>>

TypeOK ==
    /\ graph \in [Node -> SUBSET Node]
    /\ seen \subseteq Node
    /\ pending \subseteq Node
    /\ status \in {"walking", "done", "abandoned"}

(* A set of nodes that contains Start and every successor of a member.     *)
ClosedSet(S, g) ==
    /\ Start \in S
    /\ \A n \in S : g[n] \subseteq S

(* The nodes reachable from Start: those every closed set contains.        *)
ReachableIn(g) ==
    {n \in Node : \A S \in SUBSET Node : ClosedSet(S, g) => n \in S}

Init ==
    /\ Start \in Node
    /\ graph \in [Node -> SUBSET Node]
    /\ seen = {}
    /\ pending = {Start}
    /\ status = "walking"

Visit(n) ==
    /\ status = "walking"
    /\ n \in pending
    /\ seen' = seen \cup {n}
    /\ pending' = (pending \cup graph[n]) \ (seen \cup {n})
    /\ UNCHANGED <<graph, status>>

Finish ==
    /\ status = "walking"
    /\ pending = {}
    /\ status' = "done"
    /\ UNCHANGED <<graph, seen, pending>>

(* A walk may give up at any node, visited or not.                         *)
Abandon ==
    /\ status = "walking"
    /\ \E n \in pending : seen' \in {seen, seen \cup {n}} /\ pending' = pending \ {n}
    /\ status' = "abandoned"
    /\ UNCHANGED graph

Next == (\E n \in Node : Visit(n)) \/ Finish \/ Abandon

Spec == Init /\ [][Next]_vars

(* A walk that finished visited exactly what can be reached: nothing        *)
(* reachable was missed, and nothing was visited that no chain of calls     *)
(* leads to.                                                                *)
DoneSawReachable == status = "done" => seen = ReachableIn(graph)
=============================================================================

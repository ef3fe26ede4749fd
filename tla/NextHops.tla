------------------------------- MODULE NextHops -------------------------------
(***************************************************************************)
(* DockerManager._compute_next_hops: a breadth-first search that keeps, for *)
(* each node reached, the neighbour of the source it was reached through,   *)
(* and the reference definition of distance it is compared with.            *)
(*                                                                         *)
(* adj[n] is the set of n's neighbours. A Python set of ints is iterated in *)
(* an order that depends on its table; `order` is a sequence of all nodes   *)
(* and every set is taken in that order.                                    *)
(***************************************************************************)
EXTENDS Naturals, FiniteSets, Sequences

NoGateway == 0

\* SelectSeq, written out so that proofs can expand it.
InOrder(order, S) ==
  LET kept[k \in 0..Len(order)] ==
        IF k = 0 THEN <<>>
        ELSE IF order[k] \in S THEN Append(kept[k - 1], order[k]) ELSE kept[k - 1]
  IN kept[Len(order)]

\* The search's state: nodes that wait, and the first hop of those visited.
Started(src, adj, order) ==
  [queue |-> InOrder(order, adj[src]),
   hop   |-> [n \in DOMAIN adj |-> IF n \in adj[src] THEN n ELSE NoGateway]]

\* Mutant: the hop recorded is the node before, not the first one.
ExpandedToParent(src, adj, order, s) ==
  LET current == Head(s.queue)
      new == {nb \in adj[current] : nb # src /\ s.hop[nb] = NoGateway}
  IN [queue |-> Tail(s.queue) \o InOrder(order, new),
      hop   |-> [n \in DOMAIN adj |-> IF n \in new THEN current ELSE s.hop[n]]]

\* popleft(), and the unvisited neighbours behind the others.
Expanded(src, adj, order, s) ==
  LET current == Head(s.queue)
      new == {nb \in adj[current] : nb # src /\ s.hop[nb] = NoGateway}
  IN [queue |-> Tail(s.queue) \o InOrder(order, new),
      hop   |-> [n \in DOMAIN adj |-> IF n \in new THEN s.hop[current] ELSE s.hop[n]]]

\* Each node is queued at most once, so as many rounds as nodes are enough.
NextHop(src, adj, order) ==
  LET after[k \in 0..Cardinality(DOMAIN adj)] ==
        IF k = 0 THEN Started(src, adj, order)
        ELSE IF after[k - 1].queue = <<>> THEN after[k - 1]
             ELSE Expanded(src, adj, order, after[k - 1])
  IN after[Cardinality(DOMAIN adj)].hop

-----------------------------------------------------------------------------
(* Reference *)

\* The nodes at most k links away.
Ball(src, adj, k) ==
  LET within[i \in 0..k] ==
        IF i = 0 THEN {src} ELSE within[i - 1] \union UNION {adj[n] : n \in within[i - 1]}
  IN within[k]

Connected(m, n, adj) == n \in Ball(m, adj, Cardinality(DOMAIN adj))

Distance(m, n, adj) ==
  CHOOSE k \in 0..Cardinality(DOMAIN adj) :
    n \in Ball(m, adj, k) /\ \A j \in 0..(k - 1) : n \notin Ball(m, adj, j)
=============================================================================

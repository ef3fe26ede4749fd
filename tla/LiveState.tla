------------------------------ MODULE LiveState ------------------------------
(***************************************************************************)
(* What the operations on a running network work with: the manager's       *)
(* tables, the exit routes in the ION of each node, the tc discipline on    *)
(* each interface, and the documents the manager writes.                    *)
(*                                                                         *)
(* Of the lifecycle operations it has the steps that tables, exits and tc   *)
(* can tell: reservation, commit and rollback, the loss of interfaces and   *)
(* containers, and the removals from the tables. LinkOps and NodeOps have   *)
(* every call of theirs.                                                    *)
(***************************************************************************)
EXTENDS NextHops, FiniteSetsExt

CONSTANTS
  Node, Pair,   \* node ids, and links <<a, b>> with a <= b
  CL,           \* convergence layer tokens; "tcp" is one that every node has
  Netem,        \* netem configurations that clients ask for
  HandExit,     \* exits that clients add and remove by hand
  Proc,         \* worker threads
  Scenes,       \* the starts: nodes, links now, links when set_all_exits was last called,
                \* which operations each thread may be asked for, and how many in all
  Orders,       \* iteration orders of a set of nodes
  MaxNodes,     \* MAX_NODES
  MaxOps,       \* bound: operations started in a behaviour, at most
  MaxFaults,    \* bound: failures of ION or Docker in a behaviour
  FaultAt       \* the steps (values of pc) where one may happen

ASSUME LiveNodeAssumption == IsFiniteSet(Node) /\ Node \subseteq Nat \ {NoGateway}
ASSUME LivePairAssumption == Pair \subseteq {pr \in Node \X Node : pr[1] <= pr[2]}
ASSUME LiveClAssumption   == "tcp" \in CL
ASSUME NetemAssumption    == Netem \subseteq [loss : 0..100, delay : Nat, jitter : Nat]
ASSUME HandExitAssumption == HandExit \subseteq Node \X Node \X Node
ASSUME OrderAssumption    ==
  \A o \in Orders : /\ o \in Seq(Node) /\ {o[i] : i \in DOMAIN o} = Node
                     /\ \A i, j \in DOMAIN o : o[i] = o[j] => i = j
ASSUME BoundAssumption    == MaxNodes \in Nat /\ MaxOps \in Nat /\ MaxFaults \in Nat

VARIABLES
  nodes,     \* self.nodes: "absent", "creating" (placeholder), "named", or "exited": named,
             \* but its container does not run or is gone
  links,     \* self.links: the Link object of each pair, or NoLink
  exits,     \* the exits in each node's ION: <<first, last, gateway>>
  tc,        \* the qdisc on each end of each link's network, or Cut
  document,  \* the last file, bundle or node configuration handed out
  may,       \* what each thread may be asked for in this behaviour
  pc, loc,   \* where each thread is, and its local variables
  started, faults,
  aims,      \* history: what the reconciliations of a node's exits aimed at
  touched    \* history: threads whose call something interfered with

tables == <<nodes, links>>
vars == <<nodes, links, exits, tc, document, may, pc, loc, started, faults, aims, touched>>

Side == {"a", "b"}
Other(s) == IF s = "a" THEN "b" ELSE "a"
At(pr, s) == IF s = "a" THEN pr[1] ELSE pr[2]
Ends(pr) == {pr[1], pr[2]}
Index == 0..Cardinality(Pair)

Exit == Node \X Node \X Node
Key(e) == <<e[1], e[2]>>

NoNetem == [loss |-> 0, delay |-> 0, jitter |-> 0]
NoTc == [s \in Side |-> NoNetem]

\* The end has no interface. No netem loses more than everything.
Cut == [loss |-> 101, delay |-> 0, jitter |-> 0]

\* A Link object carries the call that made it: threads keep references.
NoLink == [made |-> 0, idx |-> 0, cl |-> "tcp", st |-> "down", netem |-> NoNetem]
Present(n) == nodes[n] # "absent"
There == {n \in Node : Present(n)}
LinkNames == {pr \in Pair : links[pr].made # 0}
Dangling == {pr \in LinkNames : ~(Ends(pr) \subseteq There)}
Unwired == {pr \in LinkNames : \E s \in Side : tc[pr][s] = Cut}

\* _neighbors_locked() and the adjacency of _reconcile_node_exits().
Neighbors(n) == {m \in Node : \E pr \in LinkNames : pr = <<m, n>> \/ pr = <<n, m>>}
Adjacent == [n \in Node |-> Neighbors(n)]

\* The subnet index the pool issues: the least free one.
FreeIndex == Min(Index \ {links[pr].idx : pr \in LinkNames})

-----------------------------------------------------------------------------
(* Threads *)

NoLocal == [n |-> 0, pr |-> <<>>, made |-> 0, idx |-> 0, side |-> "a", netem |-> NoNetem,
            todo |-> {}, rest |-> {}, known |-> {}, want |-> {}, del |-> {}, add |-> {},
            bad |-> FALSE, doc |-> <<>>]

Goto(p, label, l) == /\ pc'  = [pc EXCEPT ![p] = label]
                     /\ loc' = [loc EXCEPT ![p] = l]
Finish(p) == Goto(p, "idle", NoLocal)

Begin(p, o) == /\ pc[p] = "idle"
               /\ o \in may[p]
               /\ started < MaxOps
               /\ started' = started + 1
               /\ UNCHANGED may

NoFault == UNCHANGED faults

\* A docker exec of step `label` fails: non-zero exit, or a timeout that raises.
Fails(label) == /\ label \in FaultAt
                /\ faults < MaxFaults
                /\ faults' = faults + 1

\* `docker exec` reaches node n by a name that was read when it was `known`.
Reached(p, n) == n \in loc[p].known /\ nodes[n] = "named"
Named == {n \in Node : nodes[n] \in {"named", "exited"}}
Running == {n \in Node : nodes[n] = "named"}

-----------------------------------------------------------------------------
(* The history of a node's exits: the sets that its reconciliations aimed   *)
(* at since it was last left alone, and whether anything else interfered.    *)

Working(n) == {p \in Proc : pc[p] \in {"rt_list", "rt_del", "rt_add", "rt_verify"} /\ loc[p].n = n}

NoAims == [sets |-> {}, pure |-> TRUE]
Aimed(n, want) ==
  [aims EXCEPT ![n] = [sets |-> {want} \union (IF Working(n) = {} THEN {} ELSE @.sets),
                       pure |-> Working(n) = {} \/ @.pure]]
Disturbed(ns) == [n \in Node |-> IF n \in ns THEN [aims[n] EXCEPT !.pure = FALSE] ELSE aims[n]]

-----------------------------------------------------------------------------
(* The lifecycle operations, as far as tables, exits and tc can tell       *)

liveOnly == <<exits, tc, document, faults>>

\* create_node: reservation under an id that is named, or one more than the
\* greatest; commit; rollback.
NodeReserved(p, n) ==
  /\ Begin(p, "create_node")
  /\ ~Present(n) /\ Cardinality(There) < MaxNodes
  /\ nodes' = [nodes EXCEPT ![n] = "creating"]
  /\ Goto(p, "made_node", [NoLocal EXCEPT !.n = n])
  /\ UNCHANGED <<links, liveOnly, aims>>

\* The sides of the links at node n lose their interfaces.
Unplugged(n) ==
  [pr \in Pair |-> [s \in Side |-> IF pr \in LinkNames /\ At(pr, s) = n THEN Cut ELSE tc[pr][s]]]

\* The container that is committed is a new one, and may have exited by then.
NodeMade(p) ==
  LET n == loc[p].n
  IN /\ pc[p] = "made_node"
     /\ \/ (\E st \in {"named", "exited"} : nodes' = [nodes EXCEPT ![n] = st]) /\ NoFault
        \/ Fails("made_node") /\ nodes' = [nodes EXCEPT ![n] = "absent"]
     /\ exits' = [exits EXCEPT ![n] = {}]
     /\ tc' = Unplugged(n)
     /\ aims' = Disturbed({n})
     /\ Finish(p)
     /\ UNCHANGED <<links, document, may, started>>

\* The container of node n stops or is removed: its ION and its interfaces go.
Stopped(n) ==
  /\ nodes' = [nodes EXCEPT ![n] = IF @ = "named" THEN "exited" ELSE @]
  /\ exits' = [exits EXCEPT ![n] = {}]
  /\ tc' = Unplugged(n)
  /\ aims' = Disturbed({n})

ContainerExits(n) ==
  /\ nodes[n] = "named" /\ Fails("exit")
  /\ Stopped(n)
  /\ UNCHANGED <<links, document, may, pc, loc, started>>

\* create_link: reservation with the status DOWN; commit as UP, or as ERROR
\* when ION of an end was not ready; rollback, which takes the network away.
LinkReserved(p, pr, cl) ==
  /\ Begin(p, "create_link")
  /\ pr \notin LinkNames /\ Ends(pr) \subseteq There
  /\ links' = [links EXCEPT ![pr] = [NoLink EXCEPT !.made = started + 2, !.idx = FreeIndex,
                                                   !.cl = cl]]
  /\ Goto(p, "made_link", [NoLocal EXCEPT !.pr = pr, !.known = Named])
  /\ UNCHANGED <<nodes, liveOnly, aims>>

\* Links that are reserved and not yet committed.
Pending == {loc[q].pr : q \in {r \in Proc : pc[r] = "made_link"}}

\* The sides that have no interface when link pr is committed: those of containers
\* that do not run, and what a deletion that came late took away.
CutSides(pr) ==
  LET down == {s \in Side : At(pr, s) \notin Running}
  IN {C \in SUBSET Side : down \subseteq C /\ C \subseteq down \union {s \in Side : tc[pr][s] = Cut}}

\* The commit is a KeyError when the link is not in the table any more.
LinkMade(p) ==
  LET pr == loc[p].pr
      Plug(C) == [tc EXCEPT ![pr] = [s \in Side |-> IF s \in C THEN Cut
                                                    ELSE IF @[s] = Cut THEN NoNetem ELSE @[s]]]
      Commit(st) == /\ pr \in LinkNames
                    /\ links' = [links EXCEPT ![pr].st = st]
                    /\ \E C \in CutSides(pr) : tc' = Plug(C)
      Rollback == links' = [links EXCEPT ![pr] = NoLink] /\ tc' = [tc EXCEPT ![pr] = NoTc]
  IN /\ pc[p] = "made_link"
     /\ \/ Ends(pr) \subseteq loc[p].known /\ Commit("up") /\ NoFault
        \/ /\ Ends(pr) \subseteq loc[p].known /\ ~(Ends(pr) \subseteq Running)
           /\ Commit("error") /\ NoFault
        \/ ~(Ends(pr) \subseteq loc[p].known \intersect Running) /\ Rollback /\ NoFault
        \/ pr \notin LinkNames /\ Rollback /\ NoFault
        \/ Fails("made_link") /\ (Commit("error") \/ Rollback)
     /\ Finish(p)
     /\ UNCHANGED <<nodes, exits, document, may, started, aims>>

-----------------------------------------------------------------------------
(* delete_link and delete_node                                              *)

\* The locked lookup of delete_link, which the removal of the plans follows.
DeleteLink(p, pr) ==
  /\ Begin(p, "delete_link")
  /\ pr \in LinkNames
  /\ Goto(p, "gone_net", [NoLocal EXCEPT !.pr = pr, !.made = links[pr].made])
  /\ UNCHANGED <<tables, liveOnly, aims>>

\* The locked lookup of delete_node. `rest`: the links it has yet to delete.
DeleteNode(p, n) ==
  /\ Begin(p, "delete_node")
  /\ Present(n)
  /\ Goto(p, "gone_next", [NoLocal EXCEPT !.n = n, !.known = Named,
                                          !.rest = {pr \in LinkNames : n \in Ends(pr)}])
  /\ UNCHANGED <<tables, liveOnly, aims>>

\* delete_node looks up the next link, if that is still there.
GoneNext(p) ==
  LET l == loc[p]
  IN /\ pc[p] = "gone_next"
     /\ \E pr \in l.rest :
          \/ pr \in LinkNames /\ Goto(p, "gone_net", [l EXCEPT !.rest = @ \ {pr}, !.pr = pr,
                                                               !.made = links[pr].made])
          \/ pr \notin LinkNames /\ Goto(p, "gone_next", [l EXCEPT !.rest = @ \ {pr}])
     /\ UNCHANGED <<tables, liveOnly, may, started, aims>>

\* delete_link is over, with or without an exception.
LinkDone(p) ==
  IF loc[p].n = 0 THEN Finish(p) ELSE Goto(p, "gone_next", [loc[p] EXCEPT !.pr = <<>>])

\* The sides C of link pr lose their interfaces.
CutEnds(pr, C) == [tc EXCEPT ![pr] = [s \in Side |-> IF s \in C THEN Cut ELSE @[s]]]

\* Both ends are disconnected, and the network is removed. It may be gone; the
\* name is still empty in the object of a link that was never committed; and the
\* failure of either call leaves the link in the table, with the ends it has left.
NetGone(p) ==
  LET pr == loc[p].pr
      mine == links[pr].made = loc[p].made
  IN /\ pc[p] = "gone_net"
     /\ \/ /\ pr \in LinkNames /\ ~(mine /\ pr \in Pending)
           /\ tc' = CutEnds(pr, Side) /\ Goto(p, "gone_pop", loc[p]) /\ NoFault
        \/ /\ pr \notin LinkNames \/ (~mine /\ pr \in Pending)
           /\ Goto(p, "gone_pop", loc[p]) /\ NoFault /\ UNCHANGED tc
        \/ /\ ~mine \/ pr \in Pending
           /\ LinkDone(p) /\ NoFault /\ UNCHANGED tc
        \/ /\ Fails("gone_net") /\ LinkDone(p)
           /\ \E C \in SUBSET Side : (pr \in LinkNames \/ C = {}) /\ tc' = CutEnds(pr, C)
     /\ UNCHANGED <<tables, exits, document, may, started, aims>>

\* The locked removal, by name.
LinkPopped(p) ==
  LET pr == loc[p].pr
  IN /\ pc[p] = "gone_pop"
     /\ links' = [links EXCEPT ![pr] = NoLink]
     /\ tc' = [tc EXCEPT ![pr] = NoTc]
     /\ LinkDone(p)
     /\ UNCHANGED <<nodes, exits, document, may, started, faults, aims>>

\* The container is removed, by the name in the object of the lookup; that of a
\* placeholder is empty, and the call raises.
ContainerGone(p) ==
  LET n == loc[p].n
      unharmed == UNCHANGED <<nodes, exits, tc, aims>>
  IN /\ pc[p] = "gone_next" /\ loc[p].rest = {}
     /\ \/ n \in loc[p].known /\ Stopped(n) /\ Goto(p, "gone_node", loc[p]) /\ NoFault
        \/ n \notin loc[p].known /\ unharmed /\ Finish(p) /\ NoFault
        \/ n \in loc[p].known /\ (Stopped(n) \/ unharmed) /\ Finish(p) /\ Fails("gone_ctr")
     /\ UNCHANGED <<links, document, may, started>>

\* The locked removal.
NodeDropped(p) ==
  LET n == loc[p].n
  IN /\ pc[p] = "gone_node"
     /\ nodes' = [nodes EXCEPT ![n] = "absent"]
     /\ exits' = [exits EXCEPT ![n] = {}]
     /\ aims' = Disturbed({n})
     /\ Finish(p)
     /\ UNCHANGED <<links, tc, document, may, started, faults>>

LifeCall(p) ==
  \/ \E n \in Node : NodeReserved(p, n) \/ DeleteNode(p, n)
  \/ \E pr \in Pair : DeleteLink(p, pr) \/ (\E cl \in CL : LinkReserved(p, pr, cl))

LifeStep(p) ==
  \/ NodeMade(p) \/ LinkMade(p)
  \/ GoneNext(p) \/ NetGone(p) \/ LinkPopped(p) \/ ContainerGone(p) \/ NodeDropped(p)
=============================================================================

----------------------------- MODULE ExitRoutes -----------------------------
(***************************************************************************)
(* The exit routes: DockerManager.set_all_exits, set_node_exits,            *)
(* clear_all_exits, add_exit, delete_exit, and _reconcile_node_exits below  *)
(* them. The topology is read under the lock; every `l exit`, `a exit` and  *)
(* `d exit` is a docker exec of its own.                                    *)
(***************************************************************************)
EXTENDS LiveState

exitOnly == <<tables, tc, document, may, started>>

\* Mutant: destinations the search did not reach are wanted, too.
WantedEverywhere(n, there, adj, order) ==
  {<<d, d, NextHop(n, adj, order)[d]>> : d \in there \ (adj[n] \union {n})}

\* `desired`: an exit through its first hop for each destination the search
\* reached, but none for neighbours, which have a plan.
Wanted(n, there, adj, order) ==
  LET hop == NextHop(n, adj, order)
  IN {<<d, d, hop[d]>> : d \in {m \in there \ (adj[n] \union {n}) : hop[m] # NoGateway}}

\* `a exit`: a duplicate key is refused, which counts as success; `d exit`
\* removes the key, whatever its gateway.
WithExit(S, e) == IF \E x \in S : Key(x) = Key(e) THEN S ELSE S \union {e}
WithoutKey(S, e) == {x \in S : Key(x) # Key(e)}

-----------------------------------------------------------------------------
(* Reconciliation *)

SetAllExits(p) ==
  /\ Begin(p, "set_all")
  /\ Goto(p, "rt_next", [NoLocal EXCEPT !.todo = There])
  /\ UNCHANGED <<tables, liveOnly, aims>>

SetNodeExits(p, n) ==
  /\ Begin(p, "set_node")
  /\ Present(n)
  /\ Goto(p, "rt_next", [NoLocal EXCEPT !.todo = {n}])
  /\ UNCHANGED <<tables, liveOnly, aims>>

\* The locked snapshot of the next node, and the search on it. A node that is
\* gone is an error; a link to a node that is gone, a KeyError that ends the
\* call; a node that is alone is left as it is. Nodes come in ascending order.
RtNext(p) ==
  LET n == Min(loc[p].todo)
      rest == [loc[p] EXCEPT !.todo = @ \ {n}, !.n = n, !.bad = FALSE]
  IN /\ pc[p] = "rt_next"
     /\ \/ loc[p].todo = {} /\ Finish(p) /\ UNCHANGED aims
        \/ loc[p].todo # {} /\ Present(n) /\ Dangling # {} /\ Finish(p) /\ UNCHANGED aims
        \/ /\ loc[p].todo # {}
           /\ ~Present(n) \/ (Dangling = {} /\ Cardinality(There) < 2)
           /\ Goto(p, "rt_next", rest) /\ UNCHANGED aims
        \/ /\ loc[p].todo # {} /\ Present(n) /\ Dangling = {} /\ Cardinality(There) >= 2
           /\ \E order \in Orders :
                LET want == Wanted(n, There, Adjacent, order)
                IN /\ aims' = Aimed(n, want)
                   /\ Goto(p, "rt_list", [rest EXCEPT !.known = Named, !.want = want])
     /\ UNCHANGED <<exits, exitOnly, faults>>

\* Mutant: an exit with the wrong gateway is not stale.
StaleByKey(live, want) == {e \in live : \A w \in want : Key(w) # Key(e)}

\* Exits to delete: stale ones, and those with the wrong gateway.
Stale(live, want) == live \ want

\* The listing; a failed one counts as empty, a timeout ends the call.
RtList(p) ==
  LET l == loc[p]
      Diff(live) == Goto(p, "rt_del", [l EXCEPT !.del = Stale(live, l.want),
                                                !.add = l.want \ live])
  IN /\ pc[p] = "rt_list"
     /\ \/ Reached(p, l.n) /\ Diff(exits[l.n]) /\ NoFault /\ UNCHANGED aims
        \/ ~Reached(p, l.n) /\ Diff({}) /\ NoFault /\ aims' = Disturbed({l.n})
        \/ Fails("rt_list") /\ (Diff({}) \/ Finish(p)) /\ aims' = Disturbed({l.n})
     /\ UNCHANGED <<exits, exitOnly>>

\* One `d exit` or `a exit` of the diff: it takes effect, or is refused and
\* noted as an error, or times out and ends the call.
Apply(p, label, after, l) ==
  \/ /\ Reached(p, l.n) /\ NoFault /\ UNCHANGED aims
     /\ exits' = [exits EXCEPT ![l.n] = after]
     /\ Goto(p, label, l)
  \/ /\ ~Reached(p, l.n) /\ NoFault /\ UNCHANGED exits
     /\ aims' = Disturbed({l.n})
     /\ Goto(p, label, [l EXCEPT !.bad = TRUE])
  \/ /\ Fails("rt_apply") /\ UNCHANGED exits
     /\ aims' = Disturbed({l.n})
     /\ Goto(p, label, [l EXCEPT !.bad = TRUE]) \/ Finish(p)

RtDelete(p) ==
  LET l == loc[p]
  IN /\ pc[p] = "rt_del"
     /\ \/ \E e \in l.del :
             Apply(p, "rt_del", WithoutKey(exits[l.n], e), [l EXCEPT !.del = @ \ {e}])
        \/ l.del = {} /\ Goto(p, "rt_add", l) /\ NoFault /\ UNCHANGED <<exits, aims>>
     /\ UNCHANGED exitOnly

RtAdd(p) ==
  LET l == loc[p]
  IN /\ pc[p] = "rt_add"
     /\ \/ \E e \in l.add :
             Apply(p, "rt_add", WithExit(exits[l.n], e), [l EXCEPT !.add = @ \ {e}])
        \/ l.add = {} /\ Goto(p, "rt_verify", l) /\ NoFault /\ UNCHANGED <<exits, aims>>
     /\ UNCHANGED exitOnly

\* Whether the call returns without an error for this node.
Converged(l, listed) == ~l.bad /\ listed = l.want

\* The verification lists again; a failed listing counts as empty.
RtVerify(p) ==
  LET l == loc[p]
      Report(listed) == Goto(p, "rt_next", [l EXCEPT !.bad = ~Converged(l, listed)])
  IN /\ pc[p] = "rt_verify"
     /\ \/ Reached(p, l.n) /\ Report(exits[l.n]) /\ NoFault /\ UNCHANGED aims
        \/ ~Reached(p, l.n) /\ Report({}) /\ NoFault /\ aims' = Disturbed({l.n})
        \/ Fails("rt_verify") /\ (Report({}) \/ Finish(p)) /\ UNCHANGED aims
     /\ UNCHANGED <<exits, exitOnly>>

-----------------------------------------------------------------------------
(* Exits by hand *)

\* add_exit: the gateway must be a neighbour at the lookup.
AddExit(p, n, e) ==
  /\ Begin(p, "add_exit")
  /\ Present(n) /\ e[3] \in Neighbors(n)
  /\ Goto(p, "hand_add", [NoLocal EXCEPT !.n = n, !.known = Named, !.add = {e}])
  /\ UNCHANGED <<tables, liveOnly, aims>>

\* apply_raw_exit, for the lines of a file that was exported.
ApplyRawExit(p, n, e) ==
  /\ Begin(p, "raw_exit")
  /\ Present(n)
  /\ Goto(p, "hand_add", [NoLocal EXCEPT !.n = n, !.known = Named, !.add = {e}])
  /\ UNCHANGED <<tables, liveOnly, aims>>

DeleteExit(p, n, e) ==
  /\ Begin(p, "delete_exit")
  /\ Present(n)
  /\ Goto(p, "hand_del", [NoLocal EXCEPT !.n = n, !.known = Named, !.del = {e}])
  /\ UNCHANGED <<tables, liveOnly, aims>>

\* clear_all_exits: the Node objects of one snapshot, one after the other.
ClearAllExits(p) ==
  /\ Begin(p, "clear_all")
  /\ Goto(p, "clear_next", [NoLocal EXCEPT !.todo = There, !.known = Named])
  /\ UNCHANGED <<tables, liveOnly, aims>>

\* A command whose refusal nobody looks at; a timeout ends the call.
Try(p, after, label, l) ==
  LET n == loc[p].n
  IN /\ \/ Reached(p, n) /\ exits' = [exits EXCEPT ![n] = after] /\ NoFault /\ Goto(p, label, l)
        \/ ~Reached(p, n) /\ UNCHANGED exits /\ NoFault /\ Goto(p, label, l)
        \/ Fails("hand") /\ UNCHANGED exits /\ (Goto(p, label, l) \/ Finish(p))
     /\ aims' = Disturbed({n})

HandAdd(p) ==
  /\ pc[p] = "hand_add"
  /\ \E e \in loc[p].add : Try(p, WithExit(exits[loc[p].n], e), "idle", NoLocal)
  /\ UNCHANGED exitOnly

HandDelete(p) ==
  /\ pc[p] = "hand_del"
  /\ \E e \in loc[p].del : Try(p, WithoutKey(exits[loc[p].n], e), "idle", NoLocal)
  /\ UNCHANGED exitOnly

\* _clear_node_exits: the listing of the next node ...
ClearNext(p) ==
  LET n == Min(loc[p].todo)
      Clear(live) == Goto(p, "clear_del", [loc[p] EXCEPT !.todo = @ \ {n}, !.n = n, !.del = live])
  IN /\ pc[p] = "clear_next"
     /\ \/ loc[p].todo = {} /\ Finish(p) /\ NoFault
        \/ loc[p].todo # {} /\ Clear(IF Reached(p, n) THEN exits[n] ELSE {}) /\ NoFault
        \/ loc[p].todo # {} /\ Fails("hand") /\ (Clear({}) \/ Finish(p))
     /\ UNCHANGED <<exits, aims, exitOnly>>

\* ... and a `d exit` for each line.
ClearDelete(p) ==
  LET l == loc[p]
  IN /\ pc[p] = "clear_del"
     /\ \/ \E e \in l.del :
             Try(p, WithoutKey(exits[l.n], e), "clear_del", [l EXCEPT !.del = @ \ {e}])
        \/ l.del = {} /\ Goto(p, "clear_next", l) /\ NoFault /\ UNCHANGED <<exits, aims>>
     /\ UNCHANGED exitOnly

-----------------------------------------------------------------------------

ExitCall(p) ==
  \/ SetAllExits(p) \/ ClearAllExits(p)
  \/ \E n \in Node :
       \/ SetNodeExits(p, n)
       \/ \E e \in HandExit : AddExit(p, n, e) \/ DeleteExit(p, n, e)

ExitStep(p) ==
  \/ RtNext(p) \/ RtList(p) \/ RtDelete(p) \/ RtAdd(p) \/ RtVerify(p)
  \/ HandAdd(p) \/ HandDelete(p) \/ ClearNext(p) \/ ClearDelete(p)
=============================================================================

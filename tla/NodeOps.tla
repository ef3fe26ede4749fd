------------------------------- MODULE NodeOps -------------------------------
(***************************************************************************)
(* create_node and delete_node of DockerManager, step by step as LinkOps.  *)
(***************************************************************************)
EXTENDS LinkOps

nodeOpUnchanged == <<links, obj, pool>>

\* container.remove(force=True): its endpoints and its ION state go with it.
RemoveContainer(n) == /\ ctr' = [ctr EXCEPT ![n] = NoContainer]
                      /\ net' = DetachedEverywhere(n)

-----------------------------------------------------------------------------
(* create_node. The client names the id, or leaves it to _next_node_id():   *)
(* one more than the greatest, which is one of the ids it could name.       *)

\* The locked reservation of the id, with a placeholder.
CreateNode(p, n) ==
  /\ Begin(p, "create_node")
  /\ ~Present(n)
  /\ ~NodeCapReached
  /\ nodes' = [nodes EXCEPT ![n] = [ref |-> [op |-> NewId, named |-> FALSE],
                                    st |-> "creating", ips |-> {}]]
  /\ Goto(p, "cn_stale", [NoLocal EXCEPT !.op = NewId, !.call = "create_node", !.n = n])
  /\ UNCHANGED <<cfgDir, nodeOpUnchanged, dockerVars, disk, faults>>

CnRaise(p) == Goto(p, "cn_undo", loc[p])

\* A container of the same name, left by a prior run, is removed.
CnStale(p) ==
  LET n == loc[p].n
      there == ctr[n].cid # NoId
  IN /\ pc[p] = "cn_stale"
     /\ \/ there /\ RemoveContainer(n) /\ Goto(p, "cn_dir", loc[p]) /\ NoFault
        \/ ~there /\ Goto(p, "cn_dir", loc[p]) /\ NoFault /\ UNCHANGED dockerVars
        \/ Fails("cn_stale") /\ CnRaise(p) /\ UNCHANGED dockerVars
        \/ there /\ ReplyLost("cn_stale") /\ RemoveContainer(n) /\ CnRaise(p)
     /\ UNCHANGED <<tableVars, disk, started>>

\* _sweep_stale_config_dirs(), then mkdtemp().
DirsAfterMake(n, id) == {d \in disk : d[1] # n} \union {<<n, id>>}

CnDir(p) ==
  LET l == loc[p]
  IN /\ pc[p] = "cn_dir"
     /\ \/ /\ disk' = DirsAfterMake(l.n, l.op)
           /\ Goto(p, "cn_run", [l EXCEPT !.dir = TRUE]) /\ NoFault
        \/ Fails("cn_dir") /\ CnRaise(p) /\ disk' = {d \in disk : d[1] # l.n}
     /\ UNCHANGED <<tableVars, dockerVars, started>>

\* containers.run(): the name must be free.
CnRun(p) ==
  LET l    == loc[p]
      free == ctr[l.n].cid = NoId
      run  == [ctr EXCEPT ![l.n] = FreshContainer(l.op)]
  IN /\ pc[p] = "cn_run"
     /\ \/ /\ free /\ ctr' = run /\ NoFault
           /\ Goto(p, "cn_check", [l EXCEPT !.cid["a"] = l.op])
        \/ ~free /\ CnRaise(p) /\ NoFault /\ UNCHANGED ctr
        \/ Fails("cn_run") /\ CnRaise(p) /\ UNCHANGED ctr
        \/ free /\ ReplyLost("cn_run") /\ ctr' = run /\ CnRaise(p)
     /\ UNCHANGED <<tableVars, net, disk, started>>

\* Mutant: the status is Docker's word for it.
StatusVerbatim(n) == IF ctr[n].up THEN "running" ELSE "exited"

StatusOfContainer(n) == IF ctr[n].up THEN "running" ELSE "error"

\* _wait_for_ion_ready(), reload() of the container by id, bpsink: what they
\* say makes the status; a command that times out raises.
CnCheck(p) ==
  LET l == loc[p]
      Commit(st) == Goto(p, "cn_commit", [l EXCEPT !.st = st])
      there == ctr[l.n].cid = l.cid["a"]
  IN /\ pc[p] = "cn_check"
     /\ \/ there /\ Commit(StatusOfContainer(l.n)) /\ NoFault
        \/ ~there /\ CnRaise(p) /\ NoFault
        \/ there /\ Fails("cn_check") /\ (Commit("error") \/ CnRaise(p))
     /\ UNCHANGED <<tableVars, dockerVars, disk, started>>

\* The locked commit: a second Node object takes the placeholder's place.
CnCommit(p) ==
  LET l == loc[p]
  IN /\ pc[p] = "cn_commit"
     /\ cfgDir' = [cfgDir EXCEPT ![l.n] = l.op]
     /\ nodes' = [nodes EXCEPT ![l.n] = [ref |-> [op |-> l.op, named |-> TRUE],
                                         st |-> l.st, ips |-> {}]]
     /\ Finish(p)
     /\ UNCHANGED <<nodeOpUnchanged, dockerVars, disk, started, faults>>

\* Mutant: the rollback relies on the object that run() returned.
LeftoverOfRun(l) == ctr[l.n].cid = l.cid["a"] /\ l.cid["a"] # NoId

\* The container that the rollback finds, by its object or by its name.
Leftover(l) == ctr[l.n].cid # NoId /\ l.cid["a"] \in {NoId, ctr[l.n].cid}

\* Rollback: the container is removed by its object, or by name when run()
\* raised (failures are ignored), and so is the directory ...
CnUndo(p) ==
  LET l  == loc[p]
      rm == Leftover(l)
  IN /\ pc[p] = "cn_undo"
     /\ \/ rm /\ RemoveContainer(l.n) /\ NoFault
        \/ ~rm /\ NoFault /\ UNCHANGED dockerVars
        \/ rm /\ Fails("cn_undo") /\ UNCHANGED dockerVars
     /\ disk' = disk \ (IF l.dir THEN {<<l.n, l.op>>} ELSE {})
     /\ Goto(p, "cn_unres", l)
     /\ UNCHANGED <<tableVars, started>>

\* Mutant: the rollback forgets the placeholder.
CnUnreserveDir(p) ==
  /\ pc[p] = "cn_unres"
  /\ cfgDir' = [cfgDir EXCEPT ![loc[p].n] = NoId]
  /\ Finish(p)
  /\ UNCHANGED <<nodes, nodeOpUnchanged, dockerVars, disk, started, faults>>

\* ... and whatever the table holds under the id, under the lock.
CnUnreserve(p) ==
  LET n == loc[p].n
  IN /\ pc[p] = "cn_unres"
     /\ nodes' = [nodes EXCEPT ![n] = NoNode]
     /\ cfgDir' = [cfgDir EXCEPT ![n] = NoId]
     /\ Finish(p)
     /\ UNCHANGED <<nodeOpUnchanged, dockerVars, disk, started, faults>>

-----------------------------------------------------------------------------
(* delete_node *)

\* Mutant: only links that name the node first are found.
ConnectedAsFirst(n) == {pr \in LinkNames : n = pr[1]}

ConnectedLinks(n) == {pr \in LinkNames : n \in Ends(pr)}

\* The locked lookup lists the connected links.
DeleteNode(p, n) ==
  /\ Begin(p, "delete_node")
  /\ Present(n)
  /\ Goto(p, "dn_next", [NoLocal EXCEPT !.call = "delete_node", !.n = n, !.me = nodes[n].ref,
                                        !.todo = ConnectedLinks(n)])
  /\ UNCHANGED <<tableVars, dockerVars, disk, faults>>

\* The next delete_link(); that the link is gone by now is ignored.
DnNext(p) ==
  LET l == loc[p]
  IN /\ pc[p] = "dn_next"
     /\ \/ \E pr \in l.todo :
             LET rest == [l EXCEPT !.todo = @ \ {pr}]
             IN \/ links[pr] # NoId /\ Goto(p, "dl_ion", Victim(rest, pr))
                \/ links[pr] = NoId /\ Goto(p, "dn_next", rest)
        \/ l.todo = {} /\ Goto(p, "dn_ctr", l)
     /\ UNCHANGED <<tableVars, dockerVars, disk, started, faults>>

\* containers.get(node.container_name).remove(force=True). The name of a
\* placeholder is empty: the call raises and the node stays.
DnContainer(p) ==
  LET l == loc[p]
      there == l.me.named /\ ctr[l.n].cid # NoId
  IN /\ pc[p] = "dn_ctr"
     /\ \/ there /\ RemoveContainer(l.n) /\ Goto(p, "dn_finish", l) /\ NoFault
        \/ /\ l.me.named /\ ctr[l.n].cid = NoId
           /\ Goto(p, "dn_finish", l) /\ NoFault /\ UNCHANGED dockerVars
        \/ ~l.me.named /\ Finish(p) /\ NoFault /\ UNCHANGED dockerVars
        \/ Fails("dn_ctr") /\ Finish(p) /\ UNCHANGED dockerVars
        \/ there /\ ReplyLost("dn_ctr") /\ RemoveContainer(l.n) /\ Finish(p)
     /\ UNCHANGED <<tableVars, disk, started>>

\* The locked end, and the removal of the directory that was on record.
DnFinish(p) ==
  LET n == loc[p].n
  IN /\ pc[p] = "dn_finish"
     /\ nodes' = [nodes EXCEPT ![n] = NoNode]
     /\ cfgDir' = [cfgDir EXCEPT ![n] = NoId]
     /\ disk' = disk \ {<<n, cfgDir[n]>>}
     /\ Finish(p)
     /\ UNCHANGED <<nodeOpUnchanged, dockerVars, started, faults>>

-----------------------------------------------------------------------------

NodeStep(p) ==
  \/ CnStale(p) \/ CnDir(p) \/ CnRun(p) \/ CnCheck(p) \/ CnCommit(p)
  \/ CnUndo(p) \/ CnUnreserve(p) \/ DnNext(p) \/ DnContainer(p) \/ DnFinish(p)

NodeCall(p) ==
  \E n \in Node : CreateNode(p, n) \/ DeleteNode(p, n)
=============================================================================

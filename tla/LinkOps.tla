------------------------------- MODULE LinkOps -------------------------------
(***************************************************************************)
(* create_link and delete_link of DockerManager, one action per locked     *)
(* section and per Docker or ION call that changes something.              *)
(***************************************************************************)
EXTENDS DockerState

linkTables == <<links, obj, pool>>
nodeTables == <<nodes, cfgDir>>

-----------------------------------------------------------------------------
(* create_link *)

\* The locked reservation: a subnet and a placeholder without network name.
\* The checks that raise before anything changes are guards.
CreateLink(p, pr, cl) ==
  /\ Begin(p, "create_link")
  /\ links[pr] = NoId
  /\ \A n \in Ends(pr) : Present(n)
  /\ ~LinkCapReached
  /\ pool' = Allocated(pool)
  /\ \/ /\ Exhausted(pool)
        /\ UNCHANGED <<links, obj, pc, loc>>
     \/ /\ ~Exhausted(pool)
        /\ links' = [links EXCEPT ![pr] = NewId]
        /\ obj' = [obj EXCEPT ![NewId] = [idx |-> Issued(pool), named |-> FALSE,
                                          nid |-> NoId, cl |-> cl, st |-> "down"]]
        /\ Goto(p, "cl_get",
                [NoLocal EXCEPT !.op = NewId, !.call = "create_link", !.pr = pr, !.cl = cl,
                                !.idx = Issued(pool),
                                !.ref = [s \in Side |-> nodes[At(pr, s)].ref]])
  /\ UNCHANGED <<nodeTables, dockerVars, disk, faults>>

\* The network is at hand: if its subnet is not the one reserved, adopt it.
HaveNetwork(p, nid, real, made) ==
  LET l == [loc[p] EXCEPT !.nid = nid, !.real = real, !.made = made]
  IN Goto(p, IF real = l.idx THEN "cl_ctrs" ELSE "cl_adopt", l)

Undo(p) == Goto(p, "cl_undo", loc[p])

\* networks.get(name)
ClGet(p) ==
  LET k == net[loc[p].pr]
  IN /\ pc[p] = "cl_get"
     /\ \/ k.nid # NoId /\ HaveNetwork(p, k.nid, k.sub, FALSE) /\ NoFault
        \/ k.nid = NoId /\ Goto(p, "cl_new", loc[p]) /\ NoFault
        \/ Fails("cl_get") /\ Undo(p)
     /\ UNCHANGED <<tableVars, dockerVars, disk, started>>

\* networks.create(): 409 when the name is taken, refused when the subnet
\* overlaps a live network.
ClNew(p) ==
  LET l    == loc[p]
      made == [net EXCEPT ![l.pr] = [nid |-> l.op, sub |-> l.idx, att |-> {}]]
      free == net[l.pr].nid = NoId /\ ~Overlaps(l.idx)
  IN /\ pc[p] = "cl_new"
     /\ \/ /\ net[l.pr].nid # NoId
           /\ Goto(p, "cl_race", l) /\ NoFault /\ UNCHANGED net
        \/ /\ net[l.pr].nid = NoId /\ Overlaps(l.idx)
           /\ Undo(p) /\ NoFault /\ UNCHANGED net
        \/ /\ free
           /\ net' = made /\ HaveNetwork(p, l.op, l.idx, TRUE) /\ NoFault
        \/ Fails("cl_new") /\ Undo(p) /\ UNCHANGED net
        \/ free /\ ReplyLost("cl_new") /\ net' = made /\ Undo(p)
     /\ UNCHANGED <<tableVars, ctr, disk, started>>

\* networks.get(name) after a 409.
ClRace(p) ==
  LET k == net[loc[p].pr]
  IN /\ pc[p] = "cl_race"
     /\ \/ k.nid # NoId /\ HaveNetwork(p, k.nid, k.sub, FALSE) /\ NoFault
        \/ k.nid = NoId /\ Undo(p) /\ NoFault
        \/ Fails("cl_race") /\ Undo(p)
     /\ UNCHANGED <<tableVars, dockerVars, disk, started>>

\* Mutant: the index that create_link had reserved is never given back.
AdoptedOnly(own, real) == Reserved(pool, real)

\* The real subnet of the network replaces the reserved one.
Adopted(own, real) == Reserved(Released(pool, own), real)

ClAdopt(p) ==
  LET l == loc[p]
  IN /\ pc[p] = "cl_adopt"
     /\ pool' = Adopted(l.idx, l.real)
     /\ Goto(p, "cl_ctrs", [l EXCEPT !.idx = l.real])
     /\ UNCHANGED <<nodeTables, links, obj, dockerVars, disk, started, faults>>

\* containers.get(node.container_name) of both ends. The name of a
\* placeholder is empty, and Docker's client raises on an empty name.
ClContainers(p) ==
  LET l    == loc[p]
      both == \A s \in Side : l.ref[s].named /\ ctr[At(l.pr, s)].cid # NoId
  IN /\ pc[p] = "cl_ctrs"
     /\ \/ /\ both /\ NoFault
           /\ Goto(p, "cl_connect", [l EXCEPT !.cid = [s \in Side |-> ctr[At(l.pr, s)].cid]])
        \/ ~both /\ Undo(p) /\ NoFault
        \/ Fails("cl_ctrs") /\ Undo(p)
     /\ UNCHANGED <<tableVars, dockerVars, disk, started>>

\* network.connect() of side a, then of side b.
ClConnect(p) ==
  LET l    == loc[p]
      n    == At(l.pr, l.side)
      live == net[l.pr].nid = l.nid /\ ctr[n].cid = l.cid[l.side]
      done == [l EXCEPT !.con = @ \union {l.side}, !.side = Other(@)]
  IN /\ pc[p] = "cl_connect"
     /\ \/ /\ live /\ net' = Attached(l.pr, n) /\ NoFault
           /\ Goto(p, IF l.side = "a" THEN "cl_connect" ELSE "cl_ready", done)
        \/ ~live /\ Undo(p) /\ NoFault /\ UNCHANGED net
        \/ Fails("cl_connect") /\ Undo(p) /\ UNCHANGED net
        \/ live /\ ReplyLost("cl_connect") /\ net' = Attached(l.pr, n) /\ Undo(p)
     /\ UNCHANGED <<tableVars, ctr, disk, started>>

\* _wait_for_ion_ready() of both containers, by name.
ClReady(p) ==
  LET l   == loc[p]
      ups == {s \in Side : ctr[At(l.pr, s)].up}
  IN /\ pc[p] = "cl_ready"
     /\ \/ Goto(p, "cl_config", [l EXCEPT !.rdy = ups]) /\ NoFault
        \/ \E s \in ups : /\ Fails("cl_ready")
                          /\ Goto(p, "cl_config", [l EXCEPT !.rdy = ups \ {s}])
     /\ UNCHANGED <<tableVars, dockerVars, disk, started>>

\* The first k of the two commands of _apply_link_config took effect.
ConfiguredUpTo(k, c, peer, duct) ==
  CASE k = 0 -> c
    [] k = 1 -> WithDuct(c, duct)
    [] k = 2 -> WithPlan(WithDuct(c, duct), peer, duct)

\* _apply_link_config() on side a, then on side b; a side that is not ready is
\* skipped. A command may be refused (the link ends as ERROR) or time out,
\* with or without effect (the call raises).
ClConfig(p) ==
  LET l       == loc[p]
      n       == At(l.pr, l.side)
      peer    == At(l.pr, Other(l.side))
      duct    == <<l.idx, Other(l.side), l.cl>>
      next    == IF l.side = "a" THEN "cl_config" ELSE "cl_commit"
      Go(ok)  == Goto(p, next, [l EXCEPT !.side = Other(@), !.ok = @ /\ ok])
      Run(k)  == ctr' = [ctr EXCEPT ![n] = ConfiguredUpTo(k, @, peer, duct)]
  IN /\ pc[p] = "cl_config"
     /\ \/ l.side \notin l.rdy /\ Go(TRUE) /\ NoFault /\ UNCHANGED ctr
        \/ l.side \in l.rdy /\ ctr[n].up /\ Run(2) /\ Go(TRUE) /\ NoFault
        \/ l.side \in l.rdy /\ ~ctr[n].up /\ Go(FALSE) /\ NoFault /\ UNCHANGED ctr
        \/ /\ l.side \in l.rdy /\ ctr[n].up /\ Fails("cl_config")
           /\ \/ \E k \in 0..1 : Run(k) /\ Go(FALSE)
              \/ \E k \in 0..2 : Run(k) /\ Undo(p)
     /\ UNCHANGED <<tableVars, net, disk, started>>

\* Mutant: the status ignores what ION answered.
StatusIgnoringIon(l) == "up"

LinkStatus(l) == IF l.rdy = Side /\ l.ok THEN "up" ELSE "error"

\* The locked commit. It looks the link up again: the object may be another
\* one by now, or gone (KeyError, after the addresses were set).
ClCommit(p) ==
  LET l == loc[p]
      i == links[l.pr]
  IN /\ pc[p] = "cl_commit"
     /\ nodes' = IpsSet(l.ref, l.pr)
     /\ \/ /\ i # NoId
           /\ obj' = [obj EXCEPT ![i] = [@ EXCEPT !.named = TRUE, !.nid = l.nid,
                                                  !.idx = l.idx, !.st = LinkStatus(l)]]
           /\ Finish(p)
        \/ i = NoId /\ Undo(p) /\ UNCHANGED obj
     /\ UNCHANGED <<cfgDir, links, pool, dockerVars, disk, started, faults>>

\* Mutant: the rollback never removes the network.
SubnetOnly(l) == "cl_unres"

AfterDisconnect(l) == IF l.made THEN "cl_unnet" ELSE "cl_unres"

\* Rollback: disconnect what was connected (failures are ignored) ...
ClUndo(p) ==
  LET l  == loc[p]
      ns == {At(l.pr, s) : s \in l.con}
  IN /\ pc[p] = "cl_undo"
     /\ \/ net' = Disconnected(l.pr, l.nid, ns) /\ NoFault
        \/ \E n \in ns : Fails("cl_undo") /\ net' = Disconnected(l.pr, l.nid, ns \ {n})
     /\ Goto(p, AfterDisconnect(l), l)
     /\ UNCHANGED <<tableVars, ctr, disk, started>>

\* ... remove the network if this call created it (failures are ignored) ...
ClUnnet(p) ==
  LET l  == loc[p]
      rm == net[l.pr].nid = l.nid /\ net[l.pr].att = {}
  IN /\ pc[p] = "cl_unnet"
     /\ \/ rm /\ net' = [net EXCEPT ![l.pr] = NoNetwork] /\ NoFault
        \/ ~rm /\ NoFault /\ UNCHANGED net
        \/ Fails("cl_unnet") /\ UNCHANGED net
     /\ Goto(p, "cl_unres", l)
     /\ UNCHANGED <<tableVars, ctr, disk, started>>

\* Mutant: the rollback does not return the subnet.
KeptByRollback(idx) == pool

ReturnedByRollback(idx) == Released(pool, idx)

\* Mutant: the rollback forgets the placeholder.
ClUnreserveSubnet(p) ==
  LET l == loc[p]
  IN /\ pc[p] = "cl_unres"
     /\ pool' = ReturnedByRollback(l.idx)
     /\ nodes' = IpsPopped(l.ref, l.pr)
     /\ Finish(p)
     /\ UNCHANGED <<cfgDir, links, obj, dockerVars, disk, started, faults>>

\* ... and drop the reservation, under the lock.
ClUnreserve(p) ==
  LET l == loc[p]
  IN /\ pc[p] = "cl_unres"
     /\ pool' = ReturnedByRollback(l.idx)
     /\ links' = [links EXCEPT ![l.pr] = NoId]
     /\ nodes' = IpsPopped(l.ref, l.pr)
     /\ Finish(p)
     /\ UNCHANGED <<cfgDir, obj, dockerVars, disk, started, faults>>

-----------------------------------------------------------------------------
(* delete_link, called by a client or by delete_node *)

\* What delete_link remembers of the link it looks up.
Victim(l, pr) ==
  [l EXCEPT !.pr = pr, !.lid = links[pr], !.side = "a", !.nid = NoId,
            !.ref = [s \in Side |-> nodes[At(pr, s)].ref]]

\* Mutant: the link leaves the table when its deletion begins.
DeleteLinkPopsFirst(p, pr) ==
  /\ Begin(p, "delete_link")
  /\ links[pr] # NoId
  /\ Goto(p, "dl_ion", Victim([NoLocal EXCEPT !.call = "delete_link"], pr))
  /\ links' = [links EXCEPT ![pr] = NoId]
  /\ UNCHANGED <<nodeTables, obj, pool, dockerVars, disk, faults>>

\* The locked lookup.
DeleteLink(p, pr) ==
  /\ Begin(p, "delete_link")
  /\ links[pr] # NoId
  /\ Goto(p, "dl_ion", Victim([NoLocal EXCEPT !.call = "delete_link"], pr))
  /\ UNCHANGED <<tableVars, dockerVars, disk, faults>>

\* The return of delete_link: delete_node ignores an exception.
DlReturn(p) ==
  IF loc[p].call = "delete_node"
  THEN Goto(p, "dn_next", [NoLocal EXCEPT !.call = "delete_node", !.n = loc[p].n,
                                          !.me = loc[p].me, !.todo = loc[p].todo])
  ELSE Finish(p)

\* Mutant: the outduct of the peer is left in place.
DuctKept(c, idx, s) == c

\* generate_delete_outduct_cmd(peer_ip): the protocol defaults to tcp.
DuctDropped(c, idx, s) == WithoutDuct(c, <<idx, s, "tcp">>)

\* `d plan` and `d outduct` on side a, then on side b, best effort. The peer
\* addresses are those of the Link object when the loop begins.
DlIon(p) ==
  LET l    == [loc[p] EXCEPT !.idx = IF loc[p].side = "a" THEN obj[loc[p].lid].idx ELSE @]
      n    == At(l.pr, l.side)
      peer == At(l.pr, Other(l.side))
      runs == l.ref[l.side].named /\ ctr[n].up
      plan == WithoutPlan(ctr[n], peer)
  IN /\ pc[p] = "dl_ion"
     /\ \/ /\ runs /\ NoFault
           /\ ctr' = [ctr EXCEPT ![n] = DuctDropped(plan, l.idx, Other(l.side))]
        \/ ~runs /\ NoFault /\ UNCHANGED ctr
        \/ runs /\ Fails("dl_ion") /\ \E c \in {ctr[n], plan} : ctr' = [ctr EXCEPT ![n] = c]
     /\ Goto(p, IF l.side = "a" THEN "dl_ion" ELSE "dl_get", [l EXCEPT !.side = Other(@)])
     /\ UNCHANGED <<tableVars, net, disk, started>>

\* networks.get(link.network_name): the name is empty until the link's
\* creator commits, and Docker's client raises on an empty name.
DlGet(p) ==
  LET l == loc[p]
      k == net[l.pr]
  IN /\ pc[p] = "dl_get"
     /\ \/ ~obj[l.lid].named /\ DlReturn(p) /\ NoFault
        \/ obj[l.lid].named /\ k.nid # NoId /\ Goto(p, "dl_disc", [l EXCEPT !.nid = k.nid]) /\ NoFault
        \/ obj[l.lid].named /\ k.nid = NoId /\ Goto(p, "dl_finish", l) /\ NoFault
        \/ Fails("dl_get") /\ DlReturn(p)
     /\ UNCHANGED <<tableVars, dockerVars, disk, started>>

\* Both containers are disconnected; failures are ignored.
DlDisconnect(p) ==
  LET l  == loc[p]
      ns == {At(l.pr, s) : s \in {x \in Side : l.ref[x].named}}
  IN /\ pc[p] = "dl_disc"
     /\ \/ net' = Disconnected(l.pr, l.nid, ns) /\ NoFault
        \/ \E n \in ns : Fails("dl_disc") /\ net' = Disconnected(l.pr, l.nid, ns \ {n})
     /\ Goto(p, "dl_remove", l)
     /\ UNCHANGED <<tableVars, ctr, disk, started>>

\* Mutant: any error of network.remove() is ignored.
RefusalIgnored(p) == Goto(p, "dl_finish", loc[p])

\* Only NotFound is caught; any other error ends the call.
Refusal(p) == DlReturn(p)

\* network.remove(): gone already, refused while it has endpoints, or done.
DlRemove(p) ==
  LET l  == loc[p]
      k  == net[l.pr]
      rm == k.nid = l.nid /\ k.att = {}
  IN /\ pc[p] = "dl_remove"
     /\ \/ k.nid # l.nid /\ Goto(p, "dl_finish", l) /\ NoFault /\ UNCHANGED net
        \/ k.nid = l.nid /\ k.att # {} /\ Refusal(p) /\ NoFault /\ UNCHANGED net
        \/ /\ rm /\ net' = [net EXCEPT ![l.pr] = NoNetwork] /\ NoFault
           /\ Goto(p, "dl_finish", l)
        \/ Fails("dl_remove") /\ Refusal(p) /\ UNCHANGED net
        \/ /\ rm /\ ReplyLost("dl_remove") /\ net' = [net EXCEPT ![l.pr] = NoNetwork]
           /\ Refusal(p)
     /\ UNCHANGED <<tableVars, ctr, disk, started>>

\* The locked end: subnet and table entry go, whatever Link object the table
\* holds under that name by now.
DlFinish(p) ==
  LET l == loc[p]
  IN /\ pc[p] = "dl_finish"
     /\ nodes' = IpsPopped(l.ref, l.pr)
     /\ pool' = Released(pool, obj[l.lid].idx)
     /\ links' = [links EXCEPT ![l.pr] = NoId]
     /\ DlReturn(p)
     /\ UNCHANGED <<cfgDir, obj, dockerVars, disk, started, faults>>

-----------------------------------------------------------------------------

LinkStep(p) ==
  \/ ClGet(p) \/ ClNew(p) \/ ClRace(p) \/ ClAdopt(p) \/ ClContainers(p) \/ ClConnect(p)
  \/ ClReady(p) \/ ClConfig(p) \/ ClCommit(p) \/ ClUndo(p) \/ ClUnnet(p) \/ ClUnreserve(p)
  \/ DlIon(p) \/ DlGet(p) \/ DlDisconnect(p) \/ DlRemove(p) \/ DlFinish(p)

LinkCall(p) ==
  \/ \E pr \in Pair, cl \in CL : CreateLink(p, pr, cl)
  \/ \E pr \in Pair : DeleteLink(p, pr)
=============================================================================

------------------------- MODULE DockerManagerProofs -------------------------
(***************************************************************************)
(* For any nodes, links, worker threads, mix of calls, bounds and failures: *)
(* the state of DockerManager keeps its types, and no reservation of a link *)
(* or a node outlives the call that made it. When one thread at a time      *)
(* deletes and rollbacks succeed: every link leases one index of the pool,  *)
(* networks are on leased subnets, no network of an UP link is taken down   *)
(* by another call, nodes match the daemon and the disk, and the caps hold. *)
(***************************************************************************)
EXTENDS DockerManager, SubnetPoolOpsProofs, FiniteSetTheorems

-----------------------------------------------------------------------------
(* The inductive invariant. TypeOK alone is not inductive: a step uses the   *)
(* pair, node or Link object that an earlier step of its thread put in loc.  *)

DeleteLabel == DeleteLinkLabel \union DeleteNodeLabel

LocalOK(label, l) ==
  /\ label \in LinkLabel => l.pr \in Pair
  /\ label \in DeleteLinkLabel => l.lid \in Id
  /\ label \in NodeLabel \/ l.call = "delete_node" => l.n \in Node
  /\ label \in CreateLinkLabel \union CreateNodeLabel => l.op \in Id
  /\ label \in CreateLinkLabel => l.cl \in CL
  /\ (l.call = "create_link") <=> (label \in CreateLinkLabel)
  /\ label \in DeleteNodeLabel => l.call = "delete_node"
  /\ l.call = "delete_node" => label \in DeleteLabel

IInv == TypeOK /\ \A p \in Proc : LocalOK(pc[p], loc[p])

\* Both delete the same Node object.
SameTarget(l, m) == m.call = "delete_node" /\ l.n = m.n /\ l.me = m.me

\* Thread p goes on with the creation it is busy with, if it is.
SameJob(p, label, l) ==
  /\ pc[p] \in CreateLinkLabel =>
       label \in CreateLinkLabel /\ l.pr = loc[p].pr /\ l.op = loc[p].op
  /\ pc[p] \in CreateNodeLabel =>
       label \in CreateNodeLabel /\ l.n = loc[p].n /\ l.op = loc[p].op
  /\ label \in DeleteLabel => pc[p] \in DeleteLabel
  /\ label \in CreateNodeLabel => pc[p] \in CreateNodeLabel
  /\ label = "dn_finish" => pc[p] \in DeleteNodeLabel
  /\ l.call = "delete_node" => SameTarget(l, loc[p])

Moves(p) ==
  \E label \in Label, l \in Local :
    Goto(p, label, l) /\ LocalOK(label, l) /\ SameJob(p, label, l)

Phases == {CreateLinkLabel, CreateNodeLabel, DeleteLinkLabel, DeleteNodeLabel}

SameKeys(l, m) ==
  /\ l.op = m.op /\ l.call = m.call /\ l.pr = m.pr /\ l.cl = m.cl
  /\ l.n = m.n /\ l.lid = m.lid /\ l.me = m.me

-----------------------------------------------------------------------------
(* What the invariant says of one thread *)

\* Identities of the operations that are still to come.
LEMMA NewIdIsId ==
  ASSUME TypeOK, started < MaxOps
  PROVE  NewId \in Id /\ NewId # NoId
BY BoundAssumption DEF TypeOK, NewId, Id, Boot, NoId

\* The neutral values are of their types.
LEMMA NeutralTypes ==
  /\ NoLocal \in Local
  /\ NoNode \in NodeObject
  /\ NoContainer \in Container
  /\ NoNetwork \in Network
  /\ NoLink \in LinkObject
  /\ EmptyPool \in Pool
BY MaxIndexAssumption
   DEF NoLocal, Local, NoNode, NodeObject, NoContainer, Container, NoNetwork, Network,
       NoLink, LinkObject, EmptyPool, Pool, Index, NoRef, Ref, Side

\* What holds of a thread's label and local variables.
LEMMA ThreadFacts ==
  ASSUME IInv, NEW p \in Proc
  PROVE  pc[p] \in Label /\ loc[p] \in Local /\ LocalOK(pc[p], loc[p])
BY DEF IInv, TypeOK

\* What a thread at work on a link may rely on.
LEMMA LinkFacts ==
  ASSUME IInv, NEW p \in Proc, pc[p] \in LinkLabel
  PROVE  /\ loc[p].pr \in Pair /\ loc[p].idx \in Index
         /\ net[loc[p].pr] \in Network
         /\ links[loc[p].pr] \in Id \union {NoId}
         /\ \A s \in Side : At(loc[p].pr, s) \in Node
         /\ \A s \in Side : ctr[At(loc[p].pr, s)] \in Container
BY PairAssumption DEF IInv, TypeOK, LocalOK, Local, At, Side

\* A thread that goes anywhere with sound locals keeps the types of pc and loc.
LEMMA GotoKeepsThreads ==
  ASSUME IInv, NEW p \in Proc, NEW label \in Label, NEW l \in Local,
         Goto(p, label, l), LocalOK(label, l)
  PROVE  /\ pc' \in [Proc -> Label] /\ loc' \in [Proc -> Local]
         /\ \A q \in Proc : LocalOK(pc'[q], loc'[q])
<1>1. pc \in [Proc -> Label] /\ loc \in [Proc -> Local] /\ \A q \in Proc : LocalOK(pc[q], loc[q])
  BY DEF IInv, TypeOK
<1> QED
  BY <1>1 DEF Goto

\* In particular, a thread that moves does.
LEMMA MoveKeepsThreads ==
  ASSUME IInv, NEW p \in Proc, Moves(p)
  PROVE  /\ pc' \in [Proc -> Label] /\ loc' \in [Proc -> Local]
         /\ \A q \in Proc : LocalOK(pc'[q], loc'[q])
BY GotoKeepsThreads DEF Moves

\* So does a thread that ends its call.
LEMMA FinishKeepsThreads ==
  ASSUME IInv, NEW p \in Proc, Finish(p)
  PROVE  /\ pc' \in [Proc -> Label] /\ loc' \in [Proc -> Local]
         /\ \A q \in Proc : LocalOK(pc'[q], loc'[q])
<1>1. NoLocal \in Local /\ NoLocal.call = "" /\ "idle" \in Label
  BY NeutralTypes DEF NoLocal, Label
<1>2. LocalOK("idle", NoLocal)
  BY <1>1 DEF LocalOK, LinkLabel, NodeLabel, CreateLinkLabel, CreateNodeLabel,
     DeleteLinkLabel, DeleteNodeLabel, DeleteLabel
<1>3. Goto(p, "idle", NoLocal)
  BY DEF Finish
<1> QED
  BY <1>1, <1>2, <1>3, GotoKeepsThreads

\* A thread that goes on within the same operation moves.
LEMMA StaysInPhase ==
  ASSUME IInv, NEW p \in Proc, NEW label, NEW l \in Local,
         Goto(p, label, l), SameKeys(l, loc[p]),
         \E phase \in Phases : pc[p] \in phase /\ label \in phase
  PROVE  Moves(p)
BY DEF IInv, Moves, LocalOK, SameJob, SameKeys, SameTarget, Phases, Label, LinkLabel, NodeLabel,
       CreateLinkLabel, CreateNodeLabel, DeleteLinkLabel, DeleteNodeLabel, DeleteLabel

\* A thread that deletes may end its call.
LEMMA EndsDeletion ==
  ASSUME IInv, NEW p \in Proc, Finish(p), pc[p] \in DeleteLinkLabel \union DeleteNodeLabel
  PROVE  Moves(p)
<1>1. NoLocal \in Local /\ NoLocal.call = ""
  BY NeutralTypes DEF NoLocal
<1> HIDE DEF NoLocal
<1> QED
  BY <1>1 DEF Finish, Moves, LocalOK, SameJob, Label, LinkLabel, NodeLabel,
     CreateLinkLabel, CreateNodeLabel, DeleteLinkLabel, DeleteNodeLabel, DeleteLabel
-----------------------------------------------------------------------------
(* Every step that neither commits nor takes out a reservation moves        *)

\* A thread that goes on to its phase's other label, its locals as they are.
LEMMA GoesTo ==
  ASSUME IInv, NEW p \in Proc, NEW label, Goto(p, label, loc[p]),
         \E phase \in Phases : pc[p] \in phase /\ label \in phase
  PROVE  Moves(p)
BY ThreadFacts, StaysInPhase DEF SameKeys

\* The exception handler of create_link.
LEMMA UndoMoves ==
  ASSUME IInv, NEW p \in Proc, pc[p] \in CreateLinkLabel, Undo(p)
  PROVE  Moves(p)
BY GoesTo DEF Undo, Phases, CreateLinkLabel

\* The exception handler of create_node.
LEMMA RaiseMoves ==
  ASSUME IInv, NEW p \in Proc, pc[p] \in CreateNodeLabel, CnRaise(p)
  PROVE  Moves(p)
BY GoesTo DEF CnRaise, Phases, CreateNodeLabel

\* create_link goes on with the network it got.
LEMMA HaveNetworkMoves ==
  ASSUME IInv, NEW p \in Proc, pc[p] \in CreateLinkLabel,
         NEW i \in Id, NEW x \in Index, NEW b \in BOOLEAN, HaveNetwork(p, i, x, b)
  PROVE  Moves(p)
<1> DEFINE l == [loc[p] EXCEPT !.nid = i, !.real = x, !.made = b]
<1>1. l \in Local /\ SameKeys(l, loc[p])
  <2>1. loc[p] \in Local
    BY ThreadFacts
  <2> QED
    BY <2>1 DEF Local, SameKeys
<1>2. \E label \in {"cl_ctrs", "cl_adopt"} : Goto(p, label, l)
  BY DEF HaveNetwork
<1> HIDE DEF l
<1> QED
  BY <1>1, <1>2, StaysInPhase DEF Phases, CreateLinkLabel

\* networks.get() of create_link.
LEMMA ClGetMoves ==
  ASSUME IInv, NEW p \in Proc, ClGet(p) \/ ClRace(p)
  PROVE  Moves(p)
<1>1. pc[p] \in CreateLinkLabel /\ pc[p] \in LinkLabel
  BY DEF ClGet, ClRace, CreateLinkLabel, LinkLabel
<1>2. net[loc[p].pr].nid \in Id \union {NoId} /\ net[loc[p].pr].sub \in Index
  BY <1>1, LinkFacts DEF Network
<1>3. CASE Goto(p, "cl_new", loc[p])
  BY <1>1, <1>3, GoesTo DEF Phases, CreateLinkLabel
<1> QED
  BY <1>1, <1>2, <1>3, HaveNetworkMoves, UndoMoves DEF ClGet, ClRace

\* networks.create().
LEMMA ClNewMoves ==
  ASSUME IInv, NEW p \in Proc, ClNew(p)
  PROVE  Moves(p)
<1>1. pc[p] \in CreateLinkLabel /\ pc[p] \in LinkLabel
  BY DEF ClNew, CreateLinkLabel, LinkLabel
<1>2. loc[p].op \in Id /\ loc[p].idx \in Index
  BY <1>1, ThreadFacts, LinkFacts DEF LocalOK
<1>3. CASE Goto(p, "cl_race", loc[p])
  BY <1>1, <1>3, GoesTo DEF Phases, CreateLinkLabel
<1> QED
  BY <1>1, <1>2, <1>3, HaveNetworkMoves, UndoMoves DEF ClNew

\* The real subnet replaces the reserved one.
LEMMA ClAdoptMoves ==
  ASSUME IInv, NEW p \in Proc, ClAdopt(p)
  PROVE  Moves(p)
<1> DEFINE l == [loc[p] EXCEPT !.idx = loc[p].real]
<1>1. l \in Local /\ SameKeys(l, loc[p])
  <2>1. loc[p] \in Local
    BY ThreadFacts
  <2> QED
    BY <2>1 DEF Local, SameKeys
<1>2. pc[p] = "cl_adopt" /\ Goto(p, "cl_ctrs", l)
  BY DEF ClAdopt
<1> HIDE DEF l
<1> QED
  BY <1>1, <1>2, StaysInPhase DEF Phases, CreateLinkLabel

\* containers.get() of both ends.
LEMMA ClContainersMoves ==
  ASSUME IInv, NEW p \in Proc, ClContainers(p)
  PROVE  Moves(p)
<1> DEFINE c == [s \in Side |-> ctr[At(loc[p].pr, s)].cid]
           l == [loc[p] EXCEPT !.cid = c]
<1>1. pc[p] = "cl_ctrs" /\ pc[p] \in CreateLinkLabel /\ pc[p] \in LinkLabel
  BY DEF ClContainers, CreateLinkLabel, LinkLabel
<1>2. c \in [Side -> Id \union {NoId}]
  BY <1>1, LinkFacts DEF Container
<1>3. Undo(p) \/ Goto(p, "cl_connect", l)
  BY DEF ClContainers
<1> HIDE DEF c
<1>4. l \in Local /\ SameKeys(l, loc[p])
  <2>1. loc[p] \in Local
    BY ThreadFacts
  <2> QED
    BY <1>2, <2>1 DEF Local, SameKeys
<1> HIDE DEF l
<1>5. CASE Goto(p, "cl_connect", l)
  BY <1>1, <1>4, <1>5, StaysInPhase DEF Phases, CreateLinkLabel
<1> QED
  BY <1>1, <1>3, <1>5, UndoMoves

\* Updates of the loops over the two ends of a link.
LEMMA SideUpdates ==
  ASSUME NEW l \in Local, NEW s \in Side, NEW b \in BOOLEAN, NEW c \in SUBSET Side
  PROVE  /\ [l EXCEPT !.con = c, !.side = s] \in Local
         /\ [l EXCEPT !.side = s, !.ok = b] \in Local
         /\ SameKeys([l EXCEPT !.con = c, !.side = s], l)
         /\ SameKeys([l EXCEPT !.side = s, !.ok = b], l)
<1>1. [l EXCEPT !.con = c, !.side = s] \in Local
  BY DEF Local
<1>2. [l EXCEPT !.side = s, !.ok = b] \in Local
  BY DEF Local
<1>3. SameKeys([l EXCEPT !.con = c, !.side = s], l)
  BY DEF Local, SameKeys
<1>4. SameKeys([l EXCEPT !.side = s, !.ok = b], l)
  BY DEF Local, SameKeys
<1> QED
  BY <1>1, <1>2, <1>3, <1>4

\* The loop variables stay in range.
LEMMA SideFacts ==
  ASSUME NEW l \in Local
  PROVE  /\ l.side \in Side /\ Other(l.side) \in Side
         /\ l.con \union {l.side} \in SUBSET Side
         /\ \A ok \in BOOLEAN : (l.ok /\ ok) \in BOOLEAN
BY DEF Local, Side, Other

\* network.connect() of one end.
LEMMA ClConnectMoves ==
  ASSUME IInv, NEW p \in Proc, ClConnect(p)
  PROVE  Moves(p)
<1> DEFINE l == [loc[p] EXCEPT !.con = @ \union {loc[p].side}, !.side = Other(@)]
<1>1. l \in Local /\ SameKeys(l, loc[p])
  <2>1. loc[p] \in Local
    BY ThreadFacts
  <2> QED
    BY <2>1, SideFacts, SideUpdates
<1>2. pc[p] \in CreateLinkLabel
  BY DEF ClConnect, CreateLinkLabel
<1>3. Undo(p) \/ \E label \in {"cl_connect", "cl_ready"} : Goto(p, label, l)
  BY DEF ClConnect
<1> HIDE DEF l
<1>4. ASSUME NEW label \in {"cl_connect", "cl_ready"}, Goto(p, label, l) PROVE Moves(p)
  BY <1>1, <1>2, <1>4, StaysInPhase DEF Phases, CreateLinkLabel
<1> QED
  BY <1>2, <1>3, <1>4, UndoMoves

\* _wait_for_ion_ready() of both ends.
LEMMA ClReadyMoves ==
  ASSUME IInv, NEW p \in Proc, ClReady(p)
  PROVE  Moves(p)
<1>1. PICK r \in SUBSET Side : Goto(p, "cl_config", [loc[p] EXCEPT !.rdy = r])
  BY DEF ClReady
<1> DEFINE l == [loc[p] EXCEPT !.rdy = r]
<1>2. l \in Local /\ SameKeys(l, loc[p])
  <2>1. loc[p] \in Local
    BY ThreadFacts
  <2> QED
    BY <2>1 DEF Local, SameKeys
<1>3. pc[p] = "cl_ready" /\ Goto(p, "cl_config", l)
  BY <1>1 DEF ClReady
<1> HIDE DEF l
<1> QED
  BY <1>2, <1>3, StaysInPhase DEF Phases, CreateLinkLabel

\* _apply_link_config() of one end.
LEMMA ClConfigMoves ==
  ASSUME IInv, NEW p \in Proc, ClConfig(p)
  PROVE  Moves(p)
<1> DEFINE l(ok) == [loc[p] EXCEPT !.side = Other(@), !.ok = @ /\ ok]
<1>1. \A ok \in BOOLEAN : l(ok) \in Local /\ SameKeys(l(ok), loc[p])
  <2>1. loc[p] \in Local
    BY ThreadFacts
  <2> QED
    BY <2>1, SideFacts, SideUpdates
<1>2. pc[p] \in CreateLinkLabel
  BY DEF ClConfig, CreateLinkLabel
<1>3. Undo(p) \/ \E label \in {"cl_config", "cl_commit"}, ok \in BOOLEAN : Goto(p, label, l(ok))
  BY DEF ClConfig
<1> HIDE DEF l
<1>4. ASSUME NEW label \in {"cl_config", "cl_commit"}, NEW ok \in BOOLEAN, Goto(p, label, l(ok))
      PROVE Moves(p)
  BY <1>1, <1>2, <1>4, StaysInPhase DEF Phases, CreateLinkLabel
<1> QED
  BY <1>2, <1>3, <1>4, UndoMoves

\* The first two steps of the rollback.
LEMMA ClUndoMoves ==
  ASSUME IInv, NEW p \in Proc, ClUndo(p) \/ ClUnnet(p)
  PROVE  Moves(p)
<1>1. pc[p] \in CreateLinkLabel
      /\ \E label \in {"cl_unnet", "cl_unres"} : Goto(p, label, loc[p])
  BY DEF ClUndo, ClUnnet, AfterDisconnect, CreateLinkLabel
<1> QED
  BY <1>1, GoesTo DEF Phases, CreateLinkLabel

\* What delete_node puts in its locals for the next delete_link.
LEMMA VictimFacts ==
  ASSUME TypeOK, NEW l \in Local, NEW pr \in Pair
  PROVE  /\ Victim(l, pr) \in Local
         /\ Victim(l, pr).pr = pr /\ Victim(l, pr).lid = links[pr]
         /\ Victim(l, pr).n = l.n /\ Victim(l, pr).call = l.call /\ Victim(l, pr).me = l.me
<1> DEFINE r == [s \in Side |-> nodes[At(pr, s)].ref]
<1>1. r \in [Side -> Ref] /\ links[pr] \in Id \union {NoId} /\ "a" \in Side
  BY PairAssumption DEF TypeOK, At, Side, NodeObject
<1>2. Victim(l, pr) = [l EXCEPT !.pr = pr, !.lid = links[pr], !.side = "a", !.nid = NoId, !.ref = r]
  BY DEF Victim
<1> HIDE DEF r
<1>3. Victim(l, pr) \in Local
  BY <1>1, <1>2 DEF Local
<1>4. /\ Victim(l, pr).pr = pr /\ Victim(l, pr).lid = links[pr]
      /\ Victim(l, pr).n = l.n /\ Victim(l, pr).call = l.call /\ Victim(l, pr).me = l.me
  BY <1>2 DEF Local
<1> QED
  BY <1>3, <1>4

Resumed(m, n, r, t) ==
  [m EXCEPT !.call = "delete_node", !.n = n, !.me = r, !.todo = t]

\* The locals of delete_node when delete_link returns to it.
LEMMA ResumedFacts ==
  ASSUME NEW m \in Local, NEW n \in Node, NEW r \in Ref, NEW t \in SUBSET Pair
  PROVE  /\ Resumed(m, n, r, t) \in Local
         /\ Resumed(m, n, r, t).n = n /\ Resumed(m, n, r, t).me = r
         /\ Resumed(m, n, r, t).call = "delete_node"
<1>1. Resumed(m, n, r, t) \in Local
  BY DEF Resumed, Local, Operation
<1>2. /\ Resumed(m, n, r, t).n = n /\ Resumed(m, n, r, t).me = r
      /\ Resumed(m, n, r, t).call = "delete_node"
  BY DEF Resumed, Local
<1> QED
  BY <1>1, <1>2

\* The return of delete_link, to the client or to delete_node.
LEMMA ReturnMoves ==
  ASSUME IInv, NEW p \in Proc, pc[p] \in DeleteLinkLabel, DlReturn(p)
  PROVE  Moves(p)
<1>1. CASE loc[p].call # "delete_node"
  BY <1>1, EndsDeletion DEF DlReturn
<1>2. CASE loc[p].call = "delete_node"
  <2> DEFINE l == Resumed(NoLocal, loc[p].n, loc[p].me, loc[p].todo)
  <2>1. loc[p] \in Local /\ loc[p].n \in Node
    BY <1>2, ThreadFacts DEF LocalOK
  <2>2. loc[p].me \in Ref /\ loc[p].todo \in SUBSET Pair
    BY <2>1 DEF Local
  <2>3. NoLocal \in Local
    BY NeutralTypes
  <2>4. l \in Local /\ l.n = loc[p].n /\ l.call = "delete_node" /\ l.me = loc[p].me
    BY <2>1, <2>2, <2>3, ResumedFacts
  <2>5. Goto(p, "dn_next", l)
    BY <1>2 DEF DlReturn, Resumed
  <2> HIDE DEF l
  <2> QED
    BY <1>2, <2>1, <2>4, <2>5 DEF Moves, LocalOK, SameJob, SameTarget, Label, LinkLabel, NodeLabel,
       CreateLinkLabel, CreateNodeLabel, DeleteLinkLabel, DeleteNodeLabel, DeleteLabel
<1> QED
  BY <1>1, <1>2

\* The ION clean-up of one end.
LEMMA DlIonMoves ==
  ASSUME IInv, NEW p \in Proc, DlIon(p)
  PROVE  Moves(p)
<1> DEFINE i == IF loc[p].side = "a" THEN obj[loc[p].lid].idx ELSE loc[p].idx
           l == [[loc[p] EXCEPT !.idx = i] EXCEPT !.side = Other(@)]
<1>1. pc[p] \in DeleteLinkLabel /\ loc[p] \in Local /\ loc[p].lid \in Id
  BY ThreadFacts DEF DlIon, DeleteLinkLabel, LocalOK
<1>2. i \in Index /\ Other(loc[p].side) \in Side
  BY <1>1, SideFacts DEF IInv, TypeOK, LinkObject, Local
<1>3. \E label \in {"dl_ion", "dl_get"} : Goto(p, label, l)
  BY DEF DlIon
<1> HIDE DEF i
<1>4. l \in Local /\ SameKeys(l, loc[p])
  BY <1>1, <1>2 DEF Local, SameKeys
<1> HIDE DEF l
<1> QED
  BY <1>1, <1>3, <1>4, StaysInPhase DEF Phases, DeleteLinkLabel

\* networks.get() of delete_link.
LEMMA DlGetMoves ==
  ASSUME IInv, NEW p \in Proc, DlGet(p)
  PROVE  Moves(p)
<1> DEFINE l == [loc[p] EXCEPT !.nid = net[loc[p].pr].nid]
<1>1. pc[p] \in DeleteLinkLabel /\ pc[p] \in LinkLabel
  BY DEF DlGet, DeleteLinkLabel, LinkLabel
<1>2. net[loc[p].pr].nid \in Id \union {NoId} /\ loc[p] \in Local
  BY <1>1, LinkFacts, ThreadFacts DEF Network
<1>3. l \in Local /\ SameKeys(l, loc[p])
  BY <1>2 DEF Local, SameKeys
<1>4. DlReturn(p) \/ Goto(p, "dl_disc", l) \/ Goto(p, "dl_finish", loc[p])
  BY DEF DlGet
<1> HIDE DEF l
<1>5. CASE Goto(p, "dl_disc", l)
  BY <1>1, <1>3, <1>5, StaysInPhase DEF Phases, DeleteLinkLabel
<1>6. CASE Goto(p, "dl_finish", loc[p])
  BY <1>1, <1>6, GoesTo DEF Phases, DeleteLinkLabel
<1> QED
  BY <1>1, <1>4, <1>5, <1>6, ReturnMoves

\* disconnect(), remove() and the locked end of delete_link.
LEMMA DlEndMoves ==
  ASSUME IInv, NEW p \in Proc, DlDisconnect(p) \/ DlRemove(p) \/ DlFinish(p)
  PROVE  Moves(p)
<1>1. /\ pc[p] \in DeleteLinkLabel
      /\ \/ DlReturn(p)
         \/ \E label \in {"dl_remove", "dl_finish"} : Goto(p, label, loc[p])
  BY DEF DlDisconnect, DlRemove, DlFinish, Refusal, DeleteLinkLabel
<1> QED
  BY <1>1, GoesTo, ReturnMoves DEF Phases, DeleteLinkLabel

\* Removal of a stale container.
LEMMA CnStaleMoves ==
  ASSUME IInv, NEW p \in Proc, CnStale(p)
  PROVE  Moves(p)
<1>1. pc[p] \in CreateNodeLabel /\ (CnRaise(p) \/ Goto(p, "cn_dir", loc[p]))
  BY DEF CnStale, CreateNodeLabel
<1> QED
  BY <1>1, GoesTo, RaiseMoves DEF Phases, CreateNodeLabel

\* The configuration directory.
LEMMA CnDirMoves ==
  ASSUME IInv, NEW p \in Proc, CnDir(p)
  PROVE  Moves(p)
<1> DEFINE l == [loc[p] EXCEPT !.dir = TRUE]
<1>1. pc[p] \in CreateNodeLabel /\ loc[p] \in Local
  BY ThreadFacts DEF CnDir, CreateNodeLabel
<1>2. l \in Local /\ SameKeys(l, loc[p])
  BY <1>1 DEF Local, SameKeys
<1>3. CnRaise(p) \/ Goto(p, "cn_run", l)
  BY DEF CnDir
<1> HIDE DEF l
<1> QED
  BY <1>1, <1>2, <1>3, StaysInPhase, RaiseMoves DEF Phases, CreateNodeLabel

\* containers.run().
LEMMA CnRunMoves ==
  ASSUME IInv, NEW p \in Proc, CnRun(p)
  PROVE  Moves(p)
<1> DEFINE l == [loc[p] EXCEPT !.cid["a"] = loc[p].op]
<1>1. pc[p] \in CreateNodeLabel /\ loc[p] \in Local
  BY ThreadFacts DEF CnRun, CreateNodeLabel
<1>2. l \in Local /\ SameKeys(l, loc[p])
  BY <1>1 DEF Local, SameKeys
<1>3. CnRaise(p) \/ Goto(p, "cn_check", l)
  BY DEF CnRun
<1> HIDE DEF l
<1> QED
  BY <1>1, <1>2, <1>3, StaysInPhase, RaiseMoves DEF Phases, CreateNodeLabel

\* The status of the new container.
LEMMA CnCheckMoves ==
  ASSUME IInv, NEW p \in Proc, CnCheck(p)
  PROVE  Moves(p)
<1> DEFINE l(st) == [loc[p] EXCEPT !.st = st]
<1>1. pc[p] \in CreateNodeLabel /\ loc[p] \in Local
  BY ThreadFacts DEF CnCheck, CreateNodeLabel
<1>2. \A st \in {"running", "error"} : l(st) \in Local /\ SameKeys(l(st), loc[p])
  BY <1>1 DEF Local, SameKeys
<1>3. CnRaise(p) \/ \E st \in {"running", "error"} : Goto(p, "cn_commit", l(st))
  BY DEF CnCheck, StatusOfContainer
<1> HIDE DEF l
<1> QED
  BY <1>1, <1>2, <1>3, StaysInPhase, RaiseMoves DEF Phases, CreateNodeLabel

\* The rollback of create_node outside the lock.
LEMMA CnUndoMoves ==
  ASSUME IInv, NEW p \in Proc, CnUndo(p)
  PROVE  Moves(p)
<1>1. pc[p] \in CreateNodeLabel /\ Goto(p, "cn_unres", loc[p])
  BY DEF CnUndo, CreateNodeLabel
<1> QED
  BY <1>1, GoesTo DEF Phases, CreateNodeLabel

\* delete_node takes its next link, or none is left.
LEMMA DnNextMoves ==
  ASSUME IInv, NEW p \in Proc, DnNext(p)
  PROVE  Moves(p)
<1>1. /\ pc[p] \in DeleteNodeLabel /\ loc[p] \in Local /\ loc[p].n \in Node /\ TypeOK
      /\ loc[p].call = "delete_node"
  BY ThreadFacts DEF DnNext, DeleteNodeLabel, NodeLabel, LocalOK, IInv
<1> DEFINE rest(pr) == [loc[p] EXCEPT !.todo = @ \ {pr}]
<1>2. \A pr \in loc[p].todo : rest(pr) \in Local /\ SameKeys(rest(pr), loc[p]) /\ pr \in Pair
  BY <1>1 DEF Local, SameKeys
<1>3. \/ Goto(p, "dn_ctr", loc[p])
      \/ \E pr \in loc[p].todo : \/ links[pr] # NoId /\ Goto(p, "dl_ion", Victim(rest(pr), pr))
                                \/ Goto(p, "dn_next", rest(pr))
  BY DEF DnNext
<1> HIDE DEF rest
<1>4. CASE Goto(p, "dn_ctr", loc[p])
  BY <1>1, <1>4, GoesTo DEF Phases, DeleteNodeLabel
<1>5. ASSUME NEW pr \in loc[p].todo, Goto(p, "dn_next", rest(pr)) PROVE Moves(p)
  BY <1>1, <1>2, <1>5, StaysInPhase DEF Phases, DeleteNodeLabel
<1>6. ASSUME NEW pr \in loc[p].todo, links[pr] # NoId, Goto(p, "dl_ion", Victim(rest(pr), pr))
      PROVE  Moves(p)
  <2> DEFINE v == Victim(rest(pr), pr)
  <2>1. /\ v \in Local /\ v.pr \in Pair /\ v.lid = links[pr] /\ v.n \in Node
        /\ v.call = "delete_node" /\ v.n = loc[p].n /\ v.me = loc[p].me
    BY <1>1, <1>2, VictimFacts DEF SameKeys
  <2>2. links[pr] \in Id
    BY <1>1, <1>2, <1>6 DEF TypeOK
  <2>3. Goto(p, "dl_ion", v)
    BY <1>6
  <2> HIDE DEF v
  <2> QED
    BY <1>1, <2>1, <2>2, <2>3 DEF Moves, LocalOK, SameJob, SameTarget, Label, LinkLabel, NodeLabel,
       CreateLinkLabel, CreateNodeLabel, DeleteLinkLabel, DeleteNodeLabel, DeleteLabel
<1> QED
  BY <1>3, <1>4, <1>5, <1>6

\* The removal of the container, and the locked end of delete_node.
LEMMA DnEndMoves ==
  ASSUME IInv, NEW p \in Proc, DnContainer(p) \/ DnFinish(p)
  PROVE  Moves(p)
<1>1. pc[p] \in DeleteNodeLabel /\ (Finish(p) \/ Goto(p, "dn_finish", loc[p]))
  BY DEF DnContainer, DnFinish, DeleteNodeLabel
<1> QED
  BY <1>1, GoesTo, EndsDeletion DEF Phases, DeleteNodeLabel

-----------------------------------------------------------------------------
(* Types of what the steps compute *)

\* The address tables of the Node objects.
LEMMA IpsTyped ==
  ASSUME TypeOK, NEW refs, NEW pr \in Pair, NEW set \in BOOLEAN
  PROVE  WithIps(refs, pr, set) \in [Node -> NodeObject]
<1> SUFFICES ASSUME NEW n \in Node PROVE WithIps(refs, pr, set)[n] \in NodeObject
  BY DEF WithIps
<1>1. nodes[n] \in NodeObject
  BY DEF TypeOK
<1>2. /\ [nodes[n] EXCEPT !.ips = @ \union {pr}] \in NodeObject
      /\ [nodes[n] EXCEPT !.ips = @ \ {pr}] \in NodeObject
  BY <1>1 DEF NodeObject
<1> QED
  BY <1>1, <1>2 DEF WithIps

\* Endpoints come and go.
LEMMA NetTyped ==
  ASSUME TypeOK, NEW pr \in Pair, NEW n \in Node, NEW i, NEW ns
  PROVE  /\ Attached(pr, n) \in [Pair -> Network]
         /\ Disconnected(pr, i, ns) \in [Pair -> Network]
         /\ DetachedEverywhere(n) \in [Pair -> Network]
         /\ [net EXCEPT ![pr] = NoNetwork] \in [Pair -> Network]
<1>1. net \in [Pair -> Network] /\ net[pr] \in Network /\ NoNetwork \in Network
  BY NeutralTypes DEF TypeOK
<1>2. \A k \in Network : [k EXCEPT !.att = @ \union {n}] \in Network
  BY DEF Network
<1>3. \A k \in Network : \A set : [k EXCEPT !.att = @ \ set] \in Network
  BY DEF Network
<1>4. Attached(pr, n) \in [Pair -> Network]
  BY <1>1, <1>2 DEF Attached
<1>5. Disconnected(pr, i, ns) \in [Pair -> Network]
  BY <1>1, <1>3 DEF Disconnected
<1>6. DetachedEverywhere(n) \in [Pair -> Network]
  BY <1>1, <1>3 DEF DetachedEverywhere
<1>7. [net EXCEPT ![pr] = NoNetwork] \in [Pair -> Network]
  BY <1>1
<1> QED
  BY <1>4, <1>5, <1>6, <1>7

\* ION commands.
LEMMA IonTyped ==
  ASSUME NEW c \in Container, NEW peer \in Node, NEW duct \in Duct
  PROVE  /\ WithDuct(c, duct) \in Container
         /\ WithPlan(c, peer, duct) \in Container
         /\ WithoutPlan(c, peer) \in Container
         /\ WithoutDuct(c, duct) \in Container
<1>1. c.plans \in [Node -> Duct \union {NoDuct}]
  BY DEF Container
<1>2. WithDuct(c, duct) \in Container /\ WithoutDuct(c, duct) \in Container
  BY DEF Container, WithDuct, WithoutDuct
<1>3. WithPlan(c, peer, duct) \in Container
  BY <1>1 DEF Container, WithPlan
<1>4. WithoutPlan(c, peer) \in Container
  BY <1>1 DEF Container, WithoutPlan
<1> QED
  BY <1>2, <1>3, <1>4

\* One more fault, or none.
LEMMA FaultsTyped ==
  ASSUME TypeOK, NEW label, NoFault \/ Fails(label) \/ ReplyLost(label)
  PROVE  faults' \in 0..MaxFaults
BY BoundAssumption DEF TypeOK, NoFault, Fails, ReplyLost

\* A container with another ION state or life.
LEMMA ContainersTyped ==
  ASSUME TypeOK, NEW n \in Node, NEW c \in Container
  PROVE  [ctr EXCEPT ![n] = c] \in [Node -> Container]
BY DEF TypeOK

-----------------------------------------------------------------------------
(* Every step keeps the types of what the threads share                     *)

SharedOK ==
  /\ nodes \in [Node -> NodeObject]
  /\ cfgDir \in [Node -> Id \union {NoId}]
  /\ links \in [Pair -> Id \union {NoId}]
  /\ obj \in [Id -> LinkObject]
  /\ pool \in Pool
  /\ ctr \in [Node -> Container]
  /\ net \in [Pair -> Network]
  /\ disk \subseteq Node \X Id
  /\ started \in 0..MaxOps
  /\ faults \in 0..MaxFaults

\* A step that changes at most Docker's side.
LEMMA DockerFrame ==
  ASSUME TypeOK, NEW label, NoFault \/ Fails(label) \/ ReplyLost(label),
         UNCHANGED <<tableVars, disk, started>>,
         ctr' = ctr \/ ctr' \in [Node -> Container],
         net' = net \/ net' \in [Pair -> Network]
  PROVE  SharedOK'
<1>1. faults' \in 0..MaxFaults
  BY FaultsTyped
<1> QED
  BY <1>1 DEF TypeOK, SharedOK, tableVars

\* Steps that only look.
LEMMA LookShared ==
  ASSUME IInv, NEW p \in Proc,
         ClGet(p) \/ ClRace(p) \/ ClContainers(p) \/ ClReady(p) \/ DlGet(p) \/ CnCheck(p) \/ DnNext(p)
  PROVE  SharedOK'
<1>1. UNCHANGED <<tableVars, dockerVars, disk, started>>
      /\ \E label : NoFault \/ Fails(label) \/ ReplyLost(label)
  BY DEF ClGet, ClRace, ClContainers, ClReady, DlGet, CnCheck, DnNext, NoFault
<1> QED
  BY <1>1, DockerFrame DEF IInv, dockerVars

\* networks.create().
LEMMA ClNewShared ==
  ASSUME IInv, NEW p \in Proc, ClNew(p)
  PROVE  SharedOK'
<1> DEFINE k == [nid |-> loc[p].op, sub |-> loc[p].idx, att |-> {}]
<1>1. pc[p] \in LinkLabel /\ pc[p] \in CreateLinkLabel
  BY DEF ClNew, LinkLabel, CreateLinkLabel
<1>2. loc[p].op \in Id /\ loc[p].idx \in Index /\ loc[p].pr \in Pair /\ TypeOK
  BY <1>1, ThreadFacts, LinkFacts DEF LocalOK, IInv
<1>3. k \in Network
  BY <1>2 DEF Network
<1>4. /\ UNCHANGED <<tableVars, ctr, disk, started>>
      /\ \E label : NoFault \/ Fails(label) \/ ReplyLost(label)
      /\ net' = net \/ net' = [net EXCEPT ![loc[p].pr] = k]
  BY DEF ClNew
<1> HIDE DEF k
<1>5. net' \in [Pair -> Network]
  BY <1>2, <1>3, <1>4 DEF TypeOK
<1> QED
  BY <1>2, <1>4, <1>5, DockerFrame

\* Endpoints and networks that come and go.
LEMMA NetShared ==
  ASSUME IInv, NEW p \in Proc,
         ClConnect(p) \/ ClUndo(p) \/ ClUnnet(p) \/ DlDisconnect(p) \/ DlRemove(p)
  PROVE  SharedOK'
<1>1. pc[p] \in LinkLabel
  BY DEF ClConnect, ClUndo, ClUnnet, DlDisconnect, DlRemove, LinkLabel, CreateLinkLabel, DeleteLinkLabel
<1>2. loc[p].pr \in Pair /\ loc[p] \in Local /\ TypeOK
      /\ \A s \in Side : At(loc[p].pr, s) \in Node
  BY <1>1, ThreadFacts, LinkFacts DEF IInv
<1>3. At(loc[p].pr, loc[p].side) \in Node
  BY <1>2, SideFacts
<1>4. /\ UNCHANGED <<tableVars, ctr, disk, started>>
      /\ \E label : NoFault \/ Fails(label) \/ ReplyLost(label)
      /\ \/ net' = net
         \/ net' = Attached(loc[p].pr, At(loc[p].pr, loc[p].side))
         \/ \E i, ns : net' = Disconnected(loc[p].pr, i, ns)
         \/ net' = [net EXCEPT ![loc[p].pr] = NoNetwork]
  BY DEF ClConnect, ClUndo, ClUnnet, DlDisconnect, DlRemove
<1>5. net' = net \/ net' \in [Pair -> Network]
  BY <1>2, <1>3, <1>4, NetTyped
<1> QED
  BY <1>2, <1>4, <1>5, DockerFrame

\* ION commands of create_link.
LEMMA ClConfigShared ==
  ASSUME IInv, NEW p \in Proc, ClConfig(p)
  PROVE  SharedOK'
<1> DEFINE n == At(loc[p].pr, loc[p].side)
           m == At(loc[p].pr, Other(loc[p].side))
           d == <<loc[p].idx, Other(loc[p].side), loc[p].cl>>
<1>1. pc[p] \in LinkLabel /\ pc[p] = "cl_config"
  BY DEF ClConfig, LinkLabel, CreateLinkLabel
<1>2. loc[p] \in Local /\ TypeOK /\ loc[p].idx \in Index
  BY <1>1, ThreadFacts, LinkFacts DEF IInv
<1>3. n \in Node /\ m \in Node /\ ctr[n] \in Container
  BY <1>1, <1>2, SideFacts, LinkFacts
<1>4. d \in Duct
  <2>1. loc[p].cl \in CL
    BY <1>1, ThreadFacts DEF LocalOK, CreateLinkLabel
  <2> QED
    BY <1>2, <2>1, SideFacts DEF Duct
<1>5. /\ UNCHANGED <<tableVars, net, disk, started>>
      /\ \E label : NoFault \/ Fails(label) \/ ReplyLost(label)
      /\ ctr' = ctr \/ \E k \in 0..2 : ctr' = [ctr EXCEPT ![n] = ConfiguredUpTo(k, @, m, d)]
  BY DEF ClConfig
<1> HIDE DEF n, m, d
<1>6. ASSUME NEW k \in 0..2 PROVE ConfiguredUpTo(k, ctr[n], m, d) \in Container
  <2>1. WithDuct(ctr[n], d) \in Container
    BY <1>3, <1>4, IonTyped
  <2>2. WithPlan(WithDuct(ctr[n], d), m, d) \in Container
    BY <1>3, <1>4, <2>1, IonTyped
  <2>3. k = 0 \/ k = 1 \/ k = 2
    OBVIOUS
  <2> QED
    BY <1>3, <2>1, <2>2, <2>3 DEF ConfiguredUpTo
<1>7. ctr' = ctr \/ ctr' \in [Node -> Container]
  BY <1>2, <1>3, <1>5, <1>6 DEF TypeOK
<1> QED
  BY <1>2, <1>5, <1>7, DockerFrame

\* ION commands of delete_link.
LEMMA DlIonShared ==
  ASSUME IInv, NEW p \in Proc, DlIon(p)
  PROVE  SharedOK'
<1> DEFINE i == IF loc[p].side = "a" THEN obj[loc[p].lid].idx ELSE loc[p].idx
           n == At(loc[p].pr, loc[p].side)
           m == At(loc[p].pr, Other(loc[p].side))
           d == <<i, Other(loc[p].side), "tcp">>
           c == WithoutPlan(ctr[n], m)
<1>1. pc[p] \in LinkLabel /\ pc[p] \in DeleteLinkLabel
  BY DEF DlIon, LinkLabel, DeleteLinkLabel
<1>2. loc[p] \in Local /\ TypeOK
  BY ThreadFacts DEF IInv
<1>3. n \in Node /\ m \in Node /\ ctr[n] \in Container
  BY <1>1, <1>2, SideFacts, LinkFacts
<1>4. /\ UNCHANGED <<tableVars, net, disk, started>>
      /\ \E label : NoFault \/ Fails(label) \/ ReplyLost(label)
      /\ ctr' \in {ctr, [ctr EXCEPT ![n] = ctr[n]], [ctr EXCEPT ![n] = c],
                 [ctr EXCEPT ![n] = WithoutDuct(c, d)]}
  BY <1>2 DEF DlIon, DuctDropped, Local
<1> HIDE DEF i, n, m, d
<1>5. c \in Container
  <2>1. ctr[n].plans \in [Node -> Duct \union {NoDuct}]
    BY <1>3 DEF Container
  <2> QED
    BY <1>3, <2>1 DEF Container, WithoutPlan
<1> HIDE DEF c
<1>6. WithoutDuct(c, d) \in Container
  BY <1>5 DEF Container, WithoutDuct
<1>7. ctr' = ctr \/ ctr' \in [Node -> Container]
  BY <1>2, <1>3, <1>4, <1>5, <1>6, ContainersTyped
<1> QED
  BY <1>2, <1>4, <1>7, DockerFrame

\* Containers that are started or removed.
LEMMA ContainerShared ==
  ASSUME IInv, NEW p \in Proc, CnStale(p) \/ CnRun(p) \/ DnContainer(p)
  PROVE  SharedOK'
<1> DEFINE n == loc[p].n
<1>1. n \in Node /\ loc[p] \in Local /\ TypeOK
  BY ThreadFacts DEF CnStale, CnRun, DnContainer, LocalOK, NodeLabel, CreateNodeLabel,
     DeleteNodeLabel, IInv
<1>2. FreshContainer(loc[p].op) \in Container /\ NoContainer \in Container
  BY <1>1, NeutralTypes DEF FreshContainer, Container, Local
<1>3. /\ UNCHANGED <<tableVars, disk, started>>
      /\ \E label : NoFault \/ Fails(label) \/ ReplyLost(label)
      /\ ctr' = ctr \/ ctr' = [ctr EXCEPT ![n] = NoContainer]
                    \/ ctr' = [ctr EXCEPT ![n] = FreshContainer(loc[p].op)]
      /\ net' = net \/ net' = DetachedEverywhere(n)
  BY DEF CnStale, CnRun, DnContainer, RemoveContainer, dockerVars
<1> HIDE DEF n
<1>4. DetachedEverywhere(n) \in [Pair -> Network]
  <2>1. \A k \in Network : \A set : [k EXCEPT !.att = @ \ set] \in Network
    BY DEF Network
  <2> QED
    BY <1>1, <2>1 DEF DetachedEverywhere, TypeOK
<1>5. ctr' = ctr \/ ctr' \in [Node -> Container]
  BY <1>1, <1>2, <1>3, ContainersTyped
<1> QED
  BY <1>1, <1>3, <1>4, <1>5, DockerFrame

\* A locked section that ends create_link.
LEMMA LinkTablesShared ==
  ASSUME IInv, NEW p \in Proc, ClCommit(p) \/ ClUnreserve(p) \/ DlFinish(p) \/ ClAdopt(p)
  PROVE  SharedOK'
<1> DEFINE pr == loc[p].pr
<1>1. pc[p] \in LinkLabel
  BY DEF ClCommit, ClUnreserve, DlFinish, ClAdopt, LinkLabel, CreateLinkLabel, DeleteLinkLabel
<1>2. TypeOK /\ loc[p] \in Local /\ pr \in Pair /\ links[pr] \in Id \union {NoId}
      /\ loc[p].idx \in Index /\ loc[p].real \in Index
  BY <1>1, ThreadFacts, LinkFacts DEF IInv, Local
<1>3. /\ IpsSet(loc[p].ref, pr) \in [Node -> NodeObject]
      /\ IpsPopped(loc[p].ref, pr) \in [Node -> NodeObject]
  BY <1>2, IpsTyped DEF IpsSet, IpsPopped
<1>4. [links EXCEPT ![pr] = NoId] \in [Pair -> Id \union {NoId}]
  BY <1>2 DEF TypeOK
<1>5. pool \in Pool /\ \A x \in Index : Released(pool, x) \in Pool
  BY <1>2, ReleasedEffect DEF TypeOK
<1>6. CASE ClCommit(p)
  <2> DEFINE new(i) == [obj[i] EXCEPT !.named = TRUE, !.nid = loc[p].nid,
                                     !.idx = loc[p].idx, !.st = LinkStatus(loc[p])]
  <2>1. \A i \in Id : new(i) \in LinkObject
    <3>1. LinkStatus(loc[p]) \in {"up", "error"} /\ loc[p].nid \in Id \union {NoId}
      BY <1>2 DEF LinkStatus, Local
    <3>2. \A i \in Id : obj[i] \in LinkObject
      BY <1>2 DEF TypeOK
    <3> QED
      BY <1>2, <3>1, <3>2 DEF LinkObject
  <2>2. /\ UNCHANGED <<cfgDir, links, pool, ctr, net, disk, started, faults>>
        /\ nodes' = IpsSet(loc[p].ref, pr)
        /\ \/ obj' = obj
           \/ links[pr] # NoId /\ obj' = [obj EXCEPT ![links[pr]] = new(links[pr])]
    BY <1>6 DEF ClCommit, dockerVars
  <2> HIDE DEF pr, new
  <2>3. obj' \in [Id -> LinkObject]
    BY <1>2, <2>1, <2>2 DEF TypeOK
  <2> QED
    BY <1>2, <1>3, <2>2, <2>3 DEF TypeOK, SharedOK
<1>7. CASE ClUnreserve(p)
  <2> HIDE DEF pr
  <2>1. /\ UNCHANGED <<cfgDir, obj, ctr, net, disk, started, faults>>
        /\ nodes' = IpsPopped(loc[p].ref, pr)
        /\ links' = [links EXCEPT ![pr] = NoId]
        /\ pool' = Released(pool, loc[p].idx)
    BY <1>7 DEF ClUnreserve, ReturnedByRollback, dockerVars, pr
  <2> QED
    BY <1>2, <1>3, <1>4, <1>5, <2>1 DEF TypeOK, SharedOK
<1>8. CASE DlFinish(p)
  <2>1. obj[loc[p].lid].idx \in Index
    BY <1>2, <1>8, ThreadFacts DEF DlFinish, LocalOK, DeleteLinkLabel, TypeOK, LinkObject
  <2> HIDE DEF pr
  <2>2. /\ UNCHANGED <<cfgDir, obj, ctr, net, disk, started, faults>>
        /\ nodes' = IpsPopped(loc[p].ref, pr)
        /\ links' = [links EXCEPT ![pr] = NoId]
        /\ pool' = Released(pool, obj[loc[p].lid].idx)
    BY <1>8 DEF DlFinish, dockerVars, pr
  <2> QED
    BY <1>2, <1>3, <1>4, <1>5, <2>1, <2>2 DEF TypeOK, SharedOK
<1>9. CASE ClAdopt(p)
  <2>1. /\ UNCHANGED <<nodes, cfgDir, links, obj, ctr, net, disk, started, faults>>
        /\ pool' = Reserved(Released(pool, loc[p].idx), loc[p].real)
    BY <1>9 DEF ClAdopt, Adopted, dockerVars, nodeTables
  <2>2. {loc[p].real} \subseteq Index /\ Released(pool, loc[p].idx) \in Pool
    BY <1>2, <1>5
  <2>3. pool' \in Pool
    BY <2>1, <2>2, FromLiveEffect DEF Reserved
  <2> QED
    BY <1>2, <2>1, <2>3 DEF TypeOK, SharedOK
<1> QED
  BY <1>6, <1>7, <1>8, <1>9

\* Node tables and directories.
LEMMA NodeTablesShared ==
  ASSUME IInv, NEW p \in Proc,
         CnDir(p) \/ CnUndo(p) \/ CnCommit(p) \/ CnUnreserve(p) \/ DnFinish(p)
  PROVE  SharedOK'
<1> DEFINE n == loc[p].n
<1>1. n \in Node /\ loc[p] \in Local /\ TypeOK
  BY ThreadFacts DEF CnDir, CnUndo, CnCommit, CnUnreserve, DnFinish, LocalOK, NodeLabel,
     CreateNodeLabel, DeleteNodeLabel, IInv
<1>2. NoNode \in NodeObject /\ NoContainer \in Container
  BY NeutralTypes
<1>3. CASE CnDir(p)
  <2>1. loc[p].op \in Id
    BY <1>3, ThreadFacts DEF CnDir, LocalOK, CreateNodeLabel
  <2>2. UNCHANGED <<tableVars, ctr, net, started>> /\ faults' \in 0..MaxFaults
    BY <1>1, <1>3, FaultsTyped DEF CnDir, dockerVars
  <2>3. disk' \subseteq disk \union {<<n, loc[p].op>>}
    BY <1>3 DEF CnDir, DirsAfterMake
  <2> QED
    BY <1>1, <2>1, <2>2, <2>3 DEF TypeOK, SharedOK, tableVars
<1>4. CASE CnUndo(p)
  <2>1. /\ UNCHANGED <<tableVars, started>> /\ faults' \in 0..MaxFaults
        /\ disk' \subseteq disk
    BY <1>1, <1>4, FaultsTyped DEF CnUndo
  <2>2. \/ UNCHANGED <<ctr, net>>
        \/ ctr' = [ctr EXCEPT ![n] = NoContainer] /\ net' = DetachedEverywhere(n)
    BY <1>4 DEF CnUndo, RemoveContainer, dockerVars
  <2> HIDE DEF n
  <2>3. DetachedEverywhere(n) \in [Pair -> Network]
    <3>1. \A k \in Network : \A set : [k EXCEPT !.att = @ \ set] \in Network
      BY DEF Network
    <3> QED
      BY <1>1, <3>1 DEF DetachedEverywhere, TypeOK
  <2>4. ctr' \in [Node -> Container] /\ net' \in [Pair -> Network]
    BY <1>1, <1>2, <2>2, <2>3 DEF TypeOK
  <2> QED
    BY <1>1, <2>1, <2>4 DEF TypeOK, SharedOK, tableVars
<1>5. CASE CnCommit(p)
  <2> DEFINE new == [ref |-> [op |-> loc[p].op, named |-> TRUE], st |-> loc[p].st, ips |-> {}]
  <2>1. new \in NodeObject /\ loc[p].op \in Id \union {NoId}
    BY <1>1 DEF NodeObject, Ref, Local
  <2>2. /\ UNCHANGED <<links, obj, pool, ctr, net, disk, started, faults>>
        /\ nodes' = [nodes EXCEPT ![n] = new]
        /\ cfgDir' = [cfgDir EXCEPT ![n] = loc[p].op]
    BY <1>5 DEF CnCommit, nodeOpUnchanged, dockerVars
  <2> HIDE DEF n, new
  <2> QED
    BY <1>1, <2>1, <2>2 DEF TypeOK, SharedOK
<1>6. CASE CnUnreserve(p) \/ DnFinish(p)
  <2>1. /\ UNCHANGED <<links, obj, pool, ctr, net, started, faults>>
        /\ disk' \subseteq disk
        /\ nodes' = [nodes EXCEPT ![n] = NoNode]
        /\ cfgDir' = [cfgDir EXCEPT ![n] = NoId]
    BY <1>6 DEF CnUnreserve, DnFinish, nodeOpUnchanged, dockerVars
  <2> HIDE DEF n
  <2> QED
    BY <1>1, <1>2, <2>1 DEF TypeOK, SharedOK
<1> QED
  BY <1>3, <1>4, <1>5, <1>6

-----------------------------------------------------------------------------
(* The first step of each call                                              *)

\* create_link: a reservation with its placeholder, or no subnet is left.
LEMMA CreateLinkStep ==
  ASSUME IInv, NEW p \in Proc, NEW pr \in Pair, NEW cl \in CL, CreateLink(p, pr, cl)
  PROVE  IInv'
<1> DEFINE r == [s \in Side |-> nodes[At(pr, s)].ref]
           l == [NoLocal EXCEPT !.op = NewId, !.call = "create_link", !.pr = pr, !.cl = cl,
                                !.idx = Issued(pool), !.ref = r]
           k == [idx |-> Issued(pool), named |-> FALSE, nid |-> NoId, cl |-> cl, st |-> "down"]
<1>1. TypeOK /\ pool \in Pool /\ started < MaxOps /\ started' \in 0..MaxOps
  BY BoundAssumption DEF IInv, TypeOK, CreateLink, Begin
<1>2. NewId \in Id
  BY <1>1, NewIdIsId
<1>3. UNCHANGED <<nodes, cfgDir, ctr, net, disk, faults>> /\ pool' = Allocated(pool)
  BY DEF CreateLink, nodeTables, dockerVars
<1>4. CASE Exhausted(pool)
  <2>1. pool' \in Pool
    BY <1>1, <1>3, <1>4, RefusedEffect
  <2>2. UNCHANGED <<links, obj, pc, loc>>
    BY <1>4 DEF CreateLink
  <2> QED
    BY <1>1, <1>3, <2>1, <2>2 DEF IInv, TypeOK
<1>5. CASE ~Exhausted(pool)
  <2>1. pool' \in Pool /\ Issued(pool) \in Index
    BY <1>1, <1>3, <1>5, AllocatedEffect
  <2>2. r \in [Side -> Ref]
    BY <1>1, PairAssumption DEF TypeOK, At, Side, NodeObject
  <2>3. links' = [links EXCEPT ![pr] = NewId] /\ obj' = [obj EXCEPT ![NewId] = k]
    BY <1>5 DEF CreateLink
  <2>4. Goto(p, "cl_get", l)
    BY <1>5 DEF CreateLink
  <2> HIDE DEF r
  <2>5. l \in Local
    <3>1. NoLocal \in Local /\ "create_link" \in Operation
      BY NeutralTypes DEF Operation
    <3> QED
      BY <1>2, <2>1, <2>2, <3>1 DEF Local
  <2>6. l.pr = pr /\ l.op = NewId /\ l.cl = cl /\ l.call = "create_link"
    BY DEF NoLocal
  <2>7. k \in LinkObject
    BY <2>1 DEF LinkObject
  <2> HIDE DEF l, k
  <2>8. LocalOK("cl_get", l) /\ "cl_get" \in Label
    BY <1>2, <2>6 DEF LocalOK, Label, LinkLabel, NodeLabel, CreateLinkLabel, CreateNodeLabel,
       DeleteLinkLabel, DeleteNodeLabel, DeleteLabel
  <2>9. /\ pc' \in [Proc -> Label] /\ loc' \in [Proc -> Local]
        /\ \A q \in Proc : LocalOK(pc'[q], loc'[q])
    BY <2>4, <2>5, <2>8, GotoKeepsThreads
  <2>10. links' \in [Pair -> Id \union {NoId}] /\ obj' \in [Id -> LinkObject]
    BY <1>1, <1>2, <2>3, <2>7 DEF TypeOK
  <2> QED
    BY <1>1, <1>3, <2>1, <2>9, <2>10 DEF IInv, TypeOK
<1> QED
  BY <1>4, <1>5

\* delete_link: the lookup.
LEMMA DeleteLinkStep ==
  ASSUME IInv, NEW p \in Proc, NEW pr \in Pair, DeleteLink(p, pr)
  PROVE  IInv'
<1> DEFINE m == [NoLocal EXCEPT !.call = "delete_link"]
           l == Victim(m, pr)
<1>1. TypeOK /\ started' \in 0..MaxOps /\ UNCHANGED <<tableVars, ctr, net, disk, faults>>
  BY BoundAssumption DEF IInv, TypeOK, DeleteLink, Begin, dockerVars
<1>2. m \in Local /\ m.call = "delete_link"
  <2>1. NoLocal \in Local /\ "delete_link" \in Operation
    BY NeutralTypes DEF Operation
  <2> QED
    BY <2>1 DEF Local
<1>3. Goto(p, "dl_ion", l) /\ links[pr] \in Id
  BY <1>1 DEF DeleteLink, TypeOK
<1> HIDE DEF m
<1>4. l \in Local /\ l.pr = pr /\ l.lid = links[pr] /\ l.call = "delete_link"
  BY <1>1, <1>2, VictimFacts
<1> HIDE DEF l
<1>5. LocalOK("dl_ion", l) /\ "dl_ion" \in Label
  BY <1>3, <1>4 DEF LocalOK, Label, LinkLabel, NodeLabel, CreateLinkLabel, CreateNodeLabel,
     DeleteLinkLabel, DeleteNodeLabel, DeleteLabel
<1>6. /\ pc' \in [Proc -> Label] /\ loc' \in [Proc -> Local]
      /\ \A q \in Proc : LocalOK(pc'[q], loc'[q])
  BY <1>3, <1>4, <1>5, GotoKeepsThreads
<1> QED
  BY <1>1, <1>6 DEF IInv, TypeOK, tableVars

\* create_node: the reservation.
LEMMA CreateNodeStep ==
  ASSUME IInv, NEW p \in Proc, NEW n \in Node, CreateNode(p, n)
  PROVE  IInv'
<1> DEFINE l == [NoLocal EXCEPT !.op = NewId, !.call = "create_node", !.n = n]
           new == [ref |-> [op |-> NewId, named |-> FALSE], st |-> "creating", ips |-> {}]
<1>1. /\ TypeOK /\ started < MaxOps /\ started' \in 0..MaxOps
      /\ UNCHANGED <<cfgDir, links, obj, pool, ctr, net, disk, faults>>
      /\ nodes' = [nodes EXCEPT ![n] = new] /\ Goto(p, "cn_stale", l)
  BY BoundAssumption DEF IInv, TypeOK, CreateNode, Begin, nodeOpUnchanged, dockerVars
<1>2. NewId \in Id /\ NoLocal \in Local /\ "create_node" \in Operation
  BY <1>1, NewIdIsId, NeutralTypes DEF Operation
<1>3. new \in NodeObject
  BY <1>2 DEF NodeObject, Ref
<1>4. l \in Local /\ l.n = n /\ l.op = NewId /\ l.call = "create_node"
  BY <1>2 DEF Local
<1> HIDE DEF l, new
<1>5. LocalOK("cn_stale", l) /\ "cn_stale" \in Label
  BY <1>2, <1>4 DEF LocalOK, Label, LinkLabel, NodeLabel, CreateLinkLabel, CreateNodeLabel,
     DeleteLinkLabel, DeleteNodeLabel, DeleteLabel
<1>6. /\ pc' \in [Proc -> Label] /\ loc' \in [Proc -> Local]
      /\ \A q \in Proc : LocalOK(pc'[q], loc'[q])
  BY <1>1, <1>4, <1>5, GotoKeepsThreads
<1> QED
  BY <1>1, <1>3, <1>6 DEF IInv, TypeOK

\* delete_node: the lookup.
LEMMA DeleteNodeStep ==
  ASSUME IInv, NEW p \in Proc, NEW n \in Node, DeleteNode(p, n)
  PROVE  IInv'
<1> DEFINE l == Resumed(NoLocal, n, nodes[n].ref, ConnectedLinks(n))
<1>1. /\ TypeOK /\ started' \in 0..MaxOps /\ UNCHANGED <<tableVars, ctr, net, disk, faults>>
      /\ Goto(p, "dn_next", l)
  BY BoundAssumption DEF IInv, TypeOK, DeleteNode, Begin, dockerVars, Resumed
<1>2. nodes[n].ref \in Ref /\ ConnectedLinks(n) \in SUBSET Pair /\ NoLocal \in Local
  BY <1>1, NeutralTypes DEF TypeOK, NodeObject, ConnectedLinks, LinkNames
<1>3. l \in Local /\ l.n = n /\ l.call = "delete_node"
  BY <1>2, ResumedFacts
<1> HIDE DEF l
<1>4. LocalOK("dn_next", l) /\ "dn_next" \in Label
  BY <1>3 DEF LocalOK, Label, LinkLabel, NodeLabel, CreateLinkLabel, CreateNodeLabel,
     DeleteLinkLabel, DeleteNodeLabel, DeleteLabel
<1>5. /\ pc' \in [Proc -> Label] /\ loc' \in [Proc -> Local]
      /\ \A q \in Proc : LocalOK(pc'[q], loc'[q])
  BY <1>1, <1>3, <1>4, GotoKeepsThreads
<1> QED
  BY <1>1, <1>5 DEF IInv, TypeOK, tableVars

-----------------------------------------------------------------------------
(* The environment, and the theorem on types                                *)

\* Containers that exit and networks that another process makes.
LEMMA EnvironmentShared ==
  ASSUME IInv,
         \/ \E n \in Node : ContainerExits(n)
         \/ \E pr \in Pair, idx \in Index : OtherWriter(pr, idx)
  PROVE  SharedOK' /\ UNCHANGED <<pc, loc>>
<1>1. TypeOK
  BY DEF IInv
<1>2. ASSUME NEW n \in Node, ContainerExits(n) PROVE SharedOK' /\ UNCHANGED <<pc, loc>>
  <2> DEFINE c == [NoContainer EXCEPT !.cid = ctr[n].cid]
  <2>1. NoContainer \in Container /\ ctr[n] \in Container
    BY <1>1, NeutralTypes DEF TypeOK
  <2>2. c \in Container
    BY <2>1 DEF Container
  <2>3. /\ UNCHANGED <<tableVars, disk, pc, loc, started>> /\ Fails("exit")
        /\ ctr' = [ctr EXCEPT ![n] = c] /\ net' = DetachedEverywhere(n)
    BY <1>2 DEF ContainerExits
  <2> HIDE DEF c
  <2>4. net' \in [Pair -> Network]
    <3>1. \A k \in Network : \A set : [k EXCEPT !.att = @ \ set] \in Network
      BY DEF Network
    <3> QED
      BY <1>1, <2>3, <3>1 DEF DetachedEverywhere, TypeOK
  <2>5. ctr' \in [Node -> Container]
    BY <1>1, <2>2, <2>3, ContainersTyped
  <2> QED
    BY <1>1, <2>3, <2>4, <2>5, DockerFrame
<1>3. ASSUME NEW pr \in Pair, NEW idx \in Index, OtherWriter(pr, idx)
      PROVE  SharedOK' /\ UNCHANGED <<pc, loc>>
  <2> DEFINE k == [nid |-> Boot, sub |-> idx, att |-> {}]
  <2>1. k \in Network
    BY BoundAssumption DEF Network, Id, Boot
  <2>2. /\ UNCHANGED <<tableVars, ctr, disk, pc, loc, started>> /\ Fails("writer")
        /\ net' = [net EXCEPT ![pr] = k]
    BY <1>3 DEF OtherWriter
  <2> HIDE DEF k
  <2>3. net' \in [Pair -> Network]
    BY <1>1, <2>1, <2>2 DEF TypeOK
  <2> QED
    BY <1>1, <2>2, <2>3, DockerFrame
<1> QED
  BY <1>2, <1>3

\* Every step of a thread keeps the invariant.
LEMMA StepKeepsIInv ==
  ASSUME IInv, NEW p \in Proc, Step(p)
  PROVE  IInv'
<1>1. SharedOK'
  BY LookShared, ClNewShared, NetShared, ClConfigShared, DlIonShared, ContainerShared,
     LinkTablesShared, NodeTablesShared DEF Step, LinkStep, NodeStep
<1>2. /\ pc' \in [Proc -> Label] /\ loc' \in [Proc -> Local]
      /\ \A q \in Proc : LocalOK(pc'[q], loc'[q])
  <2>1. CASE ClCommit(p) \/ ClUnreserve(p) \/ CnCommit(p) \/ CnUnreserve(p)
    <3>1. Finish(p) \/ (pc[p] \in CreateLinkLabel /\ Undo(p))
      BY <2>1 DEF ClCommit, ClUnreserve, CnCommit, CnUnreserve, CreateLinkLabel
    <3> QED
      BY <3>1, FinishKeepsThreads, UndoMoves, MoveKeepsThreads
  <2>2. CASE ~ (ClCommit(p) \/ ClUnreserve(p) \/ CnCommit(p) \/ CnUnreserve(p))
    <3>1. Moves(p)
      BY <2>2, ClGetMoves, ClNewMoves, ClAdoptMoves, ClContainersMoves, ClConnectMoves,
         ClReadyMoves, ClConfigMoves, ClUndoMoves, DlIonMoves, DlGetMoves, DlEndMoves,
         CnStaleMoves, CnDirMoves, CnRunMoves, CnCheckMoves, CnUndoMoves, DnNextMoves,
         DnEndMoves DEF Step, LinkStep, NodeStep
    <3> QED
      BY <3>1, MoveKeepsThreads
  <2> QED
    BY <2>1, <2>2
<1> QED
  BY <1>1, <1>2 DEF IInv, TypeOK, SharedOK

\* The start is sound.
LEMMA InitIInv == Init => IInv
<1> SUFFICES ASSUME Init PROVE IInv
  OBVIOUS
<1>1. /\ NoLocal \in Local /\ NoNode \in NodeObject /\ NoContainer \in Container
      /\ NoNetwork \in Network /\ NoLink \in LinkObject /\ EmptyPool \in Pool
  BY NeutralTypes
<1>2. Boot \in Id /\ BootNodes \subseteq Node
  BY BoundAssumption, NodeAssumption DEF Boot, Id
<1>3. [ref |-> [op |-> Boot, named |-> TRUE], st |-> "running", ips |-> {}] \in NodeObject
  BY <1>2 DEF NodeObject, Ref
<1>4. FreshContainer(Boot) \in Container
  BY <1>1, <1>2 DEF FreshContainer, Container
<1>5. "idle" \in Label /\ LocalOK("idle", NoLocal)
  <2>1. NoLocal.call = ""
    BY DEF NoLocal
  <2> QED
    BY <2>1 DEF LocalOK, Label, LinkLabel, NodeLabel, CreateLinkLabel, CreateNodeLabel,
       DeleteLinkLabel, DeleteNodeLabel, DeleteLabel
<1>6. /\ nodes \in [Node -> NodeObject] /\ cfgDir \in [Node -> Id \union {NoId}]
      /\ links \in [Pair -> Id \union {NoId}] /\ obj \in [Id -> LinkObject] /\ pool \in Pool
  BY <1>1, <1>2, <1>3 DEF Init
<1>7. /\ ctr \in [Node -> Container] /\ net \in [Pair -> Network] /\ disk \subseteq Node \X Id
  BY <1>1, <1>2, <1>4 DEF Init
<1>8. /\ pc \in [Proc -> Label] /\ loc \in [Proc -> Local]
      /\ started \in 0..MaxOps /\ faults \in 0..MaxFaults
      /\ \A p \in Proc : LocalOK(pc[p], loc[p])
  BY <1>1, <1>5, BoundAssumption DEF Init
<1> QED
  BY <1>6, <1>7, <1>8 DEF IInv, TypeOK

\* Every step of the system keeps the invariant.
LEMMA NextKeepsIInv == IInv /\ [Next]_vars => IInv'
<1> SUFFICES ASSUME IInv, [Next]_vars PROVE IInv'
  OBVIOUS
<1>1. CASE UNCHANGED vars
  BY <1>1 DEF vars, IInv, TypeOK
<1>2. ASSUME NEW p \in Proc, Step(p) PROVE IInv'
  BY <1>2, StepKeepsIInv
<1>3. ASSUME NEW p \in Proc, Call(p) PROVE IInv'
  BY <1>3, CreateLinkStep, DeleteLinkStep, CreateNodeStep, DeleteNodeStep
     DEF Call, LinkCall, NodeCall
<1>4. CASE \/ \E n \in Node : ContainerExits(n)
           \/ \E pr \in Pair, idx \in Index : OtherWriter(pr, idx)
  <2>1. SharedOK' /\ UNCHANGED <<pc, loc>>
    BY <1>4, EnvironmentShared
  <2> QED
    BY <2>1 DEF IInv, TypeOK, SharedOK
<1> QED
  BY <1>1, <1>2, <1>3, <1>4 DEF Next

\* Threads only use pairs, nodes and Link objects that exist for them, and the
\* types hold, in every reachable state (docker_manager.py:67-85).
THEOREM InvariantHolds == Spec => []IInv
<1> QED
  BY InitIInv, NextKeepsIInv, PTL DEF Spec

\* For any parameters, the shared state and the threads' locals keep their types:
\* no step of any operation, or of its error handling, works on a link or node
\* that is none (docker_manager.py:241-583).
THEOREM TypeCorrect == Spec => []TypeOK
<1>1. IInv => TypeOK
  BY DEF IInv
<1> QED
  BY <1>1, InvariantHolds, PTL

-----------------------------------------------------------------------------
(* No reservation outlives its call. Given the types, the property is        *)
(* inductive: a step makes a placeholder only together with the thread that  *)
(* creates it, and a creator ends its call only in a step that commits or    *)
(* takes out what the table holds under its link or node.                    *)

\* Links and nodes are reserved after a step only if they were before.
NoNewPlaceholder ==
  /\ \A pr \in Pair : Uncommitted(pr)' => Uncommitted(pr) /\ links'[pr] = links[pr]
  /\ \A n \in Node : Unfinished(n)' => Unfinished(n) /\ nodes'[n].ref = nodes[n].ref

\* The table holds Link objects of calls that have begun.
OnlyPast == \A pr \in Pair : links[pr] <= started + 1

\* A thread that moves goes on with what it has reserved.
LEMMA MoveKeepsCreators ==
  ASSUME IInv, NoOrphanPlaceholder, NEW p \in Proc, Moves(p), NoNewPlaceholder
  PROVE  NoOrphanPlaceholder'
<1>1. PICK label \in Label, l \in Local : Goto(p, label, l) /\ SameJob(p, label, l)
  BY DEF Moves
<1>2. pc \in [Proc -> Label] /\ loc \in [Proc -> Local]
  BY DEF IInv, TypeOK
<1>3. pc'[p] = label /\ loc'[p] = l /\ \A q \in Proc \ {p} : pc'[q] = pc[q] /\ loc'[q] = loc[q]
  BY <1>1, <1>2 DEF Goto
<1>4. ASSUME NEW pr \in Pair, Uncommitted(pr)'
      PROVE  \E q \in Proc : pc'[q] \in CreateLinkLabel /\ loc'[q].pr = pr /\ loc'[q].op = links'[pr]
  <2>1. Uncommitted(pr) /\ links'[pr] = links[pr]
    BY <1>4 DEF NoNewPlaceholder
  <2>2. PICK q \in Proc : pc[q] \in CreateLinkLabel /\ loc[q].pr = pr /\ loc[q].op = links[pr]
    BY <2>1 DEF NoOrphanPlaceholder
  <2>3. pc'[q] \in CreateLinkLabel /\ loc'[q].pr = pr /\ loc'[q].op = links[pr]
    BY <1>1, <1>3, <2>2 DEF SameJob
  <2> QED
    BY <2>1, <2>3
<1>5. ASSUME NEW n \in Node, Unfinished(n)'
      PROVE  \E q \in Proc : /\ pc'[q] \in CreateNodeLabel /\ loc'[q].n = n
                            /\ loc'[q].op = nodes'[n].ref.op
  <2>1. Unfinished(n) /\ nodes'[n].ref = nodes[n].ref
    BY <1>5 DEF NoNewPlaceholder
  <2>2. PICK q \in Proc : pc[q] \in CreateNodeLabel /\ loc[q].n = n /\ loc[q].op = nodes[n].ref.op
    BY <2>1 DEF NoOrphanPlaceholder
  <2>3. pc'[q] \in CreateNodeLabel /\ loc'[q].n = n /\ loc'[q].op = nodes[n].ref.op
    BY <1>1, <1>3, <2>2 DEF SameJob
  <2> QED
    BY <2>1, <2>3
<1> QED
  BY <1>4, <1>5 DEF NoOrphanPlaceholder

\* A thread may go anywhere once what it had reserved is no placeholder.
LEMMA EndKeepsCreators ==
  ASSUME IInv, NoOrphanPlaceholder, NEW p \in Proc, NEW label, NEW l, Goto(p, label, l),
         NoNewPlaceholder,
         \A pr \in Pair : pc[p] \in CreateLinkLabel /\ loc[p].pr = pr => ~ Uncommitted(pr)',
         \A n \in Node : pc[p] \in CreateNodeLabel /\ loc[p].n = n => ~ Unfinished(n)'
  PROVE  NoOrphanPlaceholder'
<1>1. pc \in [Proc -> Label] /\ loc \in [Proc -> Local]
  BY DEF IInv, TypeOK
<1>2. \A q \in Proc \ {p} : pc'[q] = pc[q] /\ loc'[q] = loc[q]
  BY <1>1 DEF Goto
<1>3. ASSUME NEW pr \in Pair, Uncommitted(pr)'
      PROVE  \E q \in Proc : pc'[q] \in CreateLinkLabel /\ loc'[q].pr = pr /\ loc'[q].op = links'[pr]
  <2>1. Uncommitted(pr) /\ links'[pr] = links[pr]
    BY <1>3 DEF NoNewPlaceholder
  <2>2. PICK q \in Proc : pc[q] \in CreateLinkLabel /\ loc[q].pr = pr /\ loc[q].op = links[pr]
    BY <2>1 DEF NoOrphanPlaceholder
  <2>3. q # p
    BY <1>3, <2>2
  <2> QED
    BY <1>2, <2>1, <2>2, <2>3
<1>4. ASSUME NEW n \in Node, Unfinished(n)'
      PROVE  \E q \in Proc : /\ pc'[q] \in CreateNodeLabel /\ loc'[q].n = n
                            /\ loc'[q].op = nodes'[n].ref.op
  <2>1. Unfinished(n) /\ nodes'[n].ref = nodes[n].ref
    BY <1>4 DEF NoNewPlaceholder
  <2>2. PICK q \in Proc : pc[q] \in CreateNodeLabel /\ loc[q].n = n /\ loc[q].op = nodes[n].ref.op
    BY <2>1 DEF NoOrphanPlaceholder
  <2>3. q # p
    BY <1>4, <2>2
  <2> QED
    BY <1>2, <2>1, <2>2, <2>3
<1> QED
  BY <1>3, <1>4 DEF NoOrphanPlaceholder

\* Setting or popping addresses leaves the objects and their states as they are.
LEMMA IpsKeepRefs ==
  ASSUME TypeOK, NEW refs, NEW pr, NEW set \in BOOLEAN, nodes' = WithIps(refs, pr, set), NEW n \in Node
  PROVE  nodes'[n].st = nodes[n].st /\ nodes'[n].ref = nodes[n].ref
<1>1. nodes[n] \in NodeObject
  BY DEF TypeOK
<1>2. \A x : [nodes[n] EXCEPT !.ips = x].st = nodes[n].st /\ [nodes[n] EXCEPT !.ips = x].ref = nodes[n].ref
  BY <1>1 DEF NodeObject
<1>3. \/ nodes'[n] = nodes[n]
      \/ nodes'[n] = [nodes[n] EXCEPT !.ips = nodes[n].ips \union {pr}]
      \/ nodes'[n] = [nodes[n] EXCEPT !.ips = nodes[n].ips \ {pr}]
  BY DEF WithIps
<1> QED
  BY <1>2, <1>3

\* So it makes no node a placeholder.
LEMMA IpsKeepNodes ==
  ASSUME TypeOK, NEW refs, NEW pr, NEW set \in BOOLEAN, nodes' = WithIps(refs, pr, set)
  PROVE  \A n \in Node : Unfinished(n)' => Unfinished(n) /\ nodes'[n].ref = nodes[n].ref
BY IpsKeepRefs DEF Unfinished, Present

\* The locked sections that end a creation, a deletion of a link or of a node.
LEMMA LockedKeepsCreators ==
  ASSUME IInv, NoOrphanPlaceholder, NEW p \in Proc,
         \/ ClCommit(p) \/ ClUnreserve(p) \/ DlFinish(p)
         \/ CnCommit(p) \/ CnUnreserve(p) \/ DnFinish(p)
  PROVE  NoOrphanPlaceholder'
<1> DEFINE pr == loc[p].pr
           n  == loc[p].n
<1>1. TypeOK /\ loc[p] \in Local
  BY ThreadFacts DEF IInv
<1>2. CASE ClCommit(p)
  <2>1. /\ pc[p] = "cl_commit" /\ pr \in Pair /\ nodes' = WithIps(loc[p].ref, pr, TRUE)
        /\ UNCHANGED links
    BY <1>2, ThreadFacts DEF ClCommit, IpsSet, LocalOK, LinkLabel, CreateLinkLabel
  <2>2. \A m \in Node : Unfinished(m)' => Unfinished(m) /\ nodes'[m].ref = nodes[m].ref
    BY <1>1, <2>1, IpsKeepNodes
  <2>3. CASE links[pr] = NoId
    <3>1. Undo(p) /\ UNCHANGED obj
      BY <1>2, <2>3 DEF ClCommit
    <3>2. Moves(p)
      BY <2>1, <3>1, UndoMoves DEF CreateLinkLabel
    <3>3. NoNewPlaceholder
      BY <2>1, <2>2, <3>1 DEF NoNewPlaceholder, Uncommitted
    <3> QED
      BY <3>2, <3>3, MoveKeepsCreators
  <2>4. CASE links[pr] # NoId
    <3>1. Finish(p)
      BY <1>2, <2>4 DEF ClCommit
    <3>2. links[pr] \in Id /\ obj \in [Id -> LinkObject]
      BY <1>1, <2>1, <2>4 DEF TypeOK
    <3>3. PICK k \in LinkObject : obj' = [obj EXCEPT ![links[pr]] = k] /\ k.st # "down"
      <4> DEFINE new(i) == [obj[i] EXCEPT !.named = TRUE, !.nid = loc[p].nid,
                                         !.idx = loc[p].idx, !.st = LinkStatus(loc[p])]
      <4>1. LinkStatus(loc[p]) \in {"up", "error"} /\ loc[p].nid \in Id \union {NoId}
            /\ loc[p].idx \in Index
        BY <1>1 DEF LinkStatus, Local
      <4>2. obj[links[pr]] \in LinkObject
        BY <3>2
      <4>3. new(links[pr]) \in LinkObject /\ new(links[pr]).st = LinkStatus(loc[p])
        BY <4>1, <4>2 DEF LinkObject
      <4>4. obj' = [obj EXCEPT ![links[pr]] = new(links[pr])]
        BY <1>2, <2>4 DEF ClCommit
      <4> HIDE DEF new
      <4> QED
        BY <4>1, <4>3, <4>4
    <3> HIDE DEF pr
    <3>4. \A x \in Pair : Uncommitted(x)' => Uncommitted(x) /\ x # pr
      BY <1>1, <2>1, <3>2, <3>3 DEF Uncommitted, TypeOK
    <3>5. NoNewPlaceholder
      BY <2>1, <2>2, <3>4 DEF NoNewPlaceholder
    <3>6. pc[p] \notin CreateNodeLabel
      BY <2>1 DEF CreateNodeLabel
    <3> QED
      BY <3>1, <3>4, <3>5, <3>6, EndKeepsCreators DEF Finish, pr
  <2> QED
    BY <2>3, <2>4
<1>3. CASE ClUnreserve(p)
  <2>1. /\ pc[p] = "cl_unres" /\ pr \in Pair /\ nodes' = WithIps(loc[p].ref, pr, FALSE)
        /\ links' = [links EXCEPT ![pr] = NoId] /\ UNCHANGED obj /\ Finish(p)
    BY <1>3, ThreadFacts DEF ClUnreserve, IpsPopped, LocalOK, LinkLabel, CreateLinkLabel
  <2>2. \A m \in Node : Unfinished(m)' => Unfinished(m) /\ nodes'[m].ref = nodes[m].ref
    BY <1>1, <2>1, IpsKeepNodes
  <2>3. \A x \in Pair : Uncommitted(x)' => Uncommitted(x) /\ x # pr /\ links'[x] = links[x]
    BY <1>1, <2>1 DEF Uncommitted, TypeOK
  <2>4. NoNewPlaceholder /\ pc[p] \notin CreateNodeLabel
    BY <2>1, <2>2, <2>3 DEF NoNewPlaceholder, CreateNodeLabel
  <2> QED
    BY <2>1, <2>3, <2>4, EndKeepsCreators DEF Finish
<1>4. CASE DlFinish(p)
  <2>1. /\ pr \in Pair /\ nodes' = WithIps(loc[p].ref, pr, FALSE)
        /\ links' = [links EXCEPT ![pr] = NoId] /\ UNCHANGED obj
    BY <1>4, ThreadFacts DEF DlFinish, IpsPopped, LocalOK, LinkLabel, DeleteLinkLabel
  <2>2. \A m \in Node : Unfinished(m)' => Unfinished(m) /\ nodes'[m].ref = nodes[m].ref
    BY <1>1, <2>1, IpsKeepNodes
  <2>3. \A x \in Pair : Uncommitted(x)' => Uncommitted(x) /\ links'[x] = links[x]
    BY <1>1, <2>1 DEF Uncommitted, TypeOK
  <2>4. NoNewPlaceholder /\ Moves(p)
    BY <1>4, <2>2, <2>3, DlEndMoves DEF NoNewPlaceholder
  <2> QED
    BY <2>4, MoveKeepsCreators
<1>5. CASE CnCommit(p) \/ CnUnreserve(p)
  <2>1. n \in Node /\ Finish(p) /\ UNCHANGED <<links, obj>> /\ pc[p] \notin CreateLinkLabel
    BY <1>5, ThreadFacts DEF CnCommit, CnUnreserve, nodeOpUnchanged, LocalOK, NodeLabel,
       CreateNodeLabel, CreateLinkLabel
  <2>2. PICK x : nodes' = [nodes EXCEPT ![n] = x] /\ (x.st = "absent" \/ x.ref.named)
    BY <1>5 DEF CnCommit, CnUnreserve, NoNode
  <2>3. \A m \in Node : Unfinished(m)' => Unfinished(m) /\ m # n /\ nodes'[m].ref = nodes[m].ref
    BY <1>1, <2>2 DEF Unfinished, Present, TypeOK
  <2>4. NoNewPlaceholder
    BY <2>1, <2>3 DEF NoNewPlaceholder, Uncommitted
  <2> QED
    BY <2>1, <2>3, <2>4, EndKeepsCreators DEF Finish
<1>6. CASE DnFinish(p)
  <2>1. n \in Node /\ nodes' = [nodes EXCEPT ![n] = NoNode] /\ UNCHANGED <<links, obj>>
    BY <1>6, ThreadFacts DEF DnFinish, nodeOpUnchanged, LocalOK, NodeLabel, DeleteNodeLabel
  <2>2. \A m \in Node : Unfinished(m)' => Unfinished(m) /\ nodes'[m].ref = nodes[m].ref
    BY <1>1, <2>1 DEF Unfinished, Present, TypeOK, NoNode
  <2>3. NoNewPlaceholder /\ Moves(p)
    BY <1>6, <2>1, <2>2, DnEndMoves DEF NoNewPlaceholder, Uncommitted
  <2> QED
    BY <2>3, MoveKeepsCreators
<1> QED
  BY <1>2, <1>3, <1>4, <1>5, <1>6

\* Every other step of a thread leaves the reservations alone and moves.
LEMMA StepKeepsCreators ==
  ASSUME IInv, NoOrphanPlaceholder, NEW p \in Proc, Step(p)
  PROVE  NoOrphanPlaceholder'
<1>1. CASE \/ ClCommit(p) \/ ClUnreserve(p) \/ DlFinish(p)
           \/ CnCommit(p) \/ CnUnreserve(p) \/ DnFinish(p)
  BY <1>1, LockedKeepsCreators
<1>2. CASE ~ (\/ ClCommit(p) \/ ClUnreserve(p) \/ DlFinish(p)
              \/ CnCommit(p) \/ CnUnreserve(p) \/ DnFinish(p))
  <2>1. Moves(p)
    BY <1>2, ClGetMoves, ClNewMoves, ClAdoptMoves, ClContainersMoves, ClConnectMoves,
       ClReadyMoves, ClConfigMoves, ClUndoMoves, DlIonMoves, DlGetMoves, DlEndMoves,
       CnStaleMoves, CnDirMoves, CnRunMoves, CnCheckMoves, CnUndoMoves, DnNextMoves,
       DnEndMoves DEF Step, LinkStep, NodeStep
  <2>2. UNCHANGED <<nodes, links, obj>>
    BY <1>2 DEF Step, LinkStep, NodeStep, ClGet, ClNew, ClRace, ClAdopt, ClContainers,
       ClConnect, ClReady, ClConfig, ClUndo, ClUnnet, DlIon, DlGet, DlDisconnect, DlRemove,
       CnStale, CnDir, CnRun, CnCheck, CnUndo, DnNext, DnContainer, tableVars, nodeTables
  <2>3. NoNewPlaceholder
    BY <2>2 DEF NoNewPlaceholder, Uncommitted, Unfinished, Present
  <2> QED
    BY <2>1, <2>3, MoveKeepsCreators
<1> QED
  BY <1>1, <1>2

\* The deletions reserve nothing, and their threads were idle.
LEMMA DeletionsKeepCreators ==
  ASSUME IInv, NoOrphanPlaceholder, NEW p \in Proc,
         (\E pr \in Pair : DeleteLink(p, pr)) \/ (\E n \in Node : DeleteNode(p, n))
  PROVE  NoOrphanPlaceholder'
<1>1. /\ pc[p] = "idle" /\ UNCHANGED <<nodes, links, obj>>
      /\ \E label, l : Goto(p, label, l)
  BY DEF DeleteLink, DeleteNode, Begin, tableVars
<1>2. NoNewPlaceholder
  BY <1>1 DEF NoNewPlaceholder, Uncommitted, Unfinished, Present
<1>3. pc[p] \notin CreateLinkLabel /\ pc[p] \notin CreateNodeLabel
  BY <1>1 DEF CreateLinkLabel, CreateNodeLabel
<1> QED
  BY <1>1, <1>2, <1>3, EndKeepsCreators

\* create_link reserves its link for its own thread.
LEMMA CreateLinkKeepsCreators ==
  ASSUME IInv, OnlyPast, NoOrphanPlaceholder, NEW p \in Proc, NEW pr \in Pair, NEW cl \in CL,
         CreateLink(p, pr, cl)
  PROVE  NoOrphanPlaceholder'
<1>1. TypeOK /\ pc[p] = "idle" /\ UNCHANGED nodes
  BY DEF IInv, CreateLink, Begin, nodeTables
<1>2. CASE UNCHANGED <<links, obj, pc, loc>>
  BY <1>1, <1>2 DEF NoOrphanPlaceholder, Uncommitted, Unfinished, Present
<1>3. CASE ~ UNCHANGED <<links, obj, pc, loc>>
  <2>1. PICK k, l : /\ links' = [links EXCEPT ![pr] = NewId] /\ obj' = [obj EXCEPT ![NewId] = k]
                    /\ Goto(p, "cl_get", l) /\ l.pr = pr /\ l.op = NewId /\ k.st = "down"
    <3> DEFINE k == [idx |-> Issued(pool), named |-> FALSE, nid |-> NoId, cl |-> cl, st |-> "down"]
               l == [NoLocal EXCEPT !.op = NewId, !.call = "create_link", !.pr = pr, !.cl = cl,
                                    !.idx = Issued(pool),
                                    !.ref = [s \in Side |-> nodes[At(pr, s)].ref]]
    <3>1. /\ links' = [links EXCEPT ![pr] = NewId] /\ obj' = [obj EXCEPT ![NewId] = k]
          /\ Goto(p, "cl_get", l)
      BY <1>3 DEF CreateLink
    <3>2. l.pr = pr /\ l.op = NewId /\ k.st = "down"
      BY DEF NoLocal
    <3> HIDE DEF k, l
    <3> QED
      BY <3>1, <3>2
  <2>2. /\ pc'[p] = "cl_get" /\ loc'[p] = l
        /\ \A q \in Proc \ {p} : pc'[q] = pc[q] /\ loc'[q] = loc[q]
    BY <1>1, <2>1 DEF Goto, TypeOK
  <2>3. ASSUME NEW x \in Pair, Uncommitted(x)'
        PROVE  \E q \in Proc : pc'[q] \in CreateLinkLabel /\ loc'[q].pr = x /\ loc'[q].op = links'[x]
    <3>1. CASE x = pr
      BY <1>1, <2>1, <2>2, <3>1 DEF TypeOK, CreateLinkLabel
    <3>2. CASE x # pr
      <4>1. links'[x] = links[x] /\ Uncommitted(x)
        <5>1. links'[x] = links[x] /\ links[x] \in Id \union {NoId} /\ obj \in [Id -> LinkObject]
          BY <1>1, <2>1, <3>2 DEF TypeOK
        <5>2. links[x] # NewId
          BY <1>1, <5>1 DEF OnlyPast, NewId, TypeOK, Id, Boot, NoId
        <5> QED
          BY <2>1, <2>3, <5>1, <5>2 DEF Uncommitted
      <4>2. PICK q \in Proc : pc[q] \in CreateLinkLabel /\ loc[q].pr = x /\ loc[q].op = links[x]
        BY <4>1 DEF NoOrphanPlaceholder
      <4>3. q # p
        BY <1>1, <4>2 DEF CreateLinkLabel
      <4> QED
        BY <2>2, <4>1, <4>2, <4>3
    <3> QED
      BY <3>1, <3>2
  <2>4. ASSUME NEW n \in Node, Unfinished(n)'
        PROVE  \E q \in Proc : /\ pc'[q] \in CreateNodeLabel /\ loc'[q].n = n
                              /\ loc'[q].op = nodes'[n].ref.op
    <3>1. PICK q \in Proc : /\ pc[q] \in CreateNodeLabel /\ loc[q].n = n
                            /\ loc[q].op = nodes[n].ref.op
      BY <1>1, <2>4 DEF NoOrphanPlaceholder, Unfinished, Present
    <3>2. q # p
      BY <1>1, <3>1 DEF CreateNodeLabel
    <3> QED
      BY <1>1, <2>2, <3>1, <3>2
  <2> QED
    BY <2>3, <2>4 DEF NoOrphanPlaceholder
<1> QED
  BY <1>2, <1>3

\* create_node reserves its node for its own thread.
LEMMA CreateNodeKeepsCreators ==
  ASSUME IInv, NoOrphanPlaceholder, NEW p \in Proc, NEW n \in Node, CreateNode(p, n)
  PROVE  NoOrphanPlaceholder'
<1>1. TypeOK /\ pc[p] = "idle" /\ UNCHANGED <<links, obj>>
  BY DEF IInv, CreateNode, Begin, nodeOpUnchanged
<1>2. PICK v, l : /\ nodes' = [nodes EXCEPT ![n] = v] /\ v.ref.op = NewId
                  /\ Goto(p, "cn_stale", l) /\ l.n = n /\ l.op = NewId
  <2> DEFINE v == [ref |-> [op |-> NewId, named |-> FALSE], st |-> "creating", ips |-> {}]
             l == [NoLocal EXCEPT !.op = NewId, !.call = "create_node", !.n = n]
  <2>1. nodes' = [nodes EXCEPT ![n] = v] /\ Goto(p, "cn_stale", l)
    BY DEF CreateNode
  <2>2. v.ref.op = NewId /\ l.n = n /\ l.op = NewId
    BY DEF NoLocal
  <2> HIDE DEF v, l
  <2> QED
    BY <2>1, <2>2
<1>3. /\ pc'[p] = "cn_stale" /\ loc'[p] = l
      /\ \A q \in Proc \ {p} : pc'[q] = pc[q] /\ loc'[q] = loc[q]
  BY <1>1, <1>2 DEF Goto, TypeOK
<1>4. ASSUME NEW m \in Node, Unfinished(m)'
      PROVE  \E q \in Proc : /\ pc'[q] \in CreateNodeLabel /\ loc'[q].n = m
                            /\ loc'[q].op = nodes'[m].ref.op
  <2>1. CASE m = n
    BY <1>1, <1>2, <1>3, <2>1 DEF TypeOK, CreateNodeLabel
  <2>2. CASE m # n
    <3>1. nodes'[m] = nodes[m]
      BY <1>1, <1>2, <2>2 DEF TypeOK
    <3>2. PICK q \in Proc : /\ pc[q] \in CreateNodeLabel /\ loc[q].n = m
                            /\ loc[q].op = nodes[m].ref.op
      BY <1>4, <3>1 DEF NoOrphanPlaceholder, Unfinished, Present
    <3>3. q # p
      BY <1>1, <3>2 DEF CreateNodeLabel
    <3> QED
      BY <1>3, <3>1, <3>2, <3>3
  <2> QED
    BY <2>1, <2>2
<1>5. ASSUME NEW pr \in Pair, Uncommitted(pr)'
      PROVE  \E q \in Proc : pc'[q] \in CreateLinkLabel /\ loc'[q].pr = pr /\ loc'[q].op = links'[pr]
  <2>1. PICK q \in Proc : pc[q] \in CreateLinkLabel /\ loc[q].pr = pr /\ loc[q].op = links[pr]
    BY <1>1, <1>5 DEF NoOrphanPlaceholder, Uncommitted
  <2>2. q # p
    BY <1>1, <2>1 DEF CreateLinkLabel
  <2> QED
    BY <1>1, <1>3, <2>1, <2>2
<1> QED
  BY <1>4, <1>5 DEF NoOrphanPlaceholder

\* Only create_link puts a Link object into the table, and no step turns the
\* count of calls back.
LEMMA NextKeepsPast ==
  ASSUME IInv, OnlyPast, [Next]_vars
  PROVE  OnlyPast'
<1>1. links \in [Pair -> Id \union {NoId}] /\ started \in Nat
  BY BoundAssumption DEF IInv, TypeOK
<1>2. \A x \in Pair : links[x] \in Nat /\ links[x] <= started + 1
  BY <1>1, BoundAssumption DEF OnlyPast, Id, Boot, NoId
<1>3. ASSUME links' = links, \/ started' = started
                             \/ started' = started + 1
      PROVE  OnlyPast'
  BY <1>1, <1>2, <1>3 DEF OnlyPast
<1>4. ASSUME NEW pr, links' = [links EXCEPT ![pr] = NoId], started' = started
      PROVE  OnlyPast'
  BY <1>1, <1>2, <1>4 DEF OnlyPast, NoId
<1>5. ASSUME NEW pr, links' = [links EXCEPT ![pr] = NewId], started' = started + 1
      PROVE  OnlyPast'
  BY <1>1, <1>2, <1>5 DEF OnlyPast, NewId
<1>6. ASSUME NEW p \in Proc, Call(p)
      PROVE  OnlyPast'
  <2>1. CASE \E pr \in Pair, cl \in CL : CreateLink(p, pr, cl)
    <3>1. PICK pr \in Pair, cl \in CL : CreateLink(p, pr, cl)
      BY <2>1
    <3>2. started' = started + 1
      BY <3>1 DEF CreateLink, Begin
    <3>3. links' = links \/ links' = [links EXCEPT ![pr] = NewId]
      BY <3>1 DEF CreateLink
    <3> QED
      BY <3>2, <3>3, <1>3, <1>5
  <2>2. CASE ~ \E pr \in Pair, cl \in CL : CreateLink(p, pr, cl)
    <3>1. started' = started + 1 /\ links' = links
      BY <1>6, <2>2 DEF Call, LinkCall, NodeCall, DeleteLink, CreateNode, DeleteNode, Begin,
         tableVars, nodeOpUnchanged
    <3> QED
      BY <3>1, <1>3
  <2> QED
    BY <2>1, <2>2
<1>7. ASSUME NEW p \in Proc, Step(p)
      PROVE  OnlyPast'
  <2>1. started' = started
    BY <1>7 DEF Step, LinkStep, NodeStep, ClGet, ClNew, ClRace, ClAdopt, ClContainers,
       ClConnect, ClReady, ClConfig, ClCommit, ClUndo, ClUnnet, ClUnreserve, DlIon, DlGet,
       DlDisconnect, DlRemove, DlFinish, CnStale, CnDir, CnRun, CnCheck, CnCommit, CnUndo,
       CnUnreserve, DnNext, DnContainer, DnFinish
  <2>2. CASE ClUnreserve(p) \/ DlFinish(p)
    BY <2>1, <2>2, <1>4 DEF ClUnreserve, DlFinish
  <2>3. CASE ~ (ClUnreserve(p) \/ DlFinish(p))
    <3>1. links' = links
      BY <1>7, <2>3 DEF Step, LinkStep, NodeStep, ClGet, ClNew, ClRace, ClAdopt, ClContainers,
         ClConnect, ClReady, ClConfig, ClCommit, ClUndo, ClUnnet, DlIon, DlGet,
         DlDisconnect, DlRemove, CnStale, CnDir, CnRun, CnCheck, CnCommit, CnUndo,
         CnUnreserve, DnNext, DnContainer, DnFinish, tableVars, nodeOpUnchanged
    <3> QED
      BY <2>1, <3>1, <1>3
  <2> QED
    BY <2>2, <2>3
<1>8. CASE \/ \E n \in Node : ContainerExits(n)
           \/ \E pr \in Pair, idx \in Index : OtherWriter(pr, idx)
           \/ UNCHANGED vars
  BY <1>8, <1>3 DEF ContainerExits, OtherWriter, tableVars, vars
<1> QED
  BY <1>6, <1>7, <1>8 DEF Next

\* No step of a client, a thread or the environment orphans a reservation.
LEMMA NextKeepsCreators ==
  ASSUME IInv, OnlyPast, NoOrphanPlaceholder, [Next]_vars
  PROVE  NoOrphanPlaceholder'
<1>1. ASSUME NEW p \in Proc, Call(p)
      PROVE  NoOrphanPlaceholder'
  BY <1>1, CreateLinkKeepsCreators, CreateNodeKeepsCreators, DeletionsKeepCreators
     DEF Call, LinkCall, NodeCall
<1>2. ASSUME NEW p \in Proc, Step(p)
      PROVE  NoOrphanPlaceholder'
  BY <1>2, StepKeepsCreators
<1>3. CASE \/ \E n \in Node : ContainerExits(n)
           \/ \E pr \in Pair, idx \in Index : OtherWriter(pr, idx)
           \/ UNCHANGED vars
  <2>1. UNCHANGED <<nodes, links, obj, pc, loc>>
    BY <1>3 DEF ContainerExits, OtherWriter, tableVars, vars
  <2> QED
    BY <2>1 DEF NoOrphanPlaceholder, Uncommitted, Unfinished, Present
<1> QED
  BY <1>1, <1>2, <1>3 DEF Next

\* At the start nothing is reserved.
LEMMA InitHasNoPlaceholder == Init => OnlyPast /\ NoOrphanPlaceholder
<1> SUFFICES ASSUME Init
             PROVE  OnlyPast /\ NoOrphanPlaceholder
  OBVIOUS
<1>1. \A pr \in Pair : links[pr] = NoId
  BY DEF Init
<1>2. OnlyPast
  BY <1>1 DEF Init, OnlyPast, NoId
<1>3. \A pr \in Pair : ~ Uncommitted(pr)
  BY <1>1 DEF Uncommitted
<1>4. ASSUME NEW n \in Node
      PROVE  ~ Unfinished(n)
  <2>1. CASE n \in BootNodes
    BY <2>1 DEF Init, Unfinished
  <2>2. CASE n \notin BootNodes
    BY <2>2 DEF Init, Unfinished, Present, NoNode
  <2> QED
    BY <2>1, <2>2
<1> QED
  BY <1>2, <1>3, <1>4 DEF NoOrphanPlaceholder

\* Whatever fails, and whichever calls run beside it, a create_link or create_node
\* that ends leaves no placeholder: each one in the tables belongs to a thread
\* that is still at work on it (docker_manager.py:251-255, 312-337, 406-413,
\* 453-487).
THEOREM NoReservationOutlivesItsCall == Spec => []NoOrphanPlaceholder
<1> DEFINE Both == OnlyPast /\ NoOrphanPlaceholder
<1>1. Init => Both
  BY InitHasNoPlaceholder
<1>2. IInv /\ Both /\ [Next]_vars => Both'
  BY NextKeepsPast, NextKeepsCreators
<1>3. Both => NoOrphanPlaceholder
  OBVIOUS
<1> QED
  BY <1>1, <1>2, <1>3, InvariantHolds, PTL DEF Spec

-----------------------------------------------------------------------------
(* Indices and networks. What the code promises of them holds under two     *)
(* conditions, which name what breaks it otherwise.                         *)

Deletions == {"delete_link", "delete_node"}

\* At most one thread may be asked to delete (two break OneIndexPerLink).
OneDeletes ==
  \A p, q \in Proc :
    MayCall[p] \intersect Deletions # {} /\ MayCall[q] \intersect Deletions # {} => p = q

\* Nobody else makes networks with the names of links, rollbacks succeed, and what was
\* built is reported as built: what fails otherwise leaves a network behind.
NetworksTidy ==
  /\ FaultAt \intersect {"writer", "cl_undo", "cl_unnet"} = {}
  /\ LostAt \intersect {"cl_new", "cl_connect"} = {}

\* Threads do what they may be asked for.
Asked == \A p \in Proc : pc[p] \in DeleteLabel => MayCall[p] \intersect Deletions # {}

Bare(pr) == net[pr].nid = NoId

\* The network that create_link has made, with the ends it has connected.
Own(l) ==
  /\ net[l.pr].nid = l.op /\ l.nid = l.op /\ l.made /\ net[l.pr].sub = l.idx
  /\ net[l.pr].att \subseteq {At(l.pr, s) : s \in l.con}

\* create_link has made its network, which a sweep may have taken away since.
Made(l) == l.nid = l.op /\ l.made /\ (Bare(l.pr) \/ Own(l))

\* The network that create_link finds on its way.
Held(label, l) ==
  /\ label \in {"cl_get", "cl_new", "cl_unres"} => Bare(l.pr)
  /\ label \in {"cl_ctrs", "cl_connect", "cl_ready", "cl_config", "cl_commit"} => Made(l)
  /\ label = "cl_undo" => Bare(l.pr) \/ Own(l)
  /\ label = "cl_unnet" => Bare(l.pr) \/ (Own(l) /\ net[l.pr].att = {})

\* create_link holds its own reservation and the network it made, up to the end.
BuildOK(label, l) ==
  /\ links[l.pr] = l.op /\ ~obj[l.op].named /\ obj[l.op].st = "down" /\ obj[l.op].idx = l.idx
  /\ label \notin {"cl_race", "cl_adopt"}
  /\ Held(label, l)

DeleteEnd == {"dl_disc", "dl_remove", "dl_finish"}

\* delete_link works on the link that it looked up, or on one that was rolled back.
DeleteOK(label, l) ==
  /\ l.lid <= started + 1
  /\ \A pr \in Pair : links[pr] = l.lid => pr = l.pr
  /\ links[l.pr] = l.lid \/ ~obj[l.lid].named
  /\ label \in DeleteEnd => links[l.pr] = l.lid /\ obj[l.lid].named
  /\ label \in {"dl_disc", "dl_remove"} => net[l.pr].nid = l.nid \/ Bare(l.pr)
  /\ label = "dl_finish" => Bare(l.pr)

Builds(p, pr) == pc[p] \in CreateLinkLabel /\ loc[p].pr = pr

LinkOK(pr) ==
  /\ links[pr] = NoId => Bare(pr)
  /\ links[pr] # NoId =>
       /\ obj[links[pr]].named \/ \E p \in Proc : Builds(p, pr)
       /\ obj[links[pr]].named =>
            Bare(pr) \/ (net[pr].nid = obj[links[pr]].nid /\ net[pr].sub = obj[links[pr]].idx)
  /\ net[pr].att \subseteq Ends(pr)

ThreadsOK ==
  /\ \A p \in Proc : /\ pc[p] \in CreateLinkLabel => BuildOK(pc[p], loc[p])
                     /\ pc[p] \in DeleteLinkLabel => DeleteOK(pc[p], loc[p])
  /\ \A p, q \in Proc : \A pr \in Pair : Builds(p, pr) /\ Builds(q, pr) => p = q

IndicesOK ==
  /\ \A pr, qr \in LinkNames :
       links[pr] = links[qr] \/ obj[links[pr]].idx = obj[links[qr]].idx => pr = qr
  /\ pool.inUse = {obj[links[pr]].idx : pr \in LinkNames}

Leases ==
  /\ Asked /\ OnlyPast /\ ThreadsOK /\ IndicesOK
  /\ \A pr \in Pair : LinkOK(pr)

\* No network changes but for endpoints that go.
NetKept(pr) ==
  net'[pr].nid = net[pr].nid /\ net'[pr].sub = net[pr].sub /\ net'[pr].att \subseteq net[pr].att

\* A network that a step leaves as it is, but for its endpoints, or takes away.
Lasts(pr) ==
  /\ net'[pr].nid = NoId \/ (net'[pr].nid = net[pr].nid /\ net'[pr].sub = net[pr].sub)
  /\ net'[pr].att \subseteq Ends(pr)

\* What the invariants say of a thread that creates a link.
LEMMA BuilderFacts ==
  ASSUME IInv, Leases, NEW p \in Proc, pc[p] \in CreateLinkLabel
  PROVE  /\ loc[p] \in Local /\ loc[p].pr \in Pair /\ loc[p].op \in Id /\ loc[p].op # NoId
         /\ BuildOK(pc[p], loc[p]) /\ links[loc[p].pr] = loc[p].op
         /\ loc[p].pr \in LinkNames /\ obj[loc[p].op] \in LinkObject
<1>1. loc[p] \in Local /\ loc[p].pr \in Pair /\ loc[p].op \in Id
  BY ThreadFacts DEF LocalOK, LinkLabel
<1>2. loc[p].op # NoId
  BY <1>1, BoundAssumption DEF Id, Boot, NoId
<1>3. BuildOK(pc[p], loc[p])
  BY DEF Leases, ThreadsOK
<1>4. links[loc[p].pr] = loc[p].op
  BY <1>3 DEF BuildOK
<1> QED
  BY <1>1, <1>2, <1>3, <1>4 DEF LinkNames, IInv, TypeOK

\* And of one that deletes a link.
LEMMA DeleterFacts ==
  ASSUME IInv, Leases, NEW p \in Proc, pc[p] \in DeleteLinkLabel
  PROVE  /\ loc[p] \in Local /\ loc[p].pr \in Pair /\ loc[p].lid \in Id /\ loc[p].lid # NoId
         /\ DeleteOK(pc[p], loc[p]) /\ obj[loc[p].lid] \in LinkObject
<1>1. loc[p] \in Local /\ loc[p].pr \in Pair /\ loc[p].lid \in Id
  BY ThreadFacts DEF LocalOK, LinkLabel
<1>2. loc[p].lid # NoId
  BY <1>1, BoundAssumption DEF Id, Boot, NoId
<1>3. DeleteOK(pc[p], loc[p])
  BY DEF Leases, ThreadsOK
<1> QED
  BY <1>1, <1>2, <1>3 DEF IInv, TypeOK

\* One thread deletes at a time.
LEMMA OneDeleter ==
  ASSUME OneDeletes, Asked, NEW p \in Proc, NEW q \in Proc, pc[p] \in DeleteLabel, pc[q] \in DeleteLabel
  PROVE  p = q
BY DEF OneDeletes, Asked

\* A thread that creates a link or takes down its network has it to itself.
LEMMA Alone ==
  ASSUME IInv, Leases, OneDeletes, NEW p \in Proc, NEW q \in Proc, p # q, loc[q].pr = loc[p].pr,
         pc[p] \in CreateLinkLabel \union DeleteEnd
  PROVE  pc[q] \notin CreateLinkLabel \union DeleteEnd
<1>1. DeleteEnd \subseteq DeleteLinkLabel /\ DeleteEnd \subseteq DeleteLabel
  BY DEF DeleteEnd, DeleteLinkLabel, DeleteLabel
<1>2. ASSUME NEW x \in Proc, NEW y \in Proc, loc[y].pr = loc[x].pr, pc[x] \in CreateLinkLabel,
             pc[y] \in DeleteEnd
      PROVE  FALSE
  <2>1. links[loc[x].pr] = loc[x].op /\ ~obj[loc[x].op].named
    BY <1>2, BuilderFacts DEF BuildOK
  <2>2. links[loc[y].pr] = loc[y].lid /\ obj[loc[y].lid].named
    BY <1>1, <1>2, DeleterFacts DEF DeleteOK
  <2> QED
    BY <1>2, <2>1, <2>2
<1>3. CASE pc[p] \in CreateLinkLabel
  <2>1. pc[q] \notin CreateLinkLabel
    BY <1>3, BuilderFacts DEF Leases, ThreadsOK, Builds
  <2> QED
    BY <1>2, <1>3, <2>1
<1>4. CASE pc[p] \in DeleteEnd
  <2>1. pc[q] \notin DeleteEnd
    BY <1>1, <1>4, OneDeleter DEF Leases
  <2> QED
    BY <1>2, <1>4, <2>1
<1> QED
  BY <1>3, <1>4

\* Steps that leave the tables alone and change at most one network, which no other
\* thread relies on.
LEMMA NetStepKeeps ==
  ASSUME IInv, Leases, Asked', OnlyPast', UNCHANGED <<links, obj>>, pool'.inUse = pool.inUse,
         started' \in {started, started + 1},
         NEW at, \A pr \in Pair \ {at} : NetKept(pr),
         NEW p \in Proc, NEW label, NEW l, Goto(p, label, l),
         \/ NetKept(at) \/ at \notin Pair
         \/ /\ LinkOK(at)'
            /\ \A q \in Proc \ {p} : loc[q].pr = at => pc[q] \notin CreateLinkLabel \union DeleteEnd,
         pc[p] \in CreateLinkLabel <=> label \in CreateLinkLabel,
         label \in CreateLinkLabel => l.pr = loc[p].pr /\ BuildOK(label, l)',
         label \in DeleteLinkLabel => DeleteOK(label, l)'
  PROVE  Leases'
<1>1. /\ pc' = [pc EXCEPT ![p] = label] /\ loc' = [loc EXCEPT ![p] = l]
      /\ pc \in [Proc -> Label] /\ loc \in [Proc -> Local]
  BY DEF Goto, IInv, TypeOK
<1>2. /\ pc'[p] = label /\ loc'[p] = l
      /\ \A q \in Proc \ {p} : pc'[q] = pc[q] /\ loc'[q] = loc[q]
  BY <1>1
<1>3. \A q \in Proc, pr \in Pair : Builds(q, pr)' <=> Builds(q, pr)
  BY <1>2 DEF Builds
<1>4. ASSUME NEW q \in Proc \ {p}, pc[q] \in CreateLinkLabel
      PROVE  BuildOK(pc[q], loc[q])'
  <2>1. BuildOK(pc[q], loc[q]) /\ loc[q].pr \in Pair
    BY <1>4, BuilderFacts
  <2>2. NetKept(loc[q].pr)
    BY <1>4, <2>1
  <2>3. pc'[q] = pc[q] /\ loc'[q] = loc[q]
    BY <1>2
  <2> QED
    BY <2>1, <2>2, <2>3 DEF BuildOK, Held, Made, Own, Bare, NetKept
<1>5. ASSUME NEW q \in Proc \ {p}, pc[q] \in DeleteLinkLabel
      PROVE  DeleteOK(pc[q], loc[q])'
  <2>1. DeleteOK(pc[q], loc[q]) /\ loc[q].pr \in Pair /\ loc[q].lid \in Nat /\ started \in Nat
    BY <1>5, DeleterFacts, BoundAssumption DEF Id, Boot, IInv, TypeOK
  <2>2. pc[q] \in DeleteEnd => NetKept(loc[q].pr)
    BY <1>5, <2>1
  <2>3. pc'[q] = pc[q] /\ loc'[q] = loc[q]
    BY <1>2
  <2>4. loc[q].lid <= started' + 1
    BY <2>1 DEF DeleteOK
  <2> QED
    BY <2>1, <2>2, <2>3, <2>4 DEF DeleteOK, DeleteEnd, Bare, NetKept
<1>6. ThreadsOK'
  <2>1. \A q \in Proc : /\ pc'[q] \in CreateLinkLabel => BuildOK(pc[q], loc[q])'
                        /\ pc'[q] \in DeleteLinkLabel => DeleteOK(pc[q], loc[q])'
    BY <1>2, <1>4, <1>5
  <2>2. \A x, y \in Proc : \A pr \in Pair : Builds(x, pr)' /\ Builds(y, pr)' => x = y
    BY <1>3 DEF Leases, ThreadsOK
  <2> QED
    BY <2>1, <2>2 DEF ThreadsOK
<1>7. IndicesOK'
  BY DEF Leases, IndicesOK, LinkNames
<1>8. ASSUME NEW pr \in Pair PROVE LinkOK(pr)'
  <2>1. CASE NetKept(pr)
    BY <1>3, <2>1 DEF Leases, LinkOK, NetKept, Bare
  <2>2. CASE ~NetKept(pr)
    BY <2>2
  <2> QED
    BY <2>1, <2>2
<1> QED
  BY <1>6, <1>7, <1>8 DEF Leases

-----------------------------------------------------------------------------
(* Steps that leave links and networks alone                               *)

\* What the daemon does to networks when it does not make or remove one.
LEMMA NetsKept ==
  ASSUME IInv, \/ UNCHANGED net
               \/ \E n \in Node : net' = DetachedEverywhere(n)
               \/ \E pr \in Pair : \E nid, ns : net' = Disconnected(pr, nid, ns)
  PROVE  \A pr \in Pair : NetKept(pr)
<1>1. net \in [Pair -> Network]
  BY DEF IInv, TypeOK
<1>2. CASE UNCHANGED net
  BY <1>2 DEF NetKept
<1>3. ASSUME NEW n \in Node, net' = DetachedEverywhere(n), NEW pr \in Pair PROVE NetKept(pr)
  BY <1>1, <1>3 DEF NetKept, DetachedEverywhere, Network
<1>4. ASSUME NEW x \in Pair, NEW nid, NEW ns, net' = Disconnected(x, nid, ns), NEW pr \in Pair
      PROVE  NetKept(pr)
  BY <1>1, <1>4 DEF NetKept, Disconnected, Network
<1> QED
  BY <1>2, <1>3, <1>4

\* A thread that neither begins nor ends work on a link, where no network is made or removed.
LEMMA ElsewhereKeeps ==
  ASSUME IInv, Leases, Asked', OnlyPast', UNCHANGED <<links, obj>>, pool'.inUse = pool.inUse,
         started' \in {started, started + 1}, \A pr \in Pair : NetKept(pr),
         NEW p \in Proc, NEW label, NEW l, Goto(p, label, l),
         pc[p] \notin CreateLinkLabel, label \notin LinkLabel
  PROVE  Leases'
<1>1. label \notin CreateLinkLabel /\ label \notin DeleteLinkLabel
  BY DEF LinkLabel
<1>2. \A pr \in Pair \ {<<>>} : NetKept(pr)
  OBVIOUS
<1>3. NetKept(<<>>) \/ <<>> \notin Pair
  OBVIOUS
<1> QED
  BY <1>1, <1>2, <1>3, NetStepKeeps

\* Labels of nodes are not labels of links.
LEMMA LabelsDiffer ==
  /\ \A label \in NodeLabel \union {"idle"} : label \notin LinkLabel
  /\ CreateLinkLabel \subseteq LinkLabel /\ DeleteLinkLabel \subseteq LinkLabel
  /\ CreateNodeLabel \subseteq NodeLabel /\ DeleteNodeLabel \subseteq NodeLabel
  /\ \A label \in CreateLinkLabel : label \notin DeleteLinkLabel
BY DEF LinkLabel, NodeLabel, CreateLinkLabel, CreateNodeLabel, DeleteLinkLabel, DeleteNodeLabel

\* create_node and the end of delete_node.
LEMMA NodeStepKeeps ==
  ASSUME IInv, Leases, Asked', OnlyPast', NEW p \in Proc, NodeStep(p), ~DnNext(p)
  PROVE  Leases'
<1>1. /\ UNCHANGED <<links, obj, pool, started>>
      /\ UNCHANGED net \/ \E n \in Node : net' = DetachedEverywhere(n)
      /\ pc[p] \in NodeLabel
  <2>1. pc[p] \in NodeLabel
    BY DEF NodeStep, CnStale, CnDir, CnRun, CnCheck, CnCommit, CnUndo, CnUnreserve, DnContainer,
       DnFinish, NodeLabel, CreateNodeLabel, DeleteNodeLabel
  <2>2. loc[p].n \in Node
    BY <2>1, ThreadFacts DEF LocalOK
  <2>3. UNCHANGED <<links, obj, pool, started>>
    BY DEF NodeStep, CnStale, CnDir, CnRun, CnCheck, CnCommit, CnUndo, CnUnreserve, DnContainer,
       DnFinish, tableVars, nodeOpUnchanged
  <2>4. UNCHANGED net \/ net' = DetachedEverywhere(loc[p].n)
    BY DEF NodeStep, CnStale, CnDir, CnRun, CnCheck, CnCommit, CnUndo, CnUnreserve, DnContainer,
       DnFinish, dockerVars, RemoveContainer
  <2> QED
    BY <2>1, <2>2, <2>3, <2>4
<1>2. \A pr \in Pair : NetKept(pr)
  BY <1>1, NetsKept
<1>3. \E label \in NodeLabel \union {"idle"} : \E l : Goto(p, label, l)
  <2> USE DEF NodeLabel, CreateNodeLabel, DeleteNodeLabel
  <2>1. CASE CnStale(p) \/ CnDir(p) \/ CnRun(p)
    BY <2>1 DEF CnStale, CnDir, CnRun, CnRaise
  <2>2. CASE CnCheck(p) \/ CnUndo(p)
    BY <2>2 DEF CnCheck, CnUndo, CnRaise
  <2>3. CASE CnCommit(p) \/ CnUnreserve(p) \/ DnContainer(p) \/ DnFinish(p)
    BY <2>3 DEF CnCommit, CnUnreserve, DnContainer, DnFinish, Finish
  <2> QED
    BY <2>1, <2>2, <2>3 DEF NodeStep
<1>4. pc[p] \notin CreateLinkLabel
  BY <1>1, LabelsDiffer
<1>5. PICK label \in NodeLabel \union {"idle"} : \E l : Goto(p, label, l)
  BY <1>3
<1>7. PICK l : Goto(p, label, l)
  BY <1>5
<1>6. label \notin LinkLabel
  BY LabelsDiffer
<1> QED
  BY <1>1, <1>2, <1>4, <1>6, <1>7, ElsewhereKeeps

\* What delete_link finds when it begins.
LEMMA VictimOK ==
  ASSUME IInv, Leases, NEW pr \in Pair, links[pr] # NoId, NEW l, l.pr = pr, l.lid = links[pr]
  PROVE  DeleteOK("dl_ion", l)
<1>1. links[pr] <= started + 1
  BY DEF Leases, OnlyPast
<1>2. \A qr \in Pair : links[qr] = links[pr] => qr = pr
  BY DEF Leases, IndicesOK, LinkNames
<1> QED
  BY <1>1, <1>2 DEF DeleteOK, DeleteEnd

\* A thread begins to delete a link.
LEMMA DeletionBegins ==
  ASSUME IInv, Leases, Asked', OnlyPast', NEW p \in Proc, NEW pr \in Pair, links[pr] # NoId,
         NEW l, l.pr = pr, l.lid = links[pr], Goto(p, "dl_ion", l), pc[p] \notin CreateLinkLabel,
         started' \in {started, started + 1}, UNCHANGED <<tableVars, dockerVars>>
  PROVE  Leases'
<1>1. DeleteOK("dl_ion", l) /\ UNCHANGED <<links, obj, pool, net>>
  BY VictimOK DEF tableVars, dockerVars
<1>2. l.lid \in Nat /\ started \in Nat
  BY BoundAssumption DEF IInv, TypeOK, Id, Boot
<1>3. DeleteOK("dl_ion", l)'
  BY <1>1, <1>2 DEF DeleteOK, DeleteEnd
<1>4. "dl_ion" \notin CreateLinkLabel
  BY DEF CreateLinkLabel
<1>5. \A qr \in Pair : NetKept(qr)
  BY <1>1, NetsKept
<1>6. pc[p] \in CreateLinkLabel <=> "dl_ion" \in CreateLinkLabel
  BY <1>4
<1> QED
  BY <1>1, <1>3, <1>4, <1>5, <1>6, NetStepKeeps

\* delete_node goes on to its next link, or to the container.
LEMMA DnNextKeeps ==
  ASSUME IInv, Leases, Asked', OnlyPast', NEW p \in Proc, DnNext(p)
  PROVE  Leases'
<1>1. /\ pc[p] = "dn_next" /\ UNCHANGED <<tableVars, dockerVars, started>> /\ loc[p] \in Local
      /\ loc[p].todo \subseteq Pair
  BY ThreadFacts DEF DnNext, Local
<1>2. pc[p] \notin CreateLinkLabel
  BY <1>1 DEF CreateLinkLabel
<1>3. \/ \E label \in {"dn_next", "dn_ctr"} : \E l : Goto(p, label, l)
      \/ \E pr \in loc[p].todo :
           links[pr] # NoId /\ Goto(p, "dl_ion", Victim([loc[p] EXCEPT !.todo = @ \ {pr}], pr))
  BY DEF DnNext
<1>4. ASSUME NEW label \in {"dn_next", "dn_ctr"}, NEW l, Goto(p, label, l) PROVE Leases'
  <2>1. label \notin LinkLabel
    BY DEF LinkLabel, CreateLinkLabel, DeleteLinkLabel
  <2>2. \A pr \in Pair : NetKept(pr)
    BY <1>1, NetsKept DEF dockerVars
  <2> QED
    BY <1>1, <1>2, <1>4, <2>1, <2>2, ElsewhereKeeps DEF tableVars
<1>5. ASSUME NEW pr \in loc[p].todo, links[pr] # NoId,
             Goto(p, "dl_ion", Victim([loc[p] EXCEPT !.todo = @ \ {pr}], pr))
      PROVE Leases'
  <2> DEFINE r == [loc[p] EXCEPT !.todo = @ \ {pr}]
  <2>1. r \in Local /\ pr \in Pair
    BY <1>1 DEF Local
  <2> HIDE DEF r
  <2>2. Victim(r, pr).pr = pr /\ Victim(r, pr).lid = links[pr]
    BY <2>1, VictimFacts DEF IInv
  <2>3. PICK l : l = Victim(r, pr)
    OBVIOUS
  <2>4. Goto(p, "dl_ion", l)
    BY <1>5, <2>3 DEF r
  <2> QED
    BY <1>1, <1>2, <1>5, <2>1, <2>2, <2>3, <2>4, DeletionBegins
<1> QED
  BY <1>3, <1>4, <1>5

\* The first step of delete_link, create_node and delete_node.
LEMMA OtherCallsKeep ==
  ASSUME IInv, Leases, Asked', OnlyPast', NEW p \in Proc,
         (\E pr \in Pair : DeleteLink(p, pr)) \/ NodeCall(p)
  PROVE  Leases'
<1>1. ASSUME NEW pr \in Pair, DeleteLink(p, pr) PROVE Leases'
  <2> DEFINE m == [NoLocal EXCEPT !.call = "delete_link"]
  <2>1. m \in Local
    BY NeutralTypes DEF Local, Operation
  <2> HIDE DEF m
  <2>2. Victim(m, pr).pr = pr /\ Victim(m, pr).lid = links[pr]
    BY <2>1, VictimFacts DEF IInv
  <2>3. PICK l : l = Victim(m, pr)
    OBVIOUS
  <2>4. Goto(p, "dl_ion", l) /\ links[pr] # NoId /\ pc[p] = "idle" /\ started' = started + 1
        /\ UNCHANGED <<tableVars, dockerVars>>
    BY <1>1, <2>3 DEF DeleteLink, Begin, m
  <2>5. pc[p] \notin CreateLinkLabel
    BY <2>4 DEF CreateLinkLabel
  <2> QED
    BY <2>2, <2>3, <2>4, <2>5, DeletionBegins
<1>2. ASSUME NEW n \in Node, CreateNode(p, n) \/ DeleteNode(p, n) PROVE Leases'
  <2>1. /\ UNCHANGED <<links, obj, pool, net>> /\ started' = started + 1 /\ pc[p] = "idle"
        /\ \E label \in {"cn_stale", "dn_next"} : \E l : Goto(p, label, l)
    BY <1>2 DEF CreateNode, DeleteNode, Begin, nodeOpUnchanged, tableVars, dockerVars
  <2>2. PICK label \in {"cn_stale", "dn_next"} : \E l : Goto(p, label, l)
    BY <2>1
  <2>5. PICK l : Goto(p, label, l)
    BY <2>2
  <2>3. label \notin LinkLabel /\ pc[p] \notin CreateLinkLabel
    BY <2>1 DEF LinkLabel, CreateLinkLabel, DeleteLinkLabel
  <2>4. \A pr \in Pair : NetKept(pr)
    BY <2>1, NetsKept
  <2> QED
    BY <2>1, <2>3, <2>4, <2>5, ElsewhereKeeps
<1> QED
  BY <1>1, <1>2 DEF NodeCall

-----------------------------------------------------------------------------
(* The steps of create_link                                                *)

\* A step of create_link that leaves the tables alone and the other networks as they are.
LEMMA BuilderStepKeeps ==
  ASSUME IInv, Leases, OneDeletes, Asked', OnlyPast', UNCHANGED <<tableVars, started>>,
         NEW p \in Proc, pc[p] \in CreateLinkLabel,
         NEW label \in CreateLinkLabel \ {"cl_race", "cl_adopt"}, NEW l, Goto(p, label, l),
         l.pr = loc[p].pr, l.op = loc[p].op, l.idx = loc[p].idx,
         \A pr \in Pair \ {loc[p].pr} : net'[pr] = net[pr],
         net'[loc[p].pr].att \subseteq Ends(loc[p].pr), Held(label, l)'
  PROVE  Leases'
<1>0. PICK at : at = loc[p].pr
  OBVIOUS
<1>1. /\ at \in Pair /\ BuildOK(pc[p], loc[p]) /\ links[at] = loc[p].op /\ loc[p].op # NoId
      /\ started \in Nat /\ UNCHANGED <<links, obj, pool, started>>
  BY <1>0, BuilderFacts, BoundAssumption DEF tableVars, IInv, TypeOK
<1>2. BuildOK(label, l)'
  BY <1>0, <1>1 DEF BuildOK
<1>3. Builds(p, at)'
  <2>1. pc'[p] = label /\ loc'[p] = l
    BY DEF Goto, IInv, TypeOK
  <2> QED
    BY <1>0, <2>1 DEF Builds
<1>4. LinkOK(at)'
  BY <1>0, <1>1, <1>3 DEF LinkOK, BuildOK
<1>5. \A q \in Proc \ {p} : loc[q].pr = at => pc[q] \notin CreateLinkLabel \union DeleteEnd
  BY <1>0, Alone
<1>6. \A pr \in Pair \ {at} : NetKept(pr)
  BY <1>0 DEF NetKept
<1>7. label \notin DeleteLinkLabel
  BY LabelsDiffer
<1> QED
  BY <1>0, <1>1, <1>2, <1>4, <1>5, <1>6, <1>7, NetStepKeeps

\* A step of create_link that changes no network.
LEMMA BuilderLooks ==
  ASSUME IInv, Leases, OneDeletes, Asked', OnlyPast', UNCHANGED <<tableVars, net, started>>,
         NEW p \in Proc, pc[p] \in CreateLinkLabel,
         NEW label \in CreateLinkLabel \ {"cl_race", "cl_adopt"}, NEW l, Goto(p, label, l),
         l.pr = loc[p].pr, l.op = loc[p].op, l.idx = loc[p].idx, Held(label, l)
  PROVE  Leases'
<1>1. net[loc[p].pr].att \subseteq Ends(loc[p].pr)
  BY BuilderFacts DEF Leases, LinkOK
<1>2. Held(label, l)'
  BY DEF Held, Made, Own, Bare
<1> QED
  BY <1>1, <1>2, BuilderStepKeeps

\* The exception handler of create_link starts its rollback.
LEMMA UndoKeeps ==
  ASSUME IInv, Leases, OneDeletes, Asked', OnlyPast', UNCHANGED <<tableVars, net, started>>,
         NEW p \in Proc, pc[p] \in CreateLinkLabel, Undo(p), Bare(loc[p].pr) \/ Own(loc[p])
  PROVE  Leases'
<1>1. Held("cl_undo", loc[p])
  BY DEF Held
<1>2. "cl_undo" \in CreateLinkLabel \ {"cl_race", "cl_adopt"}
  BY DEF CreateLinkLabel
<1> QED
  BY <1>1, <1>2, BuilderLooks DEF Undo

\* The lookup of the network finds none: the link has only just been reserved.
LEMMA ClGetKeeps ==
  ASSUME IInv, Leases, OneDeletes, Asked', OnlyPast', NEW p \in Proc, ClGet(p)
  PROVE  Leases'
<1>1. pc[p] = "cl_get" /\ pc[p] \in CreateLinkLabel
  BY DEF ClGet, CreateLinkLabel
<1>2. Bare(loc[p].pr)
  BY <1>1, BuilderFacts DEF BuildOK, Held
<1>3. /\ UNCHANGED <<tableVars, net, started>>
      /\ Undo(p) \/ Goto(p, "cl_new", loc[p])
  BY <1>2 DEF ClGet, dockerVars, Bare
<1>4. Held("cl_new", loc[p]) /\ "cl_new" \in CreateLinkLabel \ {"cl_race", "cl_adopt"}
  BY <1>2 DEF Held, CreateLinkLabel
<1> QED
  BY <1>1, <1>2, <1>3, <1>4, UndoKeeps, BuilderLooks

\* The network is made under the subnet that was reserved.
LEMMA ClNewKeeps ==
  ASSUME IInv, Leases, OneDeletes, NetworksTidy, Asked', OnlyPast', NEW p \in Proc, ClNew(p)
  PROVE  Leases'
<1> DEFINE l == [loc[p] EXCEPT !.nid = loc[p].op, !.real = loc[p].idx, !.made = TRUE]
           k == [nid |-> loc[p].op, sub |-> loc[p].idx, att |-> {}]
<1>1. pc[p] = "cl_new" /\ pc[p] \in CreateLinkLabel
  BY DEF ClNew, CreateLinkLabel
<1>2. Bare(loc[p].pr) /\ loc[p] \in Local /\ loc[p].pr \in Pair
  BY <1>1, BuilderFacts DEF BuildOK, Held
<1>3. /\ UNCHANGED <<tableVars, started>>
      /\ \/ Undo(p) /\ UNCHANGED net
         \/ net' = [net EXCEPT ![loc[p].pr] = k] /\ Goto(p, "cl_ctrs", l)
  BY <1>2 DEF ClNew, Bare, HaveNetwork, ReplyLost, NetworksTidy
<1>4. l.pr = loc[p].pr /\ l.op = loc[p].op /\ l.idx = loc[p].idx /\ l.nid = loc[p].op /\ l.made
  BY <1>2 DEF Local
<1>5. k.nid = loc[p].op /\ k.sub = loc[p].idx /\ k.att = {}
  OBVIOUS
<1> HIDE DEF l, k
<1>6. CASE Undo(p) /\ UNCHANGED net
  BY <1>1, <1>2, <1>3, <1>6, UndoKeeps
<1>7. CASE net' = [net EXCEPT ![loc[p].pr] = k] /\ Goto(p, "cl_ctrs", l)
  <2>1. net'[loc[p].pr] = k /\ \A pr \in Pair \ {loc[p].pr} : net'[pr] = net[pr]
    BY <1>2, <1>7 DEF IInv, TypeOK
  <2>5. PICK m : m = l
    OBVIOUS
  <2>2. Held("cl_ctrs", m)'
    BY <1>4, <1>5, <2>1, <2>5 DEF Held, Made, Own
  <2>3. "cl_ctrs" \in CreateLinkLabel \ {"cl_race", "cl_adopt"}
    BY DEF CreateLinkLabel
  <2>4. net'[loc[p].pr].att \subseteq Ends(loc[p].pr)
    BY <1>5, <2>1
  <2> QED
    BY <1>1, <1>3, <1>4, <1>7, <2>1, <2>2, <2>3, <2>4, <2>5, BuilderStepKeeps
<1> QED
  BY <1>3, <1>6, <1>7

\* No name is taken, so the answer 409 does not come.
LEMMA ClRaceKeeps ==
  ASSUME IInv, Leases, NEW p \in Proc, ClRace(p) \/ ClAdopt(p)
  PROVE  Leases'
<1>1. pc[p] \in {"cl_race", "cl_adopt"} /\ pc[p] \in CreateLinkLabel
  BY DEF ClRace, ClAdopt, CreateLinkLabel
<1>2. BuildOK(pc[p], loc[p])
  BY <1>1, BuilderFacts
<1> QED
  BY <1>1, <1>2 DEF BuildOK

\* The lookup of both containers.
LEMMA ClContainersKeeps ==
  ASSUME IInv, Leases, OneDeletes, Asked', OnlyPast', NEW p \in Proc, ClContainers(p)
  PROVE  Leases'
<1>1. pc[p] = "cl_ctrs" /\ pc[p] \in CreateLinkLabel
  BY DEF ClContainers, CreateLinkLabel
<1>2. Made(loc[p]) /\ loc[p] \in Local
  BY <1>1, BuilderFacts DEF BuildOK, Held
<1>3. /\ UNCHANGED <<tableVars, net, started>>
      /\ Undo(p) \/ \E c : Goto(p, "cl_connect", [loc[p] EXCEPT !.cid = c])
  BY DEF ClContainers, dockerVars
<1>4. ASSUME NEW c, Goto(p, "cl_connect", [loc[p] EXCEPT !.cid = c]) PROVE Leases'
  <2> DEFINE l == [loc[p] EXCEPT !.cid = c]
  <2>1. /\ l.pr = loc[p].pr /\ l.op = loc[p].op /\ l.idx = loc[p].idx
        /\ l.nid = loc[p].nid /\ l.made = loc[p].made /\ l.con = loc[p].con
    BY <1>2 DEF Local
  <2>2. Goto(p, "cl_connect", l)
    BY <1>4
  <2> HIDE DEF l
  <2>3. Held("cl_connect", l) /\ "cl_connect" \in CreateLinkLabel \ {"cl_race", "cl_adopt"}
    BY <1>2, <2>1 DEF Held, Made, Own, Bare, CreateLinkLabel
  <2> QED
    BY <1>1, <1>3, <2>1, <2>2, <2>3, BuilderLooks
<1> QED
  BY <1>1, <1>2, <1>3, <1>4, UndoKeeps DEF Made

\* An end is attached to the network that the thread has made.
LEMMA ClConnectKeeps ==
  ASSUME IInv, Leases, OneDeletes, NetworksTidy, Asked', OnlyPast', NEW p \in Proc, ClConnect(p)
  PROVE  Leases'
<1> DEFINE n == At(loc[p].pr, loc[p].side)
           l == [loc[p] EXCEPT !.con = @ \union {loc[p].side}, !.side = Other(@)]
<1>1. pc[p] = "cl_connect" /\ pc[p] \in CreateLinkLabel
  BY DEF ClConnect, CreateLinkLabel
<1>2. /\ Made(loc[p]) /\ loc[p] \in Local /\ loc[p].pr \in Pair
      /\ loc[p].op # NoId /\ loc[p].nid = loc[p].op
  BY <1>1, BuilderFacts DEF BuildOK, Held, Made
<1>3. /\ UNCHANGED <<tableVars, started>>
      /\ \/ Undo(p) /\ UNCHANGED net
         \/ /\ net' = Attached(loc[p].pr, n) /\ net[loc[p].pr].nid = loc[p].nid
            /\ \E label \in {"cl_connect", "cl_ready"} : Goto(p, label, l)
  BY DEF ClConnect, ReplyLost, NetworksTidy
<1>4. /\ l.pr = loc[p].pr /\ l.op = loc[p].op /\ l.idx = loc[p].idx
      /\ l.nid = loc[p].nid /\ l.made = loc[p].made /\ l.con = loc[p].con \union {loc[p].side}
  BY <1>2 DEF Local
<1>5. n \in Ends(loc[p].pr)
  BY DEF At, Ends
<1> HIDE DEF l
<1>6. CASE Undo(p) /\ UNCHANGED net
  BY <1>1, <1>2, <1>3, <1>6, UndoKeeps DEF Made
<1>7. ASSUME net' = Attached(loc[p].pr, n), net[loc[p].pr].nid = loc[p].nid,
             NEW label \in {"cl_connect", "cl_ready"}, Goto(p, label, l)
      PROVE  Leases'
  <2>6. Own(loc[p])
    BY <1>2, <1>7 DEF Made, Bare
  <2>1. /\ \A pr \in Pair \ {loc[p].pr} : net'[pr] = net[pr]
        /\ net'[loc[p].pr].nid = net[loc[p].pr].nid /\ net'[loc[p].pr].sub = net[loc[p].pr].sub
        /\ net'[loc[p].pr].att \subseteq net[loc[p].pr].att \union {n}
    <3>1. net \in [Pair -> Network] /\ net[loc[p].pr] \in Network
      BY <1>2 DEF IInv, TypeOK
    <3> QED
      BY <1>2, <1>7, <3>1 DEF Attached, Network
  <2>5. PICK m : m = l
    OBVIOUS
  <2>2. Own(m)'
    <3>1. /\ m.pr = loc[p].pr /\ m.op = loc[p].op /\ m.idx = loc[p].idx
          /\ m.nid = loc[p].nid /\ m.made = loc[p].made /\ m.con = loc[p].con \union {loc[p].side}
      BY <1>4, <2>5
    <3>2. {At(loc[p].pr, s) : s \in loc[p].con} \union {n} \subseteq {At(m.pr, s) : s \in m.con}
      BY <3>1
    <3>3. net'[m.pr].att \subseteq {At(m.pr, s) : s \in m.con}
      BY <2>1, <2>6, <3>1, <3>2 DEF Own
    <3> QED
      BY <2>1, <2>6, <3>1, <3>3 DEF Own
  <2>3. Held(label, m)' /\ label \in CreateLinkLabel \ {"cl_race", "cl_adopt"}
    BY <2>2 DEF Held, Made, Own, CreateLinkLabel
  <2>4. net'[loc[p].pr].att \subseteq Ends(loc[p].pr)
    BY <1>2, <1>5, <2>1 DEF Leases, LinkOK
  <2> QED
    BY <1>1, <1>3, <1>4, <1>7, <2>1, <2>3, <2>4, <2>5, BuilderStepKeeps
<1> QED
  BY <1>3, <1>6, <1>7

\* The wait for ION of both ends.
LEMMA ClReadyKeeps ==
  ASSUME IInv, Leases, OneDeletes, Asked', OnlyPast', NEW p \in Proc, ClReady(p)
  PROVE  Leases'
<1>1. pc[p] = "cl_ready" /\ pc[p] \in CreateLinkLabel
  BY DEF ClReady, CreateLinkLabel
<1>2. Made(loc[p]) /\ loc[p] \in Local
  BY <1>1, BuilderFacts DEF BuildOK, Held
<1>3. /\ UNCHANGED <<tableVars, net, started>>
      /\ \E r : Goto(p, "cl_config", [loc[p] EXCEPT !.rdy = r])
  BY DEF ClReady, dockerVars
<1>4. PICK r : Goto(p, "cl_config", [loc[p] EXCEPT !.rdy = r])
  BY <1>3
<1> DEFINE l == [loc[p] EXCEPT !.rdy = r]
<1>5. /\ l.pr = loc[p].pr /\ l.op = loc[p].op /\ l.idx = loc[p].idx
      /\ l.nid = loc[p].nid /\ l.made = loc[p].made /\ l.con = loc[p].con
  BY <1>2 DEF Local
<1>6. Goto(p, "cl_config", l)
  BY <1>4
<1> HIDE DEF l
<1>7. Held("cl_config", l) /\ "cl_config" \in CreateLinkLabel \ {"cl_race", "cl_adopt"}
  BY <1>2, <1>5 DEF Held, Made, Own, Bare, CreateLinkLabel
<1> QED
  BY <1>1, <1>3, <1>5, <1>6, <1>7, BuilderLooks

\* The configuration of ION changes no network.
LEMMA ClConfigKeeps ==
  ASSUME IInv, Leases, OneDeletes, Asked', OnlyPast', NEW p \in Proc, ClConfig(p)
  PROVE  Leases'
<1> DEFINE l(ok) == [loc[p] EXCEPT !.side = Other(@), !.ok = @ /\ ok]
<1>1. pc[p] = "cl_config" /\ pc[p] \in CreateLinkLabel
  BY DEF ClConfig, CreateLinkLabel
<1>2. Made(loc[p]) /\ loc[p] \in Local
  BY <1>1, BuilderFacts DEF BuildOK, Held
<1>3. /\ UNCHANGED <<tableVars, net, started>>
      /\ Undo(p) \/ \E label \in {"cl_config", "cl_commit"}, ok \in BOOLEAN : Goto(p, label, l(ok))
  BY DEF ClConfig
<1>4. \A ok : /\ l(ok).pr = loc[p].pr /\ l(ok).op = loc[p].op /\ l(ok).idx = loc[p].idx
              /\ l(ok).nid = loc[p].nid /\ l(ok).made = loc[p].made /\ l(ok).con = loc[p].con
  BY <1>2 DEF Local
<1> HIDE DEF l
<1>5. ASSUME NEW label \in {"cl_config", "cl_commit"}, NEW ok \in BOOLEAN, Goto(p, label, l(ok))
      PROVE  Leases'
  <2>1. Held(label, l(ok)) /\ label \in CreateLinkLabel \ {"cl_race", "cl_adopt"}
    BY <1>2, <1>4 DEF Held, Made, Own, Bare, CreateLinkLabel
  <2> QED
    BY <1>1, <1>3, <1>4, <1>5, <2>1, BuilderLooks
<1> QED
  BY <1>1, <1>2, <1>3, <1>5, UndoKeeps DEF Made

\* The rollback disconnects the ends.
LEMMA ClUndoKeeps ==
  ASSUME IInv, Leases, OneDeletes, NetworksTidy, Asked', OnlyPast', NEW p \in Proc, ClUndo(p)
  PROVE  Leases'
<1>0. PICK l : l = loc[p]
  OBVIOUS
<1> DEFINE ns == {At(l.pr, s) : s \in l.con}
<1>1. pc[p] = "cl_undo" /\ pc[p] \in CreateLinkLabel
  BY DEF ClUndo, CreateLinkLabel
<1>2. (Bare(l.pr) \/ Own(l)) /\ l.pr \in Pair
  BY <1>0, <1>1, BuilderFacts DEF BuildOK, Held
<1>3. /\ UNCHANGED <<tableVars, started>> /\ net' = Disconnected(l.pr, l.nid, ns)
      /\ Goto(p, AfterDisconnect(l), l)
  BY <1>0 DEF ClUndo, Fails, NetworksTidy
<1>4. net \in [Pair -> Network] /\ net[l.pr] \in Network
  BY <1>2 DEF IInv, TypeOK
<1>5. /\ \A pr \in Pair \ {l.pr} : net'[pr] = net[pr]
      /\ net'[l.pr].nid = net[l.pr].nid /\ net'[l.pr].sub = net[l.pr].sub
      /\ net'[l.pr].att \subseteq net[l.pr].att
      /\ net[l.pr].nid = l.nid => net'[l.pr].att = net[l.pr].att \ ns
  BY <1>2, <1>3, <1>4 DEF Disconnected, Network
<1>6. Bare(l.pr)' \/ (Own(l)' /\ net'[l.pr].att = {} /\ l.made)
  BY <1>2, <1>5 DEF Bare, Own
<1>10. PICK label : label = AfterDisconnect(l)
  OBVIOUS
<1>7. label \in {"cl_unnet", "cl_unres"} /\ (l.made => label = "cl_unnet")
  BY <1>10 DEF AfterDisconnect
<1>8. Held(label, l)' /\ label \in CreateLinkLabel \ {"cl_race", "cl_adopt"}
  BY <1>6, <1>7 DEF Held, CreateLinkLabel
<1>9. net'[l.pr].att \subseteq Ends(l.pr)
  BY <1>2, <1>5 DEF Leases, LinkOK
<1> QED
  BY <1>0, <1>1, <1>3, <1>5, <1>8, <1>9, <1>10, BuilderStepKeeps

\* The rollback removes the network, which has no endpoint left.
LEMMA ClUnnetKeeps ==
  ASSUME IInv, Leases, OneDeletes, NetworksTidy, Asked', OnlyPast', NEW p \in Proc, ClUnnet(p)
  PROVE  Leases'
<1>0. PICK l : l = loc[p]
  OBVIOUS
<1>1. pc[p] = "cl_unnet" /\ pc[p] \in CreateLinkLabel
  BY DEF ClUnnet, CreateLinkLabel
<1>2. (Bare(l.pr) \/ (Own(l) /\ net[l.pr].att = {})) /\ l.pr \in Pair
  BY <1>0, <1>1, BuilderFacts DEF BuildOK, Held
<1>3. /\ UNCHANGED <<tableVars, started>> /\ Goto(p, "cl_unres", l)
      /\ \/ net' = [net EXCEPT ![l.pr] = NoNetwork]
         \/ ~(net[l.pr].nid = l.nid /\ net[l.pr].att = {}) /\ UNCHANGED net
  BY <1>0 DEF ClUnnet, Fails, NetworksTidy
<1>4. /\ \A pr \in Pair \ {l.pr} : net'[pr] = net[pr]
      /\ net'[l.pr].nid = NoId /\ net'[l.pr].att \subseteq net[l.pr].att
  BY <1>2, <1>3 DEF IInv, TypeOK, NoNetwork, Bare, Own
<1>5. Held("cl_unres", l)' /\ "cl_unres" \in CreateLinkLabel \ {"cl_race", "cl_adopt"}
  BY <1>4 DEF Held, Bare, CreateLinkLabel
<1>6. net'[l.pr].att \subseteq Ends(l.pr)
  BY <1>2, <1>4 DEF Leases, LinkOK
<1> QED
  BY <1>0, <1>1, <1>3, <1>4, <1>5, <1>6, BuilderStepKeeps

-----------------------------------------------------------------------------
(* The steps of delete_link, and the end of containers                     *)

\* A step of delete_link that leaves the tables alone.
LEMMA DeleterStepKeeps ==
  ASSUME IInv, Leases, Asked', OnlyPast', UNCHANGED <<tableVars, started>>,
         \A pr \in Pair : NetKept(pr),
         NEW p \in Proc, pc[p] \in DeleteLinkLabel, NEW label \in DeleteLinkLabel, NEW l,
         Goto(p, label, l), l.pr = loc[p].pr, l.lid = loc[p].lid,
         label \in DeleteEnd => links[l.pr] = l.lid /\ obj[l.lid].named,
         label \in {"dl_disc", "dl_remove"} => net'[l.pr].nid = l.nid \/ net'[l.pr].nid = NoId,
         label = "dl_finish" => net'[l.pr].nid = NoId
  PROVE  Leases'
<1>1. DeleteOK(pc[p], loc[p]) /\ UNCHANGED <<links, obj, pool, started>> /\ started \in Nat
  BY DeleterFacts, BoundAssumption DEF tableVars, IInv, TypeOK
<1>2. DeleteOK(label, l)'
  BY <1>1 DEF DeleteOK, Bare
<1>3. label \notin CreateLinkLabel /\ pc[p] \notin CreateLinkLabel
  BY LabelsDiffer
<1>4. <<>> \notin Pair \/ NetKept(<<>>)
  OBVIOUS
<1> QED
  BY <1>1, <1>2, <1>3, <1>4, NetStepKeeps

\* delete_link returns, or raises, without having taken the link out.
LEMMA ReturnKeeps ==
  ASSUME IInv, Leases, Asked', OnlyPast', UNCHANGED <<tableVars, started>>,
         \A pr \in Pair : NetKept(pr), NEW p \in Proc, pc[p] \in DeleteLinkLabel, DlReturn(p)
  PROVE  Leases'
<1>1. \E label \in {"idle", "dn_next"} : \E l : Goto(p, label, l)
  BY DEF DlReturn, Finish
<1>2. PICK label \in {"idle", "dn_next"} : \E l : Goto(p, label, l)
  BY <1>1
<1>3. PICK l : Goto(p, label, l)
  BY <1>2
<1>4. label \notin LinkLabel /\ pc[p] \notin CreateLinkLabel
  BY LabelsDiffer DEF NodeLabel, DeleteNodeLabel
<1> QED
  BY <1>3, <1>4, ElsewhereKeeps DEF tableVars

\* The removal of plans and outducts.
LEMMA DlIonKeeps ==
  ASSUME IInv, Leases, Asked', OnlyPast', NEW p \in Proc, DlIon(p)
  PROVE  Leases'
<1> DEFINE i == IF loc[p].side = "a" THEN obj[loc[p].lid].idx ELSE loc[p].idx
           l == [[loc[p] EXCEPT !.idx = i] EXCEPT !.side = Other(@)]
<1>1. /\ pc[p] \in DeleteLinkLabel /\ loc[p] \in Local
      /\ UNCHANGED <<tableVars, net, started>>
      /\ \E label \in {"dl_ion", "dl_get"} : Goto(p, label, l)
  BY ThreadFacts DEF DlIon, DeleteLinkLabel
<1> HIDE DEF i
<1>2. l.pr = loc[p].pr /\ l.lid = loc[p].lid
  BY <1>1 DEF Local
<1> HIDE DEF l
<1>3. PICK label \in {"dl_ion", "dl_get"} : Goto(p, label, l)
  BY <1>1
<1>4. label \in DeleteLinkLabel /\ label \notin DeleteEnd
  BY DEF DeleteLinkLabel, DeleteEnd
<1>5. \A pr \in Pair : NetKept(pr)
  BY <1>1, NetsKept
<1>6. PICK m : m = l
  OBVIOUS
<1> QED
  BY <1>1, <1>2, <1>3, <1>4, <1>5, <1>6, DeleterStepKeeps DEF DeleteEnd

\* The lookup of the network by the Link object: it is there, or was never made.
LEMMA DlGetKeeps ==
  ASSUME IInv, Leases, Asked', OnlyPast', NEW p \in Proc, DlGet(p)
  PROVE  Leases'
<1> DEFINE k == net[loc[p].pr]
           l == [loc[p] EXCEPT !.nid = k.nid]
<1>1. pc[p] = "dl_get" /\ pc[p] \in DeleteLinkLabel /\ UNCHANGED <<tableVars, net, started>>
  BY DEF DlGet, DeleteLinkLabel, dockerVars
<1>2. loc[p] \in Local /\ DeleteOK(pc[p], loc[p])
  BY <1>1, DeleterFacts
<1>3. \/ DlReturn(p)
      \/ obj[loc[p].lid].named /\ Goto(p, "dl_disc", l)
      \/ obj[loc[p].lid].named /\ k.nid = NoId /\ Goto(p, "dl_finish", loc[p])
  BY DEF DlGet
<1>4. obj[loc[p].lid].named => links[loc[p].pr] = loc[p].lid
  BY <1>2 DEF DeleteOK
<1>5. \A pr \in Pair : NetKept(pr)
  BY <1>1, NetsKept
<1>6. CASE DlReturn(p)
  BY <1>1, <1>5, <1>6, ReturnKeeps
<1>7. CASE obj[loc[p].lid].named /\ Goto(p, "dl_disc", l)
  <2>1. PICK m : m = l
    OBVIOUS
  <2>2. m.pr = loc[p].pr /\ m.lid = loc[p].lid /\ m.nid = net'[m.pr].nid
    BY <1>1, <1>2, <2>1 DEF Local
  <2>3. "dl_disc" \in DeleteLinkLabel
    BY DEF DeleteLinkLabel
  <2>4. Goto(p, "dl_disc", m)
    BY <1>7, <2>1
  <2> QED
    BY <1>1, <1>4, <1>5, <1>7, <2>2, <2>3, <2>4, DeleterStepKeeps
<1>8. CASE obj[loc[p].lid].named /\ k.nid = NoId /\ Goto(p, "dl_finish", loc[p])
  <2>1. PICK m : m = loc[p]
    OBVIOUS
  <2>2. "dl_finish" \in DeleteLinkLabel
    BY DEF DeleteLinkLabel
  <2>3. Goto(p, "dl_finish", m) /\ m.pr = loc[p].pr /\ m.lid = loc[p].lid /\ net'[m.pr].nid = NoId
    BY <1>1, <1>8, <2>1
  <2> QED
    BY <1>1, <1>4, <1>5, <1>8, <2>2, <2>3, DeleterStepKeeps
<1> QED
  BY <1>3, <1>6, <1>7, <1>8

\* The disconnection of one end.
LEMMA DlDisconnectKeeps ==
  ASSUME IInv, Leases, Asked', OnlyPast', NEW p \in Proc, DlDisconnect(p)
  PROVE  Leases'
<1>1. PICK l : l = loc[p]
  OBVIOUS
<1>2. /\ pc[p] = "dl_disc" /\ pc[p] \in DeleteLinkLabel /\ pc[p] \in DeleteEnd
      /\ UNCHANGED <<tableVars, started>> /\ Goto(p, "dl_remove", l)
  BY <1>1 DEF DlDisconnect, DeleteLinkLabel, DeleteEnd
<1>3. l.pr \in Pair /\ DeleteOK("dl_disc", l)
  BY <1>1, <1>2, DeleterFacts
<1>4. \A pr \in Pair : NetKept(pr)
  <2>1. \E nid, ns : net' = Disconnected(l.pr, nid, ns)
    BY <1>1 DEF DlDisconnect
  <2> QED
    BY <1>3, <2>1, NetsKept
<1>5. /\ net'[l.pr].nid = l.nid \/ net'[l.pr].nid = NoId
      /\ links[l.pr] = l.lid /\ obj[l.lid].named
  BY <1>3, <1>4 DEF NetKept, DeleteOK, DeleteEnd, Bare
<1>6. "dl_remove" \in DeleteLinkLabel
  BY DEF DeleteLinkLabel
<1> QED
  BY <1>1, <1>2, <1>4, <1>5, <1>6, DeleterStepKeeps

\* network.remove() takes down the network of the link that is deleted.
LEMMA NetworkRemoved ==
  ASSUME IInv, Leases, OneDeletes, Asked', OnlyPast', UNCHANGED <<tableVars, started>>,
         NEW p \in Proc, pc[p] = "dl_remove", net' = [net EXCEPT ![loc[p].pr] = NoNetwork],
         NEW label, NEW l, Goto(p, label, l),
         label \in {"idle", "dn_next"} \/ (label = "dl_finish" /\ l = loc[p])
  PROVE  Leases'
<1>1. PICK at : at = loc[p].pr
  OBVIOUS
<1>2. pc[p] \in DeleteLinkLabel /\ pc[p] \in DeleteEnd
  BY DEF DeleteLinkLabel, DeleteEnd
<1>3. at \in Pair /\ DeleteOK("dl_remove", loc[p]) /\ UNCHANGED <<links, obj, pool, started>>
      /\ loc[p].lid # NoId /\ started \in Nat
  BY <1>1, <1>2, DeleterFacts, BoundAssumption DEF tableVars, IInv, TypeOK
<1>4. /\ net'[at].nid = NoId /\ net'[at].att = {}
      /\ \A pr \in Pair \ {at} : net'[pr] = net[pr]
  BY <1>1, <1>3 DEF IInv, TypeOK, NoNetwork
<1>5. LinkOK(at)'
  BY <1>1, <1>3, <1>4 DEF LinkOK, DeleteOK, DeleteEnd, Bare
<1>6. \A q \in Proc \ {p} : loc[q].pr = at => pc[q] \notin CreateLinkLabel \union DeleteEnd
  BY <1>1, <1>2, Alone
<1>7. \A pr \in Pair \ {at} : NetKept(pr)
  BY <1>4 DEF NetKept
<1>8. label \notin CreateLinkLabel /\ pc[p] \notin CreateLinkLabel
  BY <1>2, LabelsDiffer DEF CreateLinkLabel
<1>9. label \in DeleteLinkLabel => DeleteOK(label, l)'
  <2>1. label \in DeleteLinkLabel => label = "dl_finish" /\ l = loc[p]
    BY DEF DeleteLinkLabel
  <2>2. label = "dl_finish" /\ l = loc[p] => DeleteOK(label, l)'
    BY <1>1, <1>3, <1>4 DEF DeleteOK, DeleteEnd, Bare
  <2> QED
    BY <2>1, <2>2
<1> QED
  BY <1>3, <1>5, <1>6, <1>7, <1>8, <1>9, NetStepKeeps

\* The removal of the network, or its refusal.
LEMMA DlRemoveKeeps ==
  ASSUME IInv, Leases, OneDeletes, Asked', OnlyPast', NEW p \in Proc, DlRemove(p)
  PROVE  Leases'
<1>1. pc[p] = "dl_remove" /\ pc[p] \in DeleteLinkLabel /\ UNCHANGED <<tableVars, started>>
  BY DEF DlRemove, DeleteLinkLabel
<1>2. /\ net[loc[p].pr].nid = loc[p].nid \/ net[loc[p].pr].nid = NoId
      /\ links[loc[p].pr] = loc[p].lid /\ obj[loc[p].lid].named
  BY <1>1, DeleterFacts DEF DeleteOK, DeleteEnd, Bare
<1>3. \/ UNCHANGED net /\ DlReturn(p)
      \/ UNCHANGED net /\ net[loc[p].pr].nid = NoId /\ Goto(p, "dl_finish", loc[p])
      \/ /\ net' = [net EXCEPT ![loc[p].pr] = NoNetwork]
         /\ DlReturn(p) \/ Goto(p, "dl_finish", loc[p])
  BY <1>2 DEF DlRemove, Refusal
<1>6. CASE UNCHANGED net /\ net[loc[p].pr].nid = NoId /\ Goto(p, "dl_finish", loc[p])
  <2>1. PICK l : l = loc[p]
    OBVIOUS
  <2>2. "dl_finish" \in DeleteLinkLabel /\ net'[l.pr].nid = NoId
    BY <1>6, <2>1 DEF DeleteLinkLabel
  <2>3. \A pr \in Pair : NetKept(pr)
    BY <1>6, NetsKept
  <2> QED
    BY <1>1, <1>2, <1>6, <2>1, <2>2, <2>3, DeleterStepKeeps
<1>4. CASE UNCHANGED net /\ DlReturn(p)
  BY <1>1, <1>4, NetsKept, ReturnKeeps
<1>5. CASE /\ net' = [net EXCEPT ![loc[p].pr] = NoNetwork]
           /\ DlReturn(p) \/ Goto(p, "dl_finish", loc[p])
  <2>1. \/ \E label \in {"idle", "dn_next"} : \E l : Goto(p, label, l)
        \/ Goto(p, "dl_finish", loc[p])
    BY <1>5 DEF DlReturn, Finish
  <2>2. ASSUME NEW label \in {"idle", "dn_next"}, NEW l, Goto(p, label, l) PROVE Leases'
    BY <1>1, <1>5, <2>2, NetworkRemoved
  <2>3. ASSUME Goto(p, "dl_finish", loc[p]) PROVE Leases'
    <3>1. PICK l : l = loc[p]
      OBVIOUS
    <3> QED
      BY <1>1, <1>5, <2>3, <3>1, NetworkRemoved
  <2> QED
    BY <2>1, <2>2, <2>3
<1> QED
  BY <1>3, <1>4, <1>5, <1>6

\* Where no thread moves and no table changes.
LEMMA StillKeeps ==
  ASSUME IInv, Leases, OnlyPast', UNCHANGED <<links, obj, pc, loc>>, pool'.inUse = pool.inUse,
         started' \in {started, started + 1}, \A pr \in Pair : NetKept(pr)
  PROVE  Leases'
<1>1. ASSUME NEW q \in Proc, pc[q] \in CreateLinkLabel
      PROVE  BuildOK(pc[q], loc[q])'
  <2>1. BuildOK(pc[q], loc[q]) /\ NetKept(loc[q].pr)
    BY <1>1, BuilderFacts
  <2> QED
    BY <2>1 DEF BuildOK, Held, Made, Own, Bare, NetKept
<1>2. ASSUME NEW q \in Proc, pc[q] \in DeleteLinkLabel
      PROVE  DeleteOK(pc[q], loc[q])'
  <2>1. DeleteOK(pc[q], loc[q]) /\ NetKept(loc[q].pr) /\ loc[q].lid \in Nat /\ started \in Nat
    BY <1>2, DeleterFacts, BoundAssumption DEF Id, Boot, IInv, TypeOK
  <2>2. loc[q].lid <= started' + 1
    BY <2>1 DEF DeleteOK
  <2> QED
    BY <2>1, <2>2 DEF DeleteOK, DeleteEnd, Bare, NetKept
<1>3. ThreadsOK'
  BY <1>1, <1>2 DEF ThreadsOK, Leases, Builds
<1>4. IndicesOK' /\ Asked'
  BY DEF Leases, IndicesOK, LinkNames, Asked
<1>5. ASSUME NEW pr \in Pair PROVE LinkOK(pr)'
  BY DEF Leases, LinkOK, NetKept, Bare, Builds
<1> QED
  BY <1>3, <1>4, <1>5 DEF Leases

\* A container that stops takes its endpoints along.
LEMMA ExitKeeps ==
  ASSUME IInv, Leases, NetworksTidy, OnlyPast',
         \/ \E n \in Node : ContainerExits(n)
         \/ \E pr \in Pair, idx \in Index : OtherWriter(pr, idx)
         \/ UNCHANGED vars
  PROVE  Leases'
<1>1. /\ UNCHANGED <<links, obj, pool, pc, loc, started>>
      /\ UNCHANGED net \/ \E n \in Node : net' = DetachedEverywhere(n)
  BY DEF ContainerExits, OtherWriter, Fails, NetworksTidy, tableVars, vars
<1>2. \A pr \in Pair : NetKept(pr)
  BY <1>1, NetsKept
<1> QED
  BY <1>1, <1>2, StillKeeps

-----------------------------------------------------------------------------
(* The reservation of a link                                               *)

\* Links, Link objects and identities.
LEMMA LinkNameFacts ==
  ASSUME IInv, Leases, NEW pr \in LinkNames
  PROVE  /\ pr \in Pair /\ links[pr] \in Id /\ links[pr] # NoId /\ links[pr] <= started + 1
         /\ obj[links[pr]].idx \in pool.inUse /\ obj[links[pr]].idx \in Index
         /\ started \in Nat /\ links[pr] \in Nat /\ links[pr] # NewId
<1>1. pr \in Pair /\ links[pr] # NoId /\ links[pr] \in Id /\ obj[links[pr]] \in LinkObject
  BY DEF LinkNames, IInv, TypeOK
<1>2. started \in Nat /\ links[pr] \in Nat
  BY <1>1, BoundAssumption DEF IInv, TypeOK, Id, Boot
<1>3. links[pr] <= started + 1
  BY <1>1 DEF Leases, OnlyPast
<1>4. obj[links[pr]].idx \in pool.inUse
  BY DEF Leases, IndicesOK
<1>5. links[pr] # NewId
  BY <1>2, <1>3 DEF NewId
<1>6. obj[links[pr]].idx \in Index
  BY <1>1 DEF LinkObject
<1> QED
  BY <1>1, <1>2, <1>3, <1>4, <1>5, <1>6

\* A link that is taken out of the table gives its index back.
LEMMA TakenOut ==
  ASSUME IInv, Leases, NEW pr \in LinkNames, links' = [links EXCEPT ![pr] = NoId],
         UNCHANGED obj, pool' = Released(pool, obj[links[pr]].idx)
  PROVE  IndicesOK'
<1> DEFINE i == obj[links[pr]].idx
<1>1. pool'.inUse = pool.inUse \ {i}
  BY LinkNameFacts, ReleasedEffect DEF IInv, TypeOK
<1>2. /\ LinkNames' = LinkNames \ {pr}
      /\ \A x \in LinkNames' : links'[x] = links[x]
  BY DEF LinkNames, IInv, TypeOK
<1>3. \A x \in LinkNames' : obj[links[x]].idx # i
  BY <1>2 DEF Leases, IndicesOK
<1>4. {obj[links[x]].idx : x \in LinkNames'} = {obj[links[x]].idx : x \in LinkNames} \ {i}
  BY <1>2, <1>3
<1>5. pool'.inUse = {obj'[links'[x]].idx : x \in LinkNames'}
  BY <1>1, <1>2, <1>4 DEF Leases, IndicesOK
<1> QED
  BY <1>2, <1>5 DEF Leases, IndicesOK

\* The reservation of create_link.
LEMMA CreateLinkKeeps ==
  ASSUME IInv, Leases, Asked', OnlyPast', NEW p \in Proc, NEW pr \in Pair, NEW cl \in CL,
         CreateLink(p, pr, cl)
  PROVE  Leases'
<1>1. /\ pc[p] = "idle" /\ links[pr] = NoId /\ UNCHANGED net /\ started' = started + 1
      /\ pool' = Allocated(pool) /\ pool \in Pool /\ started \in Nat /\ started < MaxOps
  BY BoundAssumption DEF CreateLink, Begin, dockerVars, IInv, TypeOK
<1>2. \A x \in Pair : NetKept(x)
  BY <1>1, NetsKept
<1>3. CASE Exhausted(pool)
  <2>1. pool'.inUse = pool.inUse /\ UNCHANGED <<links, obj, pc, loc>>
    BY <1>1, <1>3, RefusedEffect DEF CreateLink
  <2> QED
    BY <1>1, <1>2, <2>1, StillKeeps
<1>4. CASE ~Exhausted(pool)
  <2>1. Issued(pool) \in Index \ pool.inUse /\ pool'.inUse = pool.inUse \union {Issued(pool)}
    BY <1>1, <1>4, AllocatedEffect
  <2>2. PICK id : id = NewId
    OBVIOUS
  <2>3. id \in Id /\ id # NoId /\ \A x \in LinkNames : links[x] # id
    BY <1>1, <2>2, NewIdIsId, LinkNameFacts DEF IInv
  <2>4. PICK k, l : /\ links' = [links EXCEPT ![pr] = id] /\ obj' = [obj EXCEPT ![id] = k]
                    /\ Goto(p, "cl_get", l) /\ l.pr = pr /\ l.op = id /\ l.idx = Issued(pool)
                    /\ k.st = "down" /\ ~k.named /\ k.idx = Issued(pool)
    <3> DEFINE k == [idx |-> Issued(pool), named |-> FALSE, nid |-> NoId, cl |-> cl, st |-> "down"]
               l == [NoLocal EXCEPT !.op = NewId, !.call = "create_link", !.pr = pr, !.cl = cl,
                                    !.idx = Issued(pool),
                                    !.ref = [s \in Side |-> nodes[At(pr, s)].ref]]
    <3>1. /\ links' = [links EXCEPT ![pr] = id] /\ obj' = [obj EXCEPT ![id] = k]
          /\ Goto(p, "cl_get", l)
      BY <1>4, <2>2 DEF CreateLink
    <3>2. l.pr = pr /\ l.op = id /\ l.idx = Issued(pool) /\ k.st = "down" /\ ~k.named /\ k.idx = Issued(pool)
      BY <2>2 DEF NoLocal
    <3> HIDE DEF k, l
    <3> QED
      BY <3>1, <3>2
  <2>5. /\ pc'[p] = "cl_get" /\ loc'[p] = l
        /\ \A q \in Proc \ {p} : pc'[q] = pc[q] /\ loc'[q] = loc[q]
    BY <2>4 DEF Goto, IInv, TypeOK
  <2>6. /\ links'[pr] = id /\ obj'[id] = k
        /\ \A x \in Pair \ {pr} : links'[x] = links[x]
        /\ \A i \in Id \ {id} : obj'[i] = obj[i]
    BY <2>3, <2>4 DEF IInv, TypeOK
  <2>7. Bare(pr) /\ "idle" \notin LinkLabel
    BY <1>1, LabelsDiffer DEF Leases, LinkOK
  <2>8. pc[p] \notin CreateLinkLabel /\ pc[p] \notin DeleteLinkLabel
    BY <1>1, LabelsDiffer
  <2>9. BuildOK("cl_get", l)'
    BY <1>1, <2>4, <2>6, <2>7 DEF BuildOK, Held, Bare
  <2>10. ASSUME NEW q \in Proc \ {p}, pc[q] \in CreateLinkLabel
         PROVE  BuildOK(pc[q], loc[q])' /\ loc[q].pr # pr
    <3>1. BuildOK(pc[q], loc[q]) /\ loc[q].pr \in LinkNames /\ links[loc[q].pr] = loc[q].op
          /\ loc[q].op \in Id
      BY <2>10, BuilderFacts
    <3>2. loc[q].pr \in Pair \ {pr} /\ loc[q].op \in Id \ {id}
      BY <1>1, <2>3, <3>1 DEF LinkNames
    <3>3. UNCHANGED <<links[loc[q].pr], obj[loc[q].op], pc[q], loc[q], net>>
      BY <1>1, <2>5, <2>6, <3>2
    <3> QED
      BY <3>1, <3>2, <3>3 DEF BuildOK, Held, Made, Own, Bare
  <2>11. ASSUME NEW q \in Proc \ {p}, pc[q] \in DeleteLinkLabel
         PROVE  DeleteOK(pc[q], loc[q])'
    <3>1. DeleteOK(pc[q], loc[q]) /\ loc[q].lid \in Id /\ loc[q].lid # NoId /\ loc[q].pr \in Pair
      BY <2>11, DeleterFacts
    <3>2. loc[q].lid \in Nat /\ loc[q].lid <= started + 1
      BY <3>1 DEF DeleteOK, Id, Boot
    <3>3. loc[q].lid \in Id \ {id}
      BY <1>1, <2>2, <3>1, <3>2 DEF NewId
    <3>4. pc'[q] = pc[q] /\ loc'[q] = loc[q] /\ obj'[loc[q].lid] = obj[loc[q].lid] /\ loc[q].lid <= started' + 1
      BY <1>1, <2>5, <2>6, <3>2, <3>3
    <3>5. \A x \in Pair : links'[x] = loc[q].lid <=> links[x] = loc[q].lid
      BY <1>1, <2>6, <3>1, <3>3
    <3> QED
      BY <1>1, <3>1, <3>4, <3>5 DEF DeleteOK, DeleteEnd, Bare
  <2>12. \A q \in Proc, x \in Pair : Builds(q, x)' <=> (q = p /\ x = pr) \/ Builds(q, x)
    BY <2>4, <2>5, <2>8 DEF Builds, CreateLinkLabel
  <2>13. \A q \in Proc : ~Builds(q, pr)
    BY <2>8, <2>10 DEF Builds
  <2>14. ThreadsOK'
    <3>1. \A q \in Proc : /\ pc'[q] \in CreateLinkLabel => BuildOK(pc[q], loc[q])'
                          /\ pc'[q] \in DeleteLinkLabel => DeleteOK(pc[q], loc[q])'
      BY <2>5, <2>9, <2>10, <2>11 DEF DeleteLinkLabel
    <3>2. \A x, y \in Proc : \A z \in Pair : Builds(x, z)' /\ Builds(y, z)' => x = y
      BY <2>12, <2>13 DEF Leases, ThreadsOK
    <3> QED
      BY <3>1, <3>2 DEF ThreadsOK
  <2>15. IndicesOK'
    <3>1. LinkNames' = LinkNames \union {pr} /\ pr \notin LinkNames
      BY <1>1, <2>3, <2>6 DEF LinkNames
    <3>2. \A x \in LinkNames : links'[x] = links[x] /\ links[x] # id /\ obj'[links[x]] = obj[links[x]]
                               /\ obj[links[x]].idx # Issued(pool)
      BY <2>1, <2>3, <2>6, <3>1, LinkNameFacts
    <3>3. links'[pr] = id /\ obj'[id].idx = Issued(pool)
      BY <2>4, <2>6
    <3>4. \A x, y \in LinkNames' :
            links'[x] = links'[y] \/ obj'[links'[x]].idx = obj'[links'[y]].idx => x = y
      BY <3>1, <3>2, <3>3 DEF Leases, IndicesOK
    <3>5. {obj'[links'[x]].idx : x \in LinkNames'} = {obj[links[x]].idx : x \in LinkNames} \union {Issued(pool)}
      BY <3>1, <3>2, <3>3
    <3> QED
      BY <2>1, <3>4, <3>5 DEF IndicesOK, Leases
  <2>16. ASSUME NEW x \in Pair PROVE LinkOK(x)'
    <3>1. CASE x = pr
      BY <1>1, <2>3, <2>4, <2>6, <2>12, <3>1 DEF LinkOK, Leases
    <3>2. CASE x # pr
      <4>1. links'[x] = links[x] /\ (links[x] # NoId => obj'[links[x]] = obj[links[x]])
        BY <2>3, <2>6, <3>2, LinkNameFacts DEF LinkNames
      <4> QED
        BY <1>1, <2>12, <4>1 DEF LinkOK, Leases, Bare
    <3> QED
      BY <3>1, <3>2
  <2> QED
    BY <2>14, <2>15, <2>16 DEF Leases
<1> QED
  BY <1>3, <1>4

-----------------------------------------------------------------------------
(* The commit and the ends; the invariant                                  *)

\* The commit of create_link.
LEMMA ClCommitKeeps ==
  ASSUME IInv, Leases, OneDeletes, Asked', OnlyPast', NEW p \in Proc, ClCommit(p)
  PROVE  Leases'
<1>1. PICK at, id : at = loc[p].pr /\ id = loc[p].op
  OBVIOUS
<1>2. pc[p] = "cl_commit" /\ pc[p] \in CreateLinkLabel
  BY DEF ClCommit, CreateLinkLabel
<1>3. /\ at \in Pair /\ at \in LinkNames /\ id \in Id /\ id # NoId /\ links[at] = id
      /\ obj[id].idx = loc[p].idx /\ ~obj[id].named /\ obj[id] \in LinkObject
      /\ Bare(at) \/ (net[at].nid = loc[p].nid /\ net[at].sub = loc[p].idx)
  BY <1>1, <1>2, BuilderFacts DEF BuildOK, Held, Made, Own
<1>4. PICK st : /\ obj' = [obj EXCEPT ![id] = [@ EXCEPT !.named = TRUE, !.nid = loc[p].nid,
                                                  !.idx = loc[p].idx, !.st = st]]
                /\ Finish(p)
  BY <1>1, <1>3 DEF ClCommit
<1>5. UNCHANGED <<links, pool, net, started>>
  BY DEF ClCommit, dockerVars
<1>6. /\ obj'[id].named /\ obj'[id].nid = loc[p].nid /\ obj'[id].idx = obj[id].idx
      /\ \A i \in Id \ {id} : obj'[i] = obj[i]
  BY <1>3, <1>4 DEF IInv, TypeOK, LinkObject
<1>7. /\ pc'[p] = "idle"
      /\ \A q \in Proc \ {p} : pc'[q] = pc[q] /\ loc'[q] = loc[q]
  BY <1>4 DEF Finish, Goto, IInv, TypeOK
<1>8. "idle" \notin CreateLinkLabel /\ "idle" \notin DeleteLinkLabel
  BY LabelsDiffer
<1>9. \A x \in LinkNames : links[x] = id <=> x = at
  BY <1>3 DEF Leases, IndicesOK
<1>10. ASSUME NEW q \in Proc \ {p}, pc[q] \in CreateLinkLabel
       PROVE  BuildOK(pc[q], loc[q])'
  <2>1. BuildOK(pc[q], loc[q]) /\ loc[q].pr \in LinkNames /\ links[loc[q].pr] = loc[q].op
        /\ loc[q].op \in Id
    BY <1>10, BuilderFacts
  <2>2. loc[q].pr # at
    BY <1>1, <1>2, <1>3, <1>10 DEF Leases, ThreadsOK, Builds
  <2>3. loc[q].op \in Id \ {id}
    BY <1>9, <2>1, <2>2
  <2> QED
    BY <1>5, <1>6, <1>7, <2>1, <2>3 DEF BuildOK, Held, Made, Own, Bare
<1>11. ASSUME NEW q \in Proc \ {p}, pc[q] \in DeleteLinkLabel
       PROVE  DeleteOK(pc[q], loc[q])'
  <2>1. DeleteOK(pc[q], loc[q]) /\ loc[q].lid \in Id /\ loc[q].pr \in Pair
    BY <1>11, DeleterFacts
  <2>2. obj[loc[q].lid].named => obj'[loc[q].lid].named
    BY <1>6, <2>1
  <2>3. ~obj'[loc[q].lid].named => ~obj[loc[q].lid].named
    BY <2>2
  <2>4. links[loc[q].pr] = loc[q].lid \/ ~obj'[loc[q].lid].named
    <3>1. CASE loc[q].lid = id
      BY <1>3, <2>1, <3>1 DEF DeleteOK
    <3>2. CASE loc[q].lid # id
      BY <1>6, <2>1, <3>2 DEF DeleteOK
    <3> QED
      BY <3>1, <3>2
  <2> QED
    BY <1>5, <1>7, <2>1, <2>2, <2>4 DEF DeleteOK, DeleteEnd, Bare
<1>12. \A q \in Proc, x \in Pair : Builds(q, x)' <=> q # p /\ Builds(q, x)
  BY <1>7, <1>8 DEF Builds
<1>13. ThreadsOK'
  <2>1. \A q \in Proc : /\ pc'[q] \in CreateLinkLabel => BuildOK(pc[q], loc[q])'
                        /\ pc'[q] \in DeleteLinkLabel => DeleteOK(pc[q], loc[q])'
    BY <1>7, <1>8, <1>10, <1>11
  <2>2. \A x, y \in Proc : \A z \in Pair : Builds(x, z)' /\ Builds(y, z)' => x = y
    BY <1>12 DEF Leases, ThreadsOK
  <2> QED
    BY <2>1, <2>2 DEF ThreadsOK
<1>14. IndicesOK'
  <2>1. LinkNames' = LinkNames /\ \A x \in LinkNames : links[x] \in Id
    BY <1>5 DEF LinkNames, IInv, TypeOK
  <2>2. \A x \in LinkNames : obj'[links[x]].idx = obj[links[x]].idx
    BY <1>6, <2>1
  <2>3. {obj'[links[x]].idx : x \in LinkNames} = {obj[links[x]].idx : x \in LinkNames}
    BY <2>2
  <2> QED
    BY <1>5, <2>1, <2>2, <2>3 DEF IndicesOK, Leases
<1>15. ASSUME NEW x \in Pair PROVE LinkOK(x)'
  <2>1. CASE x = at
    BY <1>3, <1>5, <1>6, <2>1 DEF LinkOK, Leases, Bare
  <2>2. CASE x # at
    <3>1. links[x] # NoId => obj'[links[x]] = obj[links[x]]
      BY <1>6, <1>9, <2>2 DEF LinkNames, IInv, TypeOK
    <3>2. \A q \in Proc : Builds(q, x) => Builds(q, x)'
      BY <1>1, <1>12, <2>2 DEF Builds
    <3> QED
      BY <1>5, <3>1, <3>2 DEF LinkOK, Leases, Bare
  <2> QED
    BY <2>1, <2>2
<1> QED
  BY <1>13, <1>14, <1>15 DEF Leases

\* A locked section that takes a link out of the table, with its index, when its network
\* is gone: no other thread builds or takes down that link.
LEMMA LinkGone ==
  ASSUME IInv, Leases, Asked', OnlyPast', NEW p \in Proc, NEW at \in LinkNames,
         links' = [links EXCEPT ![at] = NoId], pool' = Released(pool, obj[links[at]].idx),
         UNCHANGED <<obj, net, started>>, Bare(at), loc[p].pr = at,
         NEW label, NEW l, Goto(p, label, l), label \notin LinkLabel,
         \A q \in Proc \ {p} : pc[q] \in CreateLinkLabel \union DeleteEnd => loc[q].pr # at,
         \A q \in Proc \ {p} : pc[q] \in DeleteLinkLabel /\ links[at] = loc[q].lid => ~obj[loc[q].lid].named
  PROVE  Leases'
<1>1. at \in Pair /\ links[at] # NoId
  BY DEF LinkNames
<1>2. /\ pc'[p] = label
      /\ \A q \in Proc \ {p} : pc'[q] = pc[q] /\ loc'[q] = loc[q]
      /\ label \notin CreateLinkLabel /\ label \notin DeleteLinkLabel
  BY LabelsDiffer DEF Goto, IInv, TypeOK
<1>3. links'[at] = NoId /\ \A x \in Pair \ {at} : links'[x] = links[x]
  BY <1>1 DEF IInv, TypeOK
<1>4. ASSUME NEW q \in Proc \ {p}, pc[q] \in CreateLinkLabel
      PROVE  BuildOK(pc[q], loc[q])'
  <2>1. BuildOK(pc[q], loc[q]) /\ loc[q].pr \in Pair \ {at}
    BY <1>4, BuilderFacts
  <2> QED
    BY <1>2, <1>3, <2>1 DEF BuildOK, Held, Made, Own, Bare
<1>5. ASSUME NEW q \in Proc \ {p}, pc[q] \in DeleteLinkLabel
      PROVE  DeleteOK(pc[q], loc[q])'
  <2>1. DeleteOK(pc[q], loc[q]) /\ loc[q].lid \in Id /\ loc[q].lid # NoId /\ loc[q].pr \in Pair
    BY <1>5, DeleterFacts
  <2>2. \A x \in Pair : links'[x] = loc[q].lid => links[x] = loc[q].lid
    BY <1>3, <2>1
  <2>3. links'[loc[q].pr] = loc[q].lid \/ ~obj[loc[q].lid].named
    BY <1>3, <1>5, <2>1 DEF DeleteOK
  <2>4. pc[q] \in DeleteEnd => links'[loc[q].pr] = loc[q].lid
    BY <1>3, <1>5, <2>1 DEF DeleteOK
  <2> QED
    BY <1>2, <2>1, <2>2, <2>3, <2>4 DEF DeleteOK, Bare
<1>6. \A q \in Proc, x \in Pair : Builds(q, x)' <=> q # p /\ Builds(q, x)
  BY <1>2 DEF Builds
<1>7. ThreadsOK'
  <2>1. \A q \in Proc : /\ pc'[q] \in CreateLinkLabel => BuildOK(pc[q], loc[q])'
                        /\ pc'[q] \in DeleteLinkLabel => DeleteOK(pc[q], loc[q])'
    BY <1>2, <1>4, <1>5
  <2>2. \A x, y \in Proc : \A z \in Pair : Builds(x, z)' /\ Builds(y, z)' => x = y
    BY <1>6 DEF Leases, ThreadsOK
  <2> QED
    BY <2>1, <2>2 DEF ThreadsOK
<1>8. ASSUME NEW x \in Pair PROVE LinkOK(x)'
  <2>1. CASE x = at
    BY <1>3, <2>1 DEF LinkOK, Leases, Bare
  <2>2. CASE x # at
    <3>1. \A q \in Proc : Builds(q, x) => Builds(q, x)'
      BY <1>6, <2>2 DEF Builds
    <3> QED
      BY <1>3, <2>2, <3>1 DEF LinkOK, Leases, Bare
  <2> QED
    BY <2>1, <2>2
<1> QED
  BY <1>7, <1>8, TakenOut DEF Leases

\* The end of create_link's rollback.
LEMMA ClUnreserveKeeps ==
  ASSUME IInv, Leases, OneDeletes, Asked', OnlyPast', NEW p \in Proc, ClUnreserve(p)
  PROVE  Leases'
<1>1. PICK at : at = loc[p].pr
  OBVIOUS
<1>2. pc[p] = "cl_unres" /\ pc[p] \in CreateLinkLabel
  BY DEF ClUnreserve, CreateLinkLabel
<1>3. at \in LinkNames /\ BuildOK("cl_unres", loc[p]) /\ Bare(at)
  BY <1>1, <1>2, BuilderFacts DEF BuildOK, Held
<1>4. /\ links' = [links EXCEPT ![at] = NoId] /\ UNCHANGED <<obj, net, started>>
      /\ pool' = Released(pool, obj[links[at]].idx) /\ Goto(p, "idle", NoLocal)
  BY <1>1, <1>3 DEF ClUnreserve, ReturnedByRollback, Finish, dockerVars, BuildOK
<1>5. \A q \in Proc \ {p} : pc[q] \in CreateLinkLabel \union DeleteEnd => loc[q].pr # at
  BY <1>1, <1>2, Alone
<1>6. \A q \in Proc \ {p} : links[at] = loc[q].lid => ~obj[loc[q].lid].named
  BY <1>1, <1>3 DEF BuildOK
<1>7. "idle" \notin LinkLabel
  BY LabelsDiffer
<1> QED
  BY <1>1, <1>3, <1>4, <1>5, <1>6, <1>7, LinkGone

\* The end of delete_link.
LEMMA DlFinishKeeps ==
  ASSUME IInv, Leases, OneDeletes, Asked', OnlyPast', NEW p \in Proc, DlFinish(p)
  PROVE  Leases'
<1>1. PICK at : at = loc[p].pr
  OBVIOUS
<1>2. pc[p] = "dl_finish" /\ pc[p] \in DeleteLinkLabel /\ pc[p] \in DeleteEnd /\ pc[p] \in DeleteLabel
  BY DEF DlFinish, DeleteLinkLabel, DeleteEnd, DeleteLabel
<1>3. at \in LinkNames /\ links[at] = loc[p].lid /\ Bare(at)
  BY <1>1, <1>2, DeleterFacts DEF DeleteOK, LinkNames
<1>4. /\ links' = [links EXCEPT ![at] = NoId] /\ UNCHANGED <<obj, net, started>>
      /\ pool' = Released(pool, obj[links[at]].idx)
      /\ \E label \in {"idle", "dn_next"} : \E l : Goto(p, label, l)
  BY <1>1, <1>3 DEF DlFinish, DlReturn, Finish, dockerVars
<1>5. \A q \in Proc \ {p} : pc[q] \in CreateLinkLabel \union DeleteEnd => loc[q].pr # at
  BY <1>1, <1>2, Alone
<1>6. \A q \in Proc \ {p} : pc[q] \notin DeleteLinkLabel
  BY <1>2, OneDeleter DEF Leases, DeleteLabel
<1>7. PICK label \in {"idle", "dn_next"} : \E l : Goto(p, label, l)
  BY <1>4
<1>8. PICK l : Goto(p, label, l)
  BY <1>7
<1>9. label \notin LinkLabel
  BY LabelsDiffer DEF NodeLabel, DeleteNodeLabel
<1> QED
  BY <1>1, <1>3, <1>4, <1>5, <1>6, <1>8, <1>9, LinkGone

\* Every step of a thread.
LEMMA StepKeepsLeases ==
  ASSUME IInv, Leases, OneDeletes, NetworksTidy, Asked', OnlyPast', NEW p \in Proc, Step(p)
  PROVE  Leases'
BY ClGetKeeps, ClNewKeeps, ClRaceKeeps, ClContainersKeeps, ClConnectKeeps, ClReadyKeeps,
   ClConfigKeeps, ClCommitKeeps, ClUndoKeeps, ClUnnetKeeps, ClUnreserveKeeps, DlIonKeeps,
   DlGetKeeps, DlDisconnectKeeps, DlRemoveKeeps, DlFinishKeeps, NodeStepKeeps, DnNextKeeps
   DEF Step, LinkStep

\* Only threads that may be asked to delete get to the labels of the deletions.
LEMMA NextKeepsAsked ==
  ASSUME IInv, Asked, [Next]_vars
  PROVE  Asked'
<1>1. ASSUME NEW p \in Proc, NEW label, NEW l, Goto(p, label, l),
             label \in DeleteLabel => pc[p] \in DeleteLabel \/ MayCall[p] \intersect Deletions # {}
      PROVE  Asked'
  <2>1. pc'[p] = label /\ \A q \in Proc \ {p} : pc'[q] = pc[q]
    BY <1>1 DEF Goto, IInv, TypeOK
  <2> QED
    BY <1>1, <2>1 DEF Asked
<1>2. ASSUME NEW p \in Proc, Moves(p) PROVE Asked'
  BY <1>1, <1>2 DEF Moves, SameJob
<1>3. "idle" \notin DeleteLabel
  BY DEF DeleteLabel, DeleteLinkLabel, DeleteNodeLabel
<1>4. ASSUME NEW p \in Proc, Finish(p) PROVE Asked'
  BY <1>1, <1>3, <1>4 DEF Finish
<1>5. ASSUME NEW p \in Proc, Step(p) PROVE Asked'
  <2>1. CASE \/ ClCommit(p) \/ ClUnreserve(p) \/ CnCommit(p) \/ CnUnreserve(p)
    <3>1. Finish(p) \/ (pc[p] \in CreateLinkLabel /\ Undo(p))
      BY <2>1 DEF ClCommit, ClUnreserve, CnCommit, CnUnreserve, CreateLinkLabel
    <3> QED
      BY <1>2, <1>4, <3>1, UndoMoves
  <2>2. CASE ~(\/ ClCommit(p) \/ ClUnreserve(p) \/ CnCommit(p) \/ CnUnreserve(p))
    <3>1. Moves(p)
      BY <1>5, <2>2, ClGetMoves, ClNewMoves, ClAdoptMoves, ClContainersMoves, ClConnectMoves,
         ClReadyMoves, ClConfigMoves, ClUndoMoves, DlIonMoves, DlGetMoves, DlEndMoves,
         CnStaleMoves, CnDirMoves, CnRunMoves, CnCheckMoves, CnUndoMoves, DnNextMoves,
         DnEndMoves DEF Step, LinkStep, NodeStep
    <3> QED
      BY <1>2, <3>1
  <2> QED
    BY <2>1, <2>2
<1>6. ASSUME NEW p \in Proc, Call(p) PROVE Asked'
  <2>1. \/ UNCHANGED pc
        \/ \E label \in {"cl_get", "cn_stale"} : \E l : Goto(p, label, l)
        \/ MayCall[p] \intersect Deletions # {} /\ \E label, l : Goto(p, label, l)
    BY <1>6 DEF Call, LinkCall, NodeCall, CreateLink, DeleteLink, CreateNode, DeleteNode, Begin, Deletions
  <2>2. "cl_get" \notin DeleteLabel /\ "cn_stale" \notin DeleteLabel
    BY DEF DeleteLabel, DeleteLinkLabel, DeleteNodeLabel
  <2> QED
    BY <1>1, <2>1, <2>2 DEF Asked
<1>7. CASE \/ \E n \in Node : ContainerExits(n)
           \/ \E pr \in Pair, idx \in Index : OtherWriter(pr, idx)
           \/ UNCHANGED vars
  <2>1. UNCHANGED pc
    BY <1>7 DEF ContainerExits, OtherWriter, vars
  <2> QED
    BY <2>1 DEF Asked
<1> QED
  BY <1>5, <1>6, <1>7 DEF Next

\* The inductive step.
LEMMA NextKeepsLeases ==
  ASSUME IInv, Leases, OneDeletes, NetworksTidy, [Next]_vars
  PROVE  Leases'
<1>1. Asked' /\ OnlyPast'
  BY NextKeepsAsked, NextKeepsPast DEF Leases
<1>2. ASSUME NEW p \in Proc, Call(p) PROVE Leases'
  BY <1>1, <1>2, CreateLinkKeeps, OtherCallsKeep DEF Call, LinkCall
<1> QED
  BY <1>1, <1>2, StepKeepsLeases, ExitKeeps DEF Next

\* At the start there are no links and no networks.
LEMMA InitLeases == Init => Leases
<1> SUFFICES ASSUME Init PROVE Leases
  OBVIOUS
<1>1. \A p \in Proc : pc[p] = "idle"
  BY DEF Init
<1>2. \A pr \in Pair : links[pr] = NoId /\ net[pr].nid = NoId /\ net[pr].att = {}
  BY DEF Init, NoNetwork
<1>3. "idle" \notin LinkLabel /\ "idle" \notin DeleteLabel
  BY LabelsDiffer DEF DeleteLabel, DeleteLinkLabel, DeleteNodeLabel
<1>4. Asked /\ ThreadsOK
  BY <1>1, <1>3, LabelsDiffer DEF Asked, ThreadsOK, Builds
<1>5. LinkNames = {} /\ pool.inUse = {}
  BY <1>2 DEF LinkNames, Init, EmptyPool
<1>6. IndicesOK
  BY <1>5 DEF IndicesOK
<1>7. \A pr \in Pair : LinkOK(pr)
  BY <1>2 DEF LinkOK, Bare
<1>8. OnlyPast
  BY InitHasNoPlaceholder
<1> QED
  BY <1>4, <1>6, <1>7, <1>8 DEF Leases

\* Hence it holds throughout.
LEMMA LeasesHold ==
  ASSUME OneDeletes, NetworksTidy
  PROVE  Spec => []Leases
<1>1. Init => Leases
  BY InitLeases
<1>2. IInv /\ Leases /\ [Next]_vars => Leases'
  BY NextKeepsLeases
<1> QED
  BY <1>1, <1>2, InvariantHolds, PTL DEF Spec

-----------------------------------------------------------------------------
(* What the leases say of indices and networks                             *)

\* The threads that OneIndexPerLink counts are those that create the link.
LEMMA BuildersFacts ==
  ASSUME IInv, Leases, NEW pr \in Pair
  PROVE  /\ Builders(pr) = {p \in Proc : Builds(p, pr)}
         /\ \A p \in Builders(pr) : /\ links[pr] # NoId /\ obj[links[pr]].idx = loc[p].idx
                                    /\ obj[links[pr]].st = "down"
<1>1. Builders(pr) = {p \in Proc : Builds(p, pr)}
  BY ThreadFacts DEF Builders, Builds, LocalOK
<1>2. ASSUME NEW p \in Proc, Builds(p, pr)
      PROVE  links[pr] # NoId /\ obj[links[pr]].idx = loc[p].idx /\ obj[links[pr]].st = "down"
  BY <1>2, BuilderFacts DEF Builds, BuildOK
<1> QED
  BY <1>1, <1>2

\* A link in the table occupies the index of its Link object.
LEMMA OccupiesOne ==
  ASSUME IInv, Leases, NEW pr \in Pair
  PROVE  Occupies(pr) = IF links[pr] = NoId THEN {} ELSE {obj[links[pr]].idx}
<1>1. CASE Builders(pr) = {}
  BY <1>1 DEF Occupies
<1>2. CASE Builders(pr) # {}
  <2>1. PICK p \in Builders(pr) : TRUE
    BY <1>2
  <2>2. Builders(pr) = {p}
    BY <2>1, BuildersFacts DEF Leases, ThreadsOK
  <2> QED
    BY <2>2, BuildersFacts DEF Occupies
<1> QED
  BY <1>1, <1>2

\* The pool holds the indices of the links, each link has one, and no two have the same.
LEMMA LeasedIndices ==
  ASSUME IInv, Leases
  PROVE  OneIndexPerLink
<1>1. \A pr \in Pair : Occupies(pr) = IF links[pr] = NoId THEN {} ELSE {obj[links[pr]].idx}
  BY OccupiesOne
<1>2. UNION {Occupies(pr) : pr \in Pair} = {obj[links[pr]].idx : pr \in LinkNames}
  <2>1. ASSUME NEW i, NEW pr \in Pair, i \in Occupies(pr)
        PROVE  pr \in LinkNames /\ i = obj[links[pr]].idx
    BY <1>1, <2>1 DEF LinkNames
  <2>2. ASSUME NEW pr \in LinkNames PROVE pr \in Pair /\ obj[links[pr]].idx \in Occupies(pr)
    BY <1>1 DEF LinkNames
  <2> QED
    BY <2>1, <2>2
<1>3. \A pr \in Pair : Cardinality(Occupies(pr)) = (IF links[pr] = NoId THEN 0 ELSE 1)
  <2>1. \A i : Cardinality({i}) = 1
    BY FS_Singleton
  <2>2. Cardinality({}) = 0
    BY FS_EmptySet
  <2> QED
    BY <1>1, <2>1, <2>2
<1>4. \A p1, p2 \in Pair : p1 # p2 => Occupies(p1) \intersect Occupies(p2) = {}
  BY <1>1 DEF Leases, IndicesOK, LinkNames
<1>5. pool.inUse = {obj[links[pr]].idx : pr \in LinkNames}
  BY DEF Leases, IndicesOK
<1> QED
  BY <1>2, <1>3, <1>4, <1>5 DEF OneIndexPerLink

\* The network of a link is on the index that the link, or its creator, has leased.
LEMMA LeasedNetworks ==
  ASSUME IInv, Leases
  PROVE  NetworksReserved
<1>1. ASSUME NEW pr \in Pair, net[pr].nid \notin {NoId, Boot}
      PROVE  net[pr].sub \in pool.inUse
  <2>1. LinkOK(pr) /\ ~Bare(pr)
    BY <1>1 DEF Leases, Bare
  <2>2. pr \in LinkNames
    BY <2>1 DEF LinkOK, LinkNames
  <2>3. obj[links[pr]].idx \in pool.inUse
    BY <1>1, <2>2, LinkNameFacts
  <2>4. CASE obj[links[pr]].named
    BY <2>1, <2>2, <2>3, <2>4 DEF LinkOK, LinkNames
  <2>5. CASE ~obj[links[pr]].named
    <3>1. PICK p \in Proc : Builds(p, pr)
      BY <2>1, <2>2, <2>5 DEF LinkOK, LinkNames
    <3>2. BuildOK(pc[p], loc[p]) /\ loc[p].pr = pr
      BY <1>1, <3>1, BuilderFacts DEF Builds
    <3>3. Own(loc[p])
      BY <2>1, <3>1, <3>2 DEF BuildOK, Held, Made, Builds, CreateLinkLabel
    <3> QED
      BY <2>3, <3>2, <3>3 DEF Own, BuildOK
  <2> QED
    BY <2>4, <2>5
<1> QED
  BY <1>1 DEF NetworksReserved

\* If one thread at a time deletes, nobody else makes networks of the same names, and
\* rollbacks succeed, then whatever else fails the pool holds exactly the indices of the
\* links there are, each link has one, and no two have the same (subnet_pool.py:9;
\* docker_manager.py:398-433, 467-487, 574-583).
THEOREM IndicesAreLeased ==
  ASSUME OneDeletes, NetworksTidy
  PROVE  Spec => []OneIndexPerLink
<1>1. IInv /\ Leases => OneIndexPerLink
  BY LeasedIndices
<1> QED
  BY <1>1, InvariantHolds, LeasesHold, PTL

\* Under the same conditions, the subnet of every network that this manager has made is
\* in use in the pool, so that allocate() cannot issue it a second time
\* (subnet_pool.py:16-19; docker_manager.py:385-387).
THEOREM NetworksAreReserved ==
  ASSUME OneDeletes, NetworksTidy
  PROVE  Spec => []NetworksReserved
<1>1. IInv /\ Leases => NetworksReserved
  BY LeasedNetworks
<1> QED
  BY <1>1, InvariantHolds, LeasesHold, PTL

\* The network of a link whose creator is done changes by the thread that deletes that
\* Link object, or with the container of one of its ends.
LEMMA NetworkOfUp ==
  ASSUME IInv, Leases, OneDeletes, NetworksTidy, Next, NEW pr \in Pair, links[pr] # NoId,
         obj[links[pr]].st = "up", net'[pr] # net[pr]
  PROVE  \/ \E p \in Proc : pc[p] # pc'[p] /\ loc[p].pr = pr /\ loc[p].lid = links[pr]
         \/ \E n \in Ends(pr) : ctr'[n] # ctr[n]
<1>1. ASSUME NEW n \in Node, net' = DetachedEverywhere(n), ctr'[n] # ctr[n]
      PROVE  \E m \in Ends(pr) : ctr'[m] # ctr[m]
  <2>1. net'[pr] = [net[pr] EXCEPT !.att = @ \ {n}] /\ net[pr] \in Network
    BY <1>1 DEF DetachedEverywhere, IInv, TypeOK
  <2>2. n \in net[pr].att
    BY <2>1 DEF Network
  <2>3. n \in Ends(pr)
    BY <2>2 DEF Leases, LinkOK
  <2> QED
    BY <1>1, <2>3
<1>2. ASSUME NEW n \in Node, RemoveContainer(n), ctr[n].cid # NoId
      PROVE  \E m \in Ends(pr) : ctr'[m] # ctr[m]
  <2>1. ctr'[n] = NoContainer
    BY <1>2 DEF RemoveContainer, IInv, TypeOK
  <2>2. ctr'[n] # ctr[n] /\ net' = DetachedEverywhere(n)
    BY <1>2, <2>1 DEF RemoveContainer, NoContainer
  <2> QED
    BY <1>1, <2>2
<1>3. \A p \in Proc : ~Builds(p, pr)
  BY BuilderFacts DEF Builds, BuildOK
<1>4. ASSUME NEW p \in Proc, ClNew(p) \/ ClConnect(p) \/ ClUndo(p) \/ ClUnnet(p)
      PROVE  FALSE
  <2>1. pc[p] \in CreateLinkLabel
    BY <1>4 DEF ClNew, ClConnect, ClUndo, ClUnnet, CreateLinkLabel
  <2>2. loc[p].pr # pr /\ loc[p].pr \in Pair
    BY <1>3, <2>1, BuilderFacts DEF Builds
  <2>3. \/ net' = net
        \/ \E k : net' = [net EXCEPT ![loc[p].pr] = k]
    BY <1>4 DEF ClNew, ClConnect, ClUndo, ClUnnet, Attached, Disconnected
  <2> QED
    BY <2>2, <2>3 DEF IInv, TypeOK
<1>5. ASSUME NEW p \in Proc, DlDisconnect(p) \/ DlRemove(p)
      PROVE  pc[p] # pc'[p] /\ loc[p].pr = pr /\ loc[p].lid = links[pr]
  <2>1. pc[p] \in DeleteLinkLabel /\ pc[p] \in DeleteEnd /\ pc \in [Proc -> Label]
    BY <1>5 DEF DlDisconnect, DlRemove, DeleteLinkLabel, DeleteEnd, IInv, TypeOK
  <2>2. DeleteOK(pc[p], loc[p]) /\ loc[p].pr \in Pair
    BY <2>1, DeleterFacts
  <2>3. \/ net' = net
        \/ \E k : net' = [net EXCEPT ![loc[p].pr] = k]
    BY <1>5 DEF DlDisconnect, DlRemove, Disconnected
  <2>4. loc[p].pr = pr
    BY <2>2, <2>3 DEF IInv, TypeOK
  <2>5. pc'[p] # pc[p]
    BY <1>5, <2>1 DEF DlDisconnect, DlRemove, Refusal, DlReturn, Finish, Goto
  <2> QED
    BY <2>1, <2>2, <2>4, <2>5 DEF DeleteOK
<1>6. ASSUME NEW p \in Proc, CnStale(p) \/ CnUndo(p) \/ DnContainer(p)
      PROVE  \E m \in Ends(pr) : ctr'[m] # ctr[m]
  <2>1. loc[p].n \in Node
    BY <1>6, ThreadFacts DEF CnStale, CnUndo, DnContainer, LocalOK, NodeLabel, CreateNodeLabel,
       DeleteNodeLabel
  <2>2. RemoveContainer(loc[p].n) /\ ctr[loc[p].n].cid # NoId
    BY <1>6 DEF CnStale, CnUndo, DnContainer, Leftover, dockerVars
  <2> QED
    BY <1>2, <2>1, <2>2
<1>7. ASSUME NEW n \in Node, ContainerExits(n)
      PROVE  \E m \in Ends(pr) : ctr'[m] # ctr[m]
  <2>1. ctr'[n] # ctr[n] /\ net' = DetachedEverywhere(n)
    BY <1>7 DEF ContainerExits, NoContainer, IInv, TypeOK
  <2> QED
    BY <1>1, <2>1
<1>8. ASSUME NEW x \in Pair, NEW i \in Index, OtherWriter(x, i) PROVE FALSE
  BY <1>8 DEF OtherWriter, Fails, NetworksTidy
<1>9. ASSUME NEW p \in Proc, Call(p) PROVE FALSE
  BY <1>9 DEF Call, LinkCall, NodeCall, CreateLink, DeleteLink, CreateNode, DeleteNode, dockerVars
<1>10. ASSUME NEW p \in Proc, Step(p),
              ~(ClNew(p) \/ ClConnect(p) \/ ClUndo(p) \/ ClUnnet(p)),
              ~(DlDisconnect(p) \/ DlRemove(p)), ~(CnStale(p) \/ CnUndo(p) \/ DnContainer(p))
       PROVE  FALSE
  BY <1>10 DEF Step, LinkStep, NodeStep, ClGet, ClRace, ClAdopt, ClContainers, ClReady, ClConfig,
     ClCommit, ClUnreserve, DlIon, DlGet, DlFinish, CnDir, CnRun, CnCheck, CnCommit,
     CnUnreserve, DnNext, DnFinish, dockerVars
<1> QED
  BY <1>4, <1>5, <1>6, <1>7, <1>8, <1>9, <1>10 DEF Next

\* Under the same conditions, no step takes down the network of a link that is UP, but
\* the deletion of that very Link object and the end of a container of its own.
THEOREM UpNetworksStay ==
  ASSUME OneDeletes, NetworksTidy
  PROVE  Spec => NoForeignRemoval
<1>1. IInv /\ Leases /\ [Next]_vars =>
        [\A pr \in Pair :
           (/\ links[pr] # NoId /\ obj[links[pr]].st = "up"
            /\ net[pr].nid = obj[links[pr]].nid /\ net'[pr] # net[pr])
           => \/ \E p \in Proc : pc[p] # pc'[p] /\ loc[p].pr = pr /\ loc[p].lid = links[pr]
              \/ \E n \in Ends(pr) : ctr'[n] # ctr[n]
        ]_vars
  BY NetworkOfUp DEF vars
<1> QED
  BY <1>1, InvariantHolds, LeasesHold, PTL DEF Spec, NoForeignRemoval

-----------------------------------------------------------------------------
(* Nodes, their containers and their directories                            *)

\* The directories of node n on the disk.
DirsOf(n) == {i \in Id : <<n, i>> \in disk}

\* create_node holds its own placeholder, and what it has made so far.
MakeOK(label, l) ==
  LET n == l.n
      made == l.cid["a"]
  IN /\ nodes[n].ref = [op |-> l.op, named |-> FALSE] /\ nodes[n].st # "absent" /\ cfgDir[n] = NoId
     /\ label \in {"cn_stale", "cn_dir", "cn_run", "cn_unres"} => ctr[n].cid = NoId
     /\ label \in {"cn_stale", "cn_dir", "cn_run"} => made = NoId
     /\ label \in {"cn_check", "cn_commit"} => ctr[n].cid = l.op /\ made = l.op
     /\ label = "cn_undo" => ctr[n].cid \in {NoId, l.op} /\ made \in {NoId, l.op}
     /\ label \in {"cn_stale", "cn_dir"} => ~l.dir
     /\ label \in {"cn_run", "cn_check", "cn_commit"} => l.dir
     /\ label = "cn_unres" => DirsOf(n) = {}
     /\ label # "cn_unres" => DirsOf(n) = IF l.dir THEN {l.op} ELSE {}
     /\ label = "cn_commit" => l.st # "absent"

\* delete_node works on the Node object that it looked up, if that was no placeholder.
RemoveOK(label, l) ==
  /\ l.me.named => nodes[l.n].ref = l.me /\ Present(l.n)
  /\ label = "dn_finish" => l.me.named /\ ctr[l.n].cid = NoId

Makes(p, n)   == pc[p] \in CreateNodeLabel /\ loc[p].n = n
Removes(p, n) == loc[p].call = "delete_node" /\ loc[p].n = n /\ loc[p].me.named

NodeOK(n) ==
  /\ ~Present(n) => nodes[n].ref = NoRef /\ ctr[n].cid = NoId /\ cfgDir[n] = NoId /\ DirsOf(n) = {}
  /\ Present(n) => nodes[n].ref.op # NoId
  /\ Present(n) /\ nodes[n].ref.named =>
       /\ \/ ctr[n].cid = nodes[n].ref.op
          \/ ctr[n].cid = NoId /\ ("dn_ctr" \in LostAt \/ \E p \in Proc : pc[p] = "dn_finish" /\ loc[p].n = n)
       /\ cfgDir[n] = nodes[n].ref.op /\ DirsOf(n) = {cfgDir[n]}

MakersOK ==
  /\ \A p \in Proc : /\ pc[p] \in CreateNodeLabel => MakeOK(pc[p], loc[p])
                     /\ loc[p].call = "delete_node" => RemoveOK(pc[p], loc[p])
  /\ \A p, q \in Proc : \A n \in Node : Makes(p, n) /\ Makes(q, n) => p = q

NodeLeases == Asked /\ MakersOK /\ \A n \in Node : NodeOK(n)

\* A rollback of create_node whose clean-up call fails leaves the container behind.
NodesTidy == "cn_undo" \notin FaultAt

\* Node n stays as it is, but for its links.
KeptAt(n) ==
  /\ nodes'[n].ref = nodes[n].ref /\ nodes'[n].st = nodes[n].st
  /\ ctr'[n].cid = ctr[n].cid /\ cfgDir'[n] = cfgDir[n]
  /\ \A i \in Id : <<n, i>> \in disk' <=> <<n, i>> \in disk

\* What the invariants say of a thread that creates a node.
LEMMA MakerFacts ==
  ASSUME IInv, NodeLeases, NEW p \in Proc, pc[p] \in CreateNodeLabel
  PROVE  /\ loc[p] \in Local /\ loc[p].n \in Node /\ loc[p].op \in Id /\ loc[p].op # NoId
         /\ MakeOK(pc[p], loc[p]) /\ Makes(p, loc[p].n)
<1>1. loc[p] \in Local /\ loc[p].n \in Node /\ loc[p].op \in Id
  BY ThreadFacts DEF LocalOK, NodeLabel
<1>2. loc[p].op # NoId
  BY <1>1, BoundAssumption DEF Id, Boot, NoId
<1>3. MakeOK(pc[p], loc[p])
  BY DEF NodeLeases, MakersOK
<1> QED
  BY <1>1, <1>2, <1>3 DEF Makes

\* And of one that deletes a node.
LEMMA RemoverFacts ==
  ASSUME IInv, NodeLeases, NEW p \in Proc, loc[p].call = "delete_node"
  PROVE  /\ loc[p] \in Local /\ loc[p].n \in Node /\ pc[p] \in DeleteLabel
         /\ RemoveOK(pc[p], loc[p])
<1>1. loc[p] \in Local /\ loc[p].n \in Node /\ pc[p] \in DeleteLabel
  BY ThreadFacts DEF LocalOK
<1>2. RemoveOK(pc[p], loc[p])
  BY DEF NodeLeases, MakersOK
<1> QED
  BY <1>1, <1>2

\* A thread that makes a node or takes it down has it to itself.
LEMMA NodeAlone ==
  ASSUME IInv, NodeLeases, OneDeletes, NEW p \in Proc, NEW q \in Proc, p # q, NEW n \in Node,
         Makes(p, n) \/ Removes(p, n)
  PROVE  ~Makes(q, n) /\ ~Removes(q, n)
<1>1. ASSUME NEW x \in Proc, NEW y \in Proc, Makes(x, n), Removes(y, n) PROVE FALSE
  <2>1. nodes[n].ref = [op |-> loc[x].op, named |-> FALSE]
    BY <1>1, MakerFacts DEF Makes, MakeOK
  <2>2. nodes[n].ref = loc[y].me
    BY <1>1, RemoverFacts DEF Removes, RemoveOK
  <2> QED
    BY <1>1, <2>1, <2>2 DEF Removes
<1>2. CASE Makes(p, n)
  BY <1>1, <1>2 DEF NodeLeases, MakersOK
<1>3. CASE Removes(p, n)
  <2>1. ~Removes(q, n)
    BY <1>3, RemoverFacts, OneDeleter DEF Removes, NodeLeases
  <2> QED
    BY <1>1, <1>3, <2>1
<1> QED
  BY <1>2, <1>3

\* Steps that change at most one node, which no other thread makes or removes.
LEMMA NodeChange ==
  ASSUME IInv, NodeLeases, Asked', NEW at, \A n \in Node \ {at} : KeptAt(n),
         NEW p \in Proc, NEW label, NEW l, Goto(p, label, l),
         \/ KeptAt(at) \/ at \notin Node
         \/ /\ NodeOK(at)'
            /\ \A q \in Proc \ {p} : ~Makes(q, at) /\ ~Removes(q, at),
         pc[p] = "dn_finish" => at = loc[p].n /\ NodeOK(at)',
         label \in CreateNodeLabel =>
           /\ MakeOK(label, l)'
           /\ \A q \in Proc \ {p} : ~Makes(q, l.n),
         l.call = "delete_node" => RemoveOK(label, l)'
  PROVE  NodeLeases'
<1>1. /\ pc'[p] = label /\ loc'[p] = l
      /\ \A q \in Proc \ {p} : pc'[q] = pc[q] /\ loc'[q] = loc[q]
  BY DEF Goto, IInv, TypeOK
<1>2. ASSUME NEW q \in Proc \ {p}, pc[q] \in CreateNodeLabel PROVE MakeOK(pc[q], loc[q])'
  <2>1. MakeOK(pc[q], loc[q]) /\ loc[q].n \in Node /\ Makes(q, loc[q].n)
    BY <1>2, MakerFacts
  <2>2. KeptAt(loc[q].n)
    BY <2>1
  <2>3. {i \in Id : <<loc[q].n, i>> \in disk'} = {i \in Id : <<loc[q].n, i>> \in disk}
    BY <2>2 DEF KeptAt
  <2>4. pc'[q] = pc[q] /\ loc'[q] = loc[q]
    BY <1>1
  <2> QED
    BY <2>1, <2>2, <2>3, <2>4 DEF MakeOK, KeptAt, DirsOf
<1>3. ASSUME NEW q \in Proc \ {p}, loc[q].call = "delete_node" PROVE RemoveOK(pc[q], loc[q])'
  <2>1. RemoveOK(pc[q], loc[q]) /\ loc[q].n \in Node
    BY <1>3, RemoverFacts
  <2>2. loc[q].me.named => KeptAt(loc[q].n)
    BY <1>3, <2>1 DEF Removes
  <2> QED
    BY <1>1, <2>1, <2>2 DEF RemoveOK, KeptAt, Present
<1>4. MakersOK'
  <2>1. \A q \in Proc : /\ pc'[q] \in CreateNodeLabel => MakeOK(pc[q], loc[q])'
                        /\ loc'[q].call = "delete_node" => RemoveOK(pc[q], loc[q])'
    BY <1>1, <1>2, <1>3
  <2>2. \A q \in Proc, n \in Node :
          Makes(q, n)' <=> IF q = p THEN label \in CreateNodeLabel /\ l.n = n ELSE Makes(q, n)
    BY <1>1 DEF Makes
  <2>3. \A x, y \in Proc : \A n \in Node : Makes(x, n)' /\ Makes(y, n)' => x = y
    BY <2>2 DEF NodeLeases, MakersOK
  <2> QED
    BY <2>1, <2>3 DEF MakersOK
<1>5. ASSUME NEW n \in Node PROVE NodeOK(n)'
  <2>1. CASE KeptAt(n) /\ ~(pc[p] = "dn_finish" /\ loc[p].n = n)
    <3>1. \A q \in Proc : pc[q] = "dn_finish" /\ loc[q].n = n => pc'[q] = "dn_finish" /\ loc'[q].n = n
      BY <1>1, <2>1
    <3>2. NodeOK(n)
      BY DEF NodeLeases
    <3> QED
      BY <2>1, <3>1, <3>2 DEF NodeOK, KeptAt, DirsOf, Present
  <2>2. CASE ~KeptAt(n) \/ (pc[p] = "dn_finish" /\ loc[p].n = n)
    BY <2>2
  <2> QED
    BY <2>1, <2>2
<1> QED
  BY <1>4, <1>5 DEF NodeLeases

\* A thread outside create_node and outside the end of delete_node changes no node.
LEMMA ElsewhereKeepsNodes ==
  ASSUME IInv, NodeLeases, Asked', \A n \in Node : KeptAt(n), NEW p \in Proc,
         NEW label, NEW l, Goto(p, label, l), pc[p] # "dn_finish", label \notin CreateNodeLabel,
         l.call = "delete_node" => label # "dn_finish" /\ SameTarget(l, loc[p])
  PROVE  NodeLeases'
<1>1. ASSUME l.call = "delete_node" PROVE RemoveOK(label, l)'
  <2>1. RemoveOK(pc[p], loc[p]) /\ l.n = loc[p].n /\ l.me = loc[p].me /\ loc[p].n \in Node
    BY <1>1, RemoverFacts DEF SameTarget
  <2> QED
    BY <1>1, <2>1 DEF RemoveOK, KeptAt, Present
<1>2. KeptAt(<<>>) \/ <<>> \notin Node
  OBVIOUS
<1> QED
  BY <1>1, <1>2, NodeChange

\* create_link and delete_link leave nodes alone, but for their addresses and ION.
LEMMA LinkStepKeepsNodes ==
  ASSUME IInv, NodeLeases, Asked', NEW p \in Proc, LinkStep(p)
  PROVE  NodeLeases'
<1>1. pc[p] \in LinkLabel
  BY DEF LinkStep, ClGet, ClNew, ClRace, ClAdopt, ClContainers, ClConnect, ClReady, ClConfig,
     ClCommit, ClUndo, ClUnnet, ClUnreserve, DlIon, DlGet, DlDisconnect, DlRemove, DlFinish,
     LinkLabel, CreateLinkLabel, DeleteLinkLabel
<1>2. Moves(p) \/ Finish(p)
  <2>1. CASE ClCommit(p) \/ ClUnreserve(p)
    <3>1. Finish(p) \/ (pc[p] \in CreateLinkLabel /\ Undo(p))
      BY <2>1 DEF ClCommit, ClUnreserve, CreateLinkLabel
    <3> QED
      BY <3>1, UndoMoves
  <2>2. CASE ~(ClCommit(p) \/ ClUnreserve(p))
    BY <2>2, ClGetMoves, ClNewMoves, ClAdoptMoves, ClContainersMoves, ClConnectMoves,
       ClReadyMoves, ClConfigMoves, ClUndoMoves, DlIonMoves, DlGetMoves, DlEndMoves DEF LinkStep
  <2> QED
    BY <2>1, <2>2
<1>3. UNCHANGED <<cfgDir, disk>>
  BY DEF LinkStep, ClGet, ClNew, ClRace, ClAdopt, ClContainers, ClConnect, ClReady, ClConfig,
     ClCommit, ClUndo, ClUnnet, ClUnreserve, DlIon, DlGet, DlDisconnect, DlRemove, DlFinish,
     tableVars, nodeTables
<1>4. \A n \in Node : ctr'[n].cid = ctr[n].cid
  <2> DEFINE n == At(loc[p].pr, loc[p].side)
  <2>1. n \in Node /\ ctr[n] \in Container /\ ctr \in [Node -> Container]
    BY <1>1, ThreadFacts, LinkFacts, SideFacts DEF IInv, TypeOK
  <2>2. CASE ClConfig(p)
    <3> DEFINE m == At(loc[p].pr, Other(loc[p].side))
               d == <<loc[p].idx, Other(loc[p].side), loc[p].cl>>
    <3>1. ctr' = ctr \/ \E k \in 0..2 : ctr' = [ctr EXCEPT ![n] = ConfiguredUpTo(k, @, m, d)]
      BY <2>2 DEF ClConfig
    <3>2. \A k \in 0..2 : ConfiguredUpTo(k, ctr[n], m, d).cid = ctr[n].cid
      BY <2>1 DEF ConfiguredUpTo, WithDuct, WithPlan, Container
    <3> HIDE DEF n, m, d
    <3> QED
      BY <2>1, <3>1, <3>2
  <2>3. CASE DlIon(p)
    <3>1. \/ ctr' = ctr
          \/ \E m, d : \E c \in {ctr[n], WithoutPlan(ctr[n], m), WithoutDuct(WithoutPlan(ctr[n], m), d)} :
               ctr' = [ctr EXCEPT ![n] = c]
      <4>1. loc[p] \in Local
        BY ThreadFacts
      <4>2. ctr' \in {ctr, [ctr EXCEPT ![n] = ctr[n]],
                     [ctr EXCEPT ![n] = WithoutPlan(ctr[n], At(loc[p].pr, Other(loc[p].side)))]}
            \/ \E d : ctr' = [ctr EXCEPT ![n] = WithoutDuct(WithoutPlan(ctr[n], At(loc[p].pr, Other(loc[p].side))), d)]
        BY <2>3, <4>1 DEF DlIon, DuctDropped, Local
      <4> QED
        BY <4>2
    <3>2. \A m, d : WithoutPlan(ctr[n], m).cid = ctr[n].cid
                    /\ WithoutDuct(WithoutPlan(ctr[n], m), d).cid = ctr[n].cid
      BY <2>1 DEF WithoutPlan, WithoutDuct, Container
    <3> HIDE DEF n
    <3> QED
      BY <2>1, <3>1, <3>2
  <2>4. CASE ~(ClConfig(p) \/ DlIon(p))
    BY <2>4 DEF LinkStep, ClGet, ClNew, ClRace, ClAdopt, ClContainers, ClConnect, ClReady,
       ClCommit, ClUndo, ClUnnet, ClUnreserve, DlGet, DlDisconnect, DlRemove, DlFinish, dockerVars
  <2> QED
    BY <2>2, <2>3, <2>4
<1>5. \A n \in Node : nodes'[n].ref = nodes[n].ref /\ nodes'[n].st = nodes[n].st
  <2>1. UNCHANGED nodes \/ \E refs, pr : \E set \in BOOLEAN : nodes' = WithIps(refs, pr, set)
    BY DEF LinkStep, ClGet, ClNew, ClRace, ClAdopt, ClContainers, ClConnect, ClReady, ClConfig,
       ClCommit, ClUndo, ClUnnet, ClUnreserve, DlIon, DlGet, DlDisconnect, DlRemove, DlFinish,
       tableVars, nodeTables, IpsSet, IpsPopped
  <2> QED
    BY <2>1, IpsKeepRefs DEF IInv
<1>6. \A n \in Node : KeptAt(n)
  BY <1>3, <1>4, <1>5 DEF KeptAt
<1>7. pc[p] # "dn_finish" /\ pc[p] \notin CreateNodeLabel /\ pc[p] \notin DeleteNodeLabel
  BY <1>1 DEF LinkLabel, CreateLinkLabel, DeleteLinkLabel, CreateNodeLabel, DeleteNodeLabel
<1>8. \E label, l : /\ Goto(p, label, l) /\ label \notin CreateNodeLabel
                    /\ l.call = "delete_node" => label # "dn_finish" /\ SameTarget(l, loc[p])
  <2>1. CASE Moves(p)
    BY <1>7, <2>1 DEF Moves, SameJob
  <2>2. CASE Finish(p)
    <3>1. NoLocal.call # "delete_node" /\ "idle" \notin CreateNodeLabel
      BY DEF NoLocal, CreateNodeLabel
    <3> QED
      BY <2>2, <3>1 DEF Finish
  <2> QED
    BY <1>2, <2>1, <2>2
<1> QED
  BY <1>6, <1>7, <1>8, ElsewhereKeepsNodes

-----------------------------------------------------------------------------
(* The steps of create_node and delete_node                                *)

\* A step of create_node before its end.
LEMMA MakerStepKeeps ==
  ASSUME IInv, NodeLeases, OneDeletes, Asked', NEW p \in Proc, pc[p] \in CreateNodeLabel,
         \A n \in Node \ {loc[p].n} : KeptAt(n),
         NEW label \in CreateNodeLabel, NEW l, Goto(p, label, l), l.n = loc[p].n, l.op = loc[p].op,
         l.call # "delete_node", MakeOK(label, l)'
  PROVE  NodeLeases'
<1>1. PICK at : at = loc[p].n
  OBVIOUS
<1>2. at \in Node /\ loc[p].op # NoId /\ Makes(p, at)
  BY <1>1, MakerFacts
<1>3. NodeOK(at)'
  BY <1>1, <1>2 DEF MakeOK, NodeOK, Present
<1>4. \A q \in Proc \ {p} : ~Makes(q, at) /\ ~Removes(q, at)
  BY <1>2, NodeAlone
<1>5. pc[p] # "dn_finish"
  BY DEF CreateNodeLabel
<1> QED
  BY <1>1, <1>3, <1>4, <1>5, NodeChange

\* What create_node holds of its own locals.
LEMMA MakerCall ==
  ASSUME IInv, NEW p \in Proc, pc[p] \in CreateNodeLabel
  PROVE  loc[p].call # "delete_node"
<1>1. pc[p] \notin DeleteLabel
  BY DEF DeleteLabel, DeleteLinkLabel, DeleteNodeLabel, CreateNodeLabel
<1> QED
  BY <1>1, ThreadFacts DEF LocalOK

\* A step of create_node that changes nothing outside its thread.
LEMMA MakerLooks ==
  ASSUME IInv, NodeLeases, OneDeletes, Asked', NEW p \in Proc, pc[p] \in CreateNodeLabel,
         UNCHANGED <<tableVars, dockerVars, disk>>,
         NEW label \in CreateNodeLabel, NEW l, Goto(p, label, l), l.n = loc[p].n, l.op = loc[p].op,
         l.call # "delete_node", MakeOK(label, l)
  PROVE  NodeLeases'
<1>1. \A n \in Node \ {loc[p].n} : KeptAt(n)
  BY DEF KeptAt, tableVars, dockerVars
<1>2. MakeOK(label, l)'
  BY DEF MakeOK, DirsOf, tableVars, dockerVars
<1> QED
  BY <1>1, <1>2, MakerStepKeeps

\* No container of the name is left, so none is removed.
LEMMA CnStaleKeeps ==
  ASSUME IInv, NodeLeases, OneDeletes, Asked', NEW p \in Proc, CnStale(p)
  PROVE  NodeLeases'
<1>1. pc[p] = "cn_stale" /\ pc[p] \in CreateNodeLabel
  BY DEF CnStale, CreateNodeLabel
<1>2. MakeOK("cn_stale", loc[p])
  BY <1>1, MakerFacts
<1>3. /\ UNCHANGED <<tableVars, dockerVars, disk>>
      /\ \E label \in {"cn_dir", "cn_undo"} : Goto(p, label, loc[p])
  BY <1>2 DEF CnStale, MakeOK, CnRaise
<1>4. ASSUME NEW label \in {"cn_dir", "cn_undo"}, Goto(p, label, loc[p]) PROVE NodeLeases'
  <2>1. MakeOK(label, loc[p]) /\ label \in CreateNodeLabel
    BY <1>2 DEF MakeOK, CreateNodeLabel
  <2> QED
    BY <1>1, <1>3, <1>4, <2>1, MakerLooks, MakerCall
<1> QED
  BY <1>3, <1>4

\* The directory is the only one of its node.
LEMMA CnDirKeeps ==
  ASSUME IInv, NodeLeases, OneDeletes, Asked', NEW p \in Proc, CnDir(p)
  PROVE  NodeLeases'
<1>1. PICK n, op : n = loc[p].n /\ op = loc[p].op
  OBVIOUS
<1>2. pc[p] = "cn_dir" /\ pc[p] \in CreateNodeLabel /\ UNCHANGED <<tableVars, dockerVars>>
  BY DEF CnDir, CreateNodeLabel
<1>3. MakeOK("cn_dir", loc[p]) /\ loc[p] \in Local /\ op \in Id
  BY <1>1, <1>2, MakerFacts
<1>4. \/ /\ disk' = {d \in disk : d[1] # n} \union {<<n, op>>}
         /\ Goto(p, "cn_run", [loc[p] EXCEPT !.dir = TRUE])
      \/ disk' = {d \in disk : d[1] # n} /\ Goto(p, "cn_undo", loc[p])
  BY <1>1 DEF CnDir, DirsAfterMake, CnRaise
<1>5. PICK label, l : /\ Goto(p, label, l) /\ label \in {"cn_run", "cn_undo"}
                      /\ l.n = n /\ l.op = op /\ l.call = loc[p].call /\ l.cid = loc[p].cid
                      /\ \/ l.dir /\ disk' = {d \in disk : d[1] # n} \union {<<n, op>>}
                         \/ ~l.dir /\ label = "cn_undo" /\ disk' = {d \in disk : d[1] # n}
  <2> DEFINE l == [loc[p] EXCEPT !.dir = TRUE]
  <2>1. l.n = n /\ l.op = op /\ l.call = loc[p].call /\ l.cid = loc[p].cid /\ l.dir /\ ~loc[p].dir
    BY <1>1, <1>3 DEF Local, MakeOK
  <2> HIDE DEF l
  <2> QED
    BY <1>1, <1>4, <2>1 DEF l
<1>6. \A m \in Node \ {loc[p].n} : KeptAt(m)
  BY <1>1, <1>2, <1>5 DEF KeptAt, tableVars, dockerVars
<1>7. DirsOf(n)' = IF l.dir THEN {l.op} ELSE {}
  BY <1>3, <1>5 DEF DirsOf
<1>8. MakeOK(label, l)'
  BY <1>1, <1>2, <1>3, <1>5, <1>7 DEF MakeOK, tableVars, dockerVars
<1>9. label \in CreateNodeLabel
  BY <1>5 DEF CreateNodeLabel
<1> QED
  BY <1>1, <1>2, <1>5, <1>6, <1>8, <1>9, MakerStepKeeps, MakerCall

\* The name is free: the container is made, whether or not the answer arrives.
LEMMA CnRunKeeps ==
  ASSUME IInv, NodeLeases, OneDeletes, Asked', NEW p \in Proc, CnRun(p)
  PROVE  NodeLeases'
<1>1. PICK n, op : n = loc[p].n /\ op = loc[p].op
  OBVIOUS
<1>2. pc[p] = "cn_run" /\ pc[p] \in CreateNodeLabel /\ UNCHANGED <<tableVars, net, disk>>
  BY DEF CnRun, CreateNodeLabel
<1>3. /\ MakeOK("cn_run", loc[p]) /\ loc[p] \in Local /\ n \in Node
      /\ ctr \in [Node -> Container] /\ ctr[n].cid = NoId
  BY <1>1, <1>2, MakerFacts DEF MakeOK, IInv, TypeOK
<1>4. \/ ctr' = [ctr EXCEPT ![n] = FreshContainer(op)] /\ Goto(p, "cn_check", [loc[p] EXCEPT !.cid["a"] = op])
      \/ /\ UNCHANGED ctr \/ ctr' = [ctr EXCEPT ![n] = FreshContainer(op)]
         /\ Goto(p, "cn_undo", loc[p])
  BY <1>1 DEF CnRun, CnRaise
<1>5. FreshContainer(op).cid = op
  BY DEF FreshContainer, NoContainer
<1>6. /\ ctr'[n].cid \in {NoId, op}
      /\ \A m \in Node \ {n} : ctr'[m].cid = ctr[m].cid
  BY <1>3, <1>4, <1>5
<1>7. PICK label, l : /\ Goto(p, label, l) /\ label \in {"cn_check", "cn_undo"}
                      /\ l.n = n /\ l.op = op /\ l.call = loc[p].call /\ l.dir
                      /\ l.cid["a"] \in {NoId, op}
                      /\ label = "cn_check" => l.cid["a"] = op /\ ctr'[n].cid = op
  <2> DEFINE l == [loc[p] EXCEPT !.cid["a"] = op]
  <2>1. l.n = n /\ l.op = op /\ l.call = loc[p].call /\ l.dir = loc[p].dir /\ l.cid["a"] = op
    BY <1>1, <1>3 DEF Local, Side
  <2>2. loc[p].dir /\ loc[p].cid["a"] = NoId
    BY <1>3 DEF MakeOK
  <2> HIDE DEF l
  <2>3. CASE Goto(p, "cn_check", l) /\ ctr' = [ctr EXCEPT ![n] = FreshContainer(op)]
    BY <1>3, <1>5, <2>1, <2>2, <2>3
  <2>4. CASE Goto(p, "cn_undo", loc[p])
    BY <1>1, <2>2, <2>4
  <2> QED
    BY <1>4, <2>3, <2>4 DEF l
<1>8. \A m \in Node \ {loc[p].n} : KeptAt(m)
  BY <1>1, <1>2, <1>6 DEF KeptAt, tableVars
<1>9. MakeOK(label, l)'
  BY <1>1, <1>2, <1>3, <1>6, <1>7 DEF MakeOK, DirsOf, tableVars
<1>10. label \in CreateNodeLabel
  BY <1>7 DEF CreateNodeLabel
<1> QED
  BY <1>1, <1>2, <1>7, <1>8, <1>9, <1>10, MakerStepKeeps, MakerCall

\* The checks look, and remember the status.
LEMMA CnCheckKeeps ==
  ASSUME IInv, NodeLeases, OneDeletes, Asked', NEW p \in Proc, CnCheck(p)
  PROVE  NodeLeases'
<1>1. pc[p] = "cn_check" /\ pc[p] \in CreateNodeLabel /\ UNCHANGED <<tableVars, dockerVars, disk>>
  BY DEF CnCheck, CreateNodeLabel
<1>2. MakeOK("cn_check", loc[p]) /\ loc[p] \in Local
  BY <1>1, MakerFacts
<1>3. Goto(p, "cn_undo", loc[p])
      \/ \E st \in {"running", "error"} : Goto(p, "cn_commit", [loc[p] EXCEPT !.st = st])
  BY DEF CnCheck, CnRaise, StatusOfContainer
<1>4. CASE Goto(p, "cn_undo", loc[p])
  <2>1. MakeOK("cn_undo", loc[p]) /\ "cn_undo" \in CreateNodeLabel
    BY <1>2 DEF MakeOK, CreateNodeLabel
  <2> QED
    BY <1>1, <1>4, <2>1, MakerLooks, MakerCall
<1>5. ASSUME NEW st \in {"running", "error"}, Goto(p, "cn_commit", [loc[p] EXCEPT !.st = st])
      PROVE  NodeLeases'
  <2> DEFINE l == [loc[p] EXCEPT !.st = st]
  <2>1. /\ l.n = loc[p].n /\ l.op = loc[p].op /\ l.call = loc[p].call /\ l.cid = loc[p].cid
        /\ l.dir = loc[p].dir /\ l.st = st
    BY <1>2 DEF Local
  <2> HIDE DEF l
  <2>2. MakeOK("cn_commit", l) /\ "cn_commit" \in CreateNodeLabel
    BY <1>2, <2>1 DEF MakeOK, CreateNodeLabel
  <2> QED
    BY <1>1, <1>5, <2>1, <2>2, MakerLooks, MakerCall DEF l
<1> QED
  BY <1>3, <1>4, <1>5

\* The rollback finds the container by its object or by its name.
LEMMA CnUndoKeeps ==
  ASSUME IInv, NodeLeases, OneDeletes, NodesTidy, Asked', NEW p \in Proc, CnUndo(p)
  PROVE  NodeLeases'
<1>1. PICK l : l = loc[p]
  OBVIOUS
<1>2. pc[p] = "cn_undo" /\ pc[p] \in CreateNodeLabel /\ UNCHANGED tableVars /\ Goto(p, "cn_unres", l)
  BY <1>1 DEF CnUndo, CreateNodeLabel
<1>3. MakeOK("cn_undo", l) /\ l.n \in Node /\ ctr \in [Node -> Container] /\ l.op # NoId
  BY <1>1, <1>2, MakerFacts DEF IInv, TypeOK
<1>4. /\ disk' = disk \ (IF l.dir THEN {<<l.n, l.op>>} ELSE {})
      /\ \/ ctr' = [ctr EXCEPT ![l.n] = NoContainer]
         \/ ~(ctr[l.n].cid # NoId /\ l.cid["a"] \in {NoId, ctr[l.n].cid}) /\ UNCHANGED ctr
  BY <1>1 DEF CnUndo, Leftover, RemoveContainer, dockerVars, Fails, NodesTidy
<1>5. NoContainer.cid = NoId
  BY DEF NoContainer
<1>6. ctr'[l.n].cid = NoId /\ \A m \in Node \ {l.n} : ctr'[m].cid = ctr[m].cid
  BY <1>3, <1>4, <1>5 DEF MakeOK
<1>7. \A m \in Node \ {loc[p].n} : KeptAt(m)
  BY <1>1, <1>2, <1>4, <1>6 DEF KeptAt, tableVars
<1>8. DirsOf(l.n)' = {}
  <2>1. DirsOf(l.n) = IF l.dir THEN {l.op} ELSE {}
    BY <1>3 DEF MakeOK
  <2> QED
    BY <1>4, <2>1 DEF DirsOf
<1>9. MakeOK("cn_unres", l)' /\ "cn_unres" \in CreateNodeLabel
  BY <1>2, <1>3, <1>6, <1>8 DEF MakeOK, tableVars, CreateNodeLabel
<1> QED
  BY <1>1, <1>2, <1>7, <1>9, MakerStepKeeps, MakerCall

\* A thread that ends its call and leaves its node in order.
LEMMA NodeEnds ==
  ASSUME IInv, NodeLeases, OneDeletes, Asked', NEW p \in Proc, NEW at \in Node,
         \A n \in Node \ {at} : KeptAt(n), Finish(p), NodeOK(at)', Makes(p, at) \/ Removes(p, at)
  PROVE  NodeLeases'
<1>1. \A q \in Proc \ {p} : ~Makes(q, at) /\ ~Removes(q, at)
  BY NodeAlone
<1>2. at = loc[p].n
  BY DEF Makes, Removes
<1>3. "idle" \notin CreateNodeLabel /\ NoLocal.call # "delete_node"
  BY DEF CreateNodeLabel, NoLocal
<1> QED
  BY <1>1, <1>2, <1>3, NodeChange DEF Finish

\* The commit of create_node.
LEMMA CnCommitKeeps ==
  ASSUME IInv, NodeLeases, OneDeletes, Asked', NEW p \in Proc, CnCommit(p)
  PROVE  NodeLeases'
<1>1. PICK l : l = loc[p]
  OBVIOUS
<1>2. /\ pc[p] = "cn_commit" /\ pc[p] \in CreateNodeLabel /\ UNCHANGED <<ctr, disk>> /\ Finish(p)
      /\ cfgDir' = [cfgDir EXCEPT ![l.n] = l.op]
      /\ nodes' = [nodes EXCEPT ![l.n] = [ref |-> [op |-> l.op, named |-> TRUE], st |-> l.st, ips |-> {}]]
  BY <1>1 DEF CnCommit, CreateNodeLabel, dockerVars
<1>3. MakeOK("cn_commit", l) /\ l.n \in Node /\ l.op # NoId /\ Makes(p, l.n)
  BY <1>1, <1>2, MakerFacts
<1>4. /\ cfgDir'[l.n] = l.op /\ nodes'[l.n].ref = [op |-> l.op, named |-> TRUE] /\ nodes'[l.n].st = l.st
      /\ \A m \in Node \ {l.n} : nodes'[m] = nodes[m] /\ cfgDir'[m] = cfgDir[m]
  BY <1>2, <1>3 DEF IInv, TypeOK
<1>5. NodeOK(l.n)'
  BY <1>2, <1>3, <1>4 DEF NodeOK, MakeOK, Present, DirsOf
<1>6. \A m \in Node \ {l.n} : KeptAt(m)
  BY <1>2, <1>4 DEF KeptAt
<1> QED
  BY <1>2, <1>3, <1>5, <1>6, NodeEnds

\* The end of its rollback.
LEMMA CnUnreserveKeeps ==
  ASSUME IInv, NodeLeases, OneDeletes, Asked', NEW p \in Proc, CnUnreserve(p)
  PROVE  NodeLeases'
<1>1. PICK n : n = loc[p].n
  OBVIOUS
<1>2. /\ pc[p] = "cn_unres" /\ pc[p] \in CreateNodeLabel /\ UNCHANGED <<ctr, disk>> /\ Finish(p)
      /\ cfgDir' = [cfgDir EXCEPT ![n] = NoId] /\ nodes' = [nodes EXCEPT ![n] = NoNode]
  BY <1>1 DEF CnUnreserve, CreateNodeLabel, dockerVars
<1>3. n \in Node /\ Makes(p, n) /\ ctr[n].cid = NoId /\ DirsOf(n) = {}
  BY <1>1, <1>2, MakerFacts DEF MakeOK
<1>4. /\ cfgDir'[n] = NoId /\ nodes'[n].ref = NoRef /\ nodes'[n].st = "absent"
      /\ \A m \in Node \ {n} : nodes'[m] = nodes[m] /\ cfgDir'[m] = cfgDir[m]
  BY <1>2, <1>3 DEF IInv, TypeOK, NoNode
<1>5. NodeOK(n)'
  BY <1>2, <1>3, <1>4 DEF NodeOK, Present, DirsOf
<1>6. \A m \in Node \ {n} : KeptAt(m)
  BY <1>2, <1>4 DEF KeptAt
<1> QED
  BY <1>2, <1>3, <1>5, <1>6, NodeEnds

\* delete_node removes the container of a node that is no placeholder.
LEMMA DnContainerKeeps ==
  ASSUME IInv, NodeLeases, OneDeletes, Asked', NEW p \in Proc, DnContainer(p)
  PROVE  NodeLeases'
<1>1. PICK l : l = loc[p]
  OBVIOUS
<1>2. pc[p] = "dn_ctr" /\ UNCHANGED <<tableVars, disk>>
  BY DEF DnContainer
<1>3. l.call = "delete_node" /\ l.n \in Node /\ RemoveOK("dn_ctr", l) /\ l \in Local
  BY <1>1, <1>2, ThreadFacts, RemoverFacts DEF LocalOK, DeleteNodeLabel
<1>4. CASE UNCHANGED dockerVars /\ Finish(p)
  <2>1. \A n \in Node : KeptAt(n)
    BY <1>2, <1>4 DEF KeptAt, tableVars, dockerVars
  <2>2. "idle" \notin CreateNodeLabel /\ NoLocal.call # "delete_node"
    BY DEF CreateNodeLabel, NoLocal
  <2> QED
    BY <1>2, <1>4, <2>1, <2>2, ElsewhereKeepsNodes DEF Finish
<1>5. CASE /\ l.me.named
           /\ \/ RemoveContainer(l.n)
              \/ UNCHANGED dockerVars /\ ctr[l.n].cid = NoId
           /\ Goto(p, "dn_finish", l) \/ (Finish(p) /\ "dn_ctr" \in LostAt)
  <2>1. ctr'[l.n].cid = NoId /\ \A m \in Node \ {l.n} : ctr'[m].cid = ctr[m].cid
    BY <1>3, <1>5 DEF RemoveContainer, NoContainer, dockerVars, IInv, TypeOK
  <2>2. \A m \in Node \ {l.n} : KeptAt(m)
    BY <1>2, <2>1 DEF KeptAt, tableVars
  <2>3. Removes(p, l.n) /\ nodes[l.n].ref = l.me /\ Present(l.n)
    BY <1>1, <1>3, <1>5 DEF Removes, RemoveOK
  <2>4. /\ cfgDir[l.n] = nodes[l.n].ref.op /\ DirsOf(l.n) = {cfgDir[l.n]} /\ nodes[l.n].ref.op # NoId
    BY <1>3, <1>5, <2>3 DEF NodeLeases, NodeOK
  <2>5. UNCHANGED <<nodes, cfgDir, disk>>
    BY <1>2 DEF tableVars
  <2>6. CASE Finish(p) /\ "dn_ctr" \in LostAt
    <3>1. NodeOK(l.n)'
      BY <1>5, <2>1, <2>3, <2>4, <2>5, <2>6 DEF NodeOK, Present, DirsOf
    <3> QED
      BY <1>3, <2>2, <2>3, <2>6, <3>1, NodeEnds
  <2>7. CASE Goto(p, "dn_finish", l)
    <3>1. pc'[p] = "dn_finish" /\ loc'[p].n = l.n
      BY <2>7 DEF Goto, IInv, TypeOK
    <3>2. NodeOK(l.n)'
      BY <1>5, <2>1, <2>3, <2>4, <2>5, <3>1 DEF NodeOK, Present, DirsOf
    <3>3. RemoveOK("dn_finish", l)'
      BY <1>5, <2>1, <2>3, <2>5 DEF RemoveOK, Present
    <3>4. \A q \in Proc \ {p} : ~Makes(q, l.n) /\ ~Removes(q, l.n)
      BY <1>3, <2>3, NodeAlone
    <3>5. "dn_finish" \notin CreateNodeLabel
      BY DEF CreateNodeLabel
    <3> QED
      BY <1>2, <1>3, <2>2, <2>7, <3>2, <3>3, <3>4, <3>5, NodeChange
  <2> QED
    BY <1>5, <2>6, <2>7
<1> QED
  BY <1>1, <1>4, <1>5 DEF DnContainer, ReplyLost

\* The end of delete_node.
LEMMA DnFinishKeeps ==
  ASSUME IInv, NodeLeases, OneDeletes, Asked', NEW p \in Proc, DnFinish(p)
  PROVE  NodeLeases'
<1>1. PICK n : n = loc[p].n
  OBVIOUS
<1>2. /\ pc[p] = "dn_finish" /\ UNCHANGED ctr /\ Finish(p) /\ disk' = disk \ {<<n, cfgDir[n]>>}
      /\ cfgDir' = [cfgDir EXCEPT ![n] = NoId] /\ nodes' = [nodes EXCEPT ![n] = NoNode]
  BY <1>1 DEF DnFinish, dockerVars
<1>3. loc[p].call = "delete_node" /\ n \in Node /\ RemoveOK("dn_finish", loc[p])
  BY <1>1, <1>2, ThreadFacts, RemoverFacts DEF LocalOK, DeleteNodeLabel
<1>4. Removes(p, n) /\ ctr[n].cid = NoId /\ Present(n) /\ nodes[n].ref.named
  BY <1>1, <1>3 DEF Removes, RemoveOK
<1>5. DirsOf(n) = {cfgDir[n]}
  BY <1>3, <1>4 DEF NodeLeases, NodeOK
<1>6. /\ cfgDir'[n] = NoId /\ nodes'[n].ref = NoRef /\ nodes'[n].st = "absent"
      /\ \A m \in Node \ {n} : nodes'[m] = nodes[m] /\ cfgDir'[m] = cfgDir[m]
  BY <1>2, <1>3 DEF IInv, TypeOK, NoNode
<1>7. DirsOf(n)' = {}
  BY <1>2, <1>5 DEF DirsOf
<1>8. NodeOK(n)'
  BY <1>2, <1>4, <1>6, <1>7 DEF NodeOK, Present
<1>9. \A m \in Node \ {n} : KeptAt(m)
  BY <1>2, <1>6 DEF KeptAt
<1> QED
  BY <1>2, <1>3, <1>4, <1>8, <1>9, NodeEnds

-----------------------------------------------------------------------------
(* All steps; the invariant                                                *)

\* delete_node takes its next link, or none is left.
LEMMA DnNextKeepsNodes ==
  ASSUME IInv, NodeLeases, Asked', NEW p \in Proc, DnNext(p)
  PROVE  NodeLeases'
<1>1. pc[p] = "dn_next" /\ pc[p] \notin CreateNodeLabel /\ UNCHANGED <<tableVars, dockerVars, disk>>
  BY DEF DnNext, CreateNodeLabel
<1>2. \A n \in Node : KeptAt(n)
  BY <1>1 DEF KeptAt, tableVars, dockerVars
<1>3. PICK label, l : Goto(p, label, l) /\ SameJob(p, label, l)
  BY DnNextMoves DEF Moves
<1>4. label # "dn_finish"
  BY <1>3 DEF DnNext, Goto, IInv, TypeOK
<1> QED
  BY <1>1, <1>2, <1>3, <1>4, ElsewhereKeepsNodes DEF SameJob

\* Every step of a thread.
LEMMA StepKeepsNodes ==
  ASSUME IInv, NodeLeases, OneDeletes, NodesTidy, Asked', NEW p \in Proc, Step(p)
  PROVE  NodeLeases'
BY LinkStepKeepsNodes, CnStaleKeeps, CnDirKeeps, CnRunKeeps, CnCheckKeeps, CnCommitKeeps,
   CnUndoKeeps, CnUnreserveKeeps, DnNextKeepsNodes, DnContainerKeeps, DnFinishKeeps
   DEF Step, NodeStep

\* create_node finds nothing of an earlier node of its id.
LEMMA CreateNodeKeepsNodes ==
  ASSUME IInv, NodeLeases, Asked', NEW p \in Proc, NEW n \in Node, CreateNode(p, n)
  PROVE  NodeLeases'
<1>1. PICK id : id = NewId
  OBVIOUS
<1> DEFINE new == [ref |-> [op |-> NewId, named |-> FALSE], st |-> "creating", ips |-> {}]
<1>2. /\ ~Present(n) /\ UNCHANGED <<cfgDir, ctr, disk>> /\ nodes' = [nodes EXCEPT ![n] = new]
      /\ Goto(p, "cn_stale", [NoLocal EXCEPT !.op = NewId, !.call = "create_node", !.n = n])
      /\ pc[p] = "idle" /\ started < MaxOps
  BY DEF CreateNode, Begin, nodeOpUnchanged, dockerVars
<1>3. id \in Id /\ id # NoId
  BY <1>1, <1>2, NewIdIsId DEF IInv
<1>4. PICK l : /\ l.n = n /\ l.op = id /\ l.call = "create_node" /\ l.cid["a"] = NoId /\ ~l.dir
               /\ Goto(p, "cn_stale", l)
  <2> DEFINE l == [NoLocal EXCEPT !.op = NewId, !.call = "create_node", !.n = n]
  <2>1. l.n = n /\ l.op = id /\ l.call = "create_node" /\ l.cid["a"] = NoId /\ ~l.dir
    BY <1>1 DEF NoLocal, Side
  <2> HIDE DEF l
  <2> QED
    BY <1>2, <2>1 DEF l
<1>5. new.ref = [op |-> id, named |-> FALSE] /\ new.st = "creating"
  BY <1>1
<1> HIDE DEF new
<1>6. nodes'[n] = new /\ \A m \in Node \ {n} : nodes'[m] = nodes[m]
  BY <1>2 DEF IInv, TypeOK
<1>7. ctr[n].cid = NoId /\ cfgDir[n] = NoId /\ DirsOf(n) = {}
  BY <1>2 DEF NodeLeases, NodeOK
<1>8. \A m \in Node \ {n} : KeptAt(m)
  BY <1>2, <1>6 DEF KeptAt
<1>9. \A q \in Proc \ {p} : ~Makes(q, n) /\ ~Removes(q, n)
  BY <1>2, MakerFacts, RemoverFacts DEF Makes, Removes, MakeOK, RemoveOK, Present
<1>10. NodeOK(n)'
  BY <1>3, <1>5, <1>6 DEF NodeOK, Present
<1>11. MakeOK("cn_stale", l)'
  BY <1>2, <1>4, <1>5, <1>6, <1>7 DEF MakeOK, DirsOf
<1>12. pc[p] # "dn_finish"
  BY <1>2
<1> QED
  BY <1>4, <1>8, <1>9, <1>10, <1>11, <1>12, NodeChange

\* delete_node remembers the Node object that it finds.
LEMMA DeleteNodeKeepsNodes ==
  ASSUME IInv, NodeLeases, Asked', NEW p \in Proc, NEW n \in Node, DeleteNode(p, n)
  PROVE  NodeLeases'
<1>1. Present(n) /\ UNCHANGED <<tableVars, dockerVars, disk>> /\ pc[p] = "idle"
  BY DEF DeleteNode, Begin
<1>2. PICK l : l.n = n /\ l.me = nodes[n].ref /\ Goto(p, "dn_next", l)
  <2> DEFINE l == [NoLocal EXCEPT !.call = "delete_node", !.n = n, !.me = nodes[n].ref,
                                  !.todo = ConnectedLinks(n)]
  <2>1. l.n = n /\ l.me = nodes[n].ref
    BY DEF NoLocal
  <2>2. Goto(p, "dn_next", l)
    BY DEF DeleteNode
  <2> HIDE DEF l
  <2> QED
    BY <2>1, <2>2
<1>3. \A m \in Node : KeptAt(m)
  BY <1>1 DEF KeptAt, tableVars, dockerVars
<1>4. RemoveOK("dn_next", l)'
  BY <1>1, <1>2 DEF RemoveOK, Present, tableVars
<1>5. "dn_next" \notin CreateNodeLabel
  BY DEF CreateNodeLabel
<1>6. KeptAt(<<>>) \/ <<>> \notin Node
  BY <1>3
<1> QED
  BY <1>1, <1>2, <1>3, <1>4, <1>5, <1>6, NodeChange

\* What changes no node and no thread.
LEMMA StillKeepsNodes ==
  ASSUME IInv, NodeLeases, Asked', \A n \in Node : KeptAt(n), UNCHANGED <<pc, loc>>
  PROVE  NodeLeases'
<1>1. ASSUME NEW n \in Node PROVE DirsOf(n)' = DirsOf(n) /\ NodeOK(n)'
  <2>1. KeptAt(n) /\ NodeOK(n)
    BY <1>1 DEF NodeLeases
  <2> QED
    BY <2>1 DEF NodeOK, KeptAt, DirsOf, Present
<1>2. ASSUME NEW q \in Proc, pc[q] \in CreateNodeLabel PROVE MakeOK(pc[q], loc[q])'
  <2>1. MakeOK(pc[q], loc[q]) /\ KeptAt(loc[q].n) /\ DirsOf(loc[q].n)' = DirsOf(loc[q].n)
    BY <1>1, <1>2, MakerFacts
  <2> QED
    BY <2>1 DEF MakeOK, KeptAt
<1>3. ASSUME NEW q \in Proc, loc[q].call = "delete_node" PROVE RemoveOK(pc[q], loc[q])'
  <2>1. RemoveOK(pc[q], loc[q]) /\ KeptAt(loc[q].n)
    BY <1>3, RemoverFacts
  <2> QED
    BY <2>1 DEF RemoveOK, KeptAt, Present
<1> QED
  BY <1>1, <1>2, <1>3 DEF NodeLeases, MakersOK, Makes

\* Calls.
LEMMA CallKeepsNodes ==
  ASSUME IInv, NodeLeases, Asked', NEW p \in Proc, Call(p)
  PROVE  NodeLeases'
<1>1. ASSUME NEW pr \in Pair, DeleteLink(p, pr) \/ \E cl \in CL : CreateLink(p, pr, cl)
      PROVE  NodeLeases'
  <2>1. \A n \in Node : KeptAt(n)
    BY <1>1 DEF DeleteLink, CreateLink, KeptAt, tableVars, nodeTables, dockerVars
  <2>2. UNCHANGED <<pc, loc>> \/ \E label \in {"cl_get", "dl_ion"} : \E l :
                                   Goto(p, label, l) /\ l.call # "delete_node"
    <3> DEFINE m == [NoLocal EXCEPT !.call = "delete_link"]
    <3>1. m \in Local /\ m.call = "delete_link"
      BY NeutralTypes DEF Local, Operation
    <3> HIDE DEF m
    <3>2. Victim(m, pr).call = "delete_link"
      BY <3>1, VictimFacts DEF IInv
    <3>3. CASE DeleteLink(p, pr)
      BY <3>2, <3>3 DEF DeleteLink, m
    <3>4. ASSUME NEW cl \in CL, CreateLink(p, pr, cl)
          PROVE UNCHANGED <<pc, loc>> \/ \E l : Goto(p, "cl_get", l) /\ l.call # "delete_node"
      <4> DEFINE l == [NoLocal EXCEPT !.op = NewId, !.call = "create_link", !.pr = pr, !.cl = cl,
                                      !.idx = Issued(pool),
                                      !.ref = [s \in Side |-> nodes[At(pr, s)].ref]]
      <4>1. l.call = "create_link"
        BY DEF NoLocal
      <4> HIDE DEF l
      <4> QED
        BY <3>4, <4>1 DEF CreateLink, l
    <3> QED
      BY <1>1, <3>3, <3>4
  <2>3. pc[p] = "idle"
    BY <1>1 DEF DeleteLink, CreateLink, Begin
  <2>4. "cl_get" \notin CreateNodeLabel /\ "dl_ion" \notin CreateNodeLabel
    BY DEF CreateNodeLabel
  <2> QED
    BY <2>1, <2>2, <2>3, <2>4, StillKeepsNodes, ElsewhereKeepsNodes
<1> QED
  BY <1>1, CreateNodeKeepsNodes, DeleteNodeKeepsNodes DEF Call, LinkCall, NodeCall

\* The inductive step.
LEMMA NextKeepsNodeLeases ==
  ASSUME IInv, NodeLeases, OneDeletes, NodesTidy, [Next]_vars
  PROVE  NodeLeases'
<1>1. Asked'
  BY NextKeepsAsked DEF NodeLeases
<1>2. CASE \/ \E n \in Node : ContainerExits(n)
           \/ \E pr \in Pair, idx \in Index : OtherWriter(pr, idx)
           \/ UNCHANGED vars
  <2>1. UNCHANGED <<nodes, cfgDir, disk, pc, loc>>
    BY <1>2 DEF ContainerExits, OtherWriter, vars, tableVars
  <2>2. \A n \in Node : ctr'[n].cid = ctr[n].cid
    <3>1. CASE UNCHANGED ctr
      BY <3>1
    <3>2. ASSUME NEW n \in Node, ContainerExits(n) PROVE \A m \in Node : ctr'[m].cid = ctr[m].cid
      <4>1. [NoContainer EXCEPT !.cid = ctr[n].cid].cid = ctr[n].cid
        BY DEF NoContainer
      <4> QED
        BY <3>2, <4>1 DEF ContainerExits, IInv, TypeOK
    <3> QED
      BY <1>2, <3>1, <3>2 DEF OtherWriter, vars
  <2>3. \A n \in Node : KeptAt(n)
    BY <2>1, <2>2 DEF KeptAt
  <2> QED
    BY <1>1, <2>1, <2>3, StillKeepsNodes
<1> QED
  BY <1>1, <1>2, StepKeepsNodes, CallKeepsNodes DEF Next

\* At the start the nodes are those of BootNodes, complete.
LEMMA InitNodeLeases == Init => NodeLeases
<1> SUFFICES ASSUME Init PROVE NodeLeases
  OBVIOUS
<1>1. \A p \in Proc : pc[p] = "idle" /\ loc[p].call = ""
  BY DEF Init, NoLocal
<1>2. "idle" \notin CreateNodeLabel /\ "idle" \notin DeleteLabel
  BY DEF CreateNodeLabel, DeleteLabel, DeleteLinkLabel, DeleteNodeLabel
<1>3. Asked /\ MakersOK
  BY <1>1, <1>2 DEF Asked, MakersOK, Makes
<1>4. Boot \in Id /\ Boot # NoId
  BY BoundAssumption DEF Id, Boot, NoId
<1>5. ASSUME NEW n \in Node PROVE NodeOK(n)
  <2>1. FreshContainer(Boot).cid = Boot /\ NoContainer.cid = NoId /\ NoNode.ref = NoRef /\ NoNode.st = "absent"
    BY DEF FreshContainer, NoContainer, NoNode
  <2>2. CASE n \in BootNodes
    <3>1. DirsOf(n) = {Boot}
      BY <1>4, <2>2 DEF Init, DirsOf
    <3> QED
      BY <1>4, <2>1, <2>2, <3>1 DEF Init, NodeOK, Present
  <2>3. CASE n \notin BootNodes
    <3>1. DirsOf(n) = {}
      BY <2>3 DEF Init, DirsOf
    <3> QED
      BY <2>1, <2>3, <3>1 DEF Init, NodeOK, Present
  <2> QED
    BY <2>2, <2>3
<1> QED
  BY <1>3, <1>5 DEF NodeLeases

\* Hence it holds throughout.
LEMMA NodeLeasesHold ==
  ASSUME OneDeletes, NodesTidy
  PROVE  Spec => []NodeLeases
<1>1. IInv /\ NodeLeases /\ [Next]_vars => NodeLeases'
  BY NextKeepsNodeLeases
<1> QED
  BY <1>1, InitNodeLeases, InvariantHolds, PTL DEF Spec

-----------------------------------------------------------------------------
(* What it says of nodes                                                   *)

\* If one thread at a time deletes and rollbacks of create_node succeed, then, whenever no
\* call is running, each node has the container and the directory that its create_node
\* made, and nothing else is left on the daemon or the disk (docker_manager.py:312-337,
\* 356-367). A removal of a container whose answer is lost leaves the node without one.
THEOREM NodesKeepWhatTheyMade ==
  ASSUME OneDeletes, NodesTidy, "dn_ctr" \notin LostAt
  PROVE  Spec => []NodesMatchDocker
<1>1. ASSUME IInv, NodeLeases, NoOrphanPlaceholder PROVE NodesMatchDocker
  <2> SUFFICES ASSUME Quiet
               PROVE  /\ \A n \in Node : /\ nodes[n].ref.op = ctr[n].cid
                                         /\ nodes[n].ref.op = cfgDir[n]
                                         /\ Present(n) => nodes[n].ref.named
                      /\ disk = {<<n, cfgDir[n]>> : n \in {m \in Node : Present(m)}}
    BY DEF NodesMatchDocker
  <2>1. \A p \in Proc : pc[p] \notin CreateNodeLabel /\ pc[p] # "dn_finish"
    BY DEF Quiet, CreateNodeLabel
  <2>2. \A n \in Node : Present(n) => nodes[n].ref.named
    BY <1>1, <2>1 DEF NoOrphanPlaceholder, Unfinished
  <2>3. ASSUME NEW n \in Node
        PROVE  /\ nodes[n].ref.op = ctr[n].cid /\ nodes[n].ref.op = cfgDir[n]
               /\ DirsOf(n) = IF Present(n) THEN {cfgDir[n]} ELSE {}
    <3>1. NodeOK(n)
      BY <1>1 DEF NodeLeases
    <3>2. CASE Present(n)
      BY <2>1, <2>2, <3>1, <3>2 DEF NodeOK
    <3>3. CASE ~Present(n)
      BY <3>1, <3>3 DEF NodeOK, NoRef
    <3> QED
      BY <3>2, <3>3
  <2>4. disk \subseteq Node \X Id
    BY <1>1 DEF IInv, TypeOK
  <2>5. ASSUME NEW d \in disk PROVE \E n \in Node : Present(n) /\ d = <<n, cfgDir[n]>>
    <3>1. PICK n \in Node, i \in Id : d = <<n, i>>
      BY <2>4
    <3>2. i \in DirsOf(n)
      BY <3>1 DEF DirsOf
    <3> QED
      BY <2>3, <3>1, <3>2
  <2>6. ASSUME NEW n \in Node, Present(n) PROVE <<n, cfgDir[n]>> \in disk
    BY <2>3, <2>6 DEF DirsOf
  <2>7. disk = {<<n, cfgDir[n]>> : n \in {m \in Node : Present(m)}}
    BY <2>5, <2>6
  <2> QED
    BY <2>2, <2>3, <2>7
<1> QED
  BY <1>1, InvariantHolds, NodeLeasesHold, NoReservationOutlivesItsCall, PTL

-----------------------------------------------------------------------------
(* The caps. Only the two locked reservations add to the tables, and both    *)
(* look at the cap; what is on the daemon has its node.                     *)

PresentNodes == {n \in Node : Present(n)}

Capped == Cardinality(PresentNodes) <= MaxNodes /\ Cardinality(LinkNames) <= MaxLinks

\* A set that gains an element only below its cap stays within it.
LEMMA CapKept ==
  ASSUME NEW S, IsFiniteSet(S), NEW T, NEW cap \in Nat, Cardinality(S) <= cap,
         T \subseteq S \/ \E x : T = S \union {x} /\ ~(Cardinality(S) >= cap)
  PROVE  Cardinality(T) <= cap
<1>1. Cardinality(S) \in Nat
  BY FS_CardinalityType
<1>2. CASE T \subseteq S
  <2>1. IsFiniteSet(T) /\ Cardinality(T) <= Cardinality(S)
    BY <1>2, FS_Subset
  <2>2. Cardinality(T) \in Nat
    BY <2>1, FS_CardinalityType
  <2> QED
    BY <1>1, <2>1, <2>2
<1>3. ASSUME NEW x, T = S \union {x}, ~(Cardinality(S) >= cap) PROVE Cardinality(T) <= cap
  <2>1. Cardinality(T) = Cardinality(S) \/ Cardinality(T) = Cardinality(S) + 1
    BY <1>3, FS_AddElement
  <2> QED
    BY <1>1, <1>3, <2>1
<1> QED
  BY <1>2, <1>3

\* The tables are finite.
LEMMA TablesFinite == IsFiniteSet(PresentNodes) /\ IsFiniteSet(LinkNames)
<1>1. IsFiniteSet(Node)
  BY NodeAssumption
<1>2. IsFiniteSet(Node \X Node)
  BY <1>1, FS_Product
<1>3. PresentNodes \subseteq Node
  BY DEF PresentNodes
<1>4. LinkNames \subseteq Node \X Node
  BY PairAssumption DEF LinkNames
<1> QED
  BY <1>1, <1>2, <1>3, <1>4, FS_Subset

\* Only create_node adds a node.
LEMMA NodesGrow ==
  ASSUME IInv, NodeLeases, [Next]_vars
  PROVE  \/ PresentNodes' \subseteq PresentNodes
         \/ \E n : PresentNodes' = PresentNodes \union {n} /\ ~NodeCapReached
<1>1. ASSUME \A n \in Node : nodes'[n].st = nodes[n].st PROVE PresentNodes' \subseteq PresentNodes
  BY <1>1 DEF PresentNodes, Present
<1>2. ASSUME NEW n \in Node, NEW k, nodes' = [nodes EXCEPT ![n] = k], k.st = "absent" \/ Present(n)
      PROVE  PresentNodes' \subseteq PresentNodes
  BY <1>2 DEF PresentNodes, Present, IInv, TypeOK
<1>3. ASSUME NEW p \in Proc, NEW n \in Node, CreateNode(p, n)
      PROVE  PresentNodes' = PresentNodes \union {n} /\ ~NodeCapReached
  <2> DEFINE k == [ref |-> [op |-> NewId, named |-> FALSE], st |-> "creating", ips |-> {}]
  <2>1. nodes' = [nodes EXCEPT ![n] = k] /\ k.st # "absent" /\ ~NodeCapReached
    BY <1>3 DEF CreateNode
  <2> HIDE DEF k
  <2> QED
    BY <2>1 DEF PresentNodes, Present, IInv, TypeOK
<1>4. ASSUME NEW p \in Proc, CnCommit(p) \/ CnUnreserve(p) \/ DnFinish(p)
      PROVE  PresentNodes' \subseteq PresentNodes
  <2>1. loc[p].n \in Node
    BY <1>4, ThreadFacts DEF CnCommit, CnUnreserve, DnFinish, LocalOK, NodeLabel, CreateNodeLabel,
       DeleteNodeLabel
  <2>2. CnCommit(p) => Present(loc[p].n)
    BY MakerFacts DEF CnCommit, CreateNodeLabel, MakeOK, Present
  <2>3. NoNode.st = "absent"
    BY DEF NoNode
  <2> QED
    BY <1>2, <1>4, <2>1, <2>2, <2>3 DEF CnCommit, CnUnreserve, DnFinish
<1>5. ASSUME NEW p \in Proc, LinkStep(p) PROVE PresentNodes' \subseteq PresentNodes
  <2>1. UNCHANGED nodes \/ \E refs, pr : \E set \in BOOLEAN : nodes' = WithIps(refs, pr, set)
    BY <1>5 DEF LinkStep, ClGet, ClNew, ClRace, ClAdopt, ClContainers, ClConnect, ClReady, ClConfig,
       ClCommit, ClUndo, ClUnnet, ClUnreserve, DlIon, DlGet, DlDisconnect, DlRemove, DlFinish,
       tableVars, nodeTables, IpsSet, IpsPopped
  <2> QED
    BY <1>1, <2>1, IpsKeepRefs DEF IInv
<1>6. CASE UNCHANGED nodes
  BY <1>1, <1>6
<1>7. \/ UNCHANGED nodes
      \/ \E p \in Proc : \/ LinkStep(p) \/ CnCommit(p) \/ CnUnreserve(p) \/ DnFinish(p)
                         \/ \E n \in Node : CreateNode(p, n)
  BY DEF Next, Call, Step, LinkCall, NodeCall, NodeStep, CreateLink, DeleteLink, DeleteNode, CnStale,
     CnDir, CnRun, CnCheck, CnUndo, DnNext, DnContainer, ContainerExits, OtherWriter, tableVars,
     nodeTables, vars
<1> QED
  BY <1>3, <1>4, <1>5, <1>6, <1>7

\* Only create_link adds a link.
LEMMA LinksGrow ==
  ASSUME IInv, [Next]_vars
  PROVE  \/ LinkNames' \subseteq LinkNames
         \/ \E pr : LinkNames' = LinkNames \union {pr} /\ ~LinkCapReached
<1>1. ASSUME NEW pr \in Pair, links' = [links EXCEPT ![pr] = NoId] PROVE LinkNames' \subseteq LinkNames
  BY <1>1 DEF LinkNames, IInv, TypeOK
<1>2. ASSUME NEW p \in Proc, NEW pr \in Pair, NEW cl \in CL, CreateLink(p, pr, cl)
      PROVE  \/ LinkNames' = LinkNames
             \/ LinkNames' = LinkNames \union {pr} /\ ~LinkCapReached
  <2>1. ~LinkCapReached /\ (UNCHANGED links \/ links' = [links EXCEPT ![pr] = NewId])
    BY <1>2 DEF CreateLink
  <2>2. NewId # NoId
    BY <1>2, NewIdIsId DEF CreateLink, Begin, IInv
  <2> QED
    BY <2>1, <2>2 DEF LinkNames, IInv, TypeOK
<1>3. ASSUME NEW p \in Proc, ClUnreserve(p) \/ DlFinish(p) PROVE LinkNames' \subseteq LinkNames
  <2>1. loc[p].pr \in Pair
    BY <1>3, LinkFacts DEF ClUnreserve, DlFinish, LinkLabel, CreateLinkLabel, DeleteLinkLabel
  <2>2. UNCHANGED links \/ links' = [links EXCEPT ![loc[p].pr] = NoId]
    BY <1>3 DEF ClUnreserve, DlFinish
  <2> QED
    BY <1>1, <2>1, <2>2 DEF LinkNames
<1>4. CASE UNCHANGED links
  BY <1>4 DEF LinkNames
<1>5. \/ UNCHANGED links
      \/ \E p \in Proc : \/ ClUnreserve(p) \/ DlFinish(p)
                         \/ \E pr \in Pair, cl \in CL : CreateLink(p, pr, cl)
  <2>1. ASSUME NEW p \in Proc, Step(p), ~ClUnreserve(p), ~DlFinish(p) PROVE UNCHANGED links
    BY <2>1 DEF Step, LinkStep, NodeStep, ClGet, ClNew, ClRace, ClAdopt, ClContainers, ClConnect,
       ClReady, ClConfig, ClCommit, ClUndo, ClUnnet, DlIon, DlGet, DlDisconnect, DlRemove, CnStale,
       CnDir, CnRun, CnCheck, CnCommit, CnUndo, CnUnreserve, DnNext, DnContainer, DnFinish,
       tableVars, nodeTables, linkTables, nodeOpUnchanged
  <2>2. ASSUME NEW p \in Proc, NodeCall(p) \/ \E pr \in Pair : DeleteLink(p, pr) PROVE UNCHANGED links
    BY <2>2 DEF NodeCall, DeleteLink, CreateNode, DeleteNode, tableVars, nodeOpUnchanged
  <2>3. CASE \/ \E n \in Node : ContainerExits(n)
             \/ \E pr \in Pair, idx \in Index : OtherWriter(pr, idx)
             \/ UNCHANGED vars
    BY <2>3 DEF ContainerExits, OtherWriter, tableVars, vars
  <2> QED
    BY <2>1, <2>2, <2>3 DEF Next, Call, LinkCall
<1> QED
  BY <1>2, <1>3, <1>4, <1>5

\* Under the same conditions but for lost answers, neither the tables nor the daemon ever
\* hold more than the caps allow (settings.py:19-22), not even while nodes are created,
\* deleted and rolled back at the same time.
THEOREM CapsAreRespected ==
  ASSUME OneDeletes, NodesTidy
  PROVE  Spec => []CapsRespected
<1>1. Init => Capped
  <2> SUFFICES ASSUME Init PROVE Capped
    OBVIOUS
  <2>1. PresentNodes \subseteq BootNodes /\ LinkNames = {}
    BY DEF Init, PresentNodes, Present, LinkNames, NoNode
  <2>2. IsFiniteSet(BootNodes)
    BY NodeAssumption, FS_Subset
  <2>3. Cardinality(PresentNodes) <= MaxNodes
    BY <2>1, <2>2, CapKept, BootAssumption, BoundAssumption
  <2> QED
    BY <2>1, <2>3, FS_EmptySet, BoundAssumption DEF Capped
<1>2. ASSUME IInv, NodeLeases, Capped, [Next]_vars PROVE Capped'
  <2>1. Cardinality(PresentNodes') <= MaxNodes
    <3>1. PICK T : T = PresentNodes'
      OBVIOUS
    <3>2. T \subseteq PresentNodes \/ \E n : T = PresentNodes \union {n} /\ ~(Cardinality(PresentNodes) >= MaxNodes)
      BY <1>2, <3>1, NodesGrow DEF NodeCapReached, PresentNodes
    <3> QED
      BY <1>2, <3>1, <3>2, CapKept, TablesFinite, BoundAssumption DEF Capped
  <2>2. Cardinality(LinkNames') <= MaxLinks
    <3>1. PICK T : T = LinkNames'
      OBVIOUS
    <3>2. T \subseteq LinkNames \/ \E pr : T = LinkNames \union {pr} /\ ~(Cardinality(LinkNames) >= MaxLinks)
      BY <1>2, <3>1, LinksGrow DEF LinkCapReached
    <3> QED
      BY <1>2, <3>1, <3>2, CapKept, TablesFinite, BoundAssumption DEF Capped
  <2> QED
    BY <2>1, <2>2 DEF Capped
<1>3. ASSUME IInv, NodeLeases, Capped PROVE CapsRespected
  <2>1. {n \in Node : ctr[n].cid # NoId} \subseteq PresentNodes
    BY <1>3 DEF NodeLeases, NodeOK, PresentNodes
  <2>2. Cardinality({n \in Node : ctr[n].cid # NoId}) <= MaxNodes
    BY <1>3, <2>1, CapKept, TablesFinite, BoundAssumption DEF Capped
  <2> QED
    BY <1>3, <2>2 DEF Capped, CapsRespected, PresentNodes
<1> QED
  BY <1>1, <1>2, <1>3, InvariantHolds, NodeLeasesHold, PTL DEF Spec
=============================================================================

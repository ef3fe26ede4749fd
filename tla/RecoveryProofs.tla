--------------------------- MODULE RecoveryProofs ---------------------------
(***************************************************************************)
(* What outlives a crash of the process, whatever the calls, jobs, failures *)
(* and restarts: the types, the lease that each link has of one index of    *)
(* the pool once a reconcile() has run to its end, that what a reconcile()  *)
(* adopts as UP is live, that a cleanup leaves nothing on the daemon, and   *)
(* that a restart between two calls goes unnoticed.                         *)
(***************************************************************************)
EXTENDS Recovery, DockerManagerProofs, SequenceTheorems

\* Operations are of this process or of earlier ones.
Past(i) == i # Boot /\ i <= started + 1

\* No network of this manager has the identity or the subnet of another, or an
\* endpoint that is not one of its pair. Nor has one the identity of a network that
\* a thread may still make.
NetsOK ==
  /\ \A pr \in Pair : Past(net[pr].nid) /\ net[pr].att \subseteq Ends(pr)
  /\ \A pr, qr \in Pair :
       net[pr].nid # NoId /\ (net[pr].nid = net[qr].nid \/ (net[qr].nid # NoId /\ net[pr].sub = net[qr].sub)) => pr = qr
  /\ \A p \in Proc : pc[p] \in CreateLinkLabel => Past(loc[p].op)
  /\ \A p, q \in Proc :
       pc[p] \in CreateLinkLabel /\ pc[q] \in CreateLinkLabel /\ loc[p].op = loc[q].op => p = q
  /\ \A p \in Proc : pc[p] \in {"cl_get", "cl_new"} => \A pr \in Pair : net[pr].nid # loc[p].op

\* A link in the table has a convergence layer.
LayersOK == \A pr \in LinkNames : obj[links[pr]].cl \in CL

\* What a job relies on from one of its steps to the next.
JobGoesOn(label, j) ==
  /\ label # "idle" /\ j.phase = "mk_nodes" => j.nodes # {}
  /\ label # "idle" /\ j.phase = "mk_links" => j.entries # <<>>
  /\ j.phase = "repairing" => \A x \in j.found : obj[x[3]].cl \in CL

JobsOK == DOMAIN job = Proc /\ \A p \in Proc : JobOK(job[p]) /\ JobGoesOn(pc[p], job[p])

-----------------------------------------------------------------------------
(* Networks                                                                *)

\* What was past remains so.
LEMMA Later ==
  ASSUME NEW s \in Nat, NEW t \in Nat, s <= t
  PROVE  \A i \in Nat : i <= s + 1 => i <= t + 1
OBVIOUS

\* Steps that make no network, of threads that go on with what they are at.
LEMMA NetsLast ==
  ASSUME IInv, NetsOK, started' \in Nat, started <= started', \A pr \in Pair : Lasts(pr),
         \A p \in Proc : pc'[p] \in CreateLinkLabel =>
                           pc[p] \in CreateLinkLabel /\ loc'[p].op = loc[p].op,
         \A p \in Proc : pc'[p] \in {"cl_get", "cl_new"} => pc[p] \in {"cl_get", "cl_new"}
  PROVE  NetsOK'
<1>0. started \in Nat
  BY BoundAssumption DEF IInv, TypeOK
<1>1. (\A p \in Proc : loc[p].op \in Nat) /\ (\A pr \in Pair : net[pr].nid \in Nat)
  <2>1. \A p \in Proc : loc[p].op \in Id \union {NoId}
    BY ThreadFacts DEF Local
  <2>2. \A pr \in Pair : net[pr].nid \in Id \union {NoId}
    BY DEF IInv, TypeOK, Network
  <2>3. Id \union {NoId} \subseteq Nat
    BY BoundAssumption DEF Id, Boot, NoId
  <2> QED
    BY <2>1, <2>2, <2>3
<1>9. PICK s \in Nat, t \in Nat : s = started /\ t = started' /\ s <= t
  BY <1>0
<1>2. \A i \in Nat : Past(i) => i # Boot /\ i <= started' + 1
  <2>1. \A i \in Nat : Past(i) => i # Boot /\ i <= t + 1
    <3>1. \A i \in Nat : i <= s + 1 => i <= t + 1
      BY <1>9, Later
    <3> QED
      BY <1>9, <3>1 DEF Past
  <2> QED
    BY <1>9, <2>1
<1>3. NoId # Boot /\ NoId <= started' + 1
  <2>1. NoId # Boot /\ NoId <= t + 1
    BY DEF NoId, Boot
  <2> QED
    BY <1>9, <2>1
<1>4. ASSUME NEW pr \in Pair PROVE Past(net[pr].nid)' /\ net'[pr].att \subseteq Ends(pr)
  <2>1. Past(net[pr].nid)
    BY DEF NetsOK
  <2>2. CASE net'[pr].nid = NoId
    BY <1>3, <2>2 DEF Past, Lasts
  <2>3. CASE net'[pr].nid = net[pr].nid
    <3>1. PICK i \in Nat : i = net[pr].nid
      BY <1>1
    <3>2. i # Boot /\ i <= started' + 1
      BY <1>2, <2>1, <3>1
    <3> QED
      BY <2>3, <3>1, <3>2 DEF Past, Lasts
  <2> QED
    BY <2>2, <2>3 DEF Lasts
<1>5. ASSUME NEW pr \in Pair, NEW qr \in Pair, net'[pr].nid # NoId,
             net'[pr].nid = net'[qr].nid \/ (net'[qr].nid # NoId /\ net'[pr].sub = net'[qr].sub)
      PROVE  pr = qr
  <2>1. net'[pr].nid = net[pr].nid /\ net'[pr].sub = net[pr].sub
    BY <1>5 DEF Lasts
  <2>2. net'[qr].nid # NoId /\ net'[qr].nid = net[qr].nid /\ net'[qr].sub = net[qr].sub
    BY <1>5 DEF Lasts
  <2> QED
    BY <1>5, <2>1, <2>2 DEF NetsOK
<1>6. ASSUME NEW p \in Proc, pc'[p] \in CreateLinkLabel PROVE Past(loc[p].op)'
  BY <1>1, <1>2, <1>6 DEF NetsOK, Past
<1>7. ASSUME NEW p \in Proc, NEW q \in Proc, pc'[p] \in CreateLinkLabel,
             pc'[q] \in CreateLinkLabel, loc'[p].op = loc'[q].op
      PROVE  p = q
  BY <1>7 DEF NetsOK
<1>8. ASSUME NEW p \in Proc, pc'[p] \in {"cl_get", "cl_new"}, NEW pr \in Pair
      PROVE  net'[pr].nid # loc'[p].op
  <2>1. pc[p] \in {"cl_get", "cl_new"} /\ pc'[p] \in CreateLinkLabel
    BY <1>8 DEF CreateLinkLabel
  <2>2. loc'[p].op = loc[p].op /\ net[pr].nid # loc[p].op /\ pc[p] \in CreateLinkLabel
    BY <2>1 DEF NetsOK, CreateLinkLabel
  <2>3. loc[p].op # NoId
    BY <2>2, ThreadFacts, BoundAssumption DEF LocalOK, Id, Boot, NoId
  <2> QED
    BY <2>2, <2>3 DEF Lasts
<1> QED
  BY <1>4, <1>5, <1>6, <1>7, <1>8 DEF NetsOK

\* A network that only loses endpoints lasts.
LEMMA KeptLasts ==
  ASSUME NetsOK, NEW pr \in Pair, NetKept(pr)
  PROVE  Lasts(pr)
BY DEF NetsOK, NetKept, Lasts

\* A thread that goes to a label of create_link has been there before, and only
\* networks.get() leads to networks.create().
LEMMA StepLabels ==
  ASSUME IInv, NEW p \in Proc, Step(p)
  PROVE  /\ pc'[p] \in CreateLinkLabel => pc[p] \in CreateLinkLabel /\ loc'[p].op = loc[p].op
         /\ pc'[p] \in {"cl_get", "cl_new"} => pc[p] = "cl_get"
         /\ \A q \in Proc \ {p} : pc'[q] = pc[q] /\ loc'[q] = loc[q]
         /\ pc[p] # "idle"
<1>1. pc \in [Proc -> Label] /\ loc \in [Proc -> Local]
  BY DEF IInv, TypeOK
<1>2. ASSUME NEW label, NEW l, Goto(p, label, l)
      PROVE  /\ pc'[p] = label /\ loc'[p] = l
             /\ \A q \in Proc \ {p} : pc'[q] = pc[q] /\ loc'[q] = loc[q]
  BY <1>1, <1>2 DEF Goto
<1>3. CASE ClGet(p) \/ ClNew(p) \/ ClRace(p) \/ ClAdopt(p) \/ ClContainers(p) \/ ClConnect(p)
           \/ ClReady(p) \/ ClConfig(p) \/ ClCommit(p) \/ ClUndo(p) \/ ClUnnet(p) \/ ClUnreserve(p)
  <2>1. pc[p] \in CreateLinkLabel /\ pc[p] # "idle"
    BY <1>3 DEF ClGet, ClNew, ClRace, ClAdopt, ClContainers, ClConnect, ClReady, ClConfig,
       ClCommit, ClUndo, ClUnnet, ClUnreserve, CreateLinkLabel
  <2>2. Moves(p) \/ Finish(p)
    <3>1. CASE ClCommit(p) \/ ClUnreserve(p)
      BY <2>1, <3>1, UndoMoves DEF ClCommit, ClUnreserve
    <3>2. CASE ~(ClCommit(p) \/ ClUnreserve(p))
      BY <1>3, <3>2, ClGetMoves, ClNewMoves, ClAdoptMoves, ClContainersMoves, ClConnectMoves,
         ClReadyMoves, ClConfigMoves, ClUndoMoves
    <3> QED
      BY <3>1, <3>2
  <2>3. CASE Moves(p)
    <3>1. PICK label \in Label, l \in Local : Goto(p, label, l) /\ SameJob(p, label, l)
      BY <2>3 DEF Moves
    <3>2. loc'[p].op = loc[p].op
      BY <1>2, <2>1, <3>1 DEF SameJob
    <3>3. pc'[p] \in {"cl_get", "cl_new"} => pc[p] = "cl_get"
      <4>1. CASE ClGet(p)
        BY <4>1 DEF ClGet
      <4>2. CASE ClNew(p) \/ ClRace(p)
        BY <1>1, <4>2 DEF ClNew, ClRace, HaveNetwork, Undo, Goto
      <4>3. CASE ClAdopt(p) \/ ClContainers(p) \/ ClConnect(p)
        BY <1>1, <4>3 DEF ClAdopt, ClContainers, ClConnect, Undo, Goto
      <4>4. CASE ClReady(p) \/ ClConfig(p)
        BY <1>1, <4>4 DEF ClReady, ClConfig, Undo, Goto
      <4>5. CASE ClCommit(p) \/ ClUndo(p) \/ ClUnnet(p) \/ ClUnreserve(p)
        BY <1>1, <4>5 DEF ClCommit, ClUndo, ClUnnet, ClUnreserve, AfterDisconnect, Undo, Finish, Goto
      <4> QED
        BY <1>3, <4>1, <4>2, <4>3, <4>4, <4>5
    <3> QED
      BY <1>2, <2>1, <3>1, <3>2, <3>3
  <2>4. CASE Finish(p)
    BY <1>2, <2>1, <2>4 DEF Finish, CreateLinkLabel
  <2> QED
    BY <2>2, <2>3, <2>4
<1>4. CASE DlIon(p) \/ DlGet(p) \/ DlDisconnect(p) \/ DlRemove(p) \/ DlFinish(p) \/ DnNext(p)
  <2>1. pc[p] # "idle" /\ \E label \in DeleteLinkLabel \union {"idle", "dn_next", "dn_ctr"} : \E l : Goto(p, label, l)
    <3> USE DEF DeleteLinkLabel
    <3>1. CASE DlIon(p)
      BY <3>1 DEF DlIon
    <3>2. CASE DlGet(p)
      BY <3>2 DEF DlGet, DlReturn, Finish
    <3>3. CASE DlDisconnect(p) \/ DlRemove(p)
      BY <3>3 DEF DlDisconnect, DlRemove, Refusal, DlReturn, Finish
    <3>4. CASE DlFinish(p) \/ DnNext(p)
      BY <3>4 DEF DlFinish, DnNext, DlReturn, Finish
    <3> QED
      BY <1>4, <3>1, <3>2, <3>3, <3>4
  <2>2. \A label \in DeleteLinkLabel \union {"idle", "dn_next", "dn_ctr"} :
          label \notin CreateLinkLabel /\ label \notin {"cl_get", "cl_new"}
    BY DEF DeleteLinkLabel, CreateLinkLabel
  <2>3. PICK label \in DeleteLinkLabel \union {"idle", "dn_next", "dn_ctr"} : \E l : Goto(p, label, l)
    BY <2>1
  <2>4. PICK l : Goto(p, label, l)
    BY <2>3
  <2> QED
    BY <1>2, <2>1, <2>2, <2>4
<1>5. CASE NodeStep(p) /\ ~DnNext(p)
  <2>1. pc[p] # "idle" /\ \E label \in NodeLabel \union {"idle"} : \E l : Goto(p, label, l)
    <3> USE DEF NodeLabel, CreateNodeLabel, DeleteNodeLabel
    <3>1. CASE CnStale(p) \/ CnDir(p) \/ CnRun(p)
      BY <3>1 DEF CnStale, CnDir, CnRun, CnRaise
    <3>2. CASE CnCheck(p) \/ CnUndo(p)
      BY <3>2 DEF CnCheck, CnUndo, CnRaise
    <3>3. CASE CnCommit(p) \/ CnUnreserve(p) \/ DnContainer(p) \/ DnFinish(p)
      BY <3>3 DEF CnCommit, CnUnreserve, DnContainer, DnFinish, Finish
    <3> QED
      BY <1>5, <3>1, <3>2, <3>3 DEF NodeStep
  <2>2. PICK label \in NodeLabel \union {"idle"} : \E l : Goto(p, label, l)
    BY <2>1
  <2>3. label \notin CreateLinkLabel /\ label \notin {"cl_get", "cl_new"}
    BY LabelsDiffer DEF CreateLinkLabel
  <2>4. PICK l : Goto(p, label, l)
    BY <2>2
  <2> QED
    BY <1>2, <2>1, <2>3, <2>4
<1> QED
  BY <1>3, <1>4, <1>5 DEF Step, LinkStep, NodeStep

\* Whatever a step does to the networks, except that create_link makes one, they last.
LEMMA StepNets ==
  ASSUME IInv, NetsOK, NEW p \in Proc, Step(p), ~ClNew(p)
  PROVE  \A pr \in Pair : Lasts(pr)
<1>1. net \in [Pair -> Network]
  BY DEF IInv, TypeOK
<1>2. ASSUME \A pr \in Pair : NetKept(pr) PROVE \A pr \in Pair : Lasts(pr)
  BY <1>2, KeptLasts
<1>3. CASE ClConnect(p)
  <2>1. loc[p].pr \in Pair
    BY <1>3, ThreadFacts DEF ClConnect, LocalOK, LinkLabel, CreateLinkLabel
  <2>2. PICK at \in Pair, s \in Side : at = loc[p].pr /\ s = loc[p].side
    BY <2>1, ThreadFacts DEF Local
  <2>3. UNCHANGED net \/ net' = Attached(at, At(at, s))
    BY <1>3, <2>2 DEF ClConnect
  <2>4. CASE UNCHANGED net
    BY <1>2, <2>4 DEF NetKept
  <2>5. CASE net' = Attached(at, At(at, s))
    <3>1. At(at, s) \in Ends(at)
      BY DEF At, Ends
    <3>2. net[at] \in Network /\ net[at].att \subseteq Ends(at)
      BY <1>1 DEF NetsOK
    <3>3. Lasts(at)
      BY <1>1, <2>5, <3>1, <3>2 DEF Lasts, Attached, Network
    <3>4. \A pr \in Pair \ {at} : NetKept(pr)
      BY <1>1, <2>5 DEF NetKept, Attached
    <3> QED
      BY <3>3, <3>4, KeptLasts
  <2> QED
    BY <2>3, <2>4, <2>5
<1>4. CASE ClUnnet(p) \/ DlRemove(p)
  <2>1. UNCHANGED net \/ net' = [net EXCEPT ![loc[p].pr] = NoNetwork]
    BY <1>4 DEF ClUnnet, DlRemove
  <2>2. \A pr \in Pair : NetKept(pr) \/ net'[pr] = NoNetwork
    BY <1>1, <2>1 DEF NetKept
  <2>3. \A pr \in Pair : net'[pr] = NoNetwork => Lasts(pr)
    BY DEF Lasts, NoNetwork
  <2> QED
    BY <2>2, <2>3, KeptLasts
<1>5. CASE ClUndo(p) \/ DlDisconnect(p)
  <2>1. loc[p].pr \in Pair
    BY <1>5, ThreadFacts DEF ClUndo, DlDisconnect, LocalOK, LinkLabel, CreateLinkLabel, DeleteLinkLabel
  <2>2. \E nid, ns : net' = Disconnected(loc[p].pr, nid, ns)
    BY <1>5 DEF ClUndo, DlDisconnect
  <2> QED
    BY <1>2, <2>1, <2>2, NetsKept
<1>6. CASE CnStale(p) \/ CnUndo(p) \/ DnContainer(p)
  <2>1. loc[p].n \in Node
    BY <1>6, ThreadFacts DEF CnStale, CnUndo, DnContainer, LocalOK, NodeLabel, CreateNodeLabel, DeleteNodeLabel
  <2>2. UNCHANGED net \/ net' = DetachedEverywhere(loc[p].n)
    BY <1>6 DEF CnStale, CnUndo, DnContainer, RemoveContainer, dockerVars
  <2> QED
    BY <1>2, <2>1, <2>2, NetsKept
<1>7. CASE ~(ClConnect(p) \/ ClUnnet(p) \/ DlRemove(p) \/ ClUndo(p) \/ DlDisconnect(p)
             \/ CnStale(p) \/ CnUndo(p) \/ DnContainer(p))
  <2>1. UNCHANGED net
    <3>1. CASE ClGet(p) \/ ClRace(p) \/ ClAdopt(p) \/ ClContainers(p) \/ ClReady(p) \/ ClConfig(p)
               \/ ClCommit(p) \/ ClUnreserve(p)
      BY <3>1 DEF ClGet, ClRace, ClAdopt, ClContainers, ClReady, ClConfig, ClCommit, ClUnreserve, dockerVars
    <3>2. CASE DlIon(p) \/ DlGet(p) \/ DlFinish(p) \/ DnNext(p)
      BY <3>2 DEF DlIon, DlGet, DlFinish, DnNext, dockerVars
    <3>3. CASE CnDir(p) \/ CnRun(p) \/ CnCheck(p) \/ CnCommit(p) \/ CnUnreserve(p) \/ DnFinish(p)
      BY <3>3 DEF CnDir, CnRun, CnCheck, CnCommit, CnUnreserve, DnFinish, dockerVars
    <3> QED
      BY <1>7, <3>1, <3>2, <3>3 DEF Step, LinkStep, NodeStep
  <2> QED
    BY <1>2, <2>1 DEF NetKept
<1> QED
  BY <1>3, <1>4, <1>5, <1>6, <1>7

\* networks.create() gives a network the identity of its operation and a subnet that
\* no other has.
LEMMA ClNewNets ==
  ASSUME IInv, NetsOK, NEW p \in Proc, ClNew(p)
  PROVE  NetsOK'
<1>1. /\ pc[p] = "cl_new" /\ pc[p] \in CreateLinkLabel /\ net \in [Pair -> Network] /\ Step(p)
      /\ started' = started
  BY DEF ClNew, CreateLinkLabel, IInv, TypeOK, Step, LinkStep
<1>2. PICK at \in Pair, id \in Id, idx \in Index : at = loc[p].pr /\ id = loc[p].op /\ idx = loc[p].idx
  BY <1>1, LinkFacts, ThreadFacts DEF LocalOK, LinkLabel
<1>3. /\ \A q \in Proc : pc'[q] \in CreateLinkLabel =>
                           pc[q] \in CreateLinkLabel /\ loc'[q].op = loc[q].op
      /\ \A q \in Proc : pc'[q] \in {"cl_get", "cl_new"} => q # p /\ pc[q] \in {"cl_get", "cl_new"}
  BY <1>1, StepLabels
<1>4. CASE UNCHANGED net
  <2>1. \A pr \in Pair : Lasts(pr)
    BY <1>4, KeptLasts DEF NetKept
  <2>2. started' \in Nat /\ started <= started'
    BY <1>1, BoundAssumption DEF IInv, TypeOK
  <2> QED
    BY <1>3, <2>1, <2>2, NetsLast
<1>5. CASE net' # net
  <2> DEFINE k == [nid |-> id, sub |-> idx, att |-> {}]
  <2>1. /\ net' = [net EXCEPT ![at] = k] /\ net[at].nid = NoId
        /\ \A pr \in Pair : net[pr].nid # NoId => net[pr].sub # idx
    BY <1>2, <1>5 DEF ClNew, Overlaps
  <2>2. k.nid = id /\ k.sub = idx /\ k.att = {}
    OBVIOUS
  <2> HIDE DEF k
  <2>3. net'[at] = k /\ \A pr \in Pair \ {at} : net'[pr] = net[pr]
    BY <1>1, <2>1
  <2>4. id # NoId /\ Past(id) /\ \A pr \in Pair : net[pr].nid # id
    BY <1>1, <1>2, BoundAssumption DEF NetsOK, Id, Boot, NoId
  <2>5. \A i : Past(i)' <=> Past(i)
    BY <1>1 DEF Past
  <2>6. \A pr \in Pair : Past(net[pr].nid)' /\ net'[pr].att \subseteq Ends(pr)
    BY <2>2, <2>3, <2>4, <2>5 DEF NetsOK, Past
  <2>7. ASSUME NEW pr \in Pair, NEW qr \in Pair, net'[pr].nid # NoId,
               net'[pr].nid = net'[qr].nid \/ (net'[qr].nid # NoId /\ net'[pr].sub = net'[qr].sub)
        PROVE  pr = qr
    <3>1. CASE pr = at /\ qr # at
      BY <2>1, <2>2, <2>3, <2>4, <2>7, <3>1
    <3>2. CASE pr # at /\ qr = at
      BY <2>1, <2>2, <2>3, <2>4, <2>7, <3>2
    <3>3. CASE pr # at /\ qr # at
      BY <2>3, <2>7, <3>3 DEF NetsOK
    <3> QED
      BY <3>1, <3>2, <3>3
  <2>8. \A q \in Proc : pc'[q] \in CreateLinkLabel => Past(loc[q].op)'
    BY <1>3, <2>5 DEF NetsOK, Past
  <2>9. \A x, y \in Proc :
          pc'[x] \in CreateLinkLabel /\ pc'[y] \in CreateLinkLabel /\ loc'[x].op = loc'[y].op => x = y
    BY <1>3 DEF NetsOK
  <2>10. ASSUME NEW q \in Proc, pc'[q] \in {"cl_get", "cl_new"}, NEW pr \in Pair
         PROVE  net'[pr].nid # loc'[q].op
    <3>1. q # p /\ pc[q] \in {"cl_get", "cl_new"} /\ pc[q] \in CreateLinkLabel
      BY <1>3, <2>10 DEF CreateLinkLabel
    <3>2. pc'[q] \in CreateLinkLabel
      BY <2>10 DEF CreateLinkLabel
    <3>3. loc'[q].op = loc[q].op /\ loc[q].op # id /\ net[pr].nid # loc[q].op
      BY <1>1, <1>2, <1>3, <3>1, <3>2 DEF NetsOK
    <3> QED
      BY <2>2, <2>3, <3>3
  <2> QED
    BY <2>6, <2>7, <2>8, <2>9, <2>10 DEF NetsOK
<1> QED
  BY <1>4, <1>5

\* What the types say of identities.
LEMMA IdsAreNat ==
  ASSUME IInv
  PROVE  /\ started \in Nat /\ (\A p \in Proc : loc[p].op \in Nat)
         /\ (\A pr \in Pair : net[pr].nid \in Nat /\ links[pr] \in Nat)
<1>1. \A p \in Proc : loc[p].op \in Id \union {NoId}
  BY ThreadFacts DEF Local
<1>2. \A pr \in Pair : net[pr].nid \in Id \union {NoId} /\ links[pr] \in Id \union {NoId}
  BY DEF IInv, TypeOK, Network
<1>3. Id \union {NoId} \subseteq Nat /\ started \in Nat
  BY BoundAssumption DEF Id, Boot, NoId, IInv, TypeOK
<1> QED
  BY <1>1, <1>2, <1>3

\* The identity of the next operation is not past, and will be.
LEMMA NextIdentity ==
  ASSUME NEW s \in Nat
  PROVE  /\ \A i \in Nat : i <= s + 1 => i <= (s + 1) + 1 /\ i # s + 2
         /\ s + 2 # Boot /\ s + 2 # NoId /\ s + 2 <= (s + 1) + 1 /\ s <= s + 1 /\ s + 1 \in Nat
BY DEF Boot, NoId

\* A call that is no reservation of a link leaves the networks and the labels of
\* create_link alone.
LEMMA OtherCallNets ==
  ASSUME IInv, NetsOK, NEW p \in Proc, UNCHANGED net, started' = started + 1,
         \/ UNCHANGED <<pc, loc>>
         \/ \E label \in {"dl_ion", "cn_stale", "dn_next"} : \E l : Goto(p, label, l)
  PROVE  NetsOK'
<1>1. PICK s \in Nat : s = started
  BY IdsAreNat
<1>2. started' = s + 1
  BY <1>1
<1>3. started' \in Nat /\ started <= started'
  BY <1>1, <1>2, NextIdentity
<1>4. \A pr \in Pair : Lasts(pr)
  BY KeptLasts DEF NetKept
<1>5. \A q \in Proc : /\ pc'[q] \in CreateLinkLabel => pc'[q] = pc[q] /\ loc'[q] = loc[q]
                      /\ pc'[q] \in {"cl_get", "cl_new"} => pc'[q] = pc[q] /\ loc'[q] = loc[q]
  <2>1. CASE UNCHANGED <<pc, loc>>
    BY <2>1
  <2>2. CASE \E label \in {"dl_ion", "cn_stale", "dn_next"} : \E l : Goto(p, label, l)
    <3>1. PICK label \in {"dl_ion", "cn_stale", "dn_next"} : \E l : Goto(p, label, l)
      BY <2>2
    <3>2. PICK l : Goto(p, label, l)
      BY <3>1
    <3>3. /\ pc'[p] = label /\ \A q \in Proc \ {p} : pc'[q] = pc[q] /\ loc'[q] = loc[q]
      BY <3>2 DEF Goto, IInv, TypeOK
    <3>4. label \notin CreateLinkLabel /\ label \notin {"cl_get", "cl_new"}
      BY DEF CreateLinkLabel
    <3> QED
      BY <3>3, <3>4
  <2> QED
    BY <2>1, <2>2
<1> QED
  BY <1>3, <1>4, <1>5, NetsLast

\* The reservation of create_link takes an identity that nothing has.
LEMMA CreateLinkNets ==
  ASSUME IInv, NetsOK, NEW p \in Proc, NEW pr \in Pair, NEW cl \in CL, CreateLink(p, pr, cl)
  PROVE  NetsOK'
<1>1. /\ pc[p] = "idle" /\ UNCHANGED net /\ started' = started + 1
      /\ pc \in [Proc -> Label] /\ loc \in [Proc -> Local]
  BY DEF CreateLink, Begin, dockerVars, IInv, TypeOK
<1>2. PICK s \in Nat : s = started
  BY IdsAreNat
<1> DEFINE PastThen(i) == i # Boot /\ i <= started' + 1
<1>3. \A i : PastThen(i) <=> i # Boot /\ i <= (s + 1) + 1
  BY <1>1, <1>2
<1>4. PICK new \in Nat : new = NewId /\ new = s + 2
  BY <1>2 DEF NewId
<1>5. \A i \in Nat : Past(i) => PastThen(i) /\ i # new
  <2>1. \A i \in Nat : Past(i) => i # Boot /\ i <= s + 1
    BY <1>2 DEF Past
  <2> QED
    BY <1>3, <1>4, <2>1, NextIdentity
<1>6. PastThen(new) /\ new # NoId
  BY <1>3, <1>4, NextIdentity
<1>7. CASE UNCHANGED <<pc, loc>>
  BY <1>1, <1>7, OtherCallNets
<1>8. CASE ~UNCHANGED <<pc, loc>>
  <2>1. PICK l : Goto(p, "cl_get", l) /\ l.op = NewId
    <3> DEFINE l == [NoLocal EXCEPT !.op = NewId, !.call = "create_link", !.pr = pr, !.cl = cl,
                                    !.idx = Issued(pool), !.ref = [x \in Side |-> nodes[At(pr, x)].ref]]
    <3>1. l.op = NewId
      BY DEF NoLocal
    <3>2. Goto(p, "cl_get", l)
      BY <1>8 DEF CreateLink
    <3> HIDE DEF l
    <3> QED
      BY <3>1, <3>2
  <2>2. pc'[p] = "cl_get" /\ loc'[p].op = new
    BY <1>1, <1>4, <2>1 DEF Goto
  <2>3. \A q \in Proc \ {p} : pc'[q] = pc[q] /\ loc'[q] = loc[q]
    BY <1>1, <2>1 DEF Goto
  <2>4. \A x \in Pair : PastThen(net[x].nid) /\ net[x].nid # new
    BY <1>5, IdsAreNat DEF NetsOK
  <2>5. \A q \in Proc \ {p} : pc[q] \in CreateLinkLabel => PastThen(loc[q].op) /\ loc[q].op # new
    BY <1>5, IdsAreNat DEF NetsOK
  <2>6. \A x \in Pair : PastThen(net'[x].nid) /\ net'[x].att \subseteq Ends(x)
    BY <1>1, <2>4 DEF NetsOK
  <2>7. \A x, y \in Pair :
          net'[x].nid # NoId /\ (net'[x].nid = net'[y].nid \/ (net'[y].nid # NoId /\ net'[x].sub = net'[y].sub)) => x = y
    BY <1>1 DEF NetsOK
  <2>8. \A q \in Proc : pc'[q] \in CreateLinkLabel => PastThen(loc'[q].op)
    <3>1. PastThen(loc'[p].op)
      BY <1>6, <2>2
    <3> QED
      BY <2>3, <2>5, <3>1
  <2>9. \A x, y \in Proc :
          pc'[x] \in CreateLinkLabel /\ pc'[y] \in CreateLinkLabel /\ loc'[x].op = loc'[y].op => x = y
    <3>1. ASSUME NEW x \in Proc, NEW y \in Proc, pc'[x] \in CreateLinkLabel,
                 pc'[y] \in CreateLinkLabel, loc'[x].op = loc'[y].op, x # y
          PROVE  FALSE
      <4>1. x = p \/ y = p
        BY <2>3, <3>1 DEF NetsOK
      <4> QED
        BY <2>2, <2>3, <2>5, <3>1, <4>1
    <3> QED
      BY <3>1
  <2>10. \A q \in Proc : pc'[q] \in {"cl_get", "cl_new"} => \A x \in Pair : net'[x].nid # loc'[q].op
    BY <1>1, <2>2, <2>3, <2>4 DEF NetsOK
  <2> QED
    BY <2>6, <2>7, <2>8, <2>9, <2>10 DEF NetsOK, Past
<1> QED
  BY <1>7, <1>8

\* Every step of the system.
LEMMA NextKeepsNets ==
  ASSUME IInv, NetsOK, "writer" \notin FaultAt, [Next]_vars
  PROVE  NetsOK'
<1>1. ASSUME UNCHANGED <<pc, loc, started>>, \A pr \in Pair : NetKept(pr) PROVE NetsOK'
  <2>1. started' \in Nat /\ started <= started'
    BY <1>1, IdsAreNat
  <2> QED
    BY <1>1, <2>1, KeptLasts, NetsLast
<1>2. CASE UNCHANGED vars
  BY <1>1, <1>2 DEF vars, NetKept
<1>3. ASSUME NEW p \in Proc, Step(p) PROVE NetsOK'
  <2>1. CASE ClNew(p)
    BY <2>1, ClNewNets
  <2>2. CASE ~ClNew(p)
    <3>1. started' = started
      BY <1>3 DEF Step, LinkStep, NodeStep, ClGet, ClNew, ClRace, ClAdopt, ClContainers,
         ClConnect, ClReady, ClConfig, ClCommit, ClUndo, ClUnnet, ClUnreserve, DlIon, DlGet,
         DlDisconnect, DlRemove, DlFinish, CnStale, CnDir, CnRun, CnCheck, CnCommit, CnUndo,
         CnUnreserve, DnNext, DnContainer, DnFinish
    <3>2. started' \in Nat /\ started <= started'
      BY <3>1, IdsAreNat
    <3> QED
      BY <1>3, <2>2, <3>2, StepNets, StepLabels, NetsLast
  <2> QED
    BY <2>1, <2>2
<1>4. ASSUME NEW p \in Proc, Call(p) PROVE NetsOK'
  <2>1. CASE \E pr \in Pair, cl \in CL : CreateLink(p, pr, cl)
    BY <2>1, CreateLinkNets
  <2>2. CASE (\E pr \in Pair : DeleteLink(p, pr)) \/ NodeCall(p)
    <3>1. UNCHANGED net /\ started' = started + 1
          /\ \E label \in {"dl_ion", "cn_stale", "dn_next"} : \E l : Goto(p, label, l)
      BY <2>2 DEF NodeCall, DeleteLink, CreateNode, DeleteNode, Begin, dockerVars
    <3> QED
      BY <3>1, OtherCallNets
  <2> QED
    BY <1>4, <2>1, <2>2 DEF Call, LinkCall
<1>5. ASSUME NEW n \in Node, ContainerExits(n) PROVE NetsOK'
  <2>1. UNCHANGED <<pc, loc, started>> /\ net' = DetachedEverywhere(n)
    BY <1>5 DEF ContainerExits
  <2> QED
    BY <1>1, <2>1, NetsKept
<1> QED
  BY <1>2, <1>3, <1>4, <1>5 DEF Next, OtherWriter, Fails

-----------------------------------------------------------------------------
(* Endpoints                                                               *)

\* What has an endpoint runs: Docker takes the endpoints of a container that stops.
EndsRun == \A pr \in Pair : \A n \in net[pr].att : ctr[n].up

\* No container stops, and networks gain no endpoint.
LEMMA EndsLast ==
  ASSUME IInv, EndsRun, \A pr \in Pair : net'[pr].att \subseteq net[pr].att,
         \A n \in Node : ctr[n].up => ctr'[n].up
  PROVE  EndsRun'
<1>1. ASSUME NEW pr \in Pair, NEW n \in net'[pr].att PROVE ctr'[n].up
  <2>1. n \in net[pr].att
    BY <1>1
  <2>2. net[pr].att \subseteq Node
    BY DEF IInv, TypeOK, Network
  <2> QED
    BY <2>1, <2>2 DEF EndsRun
<1> QED
  BY <1>1 DEF EndsRun

\* A network is taken away.
LEMMA EndsGo ==
  ASSUME IInv, EndsRun, NEW at, net' = [net EXCEPT ![at] = NoNetwork], UNCHANGED ctr
  PROVE  EndsRun'
<1>1. net \in [Pair -> Network]
  BY DEF IInv, TypeOK
<1>2. \A pr \in Pair : net'[pr] = net[pr] \/ net'[pr] = NoNetwork
  BY <1>1
<1>3. \A pr \in Pair : net'[pr].att \subseteq net[pr].att
  BY <1>2 DEF NoNetwork
<1> QED
  BY <1>3, EndsLast

\* A container stops or disappears.
LEMMA EndsDetached ==
  ASSUME IInv, EndsRun, NEW m \in Node, NEW c, net' = DetachedEverywhere(m),
         ctr' = [ctr EXCEPT ![m] = c]
  PROVE  EndsRun'
<1>1. net \in [Pair -> Network] /\ ctr \in [Node -> Container]
  BY DEF IInv, TypeOK
<1>2. ASSUME NEW pr \in Pair, NEW n \in net'[pr].att PROVE ctr'[n].up
  <2>1. net'[pr].att = net[pr].att \ {m} /\ net[pr].att \subseteq Node
    BY <1>1 DEF DetachedEverywhere, Network
  <2>2. n \in Node /\ n # m /\ n \in net[pr].att
    BY <1>2, <2>1
  <2>3. ctr'[n] = ctr[n] /\ ctr[n].up
    BY <1>1, <2>2 DEF EndsRun
  <2> QED
    BY <2>3
<1> QED
  BY <1>2 DEF EndsRun

\* What the commands of a link do to a container leaves it up.
LEMMA IonLeavesUp ==
  ASSUME NEW c \in Container, NEW peer, NEW duct
  PROVE  /\ WithDuct(c, duct).up = c.up /\ WithPlan(c, peer, duct).up = c.up
         /\ WithoutPlan(c, peer).up = c.up /\ WithoutDuct(c, duct).up = c.up
         /\ \A k \in 0..2 : ConfiguredUpTo(k, c, peer, duct).up = c.up
<1>1. DOMAIN c = {"cid", "up", "plans", "ducts"}
  BY DEF Container
<1>2. WithDuct(c, duct).up = c.up /\ DOMAIN WithDuct(c, duct) = {"cid", "up", "plans", "ducts"}
  BY <1>1 DEF WithDuct
<1>3. /\ WithPlan(c, peer, duct).up = c.up /\ WithoutPlan(c, peer).up = c.up
      /\ WithoutDuct(c, duct).up = c.up
  BY <1>1 DEF WithPlan, WithoutPlan, WithoutDuct
<1>4. WithPlan(WithDuct(c, duct), peer, duct).up = c.up
  BY <1>2 DEF WithPlan
<1>5. ASSUME NEW k \in 0..2 PROVE ConfiguredUpTo(k, c, peer, duct).up = c.up
  <2>1. k = 0 \/ k = 1 \/ k = 2
    OBVIOUS
  <2> QED
    BY <1>2, <1>4, <2>1 DEF ConfiguredUpTo
<1> QED
  BY <1>2, <1>3, <1>5

\* ION of one container changes.
LEMMA EndsConfigured ==
  ASSUME IInv, EndsRun, UNCHANGED net, NEW n \in Node, NEW c, ctr' = [ctr EXCEPT ![n] = c],
         ctr[n].up => c.up
  PROVE  EndsRun'
<1>1. ctr \in [Node -> Container]
  BY DEF IInv, TypeOK
<1>2. \A m \in Node : ctr[m].up => ctr'[m].up
  BY <1>1
<1> QED
  BY <1>2, EndsLast

\* The steps of the four operations.
LEMMA StepKeepsEnds ==
  ASSUME IInv, EndsRun, NEW p \in Proc, Step(p)
  PROVE  EndsRun'
<1>1. net \in [Pair -> Network] /\ ctr \in [Node -> Container]
  BY DEF IInv, TypeOK
<1>2. CASE ClNew(p)
  <2>1. PICK k : k = [nid |-> loc[p].op, sub |-> loc[p].idx, att |-> {}]
    OBVIOUS
  <2>2. UNCHANGED ctr /\ (net' = net \/ net' = [net EXCEPT ![loc[p].pr] = k])
    BY <1>2, <2>1 DEF ClNew
  <2>3. k.att = {}
    BY <2>1
  <2>4. \A pr \in Pair : net'[pr].att \subseteq net[pr].att
    BY <1>1, <2>2, <2>3
  <2> QED
    BY <2>2, <2>4, EndsLast
<1>3. CASE ClConnect(p)
  <2>1. loc[p].pr \in Pair /\ loc[p].side \in Side /\ At(loc[p].pr, loc[p].side) \in Node
    BY <1>3, LinkFacts, ThreadFacts DEF ClConnect, LinkLabel, CreateLinkLabel, Local
  <2>2. PICK at \in Pair, n \in Node : at = loc[p].pr /\ n = At(loc[p].pr, loc[p].side)
    BY <2>1
  <2>3. UNCHANGED ctr /\ (net' = net \/ net' = Attached(at, n))
    BY <1>3, <2>2 DEF ClConnect
  <2>4. CASE net' = net
    BY <2>3, <2>4, EndsLast
  <2>5. CASE net' = Attached(at, n) /\ ctr[n].up
    <3>1. net' = [net EXCEPT ![at].att = @ \union {n}]
      BY <2>5 DEF Attached
    <3>2. net'[at].att = net[at].att \union {n} /\ \A pr \in Pair \ {at} : net'[pr] = net[pr]
      BY <1>1, <3>1 DEF Network
    <3> QED
      BY <2>3, <2>5, <3>2 DEF EndsRun
  <2>6. CASE net' = Attached(at, n) /\ ~ctr[n].up
    BY <2>3, <2>6, EndsLast DEF Attached
  <2> QED
    BY <2>3, <2>4, <2>5, <2>6
<1>4. CASE ClConfig(p)
  <2>1. loc[p].pr \in Pair /\ loc[p].side \in Side /\ At(loc[p].pr, loc[p].side) \in Node
    BY <1>4, LinkFacts, ThreadFacts DEF ClConfig, LinkLabel, CreateLinkLabel, Local
  <2>2. PICK n \in Node : n = At(loc[p].pr, loc[p].side)
    BY <2>1
  <2>3. /\ UNCHANGED net
        /\ \/ UNCHANGED ctr
           \/ \E k \in 0..2 : \E peer, duct :
                ctr' = [ctr EXCEPT ![n] = ConfiguredUpTo(k, ctr[n], peer, duct)]
    <3>1. 2 \in 0..2 /\ \A k \in 0..1 : k \in 0..2
      OBVIOUS
    <3>2. PICK peer, duct : peer = At(loc[p].pr, Other(loc[p].side))
                            /\ duct = <<loc[p].idx, Other(loc[p].side), loc[p].cl>>
      OBVIOUS
    <3>3. \/ UNCHANGED ctr
          \/ \E k \in 0..2 : ctr' = [ctr EXCEPT ![n] = ConfiguredUpTo(k, ctr[n], peer, duct)]
      BY <1>4, <2>2, <3>1, <3>2 DEF ClConfig
    <3>4. UNCHANGED net
      BY <1>4 DEF ClConfig
    <3> QED
      BY <3>3, <3>4
  <2>4. CASE UNCHANGED ctr
    BY <2>3, <2>4, EndsLast
  <2>5. ASSUME NEW k \in 0..2, NEW peer, NEW duct,
               ctr' = [ctr EXCEPT ![n] = ConfiguredUpTo(k, ctr[n], peer, duct)]
        PROVE  EndsRun'
    <3>1. ConfiguredUpTo(k, ctr[n], peer, duct).up = ctr[n].up
      BY <1>1, IonLeavesUp
    <3> QED
      BY <2>3, <2>5, <3>1, EndsConfigured
  <2> QED
    BY <2>3, <2>4, <2>5
<1>5. CASE DlIon(p)
  <2>1. loc[p].pr \in Pair /\ loc[p].side \in Side /\ At(loc[p].pr, loc[p].side) \in Node
    BY <1>5, LinkFacts, ThreadFacts DEF DlIon, LinkLabel, DeleteLinkLabel, Local
  <2>2. PICK l : l = [loc[p] EXCEPT !.idx = IF loc[p].side = "a" THEN obj[loc[p].lid].idx ELSE @]
    OBVIOUS
  <2>3. l.pr = loc[p].pr /\ l.side = loc[p].side
    BY <2>2, ThreadFacts DEF Local
  <2>4. PICK n \in Node : n = At(l.pr, l.side)
    BY <2>1, <2>3
  <2>5. PICK plan : plan = WithoutPlan(ctr[n], At(l.pr, Other(l.side)))
    OBVIOUS
  <2>6. /\ UNCHANGED net
        /\ \/ ctr' = [ctr EXCEPT ![n] = DuctDropped(plan, l.idx, Other(l.side))]
           \/ UNCHANGED ctr
           \/ \E c \in {ctr[n], plan} : ctr' = [ctr EXCEPT ![n] = c]
    BY <1>5, <2>2, <2>4, <2>5 DEF DlIon
  <2>7. plan.up = ctr[n].up /\ DOMAIN plan = {"cid", "up", "plans", "ducts"}
    BY <1>1, <2>5 DEF WithoutPlan, Container
  <2>8. DuctDropped(plan, l.idx, Other(l.side)).up = ctr[n].up
    BY <2>7 DEF DuctDropped, WithoutDuct
  <2>9. CASE UNCHANGED ctr
    BY <2>6, <2>9, EndsLast
  <2>10. CASE ~UNCHANGED ctr
    <3>1. PICK c : ctr' = [ctr EXCEPT ![n] = c] /\ c.up = ctr[n].up
      BY <2>6, <2>7, <2>8, <2>10
    <3> QED
      BY <2>6, <3>1, EndsConfigured
  <2> QED
    BY <2>9, <2>10
<1>6. CASE ClUnnet(p) \/ DlRemove(p)
  <2>1. UNCHANGED ctr /\ (net' = net \/ net' = [net EXCEPT ![loc[p].pr] = NoNetwork])
    BY <1>6 DEF ClUnnet, DlRemove
  <2>2. CASE net' = net
    BY <2>1, <2>2, EndsLast
  <2> QED
    BY <2>1, <2>2, EndsGo
<1>7. CASE ClUndo(p) \/ DlDisconnect(p)
  <2>1. loc[p].pr \in Pair
    BY <1>7, LinkFacts DEF ClUndo, DlDisconnect, LinkLabel, CreateLinkLabel, DeleteLinkLabel
  <2>2. UNCHANGED ctr /\ \E nid, ns : net' = Disconnected(loc[p].pr, nid, ns)
    BY <1>7 DEF ClUndo, DlDisconnect
  <2>3. \A pr \in Pair : net'[pr].att \subseteq net[pr].att
    BY <2>1, <2>2, NetsKept DEF NetKept
  <2> QED
    BY <2>2, <2>3, EndsLast
<1>8. CASE CnStale(p) \/ CnUndo(p) \/ DnContainer(p)
  <2>1. loc[p].n \in Node
    BY <1>8, ThreadFacts DEF CnStale, CnUndo, DnContainer, LocalOK, NodeLabel, CreateNodeLabel, DeleteNodeLabel
  <2>2. UNCHANGED dockerVars \/ RemoveContainer(loc[p].n)
    BY <1>8 DEF CnStale, CnUndo, DnContainer
  <2>3. CASE UNCHANGED dockerVars
    BY <2>3, EndsLast DEF dockerVars
  <2>4. CASE RemoveContainer(loc[p].n)
    BY <2>1, <2>4, EndsDetached DEF RemoveContainer
  <2> QED
    BY <2>2, <2>3, <2>4
<1>9. CASE CnRun(p)
  <2>1. loc[p].n \in Node
    BY <1>9, ThreadFacts DEF CnRun, LocalOK, NodeLabel, CreateNodeLabel
  <2>2. UNCHANGED net /\ (ctr' = ctr \/ ctr' = [ctr EXCEPT ![loc[p].n] = FreshContainer(loc[p].op)])
    BY <1>9 DEF CnRun
  <2>3. FreshContainer(loc[p].op).up
    BY DEF FreshContainer, NoContainer
  <2>4. CASE ctr' = ctr
    BY <2>2, <2>4, EndsLast
  <2> QED
    BY <2>1, <2>2, <2>3, <2>4, EndsConfigured
<1>10. CASE ~(ClNew(p) \/ ClConnect(p) \/ ClConfig(p) \/ DlIon(p) \/ ClUnnet(p) \/ DlRemove(p)
              \/ ClUndo(p) \/ DlDisconnect(p) \/ CnStale(p) \/ CnUndo(p) \/ DnContainer(p) \/ CnRun(p))
  <2>1. UNCHANGED dockerVars
    <3>1. CASE ClGet(p) \/ ClRace(p) \/ ClAdopt(p) \/ ClContainers(p) \/ ClReady(p)
               \/ ClCommit(p) \/ ClUnreserve(p)
      BY <3>1 DEF ClGet, ClRace, ClAdopt, ClContainers, ClReady, ClCommit, ClUnreserve
    <3>2. CASE DlGet(p) \/ DlFinish(p) \/ DnNext(p)
      BY <3>2 DEF DlGet, DlFinish, DnNext
    <3>3. CASE CnDir(p) \/ CnCheck(p) \/ CnCommit(p) \/ CnUnreserve(p) \/ DnFinish(p)
      BY <3>3 DEF CnDir, CnCheck, CnCommit, CnUnreserve, DnFinish
    <3> QED
      BY <1>10, <3>1, <3>2, <3>3 DEF Step, LinkStep, NodeStep
  <2> QED
    BY <2>1, EndsLast DEF dockerVars
<1> QED
  BY <1>2, <1>3, <1>4, <1>5, <1>6, <1>7, <1>8, <1>9, <1>10

\* Every step of the system below.
LEMMA NextKeepsEnds ==
  ASSUME IInv, EndsRun, "writer" \notin FaultAt, [Next]_vars
  PROVE  EndsRun'
<1>1. CASE UNCHANGED vars
  BY <1>1, EndsLast DEF vars, dockerVars
<1>2. ASSUME NEW p \in Proc, Call(p) PROVE EndsRun'
  <2>1. UNCHANGED dockerVars
    BY <1>2 DEF Call, LinkCall, NodeCall, CreateLink, DeleteLink, CreateNode, DeleteNode
  <2> QED
    BY <2>1, EndsLast DEF dockerVars
<1>3. ASSUME NEW n \in Node, ContainerExits(n) PROVE EndsRun'
  BY <1>3, EndsDetached DEF ContainerExits
<1> QED
  BY <1>1, <1>2, <1>3, StepKeepsEnds DEF Next, OtherWriter, Fails

-----------------------------------------------------------------------------
(* What is gone leaves nothing behind                                      *)

\* No container: no ION. No network: no subnet and no endpoint.
CtrTidy == \A n \in Node : ctr[n].cid = NoId => ctr[n] = NoContainer
NetTidy == \A pr \in Pair : net[pr].nid = NoId => net[pr] = NoNetwork

\* A thread that has a network knows its identity.
HasIdentity ==
  \A p \in Proc : pc[p] \in {"cl_adopt", "cl_ctrs", "cl_connect"} => loc[p].nid # NoId

Tidy == CtrTidy /\ NetTidy /\ HasIdentity

\* Steps of create_link that come to a network, or go on with it.
LEMMA StepKeepsIdentity ==
  ASSUME IInv, HasIdentity, NEW p \in Proc, Step(p)
  PROVE  HasIdentity'
<1>1. loc \in [Proc -> Local] /\ pc \in [Proc -> Label] /\ DOMAIN loc[p] = DOMAIN NoLocal
  BY DEF IInv, TypeOK, Local, NoLocal
<1>2. \A q \in Proc \ {p} : pc'[q] = pc[q] /\ loc'[q] = loc[q]
  BY StepLabels
<1>3. ASSUME pc'[p] \in {"cl_adopt", "cl_ctrs", "cl_connect"} PROVE loc'[p].nid # NoId
  <2>1. ASSUME NEW nid, NEW real, NEW made, nid # NoId, HaveNetwork(p, nid, real, made)
        PROVE  loc'[p].nid # NoId
    BY <1>1, <2>1 DEF HaveNetwork, Goto, NoLocal
  <2>2. pc[p] \in CreateLinkLabel /\ pc[p] # "idle"
    BY <1>3, StepLabels DEF CreateLinkLabel
  <2>3. CASE ClGet(p) \/ ClRace(p)
    BY <1>1, <1>3, <2>1, <2>3 DEF ClGet, ClRace, Undo, Goto
  <2>4. CASE ClNew(p)
    <3>1. loc[p].op # NoId
      BY <2>2, ThreadFacts, BoundAssumption DEF LocalOK, Id, Boot, NoId
    <3>2. \/ \E nid \in {loc[p].op}, real \in {loc[p].idx}, made \in BOOLEAN : HaveNetwork(p, nid, real, made)
          \/ Goto(p, "cl_race", loc[p]) \/ Goto(p, "cl_undo", loc[p])
      BY <2>4 DEF ClNew, Undo
    <3>3. ~Goto(p, "cl_race", loc[p]) /\ ~Goto(p, "cl_undo", loc[p])
      BY <1>1, <1>3 DEF Goto
    <3>4. PICK nid \in {loc[p].op}, real \in {loc[p].idx}, made \in BOOLEAN : HaveNetwork(p, nid, real, made)
      BY <3>2, <3>3
    <3>5. nid # NoId
      BY <3>1, <3>4
    <3> QED
      BY <2>1, <3>4, <3>5
  <2>5. CASE ClAdopt(p) \/ ClContainers(p) \/ ClConnect(p)
    <3>1. pc[p] \in {"cl_adopt", "cl_ctrs", "cl_connect"}
      BY <2>5 DEF ClAdopt, ClContainers, ClConnect
    <3>2. ~Goto(p, "cl_undo", loc[p])
      BY <1>1, <1>3 DEF Goto
    <3>3. \E label, l : Goto(p, label, l) /\ l.nid = loc[p].nid
      <4>1. CASE ClAdopt(p)
        BY <1>1, <4>1 DEF ClAdopt, NoLocal
      <4>2. CASE ClContainers(p)
        BY <1>1, <3>2, <4>2 DEF ClContainers, Undo, NoLocal
      <4>3. CASE ClConnect(p)
        <5>1. PICK l : l = [loc[p] EXCEPT !.con = @ \union {loc[p].side}, !.side = Other(@)]
          OBVIOUS
        <5>2. l.nid = loc[p].nid
          BY <1>1, <5>1 DEF NoLocal
        <5>3. \E label : Goto(p, label, l)
          BY <3>2, <4>3, <5>1 DEF ClConnect, Undo
        <5> QED
          BY <5>2, <5>3
      <4> QED
        BY <2>5, <4>1, <4>2, <4>3
    <3>4. PICK label, l : Goto(p, label, l) /\ l.nid = loc[p].nid
      BY <3>3
    <3>5. loc'[p] = l
      BY <1>1, <3>4 DEF Goto
    <3> QED
      BY <3>1, <3>4, <3>5 DEF HasIdentity
  <2>6. CASE ClReady(p) \/ ClConfig(p)
    BY <1>1, <1>3, <2>6 DEF ClReady, ClConfig, Undo, Goto
  <2>7. CASE ClCommit(p) \/ ClUndo(p) \/ ClUnnet(p) \/ ClUnreserve(p)
    BY <1>1, <1>3, <2>7 DEF ClCommit, ClUndo, ClUnnet, ClUnreserve, AfterDisconnect, Undo, Finish, Goto
  <2>8. CASE DlIon(p) \/ DlGet(p) \/ DlDisconnect(p) \/ DlRemove(p) \/ DlFinish(p)
    BY <2>2, <2>8 DEF DlIon, DlGet, DlDisconnect, DlRemove, DlFinish, CreateLinkLabel
  <2>9. CASE NodeStep(p)
    BY <2>2, <2>9 DEF NodeStep, CnStale, CnDir, CnRun, CnCheck, CnCommit, CnUndo, CnUnreserve,
       DnNext, DnContainer, DnFinish, CreateLinkLabel
  <2> QED
    BY <2>3, <2>4, <2>5, <2>6, <2>7, <2>8, <2>9 DEF Step, LinkStep
<1> QED
  BY <1>2, <1>3 DEF HasIdentity

\* A container that runs has an identity.
LEMMA UpHasIdentity ==
  ASSUME CtrTidy, NEW n \in Node, ctr[n].up
  PROVE  ctr[n].cid # NoId
BY DEF CtrTidy, NoContainer

\* The containers and the networks, when one of either changes.
LEMMA CtrStaysTidy ==
  ASSUME IInv, CtrTidy, NEW n \in Node, NEW c, ctr' = [ctr EXCEPT ![n] = c],
         c.cid = NoId => c = NoContainer
  PROVE  CtrTidy'
<1>1. ctr \in [Node -> Container]
  BY DEF IInv, TypeOK
<1>2. \A m \in Node : ctr'[m] = c \/ ctr'[m] = ctr[m]
  BY <1>1
<1> QED
  BY <1>2 DEF CtrTidy

\* Networks that are as they were, but for endpoints that go, or that are not there.
LEMMA NetStaysTidy ==
  ASSUME IInv, NetTidy, net' \in [Pair -> Network],
         \A pr \in Pair : NetKept(pr) \/ net'[pr] = NoNetwork \/ net'[pr].nid # NoId
  PROVE  NetTidy'
<1>1. ASSUME NEW pr \in Pair, NetKept(pr), net'[pr].nid = NoId PROVE net'[pr] = NoNetwork
  <2>1. net[pr] = NoNetwork
    BY <1>1 DEF NetKept, NetTidy
  <2>2. net'[pr].sub = 0 /\ net'[pr].att = {}
    BY <1>1, <2>1 DEF NetKept, NoNetwork
  <2> QED
    BY <1>1, <2>2 DEF Network, NoNetwork
<1> QED
  BY <1>1 DEF NetTidy

\* What the commands of a link do to a container leaves its identity.
LEMMA IonLeavesIdentity ==
  ASSUME NEW c \in Container, NEW peer, NEW duct
  PROVE  /\ WithoutPlan(c, peer).cid = c.cid
         /\ \A d : WithoutDuct(WithoutPlan(c, peer), d).cid = c.cid
         /\ \A k \in 0..2 : ConfiguredUpTo(k, c, peer, duct).cid = c.cid
<1>1. DOMAIN c = {"cid", "up", "plans", "ducts"}
  BY DEF Container
<1>2. WithDuct(c, duct).cid = c.cid /\ DOMAIN WithDuct(c, duct) = {"cid", "up", "plans", "ducts"}
  BY <1>1 DEF WithDuct
<1>3. WithoutPlan(c, peer).cid = c.cid /\ DOMAIN WithoutPlan(c, peer) = {"cid", "up", "plans", "ducts"}
  BY <1>1 DEF WithoutPlan
<1>4. \A d : WithoutDuct(WithoutPlan(c, peer), d).cid = c.cid
  BY <1>3 DEF WithoutDuct
<1>5. WithPlan(WithDuct(c, duct), peer, duct).cid = c.cid
  BY <1>2 DEF WithPlan
<1>6. ASSUME NEW k \in 0..2 PROVE ConfiguredUpTo(k, c, peer, duct).cid = c.cid
  <2>1. k = 0 \/ k = 1 \/ k = 2
    OBVIOUS
  <2> QED
    BY <1>2, <1>5, <2>1 DEF ConfiguredUpTo
<1> QED
  BY <1>3, <1>4, <1>6

\* What the steps of the four operations do to containers: nothing, commands to one that
\* runs, a removal, or a start.
LEMMA StepKeepsCtrTidy ==
  ASSUME IInv, CtrTidy, NEW p \in Proc, Step(p)
  PROVE  CtrTidy'
<1>1. ctr \in [Node -> Container]
  BY DEF IInv, TypeOK
<1>2. UNCHANGED ctr => CtrTidy'
  BY DEF CtrTidy
<1>3. CASE ClConfig(p)
  <2>1. loc[p].pr \in Pair /\ loc[p].side \in Side /\ At(loc[p].pr, loc[p].side) \in Node
    BY <1>3, LinkFacts, ThreadFacts DEF ClConfig, LinkLabel, CreateLinkLabel, Local
  <2>2. PICK n \in Node : n = At(loc[p].pr, loc[p].side)
    BY <2>1
  <2>3. \/ UNCHANGED ctr
        \/ ctr[n].up /\ \E k \in 0..2 : \E peer, duct :
                          ctr' = [ctr EXCEPT ![n] = ConfiguredUpTo(k, ctr[n], peer, duct)]
    <3>1. 2 \in 0..2 /\ \A k \in 0..1 : k \in 0..2
      OBVIOUS
    <3>2. PICK peer, duct : peer = At(loc[p].pr, Other(loc[p].side))
                            /\ duct = <<loc[p].idx, Other(loc[p].side), loc[p].cl>>
      OBVIOUS
    <3>3. \/ UNCHANGED ctr
          \/ ctr[n].up /\ \E k \in 0..2 : ctr' = [ctr EXCEPT ![n] = ConfiguredUpTo(k, ctr[n], peer, duct)]
      BY <1>3, <2>2, <3>1, <3>2 DEF ClConfig
    <3> QED
      BY <3>3
  <2>4. ASSUME ctr[n].up, NEW k \in 0..2, NEW peer, NEW duct,
               ctr' = [ctr EXCEPT ![n] = ConfiguredUpTo(k, ctr[n], peer, duct)]
        PROVE  CtrTidy'
    <3>1. ConfiguredUpTo(k, ctr[n], peer, duct).cid = ctr[n].cid /\ ctr[n].cid # NoId
      BY <1>1, <2>4, IonLeavesIdentity, UpHasIdentity
    <3> QED
      BY <2>4, <3>1, CtrStaysTidy
  <2> QED
    BY <1>2, <2>3, <2>4
<1>4. CASE DlIon(p)
  <2>1. loc[p].pr \in Pair /\ loc[p].side \in Side /\ At(loc[p].pr, loc[p].side) \in Node
    BY <1>4, LinkFacts, ThreadFacts DEF DlIon, LinkLabel, DeleteLinkLabel, Local
  <2>2. PICK l : l = [loc[p] EXCEPT !.idx = IF loc[p].side = "a" THEN obj[loc[p].lid].idx ELSE @]
    OBVIOUS
  <2>3. l.pr = loc[p].pr /\ l.side = loc[p].side
    BY <2>2, ThreadFacts DEF Local
  <2>4. PICK n \in Node : n = At(l.pr, l.side)
    BY <2>1, <2>3
  <2>5. PICK plan : plan = WithoutPlan(ctr[n], At(l.pr, Other(l.side)))
    OBVIOUS
  <2>6. \/ UNCHANGED ctr
        \/ /\ ctr[n].up
           /\ \/ ctr' = [ctr EXCEPT ![n] = WithoutDuct(plan, <<l.idx, Other(l.side), "tcp">>)]
              \/ \E c \in {ctr[n], plan} : ctr' = [ctr EXCEPT ![n] = c]
    BY <1>4, <2>2, <2>4, <2>5 DEF DlIon, DuctDropped
  <2>7. plan.cid = ctr[n].cid /\ \A d : WithoutDuct(plan, d).cid = ctr[n].cid
    BY <1>1, <2>5, IonLeavesIdentity
  <2>8. CASE ctr[n].up /\ ~UNCHANGED ctr
    <3>1. PICK c : ctr' = [ctr EXCEPT ![n] = c] /\ c.cid = ctr[n].cid
      BY <2>6, <2>7, <2>8
    <3>2. ctr[n].cid # NoId
      BY <2>8, UpHasIdentity
    <3> QED
      BY <3>1, <3>2, CtrStaysTidy
  <2> QED
    BY <1>2, <2>6, <2>8
<1>5. CASE CnStale(p) \/ CnUndo(p) \/ DnContainer(p)
  <2>1. loc[p].n \in Node
    BY <1>5, ThreadFacts DEF CnStale, CnUndo, DnContainer, LocalOK, NodeLabel, CreateNodeLabel, DeleteNodeLabel
  <2>2. UNCHANGED ctr \/ ctr' = [ctr EXCEPT ![loc[p].n] = NoContainer]
    BY <1>5 DEF CnStale, CnUndo, DnContainer, RemoveContainer, dockerVars
  <2> QED
    BY <1>2, <2>1, <2>2, CtrStaysTidy
<1>6. CASE CnRun(p)
  <2>1. loc[p].n \in Node /\ loc[p].op # NoId
    BY <1>6, ThreadFacts, BoundAssumption DEF CnRun, LocalOK, NodeLabel, CreateNodeLabel, Id, Boot, NoId
  <2>2. UNCHANGED ctr \/ ctr' = [ctr EXCEPT ![loc[p].n] = FreshContainer(loc[p].op)]
    BY <1>6 DEF CnRun
  <2>3. FreshContainer(loc[p].op).cid = loc[p].op
    BY DEF FreshContainer, NoContainer
  <2> QED
    BY <1>2, <2>1, <2>2, <2>3, CtrStaysTidy
<1>7. CASE ~(ClConfig(p) \/ DlIon(p) \/ CnStale(p) \/ CnUndo(p) \/ DnContainer(p) \/ CnRun(p))
  <2>1. UNCHANGED ctr
    <3>1. CASE ClGet(p) \/ ClRace(p) \/ ClAdopt(p) \/ ClContainers(p) \/ ClReady(p)
               \/ ClCommit(p) \/ ClUnreserve(p)
      BY <3>1 DEF ClGet, ClRace, ClAdopt, ClContainers, ClReady, ClCommit, ClUnreserve, dockerVars
    <3>2. CASE ClNew(p) \/ ClConnect(p) \/ ClUndo(p) \/ ClUnnet(p) \/ DlDisconnect(p) \/ DlRemove(p)
      BY <3>2 DEF ClNew, ClConnect, ClUndo, ClUnnet, DlDisconnect, DlRemove
    <3>3. CASE DlGet(p) \/ DlFinish(p) \/ DnNext(p)
      BY <3>3 DEF DlGet, DlFinish, DnNext, dockerVars
    <3>4. CASE CnDir(p) \/ CnCheck(p) \/ CnCommit(p) \/ CnUnreserve(p) \/ DnFinish(p)
      BY <3>4 DEF CnDir, CnCheck, CnCommit, CnUnreserve, DnFinish, dockerVars
    <3> QED
      BY <1>7, <3>1, <3>2, <3>3, <3>4 DEF Step, LinkStep, NodeStep
  <2> QED
    BY <1>2, <2>1
<1> QED
  BY <1>3, <1>4, <1>5, <1>6, <1>7

\* And to networks.
LEMMA StepKeepsNetTidy ==
  ASSUME IInv, IInv', NetTidy, HasIdentity, NEW p \in Proc, Step(p)
  PROVE  NetTidy'
<1>1. net \in [Pair -> Network] /\ net' \in [Pair -> Network]
  BY DEF IInv, TypeOK
<1>2. CASE ClNew(p)
  <2>1. PICK k : k = [nid |-> loc[p].op, sub |-> loc[p].idx, att |-> {}]
    OBVIOUS
  <2>2. net' = net \/ net' = [net EXCEPT ![loc[p].pr] = k]
    BY <1>2, <2>1 DEF ClNew
  <2>3. k.nid # NoId
    BY <1>2, <2>1, ThreadFacts, BoundAssumption DEF ClNew, CreateLinkLabel, LocalOK, Id, Boot, NoId
  <2>4. \A pr \in Pair : net'[pr] = net[pr] \/ net'[pr].nid # NoId
    BY <1>1, <2>2, <2>3
  <2> QED
    BY <1>1, <2>4, NetStaysTidy DEF NetKept
<1>3. CASE ClConnect(p)
  <2>1. net' = net \/ (net[loc[p].pr].nid # NoId /\ net' = Attached(loc[p].pr, At(loc[p].pr, loc[p].side)))
    BY <1>3 DEF ClConnect, HasIdentity
  <2>2. net' = net \/ (net[loc[p].pr].nid # NoId /\ \E n : net' = [net EXCEPT ![loc[p].pr].att = @ \union {n}])
    BY <2>1 DEF Attached
  <2>3. \A pr \in Pair : net'[pr] = net[pr] \/ net'[pr].nid # NoId
    BY <1>1, <2>2 DEF Network
  <2> QED
    BY <1>1, <2>3, NetStaysTidy DEF NetKept
<1>4. CASE ClUnnet(p) \/ DlRemove(p)
  <2>1. net' = net \/ net' = [net EXCEPT ![loc[p].pr] = NoNetwork]
    BY <1>4 DEF ClUnnet, DlRemove
  <2>2. \A pr \in Pair : net'[pr] = net[pr] \/ net'[pr] = NoNetwork
    BY <1>1, <2>1
  <2> QED
    BY <1>1, <2>2, NetStaysTidy DEF NetKept
<1>5. CASE ClUndo(p) \/ DlDisconnect(p)
  <2>1. loc[p].pr \in Pair
    BY <1>5, LinkFacts DEF ClUndo, DlDisconnect, LinkLabel, CreateLinkLabel, DeleteLinkLabel
  <2>2. \E nid, ns : net' = Disconnected(loc[p].pr, nid, ns)
    BY <1>5 DEF ClUndo, DlDisconnect
  <2> QED
    BY <1>1, <2>1, <2>2, NetsKept, NetStaysTidy
<1>6. CASE CnStale(p) \/ CnUndo(p) \/ DnContainer(p)
  <2>1. loc[p].n \in Node
    BY <1>6, ThreadFacts DEF CnStale, CnUndo, DnContainer, LocalOK, NodeLabel, CreateNodeLabel, DeleteNodeLabel
  <2>2. UNCHANGED net \/ net' = DetachedEverywhere(loc[p].n)
    BY <1>6 DEF CnStale, CnUndo, DnContainer, RemoveContainer, dockerVars
  <2> QED
    BY <1>1, <2>1, <2>2, NetsKept, NetStaysTidy
<1>7. CASE ~(ClNew(p) \/ ClConnect(p) \/ ClUnnet(p) \/ DlRemove(p) \/ ClUndo(p) \/ DlDisconnect(p)
             \/ CnStale(p) \/ CnUndo(p) \/ DnContainer(p))
  <2>1. UNCHANGED net
    <3>1. CASE ClGet(p) \/ ClRace(p) \/ ClAdopt(p) \/ ClContainers(p) \/ ClReady(p) \/ ClConfig(p)
               \/ ClCommit(p) \/ ClUnreserve(p)
      BY <3>1 DEF ClGet, ClRace, ClAdopt, ClContainers, ClReady, ClConfig, ClCommit, ClUnreserve, dockerVars
    <3>2. CASE DlIon(p) \/ DlGet(p) \/ DlFinish(p) \/ DnNext(p)
      BY <3>2 DEF DlIon, DlGet, DlFinish, DnNext, dockerVars
    <3>3. CASE CnDir(p) \/ CnRun(p) \/ CnCheck(p) \/ CnCommit(p) \/ CnUnreserve(p) \/ DnFinish(p)
      BY <3>3 DEF CnDir, CnRun, CnCheck, CnCommit, CnUnreserve, DnFinish, dockerVars
    <3> QED
      BY <1>7, <3>1, <3>2, <3>3 DEF Step, LinkStep, NodeStep
  <2> QED
    BY <1>1, <2>1, NetStaysTidy DEF NetKept
<1> QED
  BY <1>2, <1>3, <1>4, <1>5, <1>6, <1>7

\* Every step of the system below.
LEMMA NextKeepsTidy ==
  ASSUME IInv, IInv', Tidy, "writer" \notin FaultAt, [Next]_vars
  PROVE  Tidy'
<1>1. CASE UNCHANGED vars
  BY <1>1 DEF vars, dockerVars, Tidy, CtrTidy, NetTidy, HasIdentity
<1>2. ASSUME NEW p \in Proc, Call(p) PROVE Tidy'
  <2>1. UNCHANGED dockerVars
    BY <1>2 DEF Call, LinkCall, NodeCall, CreateLink, DeleteLink, CreateNode, DeleteNode
  <2>2. UNCHANGED <<pc, loc>> \/ \E label \in {"cl_get", "dl_ion", "cn_stale", "dn_next"} : \E l : Goto(p, label, l)
    BY <1>2 DEF Call, LinkCall, NodeCall, CreateLink, DeleteLink, CreateNode, DeleteNode
  <2>3. HasIdentity'
    <3>1. CASE UNCHANGED <<pc, loc>>
      BY <3>1 DEF Tidy, HasIdentity
    <3>2. CASE ~UNCHANGED <<pc, loc>>
      <4>1. PICK label \in {"cl_get", "dl_ion", "cn_stale", "dn_next"} : \E l : Goto(p, label, l)
        BY <2>2, <3>2
      <4>2. /\ pc'[p] = label
            /\ \A q \in Proc \ {p} : pc'[q] = pc[q] /\ loc'[q] = loc[q]
        BY <4>1 DEF Goto, IInv, TypeOK
      <4> QED
        BY <4>1, <4>2 DEF Tidy, HasIdentity
    <3> QED
      BY <3>1, <3>2
  <2> QED
    BY <2>1, <2>3 DEF Tidy, CtrTidy, NetTidy, dockerVars
<1>3. ASSUME NEW n \in Node, ContainerExits(n) PROVE Tidy'
  <2>1. /\ ctr' = [ctr EXCEPT ![n] = [NoContainer EXCEPT !.cid = ctr[n].cid]]
        /\ net' = DetachedEverywhere(n) /\ UNCHANGED <<pc, loc>> /\ ctr[n].cid # NoId
        /\ net' \in [Pair -> Network]
    BY <1>3, UpHasIdentity DEF ContainerExits, Tidy, IInv, TypeOK
  <2>2. PICK c : c = [NoContainer EXCEPT !.cid = ctr[n].cid]
    OBVIOUS
  <2>3. c.cid # NoId /\ ctr' = [ctr EXCEPT ![n] = c]
    BY <2>1, <2>2 DEF NoContainer
  <2>4. CtrTidy'
    BY <2>3, CtrStaysTidy DEF Tidy
  <2>5. NetTidy'
    BY <2>1, NetsKept, NetStaysTidy DEF Tidy
  <2> QED
    BY <2>1, <2>4, <2>5 DEF Tidy, HasIdentity
<1>4. ASSUME NEW p \in Proc, Step(p) PROVE Tidy'
  BY <1>4, StepKeepsIdentity, StepKeepsCtrTidy, StepKeepsNetTidy DEF Tidy
<1> QED
  BY <1>1, <1>2, <1>3, <1>4 DEF Next, OtherWriter, Fails

-----------------------------------------------------------------------------
(* Convergence layers                                                      *)

\* A Link object that has a layer keeps one, and so does what is in the table.
LayersLast ==
  /\ \A i \in Id : obj[i].cl \in CL => obj'[i].cl \in CL
  /\ LayersOK => LayersOK'

\* Steps that leave the Link objects as they are and at most take links out.
LEMMA LayersStay ==
  ASSUME UNCHANGED obj, \A pr \in Pair : links'[pr] \in {NoId, links[pr]}
  PROVE  LayersLast
BY DEF LayersLast, LayersOK, LinkNames

\* Every step of the system.
LEMMA NextKeepsLayers ==
  ASSUME IInv, [Next]_vars
  PROVE  LayersLast
<1>1. links \in [Pair -> Id \union {NoId}] /\ obj \in [Id -> LinkObject]
  BY DEF IInv, TypeOK
<1>2. CASE UNCHANGED <<links, obj>>
  BY <1>2, LayersStay
<1>3. ASSUME NEW p \in Proc, NEW pr \in Pair, NEW cl \in CL, CreateLink(p, pr, cl) PROVE LayersLast
  <2>1. CASE UNCHANGED <<links, obj>>
    BY <2>1, LayersStay
  <2>2. CASE ~UNCHANGED <<links, obj>>
    <3> DEFINE k == [idx |-> Issued(pool), named |-> FALSE, nid |-> NoId, cl |-> cl, st |-> "down"]
    <3>1. links' = [links EXCEPT ![pr] = NewId] /\ obj' = [obj EXCEPT ![NewId] = k]
      BY <1>3, <2>2 DEF CreateLink
    <3>2. k.cl \in CL
      OBVIOUS
    <3> HIDE DEF k
    <3>3. NewId \in Id
      BY <1>3, NewIdIsId DEF CreateLink, Begin, IInv
    <3> HIDE DEF NewId
    <3>4. \A i \in Id : obj'[i] = IF i = NewId THEN k ELSE obj[i]
      BY <1>1, <3>1
    <3>5. \A x \in Pair : links'[x] = IF x = pr THEN NewId ELSE links[x]
      BY <1>1, <3>1
    <3>6. \A x \in Pair : links'[x] # NoId => links'[x] \in Id
      BY <1>1, <3>3, <3>5
    <3> QED
      BY <3>2, <3>3, <3>4, <3>5, <3>6 DEF LayersLast, LayersOK, LinkNames
  <2> QED
    BY <2>1, <2>2
<1>4. ASSUME NEW p \in Proc, ClCommit(p) PROVE LayersLast
  <2>1. links' = links
    BY <1>4 DEF ClCommit
  <2>2. \A i \in Id : obj'[i].cl = obj[i].cl
    <3> DEFINE new(i) == [obj[i] EXCEPT !.named = TRUE, !.nid = loc[p].nid, !.idx = loc[p].idx,
                                       !.st = LinkStatus(loc[p])]
    <3>1. \A i \in Id : new(i).cl = obj[i].cl
      BY <1>1 DEF LinkObject
    <3>2. obj' = obj \/ obj' = [obj EXCEPT ![links[loc[p].pr]] = new(links[loc[p].pr])]
      BY <1>4 DEF ClCommit
    <3> HIDE DEF new
    <3> QED
      BY <1>1, <3>1, <3>2
  <2>3. \A pr \in Pair : links[pr] # NoId => links[pr] \in Id
    BY <1>1
  <2> QED
    BY <2>1, <2>2, <2>3 DEF LayersLast, LayersOK, LinkNames
<1>5. ASSUME NEW p \in Proc, ClUnreserve(p) \/ DlFinish(p) PROVE LayersLast
  <2>1. UNCHANGED obj /\ links' = [links EXCEPT ![loc[p].pr] = NoId]
    BY <1>5 DEF ClUnreserve, DlFinish
  <2> QED
    BY <1>1, <2>1, LayersStay
<1>6. ASSUME NEW p \in Proc, Step(p), ~(ClCommit(p) \/ ClUnreserve(p) \/ DlFinish(p))
      PROVE  UNCHANGED <<links, obj>>
  <2>1. CASE ClGet(p) \/ ClNew(p) \/ ClRace(p) \/ ClAdopt(p) \/ ClContainers(p) \/ ClConnect(p)
             \/ ClReady(p) \/ ClConfig(p) \/ ClUndo(p) \/ ClUnnet(p)
    BY <2>1 DEF ClGet, ClNew, ClRace, ClAdopt, ClContainers, ClConnect, ClReady, ClConfig, ClUndo,
       ClUnnet, tableVars
  <2>2. CASE DlIon(p) \/ DlGet(p) \/ DlDisconnect(p) \/ DlRemove(p)
    BY <2>2 DEF DlIon, DlGet, DlDisconnect, DlRemove, tableVars
  <2>3. CASE NodeStep(p)
    BY <2>3 DEF NodeStep, CnStale, CnDir, CnRun, CnCheck, CnCommit, CnUndo, CnUnreserve, DnNext,
       DnContainer, DnFinish, tableVars, nodeOpUnchanged
  <2> QED
    BY <1>6, <2>1, <2>2, <2>3 DEF Step, LinkStep
<1>7. ASSUME NEW p \in Proc, (\E pr \in Pair : DeleteLink(p, pr)) \/ NodeCall(p)
      PROVE  UNCHANGED <<links, obj>>
  BY <1>7 DEF NodeCall, DeleteLink, CreateNode, DeleteNode, tableVars, nodeOpUnchanged
<1>8. ASSUME \/ \E n \in Node : ContainerExits(n)
             \/ \E pr \in Pair, idx \in Index : OtherWriter(pr, idx)
             \/ UNCHANGED vars
      PROVE  UNCHANGED <<links, obj>>
  BY <1>8 DEF ContainerExits, OtherWriter, tableVars, vars
<1>9. ASSUME NEW p \in Proc, Call(p) PROVE LayersLast
  BY <1>2, <1>3, <1>7, <1>9 DEF Call, LinkCall
<1>10. ASSUME NEW p \in Proc, Step(p) PROVE LayersLast
  BY <1>2, <1>4, <1>5, <1>6, <1>10
<1> QED
  BY <1>2, <1>8, <1>9, <1>10 DEF Next

-----------------------------------------------------------------------------
(* Sweeps and repairs, which only change Docker and ION                    *)

\* Whatever a sweep takes away, threads and tables go on as they were.
LEMMA DockerOnlyKeeps ==
  ASSUME IInv, Asked, OnlyPast, NetsOK, UNCHANGED <<tableVars, disk, pc, loc, started>>,
         ctr' \in [Node -> Container], net' \in [Pair -> Network], faults' \in 0..MaxFaults,
         \A pr \in Pair : NetKept(pr) \/ net'[pr] = NoNetwork
  PROVE  /\ IInv' /\ Asked' /\ OnlyPast' /\ NetsOK' /\ LayersLast
         /\ Leases => Leases'
<1>1. UNCHANGED <<nodes, cfgDir, links, obj, pool>>
  BY DEF tableVars
<1>2. IInv'
  BY <1>1 DEF IInv, TypeOK
<1>3. Asked' /\ OnlyPast'
  BY <1>1 DEF Asked, OnlyPast
<1>4. NetsOK'
  <2>1. \A pr \in Pair : net'[pr] = NoNetwork => Lasts(pr)
    BY DEF Lasts, NoNetwork
  <2>2. started' \in Nat /\ started <= started'
    BY IdsAreNat
  <2> QED
    BY <2>1, <2>2, KeptLasts, NetsLast
<1>5. LayersLast
  BY <1>1, LayersStay
<1>6. ASSUME Leases PROVE Leases'
  <2>1. \A pr \in Pair : NetKept(pr) \/ (net'[pr].nid = NoId /\ net'[pr].att = {})
    BY DEF NoNetwork
  <2>2. ASSUME NEW q \in Proc, pc[q] \in CreateLinkLabel PROVE BuildOK(pc[q], loc[q])'
    <3>1. BuildOK(pc[q], loc[q]) /\ loc[q].pr \in Pair
      BY <1>6, <2>2, BuilderFacts
    <3>2. NetKept(loc[q].pr) \/ (net'[loc[q].pr].nid = NoId /\ net'[loc[q].pr].att = {})
      BY <2>1, <3>1
    <3> QED
      BY <1>1, <3>1, <3>2 DEF BuildOK, Held, Made, Own, Bare, NetKept
  <2>3. ASSUME NEW q \in Proc, pc[q] \in DeleteLinkLabel PROVE DeleteOK(pc[q], loc[q])'
    <3>1. DeleteOK(pc[q], loc[q]) /\ loc[q].pr \in Pair
      BY <1>6, <2>3, DeleterFacts
    <3>2. NetKept(loc[q].pr) \/ (net'[loc[q].pr].nid = NoId /\ net'[loc[q].pr].att = {})
      BY <2>1, <3>1
    <3> QED
      BY <1>1, <3>1, <3>2 DEF DeleteOK, DeleteEnd, Bare, NetKept
  <2>4. ThreadsOK' /\ IndicesOK'
    BY <1>1, <1>6, <2>2, <2>3 DEF ThreadsOK, Leases, Builds, IndicesOK, LinkNames
  <2>5. ASSUME NEW pr \in Pair PROVE LinkOK(pr)'
    BY <1>1, <1>6, <2>1 DEF Leases, LinkOK, NetKept, Bare, Builds
  <2> QED
    BY <1>3, <2>4, <2>5 DEF Leases
<1> QED
  BY <1>2, <1>3, <1>4, <1>5, <1>6

-----------------------------------------------------------------------------
(* Jobs                                                                    *)

\* The fields of a job.
LEMMA JobKeys ==
  DOMAIN NoJob = {"phase", "file", "links", "nodes", "found", "entries", "madeNodes", "madeLinks",
                  "errors", "mark", "first", "end"}
BY DEF NoJob

\* A thread without a job.
LEMMA NoJobOK == JobOK(NoJob)
BY BoundAssumption DEF JobOK, NoJob, JobPhase, NoFile, NoId

\* Thread p goes on with its job, or with another; the other threads stay where they are.
Goes(p) ==
  /\ \A q \in Proc \ {p} : pc'[q] = pc[q]
  /\ \E label, j : /\ pc'[p] = label /\ (Become(p, j) \/ (UNCHANGED job /\ j = job[p]))
                   /\ JobOK(j) /\ JobGoesOn(label, j)

\* In a phase without calls that the job relies on.
LEMMA GoesFreely ==
  ASSUME NEW p \in Proc, \A q \in Proc \ {p} : pc'[q] = pc[q], NEW j, Become(p, j), JobOK(j),
         j.phase \notin {"mk_nodes", "mk_links", "repairing"}
  PROVE  Goes(p)
BY DEF Goes, JobGoesOn

\* Where no call is under way.
LEMMA GoesIdle ==
  ASSUME NEW p \in Proc, UNCHANGED pc, pc[p] = "idle", NEW j, Become(p, j), JobOK(j),
         j.phase # "repairing"
  PROVE  Goes(p)
BY DEF Goes, JobGoesOn

\* What the job of one thread relies on outlives the step.
LEMMA GoesOn ==
  ASSUME IInv, JobsOK, LayersLast, NEW p \in Proc, Goes(p)
  PROVE  JobsOK'
<1>1. PICK label, j : /\ pc'[p] = label /\ (Become(p, j) \/ (UNCHANGED job /\ j = job[p]))
                      /\ JobOK(j) /\ JobGoesOn(label, j)
  BY DEF Goes
<1>2. /\ DOMAIN job' = Proc /\ job'[p] = j
      /\ \A q \in Proc \ {p} : job'[q] = job[q] /\ pc'[q] = pc[q]
  BY <1>1 DEF Goes, JobsOK, Become
<1>3. ASSUME NEW l, NEW k, JobOK(k), JobGoesOn(l, k) PROVE JobGoesOn(l, k)'
  <2>1. k.phase = "repairing" => \A x \in k.found : x[3] \in Id
    BY <1>3 DEF JobOK
  <2> QED
    BY <1>3, <2>1 DEF JobGoesOn, LayersLast
<1>4. ASSUME NEW q \in Proc PROVE JobOK(job'[q]) /\ \E l, k : l = pc'[q] /\ k = job'[q] /\ JobGoesOn(l, k)
  BY <1>1, <1>2 DEF JobsOK
<1>5. ASSUME NEW q \in Proc PROVE JobOK(job'[q]) /\ JobGoesOn(pc[q], job[q])'
  <2>1. PICK l, k : l = pc'[q] /\ k = job'[q] /\ JobGoesOn(l, k)
    BY <1>4
  <2>2. JobGoesOn(l, k)'
    BY <1>3, <1>4, <2>1
  <2> QED
    BY <1>4, <2>1, <2>2 DEF JobGoesOn
<1> QED
  BY <1>2, <1>5 DEF JobsOK, JobOK

\* Where no job goes on.
LEMMA JobsStay ==
  ASSUME IInv, JobsOK, LayersLast, UNCHANGED <<job, pc>>
  PROVE  JobsOK'
<1>1. ASSUME NEW q \in Proc PROVE JobGoesOn(pc[q], job[q])'
  <2>1. JobOK(job[q]) /\ JobGoesOn(pc[q], job[q])
    BY DEF JobsOK
  <2>2. job[q].phase = "repairing" => \A x \in job[q].found : x[3] \in Id
    BY <2>1 DEF JobOK
  <2> QED
    BY <2>1, <2>2 DEF JobGoesOn, LayersLast
<1> QED
  BY <1>1 DEF JobsOK, JobOK

\* A job that turns to its rollback.
LEMMA RolledBackOK ==
  ASSUME NEW j, JobOK(j), faults' \in 0..MaxFaults
  PROVE  JobOK(RolledBack(j)) /\ RolledBack(j).phase = "rb_links"
<1>1. PICK m \in 0..MaxFaults : m = faults'
  OBVIOUS
<1> DEFINE k == [j EXCEPT !.phase = "rb_links", !.links = j.madeLinks, !.nodes = j.madeNodes, !.mark = m]
<1>2. JobOK(k) /\ k.phase = "rb_links"
  BY JobKeys DEF JobOK, JobPhase
<1>3. RolledBack(j) = k
  BY <1>1 DEF RolledBack
<1> QED
  BY <1>2, <1>3

\* What a job makes of the return of a call.
LEMMA ReturnedOK ==
  ASSUME NEW j, JobOK(j), faults' \in 0..MaxFaults, NEW raised \in BOOLEAN,
         j.phase = "mk_nodes" => j.nodes # {}, j.phase = "mk_links" => j.entries # <<>>
  PROVE  JobOK(Returned(j, raised)) /\ (Returned(j, raised).phase = "repairing" => Returned(j, raised) = j)
<1>1. CASE j.phase \in {"mk_nodes", "mk_links"} /\ raised
  BY <1>1, RolledBackOK DEF Returned
<1>2. CASE j.phase = "mk_nodes" /\ ~raised
  <2>1. j.nodes \subseteq Nat /\ j.nodes \subseteq Node
    BY NodeAssumption DEF JobOK
  <2>2. Min(j.nodes) \in j.nodes
    BY <1>2, <2>1, MinIsLeast
  <2> DEFINE k == [j EXCEPT !.madeNodes = @ \union {Min(j.nodes)}, !.nodes = @ \ {Min(j.nodes)}]
  <2>3. JobOK(k) /\ k.phase = "mk_nodes"
    BY <1>2, <2>1, <2>2, JobKeys DEF JobOK
  <2>4. Returned(j, raised) = k
    BY <1>2 DEF Returned
  <2> QED
    BY <2>3, <2>4
<1>3. CASE j.phase = "mk_links" /\ ~raised
  <2>1. j.entries \in Seq(Entry) /\ j.entries # <<>>
    BY <1>3 DEF JobOK
  <2>2. PICK e \in Entry, t \in Seq(Entry) : e = Head(j.entries) /\ t = Tail(j.entries)
    BY <2>1, HeadTailProperties
  <2>3. PICK ph \in {"disrupt", "mk_links"} : ph = IF e.pr \in j.file.netem THEN "disrupt" ELSE j.phase
    BY <1>3
  <2> DEFINE k == [j EXCEPT !.madeLinks = @ \union {e.pr}, !.entries = t, !.phase = ph]
  <2>4. e.pr \in Pair
    BY DEF Entry
  <2>5. JobOK(k) /\ k.phase = ph
    BY <1>3, <2>4, JobKeys DEF JobOK, JobPhase
  <2>6. Returned(j, raised) = k
    BY <1>3, <2>2, <2>3 DEF Returned
  <2> QED
    BY <2>5, <2>6
<1>4. CASE ~(j.phase \in {"mk_nodes", "mk_links"} /\ raised) /\ ~(j.phase = "mk_nodes" /\ ~raised)
           /\ ~(j.phase = "mk_links" /\ ~raised)
  BY <1>4 DEF Returned
<1> QED
  BY <1>1, <1>2, <1>3, <1>4

\* A call within a job goes on, or returns.
LEMMA RunStepGoes ==
  ASSUME IInv, IInv', JobsOK, NEW p \in Proc, RunStep(p)
  PROVE  Goes(p)
<1>1. /\ Step(p) /\ JobOK(job[p]) /\ JobGoesOn(pc[p], job[p]) /\ faults' \in 0..MaxFaults
  BY DEF RunStep, JobsOK, IInv, TypeOK
<1>2. pc[p] # "idle" /\ \A q \in Proc \ {p} : pc'[q] = pc[q]
  BY <1>1, StepLabels
<1>3. CASE pc'[p] = "idle"
  <2>1. PICK raised \in BOOLEAN : raised = (pc[p] \in Raising)
    <3> WITNESS (pc[p] \in Raising) \in BOOLEAN
    <3> QED
      OBVIOUS
  <2>2. PICK j : j = Returned(job[p], raised) /\ Become(p, j)
    BY <1>3, <2>1 DEF RunStep
  <2>3. JobOK(j) /\ (j.phase = "repairing" => j = job[p])
    BY <1>1, <1>2, <2>2, ReturnedOK DEF JobGoesOn
  <2>4. JobGoesOn("idle", j)
    BY <1>1, <2>3 DEF JobGoesOn
  <2> QED
    BY <1>2, <1>3, <2>2, <2>3, <2>4 DEF Goes
<1>4. CASE pc'[p] # "idle"
  <2>1. PICK j : j = job[p] /\ Become(p, j)
    BY <1>4 DEF RunStep
  <2>2. PICK label : label = pc'[p]
    OBVIOUS
  <2>3. JobGoesOn(label, j)
    BY <1>1, <1>2, <2>1 DEF JobGoesOn
  <2> QED
    BY <1>1, <1>2, <2>1, <2>2, <2>3 DEF Goes
<1> QED
  BY <1>3, <1>4

\* A call moves its own thread only.
LEMMA CallMovesOne ==
  ASSUME IInv, NEW p \in Proc, Call(p)
  PROVE  \A q \in Proc \ {p} : pc'[q] = pc[q]
<1>1. UNCHANGED pc \/ \E label, l : Goto(p, label, l)
  BY DEF Call, LinkCall, NodeCall, CreateLink, DeleteLink, CreateNode, DeleteNode
<1> QED
  BY <1>1 DEF Goto, IInv, TypeOK

\* A call of a client, outside jobs.
LEMMA ClientCallGoes ==
  ASSUME IInv, NEW p \in Proc, ClientCall(p)
  PROVE  Goes(p)
<1>1. Call(p) /\ Become(p, NoJob) /\ NoJob.phase = "none"
  BY DEF ClientCall, NoJob
<1> QED
  BY <1>1, CallMovesOne, NoJobOK, GoesFreely

\* A cleanup begins, on its own or before an import.
LEMMA StartJobGoes ==
  ASSUME IInv, NEW p \in Proc, NEW f \in Files \union {NoFile}, StartJob(p, f)
  PROVE  Goes(p)
<1>1. UNCHANGED pc /\ pc[p] = "idle" /\ Become(p, Cleanup(f))
  BY DEF StartJob, vars
<1>2. faults \in 0..MaxFaults /\ LinkNames \subseteq Pair
  BY DEF IInv, TypeOK, LinkNames
<1>3. JobOK(Cleanup(f)) /\ Cleanup(f).phase = "links"
  <2> DEFINE ns == {n \in Node : Present(n)}
             k == [NoJob EXCEPT !.phase = "links", !.file = f, !.links = LinkNames, !.nodes = ns,
                                !.mark = faults]
  <2>1. ns \subseteq Node
    OBVIOUS
  <2> HIDE DEF ns
  <2>2. JobOK(k) /\ k.phase = "links"
    BY <1>2, <2>1, JobKeys, NoJobOK DEF JobOK, JobPhase
  <2>3. Cleanup(f) = k
    BY DEF Cleanup, ns
  <2> QED
    BY <2>2, <2>3
<1> QED
  BY <1>1, <1>3, GoesIdle

\* A deletion that a job asks for is a call of a client, or nothing.
LEMMA DeletionSteps ==
  ASSUME IInv, NEW p \in Proc,
         \/ \E pr \in Pair : CallDeleteLink(p, pr)
         \/ \E n \in Node : CallDeleteNode(p, n)
         \/ UNCHANGED vars
  PROVE  [Next]_vars /\ \A q \in Proc \ {p} : pc'[q] = pc[q]
<1>1. Call(p) \/ UNCHANGED vars
  BY DEF CallDeleteLink, CallDeleteNode, Call, LinkCall, NodeCall
<1>2. CASE UNCHANGED vars
  BY <1>2 DEF vars
<1> QED
  BY <1>1, <1>2, CallMovesOne DEF Next

\* What the loops of a cleanup or a rollback make of the job.
LEMMA LoopLinks ==
  ASSUME NEW j, JobOK(j), j.phase \in {"links", "rb_links"}, NEW x, NEW k, k = [j EXCEPT !.links = @ \ {x}]
  PROVE  JobOK(k) /\ k.phase = j.phase
BY JobKeys DEF JobOK

\* The same of its nodes.
LEMMA LoopNodes ==
  ASSUME NEW j, JobOK(j), j.phase \in {"nodes", "rb_nodes"}, NEW x, NEW k, k = [j EXCEPT !.nodes = @ \ {x}]
  PROVE  JobOK(k) /\ k.phase = j.phase
BY JobKeys DEF JobOK

\* And when they go over to the nodes.
LEMMA LoopEnds ==
  ASSUME NEW j, JobOK(j), NEW ph \in {"nodes", "rb_nodes"}, NEW k, k = [j EXCEPT !.phase = ph]
  PROVE  JobOK(k) /\ k.phase = ph
BY JobKeys DEF JobOK, JobPhase

\* The loops of cleanup_all().
LEMMA CleanGoes ==
  ASSUME IInv, JobsOK, NEW p \in Proc, Clean(p)
  PROVE  Goes(p) /\ [Next]_vars
<1>1. PICK j : j = job[p] /\ JobOK(j)
  BY DEF JobsOK
<1>2. CASE DeleteLinks(p, "links", "nodes")
  <2>1. /\ j.phase = "links" /\ j.links \subseteq Pair
        /\ \/ \E pr \in j.links : CallDeleteLink(p, pr) /\ Become(p, [j EXCEPT !.links = @ \ {pr}])
           \/ UNCHANGED vars /\ Become(p, [j EXCEPT !.phase = "nodes"])
    BY <1>1, <1>2 DEF DeleteLinks, InPhase, Phase, JobOK
  <2>2. [Next]_vars /\ \A q \in Proc \ {p} : pc'[q] = pc[q]
    BY <2>1, DeletionSteps
  <2>3. PICK k : Become(p, k) /\ (k = [j EXCEPT !.phase = "nodes"] \/ \E pr \in Pair : k = [j EXCEPT !.links = @ \ {pr}])
    BY <2>1
  <2>4. JobOK(k) /\ k.phase \in {"links", "nodes"}
    <3>1. CASE k = [j EXCEPT !.phase = "nodes"]
      BY <1>1, <2>1, <3>1, LoopEnds
    <3>2. CASE \E pr \in Pair : k = [j EXCEPT !.links = @ \ {pr}]
      <4>1. PICK pr \in Pair : k = [j EXCEPT !.links = @ \ {pr}]
        BY <3>2
      <4> QED
        BY <1>1, <2>1, <4>1, LoopLinks
    <3> QED
      BY <2>1, <2>3, <3>1, <3>2
  <2> QED
    BY <2>2, <2>3, <2>4, GoesFreely
<1>3. CASE ~DeleteLinks(p, "links", "nodes")
  <2> DEFINE swept == [j EXCEPT !.phase = "containers", !.mark = faults]
  <2>1. /\ j.phase = "nodes" /\ j.nodes \subseteq Node
        /\ \/ \E n \in j.nodes : CallDeleteNode(p, n) /\ Become(p, [j EXCEPT !.nodes = @ \ {n}])
           \/ UNCHANGED vars /\ Become(p, swept)
    BY <1>1, <1>3 DEF Clean, DeleteNodes, InPhase, SweepOrder, JobOK
  <2>2. [Next]_vars /\ \A q \in Proc \ {p} : pc'[q] = pc[q]
    BY <2>1, DeletionSteps
  <2>3. PICK k : Become(p, k) /\ (k = swept \/ \E n \in Node : k = [j EXCEPT !.nodes = @ \ {n}])
    BY <2>1
  <2>4. JobOK(k) /\ k.phase \in {"containers", "nodes"}
    <3>1. faults \in 0..MaxFaults
      BY DEF IInv, TypeOK
    <3>2. JobOK(swept) /\ swept.phase = "containers"
      BY <1>1, <2>1, <3>1, JobKeys DEF JobOK, JobPhase, Sweeps
    <3> HIDE DEF swept
    <3>3. CASE \E n \in Node : k = [j EXCEPT !.nodes = @ \ {n}]
      <4>1. PICK n \in Node : k = [j EXCEPT !.nodes = @ \ {n}]
        BY <3>3
      <4> QED
        BY <1>1, <2>1, <4>1, LoopNodes
    <3> QED
      BY <2>3, <3>2, <3>3
  <2> QED
    BY <2>2, <2>3, <2>4, GoesFreely
<1> QED
  BY <1>2, <1>3

\* The loops of a rollback.
LEMMA RollBackGoes ==
  ASSUME IInv, JobsOK, NEW p \in Proc, RollBack(p)
  PROVE  Goes(p) /\ [Next]_vars
<1>1. PICK j : j = job[p] /\ JobOK(j)
  BY DEF JobsOK
<1>2. CASE DeleteLinks(p, "rb_links", "rb_nodes")
  <2>1. /\ j.phase = "rb_links" /\ j.links \subseteq Pair
        /\ \/ \E pr \in j.links : CallDeleteLink(p, pr) /\ Become(p, [j EXCEPT !.links = @ \ {pr}])
           \/ UNCHANGED vars /\ Become(p, [j EXCEPT !.phase = "rb_nodes"])
    BY <1>1, <1>2 DEF DeleteLinks, InPhase, Phase, JobOK
  <2>2. [Next]_vars /\ \A q \in Proc \ {p} : pc'[q] = pc[q]
    BY <2>1, DeletionSteps
  <2>3. PICK k : Become(p, k) /\ (k = [j EXCEPT !.phase = "rb_nodes"] \/ \E pr \in Pair : k = [j EXCEPT !.links = @ \ {pr}])
    BY <2>1
  <2>4. JobOK(k) /\ k.phase \in {"rb_links", "rb_nodes"}
    <3>1. CASE k = [j EXCEPT !.phase = "rb_nodes"]
      BY <1>1, <2>1, <3>1, LoopEnds
    <3>2. CASE \E pr \in Pair : k = [j EXCEPT !.links = @ \ {pr}]
      <4>1. PICK pr \in Pair : k = [j EXCEPT !.links = @ \ {pr}]
        BY <3>2
      <4> QED
        BY <1>1, <2>1, <4>1, LoopLinks
    <3> QED
      BY <2>1, <2>3, <3>1, <3>2
  <2> QED
    BY <2>2, <2>3, <2>4, GoesFreely
<1>3. CASE ~DeleteLinks(p, "rb_links", "rb_nodes")
  <2> DEFINE over == [j EXCEPT !.phase = "done", !.end = "rolled_back"]
  <2>1. /\ j.phase = "rb_nodes" /\ j.nodes \subseteq Node
        /\ \/ \E n \in j.nodes : CallDeleteNode(p, n) /\ Become(p, [j EXCEPT !.nodes = @ \ {n}])
           \/ UNCHANGED vars /\ Become(p, over)
    BY <1>1, <1>3 DEF RollBack, DeleteNodes, InPhase, Ended, JobOK
  <2>2. [Next]_vars /\ \A q \in Proc \ {p} : pc'[q] = pc[q]
    BY <2>1, DeletionSteps
  <2>3. PICK k : Become(p, k) /\ (k = over \/ \E n \in Node : k = [j EXCEPT !.nodes = @ \ {n}])
    BY <2>1
  <2>4. JobOK(k) /\ k.phase \in {"done", "rb_nodes"}
    <3>1. JobOK(over) /\ over.phase = "done"
      BY <1>1, <2>1, JobKeys DEF JobOK, JobPhase
    <3> HIDE DEF over
    <3>3. CASE \E n \in Node : k = [j EXCEPT !.nodes = @ \ {n}]
      <4>1. PICK n \in Node : k = [j EXCEPT !.nodes = @ \ {n}]
        BY <3>3
      <4> QED
        BY <1>1, <2>1, <4>1, LoopNodes
    <3> QED
      BY <2>3, <3>1, <3>3
  <2> QED
    BY <2>2, <2>3, <2>4, GoesFreely
<1> QED
  BY <1>2, <1>3

\* A listing of the sweep has found containers and networks with identities.
LEMMA FoundTyped ==
  ASSUME IInv
  PROVE  /\ Found("containers") \subseteq Node \X Id
         /\ Found("networks") \subseteq Pair \X Id /\ Found("leftovers") \subseteq Pair \X Id
<1>1. \A n \in Node : ctr[n].cid # NoId => ctr[n].cid \in Id
  BY DEF IInv, TypeOK, Container
<1>2. \A pr \in Pair : net[pr].nid # NoId => net[pr].nid \in Id
  BY DEF IInv, TypeOK, Network
<1>3. Found("containers") \subseteq Node \X Id
  BY <1>1 DEF Found, Containers
<1>4. Found("networks") \subseteq Pair \X Id
  BY <1>2 DEF Found, Labelled
<1>5. Found("leftovers") \subseteq Pair \X Id
  BY <1>2 DEF Found
<1> QED
  BY <1>3, <1>4, <1>5

\* What is still to be listed.
LEMMA SweepFacts ==
  ASSUME NEW i \in DOMAIN SweepOrder
  PROVE  /\ SweepOrder[i] \in Sweeps
         /\ SubSeq(SweepOrder, i, 3) \in Seq(Sweeps) \ {<<>>}
         /\ Head(SubSeq(SweepOrder, i, 3)) = SweepOrder[i]
<1>1. SweepOrder \in Seq(Sweeps) /\ Len(SweepOrder) = 3 /\ i \in 1..3
  BY DEF SweepOrder, Sweeps
<1>2. SweepOrder[i] \in Sweeps
  BY <1>1, ElementOfSeq
<1>3. \A k \in i..3 : SweepOrder[k] \in Sweeps
  BY <1>1, ElementOfSeq
<1>4. SubSeq(SweepOrder, i, 3) \in Seq(Sweeps) /\ Len(SubSeq(SweepOrder, i, 3)) = 3 - i + 1
  BY <1>1, <1>3, SubSeqProperties
<1>5. Head(SubSeq(SweepOrder, i, 3)) = SweepOrder[i]
  BY <1>1, HeadTailOfSubSeq
<1>6. SubSeq(SweepOrder, i, 3) # <<>>
  <2>1. Len(<<>>) = 0 /\ 3 - i + 1 # 0
    BY <1>1
  <2> QED
    BY <1>4, <2>1
<1> QED
  BY <1>2, <1>4, <1>5, <1>6

\* The next listing.
LEMMA SweepListGoes ==
  ASSUME IInv, JobsOK, NEW p \in Proc, SweepList(p)
  PROVE  Goes(p)
<1>1. PICK j : j = job[p] /\ JobOK(j)
  BY DEF JobsOK
<1>2. PICK i \in DOMAIN SweepOrder :
        /\ InPhase(p, SweepOrder[i]) /\ UNCHANGED pc
        /\ \/ Become(p, [j EXCEPT !.phase = "sweep", !.found = Found(SweepOrder[i]),
                                  !.entries = SubSeq(SweepOrder, i, 3)])
           \/ Become(p, Ended(j, "failed"))
  BY <1>1 DEF SweepList
<1>3. PICK what, rest : what = SweepOrder[i] /\ rest = SubSeq(SweepOrder, i, 3)
  OBVIOUS
<1>4. what \in Sweeps /\ rest \in Seq(Sweeps) \ {<<>>} /\ Head(rest) = what
  BY <1>3, SweepFacts
<1>5. PICK fs : fs = Found(what)
  OBVIOUS
<1>6. fs \subseteq (IF Head(rest) = "containers" THEN Node ELSE Pair) \X Id
  BY <1>4, <1>5, FoundTyped DEF Sweeps
<1> DEFINE k == [j EXCEPT !.phase = "sweep", !.found = fs, !.entries = rest]
<1>7. JobOK(k) /\ k.phase = "sweep"
  BY <1>1, <1>4, <1>6, JobKeys DEF JobOK, JobPhase
<1>8. JobOK(Ended(j, "failed")) /\ Ended(j, "failed").phase = "done"
  BY <1>1, JobKeys DEF JobOK, JobPhase, Ended
<1>9. UNCHANGED pc /\ pc[p] = "idle" /\ (Become(p, k) \/ Become(p, Ended(j, "failed")))
  BY <1>2, <1>3, <1>5 DEF InPhase
<1> HIDE DEF k
<1> QED
  BY <1>7, <1>8, <1>9, GoesIdle

\* The next removal of a sweep.
LEMMA SweepRemoveGoes ==
  ASSUME IInv, JobsOK, NEW p \in Proc, SweepRemove(p)
  PROVE  /\ Goes(p)
         /\ \E x : /\ Head(job[p].entries) = "containers" => x[1] \in Node
                   /\ Head(job[p].entries) # "containers" => x[1] \in Pair
                   /\ \/ RemoveContainer(x[1]) /\ Head(job[p].entries) = "containers" /\ NoFault
                      \/ /\ net' = [net EXCEPT ![x[1]] = NoNetwork]
                         /\ Head(job[p].entries) # "containers" /\ UNCHANGED ctr /\ NoFault
                      \/ UNCHANGED dockerVars /\ (NoFault \/ Fails("sweep"))
<1>1. PICK j : j = job[p] /\ JobOK(j)
  BY DEF JobsOK
<1>2. PICK x \in j.found : /\ InPhase(p, "sweep") /\ UNCHANGED pc
                           /\ Become(p, [j EXCEPT !.found = @ \ {x}])
                           /\ \/ RemoveContainer(x[1]) /\ Head(j.entries) = "containers" /\ NoFault
                              \/ /\ net' = [net EXCEPT ![x[1]] = NoNetwork]
                                 /\ Head(j.entries) # "containers" /\ UNCHANGED ctr /\ NoFault
                              \/ UNCHANGED dockerVars /\ (NoFault \/ Fails("sweep"))
  BY <1>1 DEF SweepRemove
<1>3. j.phase = "sweep" /\ pc[p] = "idle"
  BY <1>1, <1>2 DEF InPhase
<1>4. x \in (IF Head(j.entries) = "containers" THEN Node ELSE Pair) \X Id
  BY <1>1, <1>2, <1>3 DEF JobOK
<1> DEFINE k == [j EXCEPT !.found = @ \ {x}]
<1>5. JobOK(k) /\ k.phase = "sweep"
  BY <1>1, <1>3, JobKeys DEF JobOK
<1>6. Become(p, k)
  BY <1>2
<1> HIDE DEF k
<1>7. Goes(p)
  BY <1>2, <1>3, <1>5, <1>6, GoesIdle
<1>8. x[1] \in (IF Head(j.entries) = "containers" THEN Node ELSE Pair)
  BY <1>4
<1> QED
  BY <1>1, <1>2, <1>7, <1>8

\* What a file asks for.
LEMMA FileFacts ==
  ASSUME NEW f \in Files \union {NoFile}
  PROVE  f.nodes \subseteq Node /\ f.links \in Seq(Entry)
<1>1. CASE f \in Files
  BY <1>1, FileAssumption
<1>2. CASE f = NoFile
  BY <1>2, EmptySeq DEF NoFile
<1> QED
  BY <1>1, <1>2

\* A job that ends.
LEMMA EndedOK ==
  ASSUME NEW j, JobOK(j), NEW how \in {"failed", "cleaned", "imported", "rolled_back"}
  PROVE  JobOK(Ended(j, how)) /\ Ended(j, how).phase = "done"
BY JobKeys DEF JobOK, JobPhase, Ended

\* The next listing, or what follows the sweep.
LEMMA SweepNextGoes ==
  ASSUME IInv, JobsOK, NEW p \in Proc, SweepNext(p)
  PROVE  Goes(p) /\ [Next]_vars
<1>1. PICK j : j = job[p] /\ JobOK(j)
  BY DEF JobsOK
<1>2. UNCHANGED vars /\ UNCHANGED pc /\ pc[p] = "idle" /\ j.phase = "sweep"
  BY <1>1 DEF SweepNext, InPhase, vars
<1>3. PICK rest \in Seq(Sweeps) : rest = Tail(j.entries)
  BY <1>1, <1>2, HeadTailProperties DEF JobOK
<1> DEFINE k == [j EXCEPT !.entries = rest]
           on == [k EXCEPT !.phase = Head(rest)]
           mk == [k EXCEPT !.phase = "mk_nodes", !.nodes = k.file.nodes, !.entries = k.file.links,
                           !.first = NewId]
<1>4. Become(p, IF k.entries # <<>> THEN on ELSE IF k.file = NoFile THEN Ended(k, "cleaned") ELSE mk)
  <2>1. Become(p, LET x == [j EXCEPT !.entries = Tail(@)]
                  IN IF x.entries # <<>> THEN [x EXCEPT !.phase = Head(x.entries)]
                     ELSE IF x.file = NoFile THEN Ended(x, "cleaned")
                     ELSE [x EXCEPT !.phase = "mk_nodes", !.nodes = x.file.nodes,
                                    !.entries = x.file.links, !.first = NewId])
    BY <1>1 DEF SweepNext
  <2>2. k.entries = rest
    BY <1>1, JobKeys DEF JobOK
  <2> QED
    BY <1>3, <2>1, <2>2
<1>5. k.entries = rest /\ k.file = j.file /\ k.file \in Files \union {NoFile}
  BY <1>1, JobKeys DEF JobOK
<1>6. CASE rest # <<>>
  <2>1. PICK head \in Sweeps : head = Head(rest)
    BY <1>6, HeadTailProperties
  <2>2. JobOK(on) /\ on.phase = head
    BY <1>1, <1>2, <2>1, JobKeys DEF JobOK, JobPhase, Sweeps
  <2>3. Become(p, on)
    BY <1>4, <1>5, <1>6
  <2>4. head # "repairing"
    BY DEF Sweeps
  <2> HIDE DEF k, on, mk
  <2> QED
    BY <1>2, <2>2, <2>3, <2>4, GoesIdle
<1>7. CASE rest = <<>> /\ k.file = NoFile
  <2>1. Become(p, Ended(k, "cleaned"))
    BY <1>4, <1>5, <1>7
  <2>2. Ended(k, "cleaned") = [j EXCEPT !.entries = rest, !.phase = "done", !.end = "cleaned"]
    BY <1>1, JobKeys DEF JobOK, Ended
  <2>3. JobOK(Ended(k, "cleaned")) /\ Ended(k, "cleaned").phase = "done"
    BY <1>1, <2>2, JobKeys DEF JobOK, JobPhase
  <2> HIDE DEF k, on, mk
  <2> QED
    BY <1>2, <2>1, <2>3, GoesIdle
<1>8. CASE rest = <<>> /\ k.file # NoFile
  <2>1. PICK ns \in SUBSET Node, ls \in Seq(Entry) : ns = k.file.nodes /\ ls = k.file.links
    BY <1>5, FileFacts
  <2>2. PICK id \in 0..(MaxOps + 2) : id = NewId
    BY BoundAssumption DEF IInv, TypeOK, NewId
  <2>3. JobOK(mk) /\ mk.phase = "mk_nodes"
    <3>1. mk = [k EXCEPT !.phase = "mk_nodes", !.nodes = ns, !.entries = ls, !.first = id]
      BY <2>1, <2>2
    <3> QED
      BY <1>1, <2>1, <3>1, JobKeys, ZenonT(40) DEF JobOK, JobPhase
  <2>4. Become(p, mk)
    BY <1>4, <1>5, <1>8
  <2> HIDE DEF k, on, mk
  <2> QED
    BY <1>2, <2>3, <2>4, GoesIdle
<1> QED
  BY <1>2, <1>6, <1>7, <1>8

\* A job that turns to its rollback, where no call begins.
LEMMA TurnsBack ==
  ASSUME IInv, NEW p \in Proc, NEW j, JobOK(j), UNCHANGED vars, Become(p, RolledBack(j))
  PROVE  Goes(p) /\ [Next]_vars
<1>1. UNCHANGED pc /\ faults' \in 0..MaxFaults
  BY DEF vars, IInv, TypeOK
<1> QED
  BY <1>1, RolledBackOK, GoesFreely

\* The nodes of the file.
LEMMA MakeNodeGoes ==
  ASSUME IInv, JobsOK, NEW p \in Proc, MakeNode(p)
  PROVE  Goes(p) /\ [Next]_vars
<1>1. PICK j : j = job[p] /\ JobOK(j)
  BY DEF JobsOK
<1>2. /\ pc[p] = "idle" /\ j.phase = "mk_nodes"
      /\ \/ j.nodes # {} /\ CreateNode(p, Min(j.nodes)) /\ UNCHANGED job
         \/ UNCHANGED vars /\ Become(p, RolledBack(j))
         \/ UNCHANGED vars /\ Become(p, [j EXCEPT !.phase = "mk_links"])
  BY <1>1 DEF MakeNode, InPhase, Phase
<1>3. CASE j.nodes # {} /\ CreateNode(p, Min(j.nodes)) /\ UNCHANGED job
  <2>1. Min(j.nodes) \in Node
    BY <1>1, <1>3, NodeAssumption, MinIsLeast DEF JobOK
  <2>2. Call(p)
    BY <1>3, <2>1 DEF Call, NodeCall
  <2>3. PICK label : label = pc'[p]
    OBVIOUS
  <2>4. JobGoesOn(label, j)
    BY <1>2, <1>3 DEF JobGoesOn
  <2>5. Goes(p)
    BY <1>1, <1>3, <2>2, <2>3, <2>4, CallMovesOne DEF Goes
  <2> QED
    BY <2>2, <2>5 DEF Next
<1>4. CASE UNCHANGED vars /\ Become(p, RolledBack(j))
  BY <1>1, <1>4, TurnsBack
<1>5. CASE UNCHANGED vars /\ Become(p, [j EXCEPT !.phase = "mk_links"])
  <2> DEFINE k == [j EXCEPT !.phase = "mk_links"]
  <2>1. JobOK(k) /\ k.phase = "mk_links"
    BY <1>1, <1>2, JobKeys DEF JobOK, JobPhase
  <2>2. Become(p, k) /\ UNCHANGED pc
    BY <1>5 DEF vars
  <2> HIDE DEF k
  <2> QED
    BY <1>2, <1>5, <2>1, <2>2, GoesIdle
<1> QED
  BY <1>2, <1>3, <1>4, <1>5

\* The links of the file.
LEMMA MakeLinkGoes ==
  ASSUME IInv, JobsOK, NEW p \in Proc, MakeLink(p)
  PROVE  Goes(p) /\ [Next]_vars
<1>1. PICK j : j = job[p] /\ JobOK(j)
  BY DEF JobsOK
<1> DEFINE e == Head(j.entries)
<1>2. /\ pc[p] = "idle" /\ j.phase = "mk_links"
      /\ \/ /\ j.entries # <<>> /\ e.cl \in CL /\ CreateLink(p, e.pr, e.cl)
            /\ Become(p, RolledBack(j)) \/ UNCHANGED job
         \/ UNCHANGED vars /\ Become(p, RolledBack(j))
         \/ UNCHANGED vars /\ Become(p, [j EXCEPT !.phase = "repair"])
  BY <1>1 DEF MakeLink, InPhase, Phase, LinkAccepted
<1>3. CASE /\ j.entries # <<>> /\ e.cl \in CL /\ CreateLink(p, e.pr, e.cl)
           /\ Become(p, RolledBack(j)) \/ UNCHANGED job
  <2>1. e.pr \in Pair
    <3>1. j.entries \in Seq(Entry) /\ j.entries # <<>>
      BY <1>1, <1>2, <1>3 DEF JobOK
    <3>2. e \in Entry
      BY <3>1, HeadTailProperties
    <3> QED
      BY <3>2 DEF Entry
  <2>2. Call(p)
    BY <1>3, <2>1 DEF Call, LinkCall
  <2>3. faults' \in 0..MaxFaults
    BY <1>3 DEF CreateLink, IInv, TypeOK
  <2>4. CASE Become(p, RolledBack(j))
    BY <1>1, <2>2, <2>3, <2>4, RolledBackOK, GoesFreely, CallMovesOne DEF Next
  <2>5. CASE UNCHANGED job
    <3>1. PICK label : label = pc'[p]
      OBVIOUS
    <3>2. JobGoesOn(label, j)
      BY <1>2, <1>3 DEF JobGoesOn
    <3>3. Goes(p)
      BY <1>1, <2>2, <2>5, <3>1, <3>2, CallMovesOne DEF Goes
    <3> QED
      BY <2>2, <3>3 DEF Next
  <2> QED
    BY <1>3, <2>4, <2>5
<1>4. CASE UNCHANGED vars /\ Become(p, RolledBack(j))
  BY <1>1, <1>4, TurnsBack
<1>5. CASE UNCHANGED vars /\ Become(p, [j EXCEPT !.phase = "repair"])
  <2> DEFINE k == [j EXCEPT !.phase = "repair"]
  <2>1. JobOK(k) /\ k.phase = "repair"
    BY <1>1, <1>2, JobKeys DEF JobOK, JobPhase
  <2>2. Become(p, k) /\ UNCHANGED pc
    BY <1>5 DEF vars
  <2> HIDE DEF k
  <2> QED
    BY <1>2, <1>5, <2>1, <2>2, GoesIdle
<1> QED
  BY <1>2, <1>3, <1>4, <1>5

\* disrupt_link() within an import.
LEMMA MakeDisruptedGoes ==
  ASSUME IInv, JobsOK, NEW p \in Proc, MakeDisrupted(p)
  PROVE  Goes(p)
<1>1. PICK j : j = job[p] /\ JobOK(j)
  BY DEF JobsOK
<1>2. /\ pc[p] = "idle" /\ j.phase = "disrupt" /\ UNCHANGED pc /\ (NoFault \/ Fails("disrupt"))
      /\ Become(p, [j EXCEPT !.phase = "mk_links"]) \/ Become(p, RolledBack(j))
  BY <1>1 DEF MakeDisrupted, InPhase, Phase
<1> DEFINE k == [j EXCEPT !.phase = "mk_links"]
<1>3. JobOK(k) /\ k.phase = "mk_links"
  BY <1>1, <1>2, JobKeys DEF JobOK, JobPhase
<1>4. JobOK(RolledBack(j)) /\ RolledBack(j).phase = "rb_links"
  BY <1>1, <1>2, FaultsTyped, RolledBackOK DEF IInv
<1>5. Become(p, k) \/ Become(p, RolledBack(j))
  BY <1>2
<1> HIDE DEF k
<1>6. CASE Become(p, k)
  BY <1>2, <1>3, <1>6, GoesIdle
<1>7. CASE Become(p, RolledBack(j))
  BY <1>2, <1>4, <1>7, GoesFreely
<1> QED
  BY <1>5, <1>6, <1>7

\* repair_ion_config() begins with the ends of links that have a layer.
LEMMA RepairStartGoes ==
  ASSUME IInv, JobsOK, LayersOK, NEW p \in Proc, RepairStart(p)
  PROVE  Goes(p) /\ [Next]_vars
<1>1. PICK j : j = job[p] /\ JobOK(j)
  BY DEF JobsOK
<1>2. PICK fs : fs = EndsToRepair
  OBVIOUS
<1>3. \A x \in fs : x \in Pair \X Side \X Id /\ obj[x[3]].cl \in CL
  <2>1. \A pr \in LinkNames : pr \in Pair /\ links[pr] \in Id /\ obj[links[pr]].cl \in CL
    BY DEF IInv, TypeOK, LinkNames, LayersOK
  <2> QED
    BY <1>2, <2>1 DEF EndsToRepair
<1> DEFINE k == [j EXCEPT !.phase = "repairing", !.found = fs]
<1>4. UNCHANGED vars /\ UNCHANGED pc /\ pc[p] = "idle" /\ Become(p, k)
  BY <1>1, <1>2 DEF RepairStart, InPhase, vars
<1>5. JobOK(k) /\ k.phase = "repairing" /\ k.found = fs
  <2>1. fs \subseteq Pair \X Side \X Id
    BY <1>3
  <2> QED
    BY <1>1, <2>1, JobKeys DEF JobOK, JobPhase
<1> HIDE DEF k
<1>6. JobGoesOn("idle", k)
  BY <1>3, <1>5 DEF JobGoesOn
<1>7. pc'[p] = "idle" /\ \A q \in Proc \ {p} : pc'[q] = pc[q]
  BY <1>4
<1>8. Goes(p)
  BY <1>4, <1>5, <1>6, <1>7 DEF Goes
<1> QED
  BY <1>4, <1>8

\* The repair of one end.
LEMMA RepairEndGoes ==
  ASSUME IInv, JobsOK, NEW p \in Proc, RepairEnd(p)
  PROVE  Goes(p)
<1>1. PICK j : j = job[p] /\ JobOK(j) /\ JobGoesOn(pc[p], j)
  BY DEF JobsOK
<1>2. PICK x \in j.found :
        /\ InPhase(p, "repairing") /\ UNCHANGED pc
        /\ \/ Become(p, [j EXCEPT !.found = @ \ {x}])
           \/ Become(p, [[j EXCEPT !.found = @ \ {x}] EXCEPT !.errors = TRUE])
           \/ Become(p, Ended([j EXCEPT !.found = @ \ {x}], "failed"))
  BY <1>1 DEF RepairEnd
<1>3. j.phase = "repairing" /\ pc[p] = "idle"
  BY <1>1, <1>2 DEF InPhase
<1> DEFINE k == [j EXCEPT !.found = @ \ {x}]
<1>4. JobOK(k) /\ k.phase = "repairing" /\ k.found \subseteq j.found
  BY <1>1, <1>3, JobKeys DEF JobOK
<1>5. Become(p, k) \/ Become(p, [k EXCEPT !.errors = TRUE]) \/ Become(p, Ended(k, "failed"))
  BY <1>2
<1> HIDE DEF k
<1>6. pc'[p] = "idle" /\ \A q \in Proc \ {p} : pc'[q] = pc[q]
  BY <1>2, <1>3
<1>7. CASE Become(p, k)
  <2>1. JobGoesOn("idle", k)
    BY <1>1, <1>3, <1>4 DEF JobGoesOn
  <2> QED
    BY <1>4, <1>6, <1>7, <2>1 DEF Goes
<1>8. CASE Become(p, [k EXCEPT !.errors = TRUE])
  <2> DEFINE m == [k EXCEPT !.errors = TRUE]
  <2>1. JobOK(m) /\ m.phase = "repairing" /\ m.found = k.found
    BY <1>4, JobKeys DEF JobOK
  <2>2. Become(p, m)
    BY <1>8
  <2> HIDE DEF m
  <2>3. JobGoesOn("idle", m)
    BY <1>1, <1>3, <1>4, <2>1 DEF JobGoesOn
  <2> QED
    BY <1>6, <2>1, <2>2, <2>3 DEF Goes
<1>9. CASE Become(p, Ended(k, "failed"))
  BY <1>4, <1>6, <1>9, EndedOK, GoesFreely
<1> QED
  BY <1>5, <1>7, <1>8, <1>9

\* The end of an import.
LEMMA RepairDoneGoes ==
  ASSUME IInv, JobsOK, NEW p \in Proc, RepairDone(p)
  PROVE  Goes(p) /\ [Next]_vars
<1>1. PICK j : j = job[p] /\ JobOK(j)
  BY DEF JobsOK
<1>2. UNCHANGED vars /\ UNCHANGED pc /\ pc[p] = "idle" /\ Become(p, Ended(j, "imported"))
  BY <1>1 DEF RepairDone, InPhase, vars
<1>3. JobOK(Ended(j, "imported")) /\ Ended(j, "imported").phase = "done"
  BY <1>1, EndedOK
<1> QED
  BY <1>2, <1>3, GoesIdle

-----------------------------------------------------------------------------
(* Every step but a restart                                                *)

\* The states that calls and jobs keep to.
RecInv == IInv /\ Asked /\ OnlyPast /\ NetsOK /\ LayersOK /\ JobsOK
SeededInv == seeded => Leases

\* A step of the system below, with the job of one thread.
LEMMA NextWithJob ==
  ASSUME RecInv, "writer" \notin FaultAt, [Next]_vars,
         (\E p \in Proc : Goes(p)) \/ UNCHANGED <<job, pc>>
  PROVE  RecInv' /\ (Leases /\ OneDeletes /\ NetworksTidy => Leases')
<1>1. IInv' /\ Asked' /\ OnlyPast' /\ NetsOK' /\ LayersLast
  BY NextKeepsIInv, NextKeepsAsked, NextKeepsPast, NextKeepsNets, NextKeepsLayers DEF RecInv
<1>2. JobsOK'
  BY <1>1, GoesOn, JobsStay DEF RecInv
<1>3. RecInv'
  BY <1>1, <1>2 DEF RecInv, LayersLast
<1> QED
  BY <1>3, NextKeepsLeases DEF RecInv

\* A step that changes Docker and ION only, with the job of one thread.
LEMMA DockerWithJob ==
  ASSUME RecInv, NEW p \in Proc, Goes(p), UNCHANGED <<tableVars, disk, pc, loc, started>>,
         ctr' \in [Node -> Container], net' \in [Pair -> Network], NEW label, NoFault \/ Fails(label),
         \A pr \in Pair : NetKept(pr) \/ net'[pr] = NoNetwork
  PROVE  RecInv' /\ (Leases => Leases')
<1>0. faults' \in 0..MaxFaults
  BY FaultsTyped DEF RecInv, IInv
<1>1. /\ IInv' /\ Asked' /\ OnlyPast' /\ NetsOK' /\ LayersLast
      /\ Leases => Leases'
  BY <1>0, DockerOnlyKeeps DEF RecInv
<1>2. JobsOK'
  BY <1>1, GoesOn DEF RecInv
<1> QED
  BY <1>1, <1>2 DEF RecInv, LayersLast

\* ION of a container after the commands for one end.
LEMMA ConfiguredTyped ==
  ASSUME NEW c \in Container, NEW m \in Node, NEW d \in Duct, NEW k \in 0..2
  PROVE  ConfiguredUpTo(k, c, m, d) \in Container
<1>1. WithDuct(c, d) \in Container
  BY IonTyped
<1>2. WithPlan(WithDuct(c, d), m, d) \in Container
  BY <1>1, IonTyped
<1>3. k = 0 \/ k = 1 \/ k = 2
  OBVIOUS
<1> QED
  BY <1>1, <1>2, <1>3 DEF ConfiguredUpTo

\* The steps of a sweep.
LEMMA SweepKeeps ==
  ASSUME RecInv, NEW p \in Proc, SweepList(p) \/ SweepRemove(p) \/ MakeDisrupted(p)
  PROVE  RecInv' /\ (Leases => Leases')
<1>1. /\ IInv /\ JobsOK /\ UNCHANGED <<tableVars, disk, pc, loc, started>>
      /\ net \in [Pair -> Network] /\ ctr \in [Node -> Container]
  BY DEF RecInv, IInv, TypeOK, SweepList, SweepRemove, MakeDisrupted
<1>2. CASE SweepList(p) \/ MakeDisrupted(p)
  <2>1. UNCHANGED dockerVars /\ \E label : NoFault \/ Fails(label)
    BY <1>2 DEF SweepList, MakeDisrupted
  <2>2. Goes(p)
    BY <1>1, <1>2, SweepListGoes, MakeDisruptedGoes
  <2>3. \A pr \in Pair : NetKept(pr)
    BY <2>1 DEF dockerVars, NetKept
  <2> QED
    BY <1>1, <2>1, <2>2, <2>3, DockerWithJob DEF dockerVars
<1>3. CASE SweepRemove(p)
  <2>1. PICK x : /\ Head(job[p].entries) = "containers" => x[1] \in Node
                 /\ Head(job[p].entries) # "containers" => x[1] \in Pair
                 /\ \/ RemoveContainer(x[1]) /\ Head(job[p].entries) = "containers" /\ NoFault
                    \/ /\ net' = [net EXCEPT ![x[1]] = NoNetwork]
                       /\ Head(job[p].entries) # "containers" /\ UNCHANGED ctr /\ NoFault
                    \/ UNCHANGED dockerVars /\ (NoFault \/ Fails("sweep"))
    BY <1>1, <1>3, SweepRemoveGoes
  <2>2. Goes(p) /\ (NoFault \/ Fails("sweep"))
    BY <1>1, <1>3, <2>1, SweepRemoveGoes
  <2>3. CASE RemoveContainer(x[1]) /\ Head(job[p].entries) = "containers"
    <3>1. x[1] \in Node /\ ctr' = [ctr EXCEPT ![x[1]] = NoContainer] /\ net' = DetachedEverywhere(x[1])
      BY <2>1, <2>3 DEF RemoveContainer
    <3>2. ctr' \in [Node -> Container]
      BY <1>1, <3>1, NeutralTypes
    <3>3. net' \in [Pair -> Network]
      <4>1. \A k \in Network : \A set : [k EXCEPT !.att = @ \ set] \in Network
        BY DEF Network
      <4> QED
        BY <1>1, <3>1, <4>1 DEF DetachedEverywhere
    <3>4. \A pr \in Pair : NetKept(pr)
      BY <1>1, <3>1, NetsKept
    <3> QED
      BY <1>1, <2>2, <3>2, <3>3, <3>4, DockerWithJob
  <2>4. CASE /\ net' = [net EXCEPT ![x[1]] = NoNetwork]
             /\ Head(job[p].entries) # "containers" /\ UNCHANGED ctr
    <3>1. net' \in [Pair -> Network]
      BY <1>1, <2>4, NeutralTypes
    <3>2. \A pr \in Pair : NetKept(pr) \/ net'[pr] = NoNetwork
      BY <1>1, <2>4 DEF NetKept
    <3> QED
      BY <1>1, <2>2, <2>4, <3>1, <3>2, DockerWithJob
  <2>5. CASE UNCHANGED dockerVars
    <3>1. \A pr \in Pair : NetKept(pr)
      BY <2>5 DEF dockerVars, NetKept
    <3> QED
      BY <1>1, <2>2, <2>5, <3>1, DockerWithJob DEF dockerVars
  <2> QED
    BY <2>1, <2>3, <2>4, <2>5
<1> QED
  BY <1>2, <1>3

\* The repair of one end.
LEMMA RepairEndKeeps ==
  ASSUME RecInv, NEW p \in Proc, RepairEnd(p)
  PROVE  RecInv' /\ (Leases => Leases')
<1>1. /\ IInv /\ JobsOK /\ UNCHANGED <<tableVars, net, disk, pc, loc, started>>
      /\ net \in [Pair -> Network] /\ ctr \in [Node -> Container] /\ obj \in [Id -> LinkObject]
  BY DEF RecInv, IInv, TypeOK, RepairEnd
<1>2. PICK j : j = job[p] /\ JobOK(j) /\ JobGoesOn(pc[p], j)
  BY <1>1 DEF JobsOK
<1> DEFINE ConfiguredAs(k, x) ==
             [ctr EXCEPT ![At(x[1], x[2])] =
                ConfiguredUpTo(k, ctr[At(x[1], x[2])], At(x[1], Other(x[2])),
                               <<obj[x[3]].idx, Other(x[2]), obj[x[3]].cl>>)]
<1>3. PICK x \in j.found :
        /\ InPhase(p, "repairing")
        /\ \/ ctr' = ConfiguredAs(2, x) /\ NoFault
           \/ UNCHANGED ctr /\ NoFault
           \/ /\ Fails("repair")
              /\ \/ \E k \in 0..1 : ctr' = ConfiguredAs(k, x)
                 \/ \E k \in 0..2 : ctr' = ConfiguredAs(k, x)
  BY <1>2 DEF RepairEnd
<1> DEFINE n == At(x[1], x[2])
           m == At(x[1], Other(x[2]))
           d == <<obj[x[3]].idx, Other(x[2]), obj[x[3]].cl>>
<1>4. x \in Pair \X Side \X Id /\ obj[x[3]].cl \in CL
  BY <1>2, <1>3 DEF InPhase, JobOK, JobGoesOn
<1>5. n \in Node /\ m \in Node
  BY <1>4, PairAssumption DEF At, Side, Other
<1>6. d \in Duct
  <2>1. x[3] \in Id /\ Other(x[2]) \in Side
    BY <1>4 DEF Side, Other
  <2>2. obj[x[3]].idx \in Index
    BY <1>1, <2>1 DEF LinkObject
  <2> QED
    BY <1>4, <2>1, <2>2 DEF Duct
<1>7. UNCHANGED ctr \/ \E k \in 0..2 : ctr' = [ctr EXCEPT ![n] = ConfiguredUpTo(k, ctr[n], m, d)]
  <2>1. 2 \in 0..2 /\ \A k \in 0..1 : k \in 0..2
    OBVIOUS
  <2>2. UNCHANGED ctr \/ \E k \in 0..2 : ctr' = ConfiguredAs(k, x)
    <3> HIDE DEF ConfiguredAs
    <3> QED
      BY <1>3, <2>1
  <2> QED
    BY <2>2
<1> HIDE DEF n, m, d
<1>8. \A k \in 0..2 : ConfiguredUpTo(k, ctr[n], m, d) \in Container
  BY <1>1, <1>5, <1>6, ConfiguredTyped
<1>9. ctr' \in [Node -> Container]
  BY <1>1, <1>5, <1>7, <1>8
<1>10. \A pr \in Pair : NetKept(pr)
  BY <1>1 DEF NetKept
<1>11. NoFault \/ Fails("repair")
  BY <1>3
<1> QED
  BY <1>1, <1>9, <1>10, <1>11, RepairEndGoes, DockerWithJob

\* Every step of a job.
LEMMA JobStepKeeps ==
  ASSUME RecInv, "writer" \notin FaultAt, NEW p \in Proc, JobStep(p)
  PROVE  RecInv' /\ (Leases /\ OneDeletes /\ NetworksTidy => Leases')
<1>1. IInv /\ JobsOK /\ LayersOK
  BY DEF RecInv
<1>2. CASE RunStep(p)
  <2>1. [Next]_vars
    BY <1>2 DEF RunStep, Next
  <2>2. IInv'
    BY <1>1, <2>1, NextKeepsIInv
  <2> QED
    BY <1>1, <1>2, <2>1, <2>2, RunStepGoes, NextWithJob
<1>3. CASE Clean(p) \/ SweepNext(p) \/ MakeNode(p) \/ MakeLink(p)
  BY <1>1, <1>3, CleanGoes, SweepNextGoes, MakeNodeGoes, MakeLinkGoes, NextWithJob
<1>4. CASE RepairStart(p) \/ RepairDone(p) \/ RollBack(p)
  BY <1>1, <1>4, RepairStartGoes, RepairDoneGoes, RollBackGoes, NextWithJob
<1>5. CASE SweepList(p) \/ SweepRemove(p) \/ MakeDisrupted(p) \/ RepairEnd(p)
  BY <1>5, SweepKeeps, RepairEndKeeps
<1> QED
  BY <1>2, <1>3, <1>4, <1>5 DEF JobStep

\* Everything but a restart.
LEMMA LifeKeeps ==
  ASSUME RecInv, "writer" \notin FaultAt, [RecNext]_recVars, ~Restart
  PROVE  RecInv' /\ (Leases /\ OneDeletes /\ NetworksTidy => Leases') /\ UNCHANGED seeded
<1>1. IInv /\ JobsOK
  BY DEF RecInv
<1>2. ASSUME NEW p \in Proc, ClientCall(p)
      PROVE  RecInv' /\ (Leases /\ OneDeletes /\ NetworksTidy => Leases') /\ UNCHANGED seeded
  BY <1>1, <1>2, ClientCallGoes, NextWithJob DEF ClientCall, Next
<1>3. ASSUME NEW p \in Proc, JobStep(p)
      PROVE  RecInv' /\ (Leases /\ OneDeletes /\ NetworksTidy => Leases') /\ UNCHANGED seeded
  BY <1>3, JobStepKeeps DEF JobStep
<1>4. ASSUME NEW p \in Proc, NEW f \in Files \union {NoFile}, StartJob(p, f)
      PROVE  RecInv' /\ (Leases /\ OneDeletes /\ NetworksTidy => Leases') /\ UNCHANGED seeded
  BY <1>1, <1>4, StartJobGoes, NextWithJob DEF StartJob
<1>5. ASSUME Outside
      PROVE  RecInv' /\ (Leases /\ OneDeletes /\ NetworksTidy => Leases') /\ UNCHANGED seeded
  <2>1. [Next]_vars /\ UNCHANGED <<job, pc, seeded>>
    BY <1>5 DEF Outside, Next, ContainerExits, OtherWriter
  <2> QED
    BY <2>1, NextWithJob
<1>6. ASSUME UNCHANGED recVars
      PROVE  RecInv' /\ (Leases /\ OneDeletes /\ NetworksTidy => Leases') /\ UNCHANGED seeded
  <2>1. [Next]_vars /\ UNCHANGED <<job, pc, seeded>>
    BY <1>6 DEF recVars, vars
  <2> QED
    BY <2>1, NextWithJob
<1> QED
  BY <1>2, <1>3, <1>4, <1>5, <1>6 DEF RecNext

\* Every step but a restart keeps the endpoints as Docker does.
LEMMA LifeKeepsEnds ==
  ASSUME RecInv, EndsRun, "writer" \notin FaultAt, [RecNext]_recVars, ~Restart
  PROVE  EndsRun'
<1>1. IInv /\ JobsOK /\ LayersOK /\ ctr \in [Node -> Container]
  BY DEF RecInv, IInv, TypeOK
<1>2. [Next]_vars => EndsRun'
  BY <1>1, NextKeepsEnds
<1>3. UNCHANGED dockerVars => EndsRun'
  BY <1>1, EndsLast DEF dockerVars
<1>4. ASSUME NEW p \in Proc, SweepRemove(p) PROVE EndsRun'
  <2>1. PICK x : /\ Head(job[p].entries) = "containers" => x[1] \in Node
                 /\ \/ RemoveContainer(x[1]) /\ Head(job[p].entries) = "containers"
                    \/ net' = [net EXCEPT ![x[1]] = NoNetwork] /\ UNCHANGED ctr
                    \/ UNCHANGED dockerVars
    BY <1>1, <1>4, SweepRemoveGoes
  <2>2. CASE RemoveContainer(x[1]) /\ Head(job[p].entries) = "containers"
    BY <1>1, <2>1, <2>2, EndsDetached DEF RemoveContainer
  <2>3. CASE net' = [net EXCEPT ![x[1]] = NoNetwork] /\ UNCHANGED ctr
    BY <1>1, <2>3, EndsGo
  <2> QED
    BY <1>3, <2>1, <2>2, <2>3
<1>5. ASSUME NEW p \in Proc, RepairEnd(p) PROVE EndsRun'
  <2>1. PICK j : j = job[p] /\ JobOK(j)
    BY <1>1 DEF JobsOK
  <2>2. PICK x \in j.found :
          /\ j.phase = "repairing" /\ UNCHANGED net
          /\ \/ UNCHANGED ctr
             \/ \E k \in 0..2 : \E peer, duct :
                  ctr' = [ctr EXCEPT ![At(x[1], x[2])] =
                            ConfiguredUpTo(k, ctr[At(x[1], x[2])], peer, duct)]
    BY <1>5, <2>1 DEF RepairEnd, InPhase
  <2>3. x \in Pair \X Side \X Id
    BY <2>1, <2>2 DEF JobOK
  <2>4. PICK n \in Node : n = At(x[1], x[2])
    BY <2>3, PairAssumption DEF At, Side
  <2>5. CASE UNCHANGED ctr
    BY <1>3, <2>2, <2>5 DEF dockerVars
  <2>6. ASSUME NEW k \in 0..2, NEW peer, NEW duct,
               ctr' = [ctr EXCEPT ![n] = ConfiguredUpTo(k, ctr[n], peer, duct)]
        PROVE  EndsRun'
    <3>1. ConfiguredUpTo(k, ctr[n], peer, duct).up = ctr[n].up
      BY <1>1, IonLeavesUp
    <3> QED
      BY <1>1, <2>2, <2>6, <3>1, EndsConfigured
  <2> QED
    BY <2>2, <2>4, <2>5, <2>6
<1>6. ASSUME NEW p \in Proc, JobStep(p) PROVE EndsRun'
  <2>1. CASE RunStep(p)
    BY <1>2, <2>1 DEF RunStep, Next
  <2>2. CASE Clean(p) \/ SweepNext(p) \/ MakeNode(p) \/ MakeLink(p)
    BY <1>1, <1>2, <2>2, CleanGoes, SweepNextGoes, MakeNodeGoes, MakeLinkGoes
  <2>3. CASE RepairStart(p) \/ RepairDone(p) \/ RollBack(p)
    BY <1>1, <1>2, <2>3, RepairStartGoes, RepairDoneGoes, RollBackGoes
  <2>4. CASE SweepList(p) \/ MakeDisrupted(p)
    BY <1>3, <2>4 DEF SweepList, MakeDisrupted
  <2> QED
    BY <1>4, <1>5, <1>6, <2>1, <2>2, <2>3, <2>4 DEF JobStep
<1>7. ASSUME NEW p \in Proc, ClientCall(p) PROVE EndsRun'
  BY <1>2, <1>7 DEF ClientCall, Next
<1>8. ASSUME NEW p \in Proc, NEW f, StartJob(p, f) PROVE EndsRun'
  BY <1>2, <1>8 DEF StartJob
<1>9. CASE Outside
  BY <1>2, <1>9 DEF Outside, Next
<1>10. CASE UNCHANGED recVars
  BY <1>2, <1>10 DEF recVars
<1> QED
  BY <1>6, <1>7, <1>8, <1>9, <1>10 DEF RecNext

\* Every step but a restart leaves nothing of what it removes.
LEMMA LifeKeepsTidy ==
  ASSUME RecInv, Tidy, "writer" \notin FaultAt, [RecNext]_recVars, ~Restart
  PROVE  Tidy'
<1>1. /\ IInv /\ IInv' /\ JobsOK /\ LayersOK /\ ctr \in [Node -> Container]
      /\ net \in [Pair -> Network] /\ net' \in [Pair -> Network]
  BY LifeKeeps DEF RecInv, IInv, TypeOK
<1>2. [Next]_vars => Tidy'
  BY <1>1, NextKeepsTidy
<1>3. UNCHANGED <<dockerVars, pc, loc>> => Tidy'
  BY DEF Tidy, CtrTidy, NetTidy, HasIdentity, dockerVars
<1>4. UNCHANGED <<pc, loc>> => HasIdentity'
  BY DEF Tidy, HasIdentity
<1>5. ASSUME NEW p \in Proc, SweepRemove(p) PROVE Tidy'
  <2>1. PICK x : /\ Head(job[p].entries) = "containers" => x[1] \in Node
                 /\ \/ RemoveContainer(x[1]) /\ Head(job[p].entries) = "containers"
                    \/ net' = [net EXCEPT ![x[1]] = NoNetwork] /\ UNCHANGED ctr
                    \/ UNCHANGED dockerVars
    BY <1>1, <1>5, SweepRemoveGoes
  <2>2. UNCHANGED <<pc, loc>>
    BY <1>5 DEF SweepRemove
  <2>3. CASE RemoveContainer(x[1]) /\ Head(job[p].entries) = "containers"
    <3>1. x[1] \in Node /\ ctr' = [ctr EXCEPT ![x[1]] = NoContainer] /\ net' = DetachedEverywhere(x[1])
      BY <2>1, <2>3 DEF RemoveContainer
    <3>2. CtrTidy'
      BY <1>1, <3>1, CtrStaysTidy DEF Tidy
    <3>3. NetTidy'
      BY <1>1, <3>1, NetsKept, NetStaysTidy DEF Tidy
    <3> QED
      BY <1>4, <2>2, <3>2, <3>3 DEF Tidy
  <2>4. CASE net' = [net EXCEPT ![x[1]] = NoNetwork] /\ UNCHANGED ctr
    <3>1. \A pr \in Pair : net'[pr] = net[pr] \/ net'[pr] = NoNetwork
      BY <1>1, <2>4
    <3>2. NetTidy'
      BY <1>1, <3>1, NetStaysTidy DEF Tidy, NetKept
    <3> QED
      BY <1>4, <2>2, <2>4, <3>2 DEF Tidy, CtrTidy
  <2> QED
    BY <1>3, <2>1, <2>2, <2>3, <2>4
<1>6. ASSUME NEW p \in Proc, RepairEnd(p) PROVE Tidy'
  <2>1. PICK j : j = job[p] /\ JobOK(j)
    BY <1>1 DEF JobsOK
  <2>2. PICK x \in j.found :
          /\ j.phase = "repairing" /\ UNCHANGED <<net, pc, loc>>
          /\ \/ UNCHANGED ctr
             \/ /\ ctr[At(x[1], x[2])].up
                /\ \E k \in 0..2 : \E peer, duct :
                     ctr' = [ctr EXCEPT ![At(x[1], x[2])] =
                               ConfiguredUpTo(k, ctr[At(x[1], x[2])], peer, duct)]
    BY <1>6, <2>1 DEF RepairEnd, InPhase
  <2>3. x \in Pair \X Side \X Id
    BY <2>1, <2>2 DEF JobOK
  <2>4. PICK n \in Node : n = At(x[1], x[2])
    BY <2>3, PairAssumption DEF At, Side
  <2>5. CASE UNCHANGED ctr
    BY <1>3, <2>2, <2>5 DEF dockerVars
  <2>6. ASSUME ctr[n].up, NEW k \in 0..2, NEW peer, NEW duct,
               ctr' = [ctr EXCEPT ![n] = ConfiguredUpTo(k, ctr[n], peer, duct)]
        PROVE  Tidy'
    <3>1. ConfiguredUpTo(k, ctr[n], peer, duct).cid = ctr[n].cid /\ ctr[n].cid # NoId
      BY <1>1, <2>6, IonLeavesIdentity, UpHasIdentity DEF Tidy
    <3>2. CtrTidy'
      BY <1>1, <2>6, <3>1, CtrStaysTidy DEF Tidy
    <3> QED
      BY <1>4, <2>2, <3>2 DEF Tidy, NetTidy
  <2> QED
    BY <2>2, <2>4, <2>5, <2>6
<1>7. ASSUME NEW p \in Proc, JobStep(p) PROVE Tidy'
  <2>1. CASE RunStep(p)
    BY <1>2, <2>1 DEF RunStep, Next
  <2>2. CASE Clean(p) \/ SweepNext(p) \/ MakeNode(p) \/ MakeLink(p)
    BY <1>1, <1>2, <2>2, CleanGoes, SweepNextGoes, MakeNodeGoes, MakeLinkGoes
  <2>3. CASE RepairStart(p) \/ RepairDone(p) \/ RollBack(p)
    BY <1>1, <1>2, <2>3, RepairStartGoes, RepairDoneGoes, RollBackGoes
  <2>4. CASE SweepList(p) \/ MakeDisrupted(p)
    BY <1>3, <2>4 DEF SweepList, MakeDisrupted
  <2> QED
    BY <1>5, <1>6, <1>7, <2>1, <2>2, <2>3, <2>4 DEF JobStep
<1>8. ASSUME NEW p \in Proc, ClientCall(p) PROVE Tidy'
  BY <1>2, <1>8 DEF ClientCall, Next
<1>9. ASSUME NEW p \in Proc, NEW f, StartJob(p, f) PROVE Tidy'
  BY <1>2, <1>9 DEF StartJob
<1>10. CASE Outside
  BY <1>2, <1>10 DEF Outside, Next
<1>11. CASE UNCHANGED recVars
  BY <1>2, <1>11 DEF recVars
<1> QED
  BY <1>7, <1>8, <1>9, <1>10, <1>11 DEF RecNext

-----------------------------------------------------------------------------
(* A restart                                                               *)

\* The networks whose labels name a link.
Kept(prs) == {pr \in prs : ~Orphan(pr)}

\* The new process is sound, and a reconcile() that has come to its end makes good for
\* whatever the crash interrupted.
LEMMA ReconciledRestores ==
  ASSUME RecInv, NEW ns, NEW prs \in SUBSET Labelled, NEW kept, NEW complete \in BOOLEAN,
         Reconciled(ns, prs, kept, complete), UNCHANGED <<ctr, disk, started>>,
         cfgDir' = [n \in Node |-> NoId], pc' = [p \in Proc |-> "idle"],
         loc' = [p \in Proc |-> NoLocal], job' = [p \in Proc |-> NoJob],
         NEW label, NoFault \/ Fails(label)
  PROVE  /\ RecInv'
         /\ complete /\ kept = {} /\ prs = Labelled => Leases'
<1>1. PICK mine : mine = Kept(prs)
  OBVIOUS
<1>2. /\ mine \subseteq Pair
      /\ \A pr \in mine : net[pr].nid \in Id /\ net[pr].nid # NoId /\ net[pr].nid <= started + 1
      /\ \A pr \in mine : links'[pr] = net[pr].nid
      /\ \A pr \in Pair \ mine : links'[pr] = NoId
      /\ \A pr \in mine : obj'[net[pr].nid] = AdoptedLink(pr, ns)
      /\ \A pr, qr \in mine : net[pr].nid = net[qr].nid \/ net[pr].sub = net[qr].sub => pr = qr
      /\ links' \in [Pair -> Id \union {NoId}] /\ obj' \in [Id -> LinkObject]
  <2>1. mine \subseteq Pair /\ prs \subseteq Pair
    BY <1>1 DEF Labelled, Kept
  <2>2. \A pr \in Pair : net[pr] \in Network /\ Past(net[pr].nid)
    BY DEF RecInv, IInv, TypeOK, NetsOK
  <2>3. \A pr \in mine : net[pr].nid \in Id /\ net[pr].nid # NoId /\ net[pr].nid <= started + 1
    BY <1>1, <2>1, <2>2 DEF Labelled, Kept, Network, Past
  <2>4. \A pr, qr \in Pair :
          net[pr].nid # NoId /\ net[qr].nid # NoId
            /\ (net[pr].nid = net[qr].nid \/ net[pr].sub = net[qr].sub) => pr = qr
    BY DEF RecInv, NetsOK
  <2>5. \A pr, qr \in mine : net[pr].nid = net[qr].nid \/ net[pr].sub = net[qr].sub => pr = qr
    BY <2>1, <2>3, <2>4
  <2>6. \A pr \in mine : AdoptedLink(pr, ns) \in LinkObject
    <3>1. ASSUME NEW pr \in mine PROVE net[pr].sub \in Index /\ net[pr].nid \in Id
      BY <2>1, <2>2, <2>3 DEF Network
    <3> QED
      BY <3>1, DefaultAssumption DEF AdoptedLink, LinkObject
  <2>7. links' = [pr \in Pair |-> IF pr \in mine THEN net[pr].nid ELSE NoId]
    BY <1>1 DEF Reconciled, Kept
  <2>8. obj' = [i \in Id |-> IF \E pr \in mine : net[pr].nid = i
                             THEN AdoptedLink(CHOOSE pr \in mine : net[pr].nid = i, ns)
                             ELSE NoLink]
    BY <1>1 DEF Reconciled, Kept
  <2>9. ASSUME NEW pr \in mine PROVE obj'[net[pr].nid] = AdoptedLink(pr, ns)
    <3>1. PICK i : i = net[pr].nid
      OBVIOUS
    <3>2. obj'[i] = AdoptedLink(CHOOSE qr \in mine : net[qr].nid = i, ns)
      BY <2>3, <2>8, <3>1
    <3>3. (CHOOSE qr \in mine : net[qr].nid = i) = pr
      BY <2>5, <3>1
    <3> QED
      BY <3>1, <3>2, <3>3
  <2>10. obj' \in [Id -> LinkObject]
    <3>1. NoLink \in LinkObject
      BY NeutralTypes
    <3>2. ASSUME NEW i \in Id, \E pr \in mine : net[pr].nid = i
          PROVE  AdoptedLink(CHOOSE pr \in mine : net[pr].nid = i, ns) \in LinkObject
      BY <2>6, <3>2
    <3> QED
      BY <2>8, <3>1, <3>2
  <2>11. links' \in [Pair -> Id \union {NoId}]
    BY <2>3, <2>7
  <2> QED
    BY <2>1, <2>3, <2>5, <2>6, <2>7, <2>9, <2>10, <2>11
<1>3. /\ nodes' \in [Node -> NodeObject]
      /\ net' \in [Pair -> Network]
      /\ \A pr \in Pair : Lasts(pr)
      /\ \A pr \in mine : net'[pr] = net[pr]
      /\ kept = {} => \A pr \in prs \ mine : net'[pr] = NoNetwork
      /\ pool' \in Pool
      /\ complete => pool'.inUse = {net[pr].sub : pr \in mine}
  <2>1. mine \subseteq Pair /\ prs \subseteq Pair
    BY <1>1 DEF Labelled, Kept
  <2>2. \A pr \in Pair : net[pr] \in Network /\ net[pr].att \subseteq Ends(pr)
    BY DEF RecInv, IInv, TypeOK, NetsOK
  <2>3. nodes' = [n \in Node |-> IF n \in ns THEN AdoptedNode(n, mine) ELSE NoNode]
    BY <1>1 DEF Reconciled, Kept
  <2>4. \A n \in Node : AdoptedNode(n, mine) \in NodeObject
    <3>1. \A n \in Node : ctr[n].cid \in Id \union {NoId}
      BY DEF RecInv, IInv, TypeOK, Container
    <3>2. \A n \in Node : StatusOfContainer(n) \in {"running", "error"}
      BY DEF StatusOfContainer
    <3> QED
      BY <2>1, <3>1, <3>2 DEF AdoptedNode, NodeObject, Ref
  <2>5. nodes' \in [Node -> NodeObject]
    BY <2>3, <2>4, NeutralTypes
  <2>6. net' = [pr \in Pair |-> IF pr \in prs \ kept /\ Orphan(pr) THEN NoNetwork ELSE net[pr]]
    BY DEF Reconciled, Kept
  <2>7. net' \in [Pair -> Network]
    BY <2>2, <2>6, NeutralTypes
  <2>8. \A pr \in Pair : Lasts(pr)
    <3>1. \A pr \in Pair : net'[pr] = NoNetwork \/ net'[pr] = net[pr]
      BY <2>6
    <3> QED
      BY <2>2, <3>1 DEF Lasts, NoNetwork
  <2>9. pool' = IF complete THEN FromLive(EmptyPool, LiveIndices(mine, ns)) ELSE EmptyPool
    BY <1>1 DEF Reconciled, Kept
  <2>10. LiveIndices(mine, ns) = {net[pr].sub : pr \in mine} /\ LiveIndices(mine, ns) \subseteq Index
    BY <2>1, <2>2 DEF LiveIndices, Network
  <2>11. EmptyPool \in Pool /\ EmptyPool.inUse = {}
    BY NeutralTypes DEF EmptyPool
  <2>12. LET q == FromLive(EmptyPool, LiveIndices(mine, ns))
         IN q \in Pool /\ q.inUse = EmptyPool.inUse \union LiveIndices(mine, ns)
    BY <2>10, <2>11, FromLiveEffect
  <2> QED
    BY <1>1, <2>1, <2>5, <2>6, <2>7, <2>8, <2>9, <2>10, <2>11, <2>12 DEF Kept
<1>4. /\ \A p \in Proc : pc'[p] = "idle" /\ loc'[p] = NoLocal /\ job'[p] = NoJob
      /\ DOMAIN job' = Proc
  OBVIOUS
<1>5. "idle" \notin LinkLabel \union NodeLabel \union DeleteLabel \union CreateLinkLabel \union CreateNodeLabel
                      \union DeleteLinkLabel \union DeleteNodeLabel
  BY DEF LinkLabel, NodeLabel, DeleteLabel, CreateLinkLabel, CreateNodeLabel, DeleteLinkLabel, DeleteNodeLabel
<1>6. LinkNames' = mine
  BY <1>2 DEF LinkNames
<1>7. IInv'
  <2>1. faults' \in 0..MaxFaults
    BY FaultsTyped DEF RecInv, IInv
  <2>2. pc' \in [Proc -> Label] /\ loc' \in [Proc -> Local] /\ cfgDir' \in [Node -> Id \union {NoId}]
    BY NeutralTypes DEF Label
  <2>3. TypeOK'
    BY <1>2, <1>3, <2>1, <2>2 DEF RecInv, IInv, TypeOK
  <2>4. LocalOK("idle", NoLocal)
    BY <1>5 DEF LocalOK, NoLocal
  <2> QED
    BY <1>4, <2>3, <2>4 DEF IInv, LocalOK
<1>8. Asked'
  BY <1>4, <1>5 DEF Asked
<1>9. OnlyPast'
  <2>1. started \in Nat
    BY BoundAssumption DEF RecInv, IInv, TypeOK
  <2>2. PICK s \in Nat : s = started /\ s = started'
    BY <2>1
  <2>3. NoId <= s + 1
    BY DEF NoId
  <2>4. \A pr \in Pair : links'[pr] <= s + 1
    BY <1>2, <2>2, <2>3
  <2> QED
    BY <2>2, <2>4 DEF OnlyPast
<1>10. NetsOK'
  <2>1. started' \in Nat /\ started <= started'
    BY BoundAssumption DEF RecInv, IInv, TypeOK
  <2>2. \A p \in Proc : pc'[p] \notin CreateLinkLabel /\ pc'[p] \notin {"cl_get", "cl_new"}
    BY <1>4, <1>5
  <2> QED
    BY <1>3, <2>1, <2>2, NetsLast DEF RecInv
<1>11. LayersOK'
  <2>1. \A pr \in mine : AdoptedLink(pr, ns).cl = "tcp"
    BY DEF AdoptedLink
  <2> QED
    BY <1>2, <1>6, <2>1, DefaultAssumption DEF LayersOK
<1>12. JobsOK'
  <2>1. JobGoesOn("idle", NoJob)'
    BY DEF JobGoesOn, NoJob
  <2>2. JobOK(NoJob)
    BY NoJobOK
  <2> QED
    BY <1>4, <2>1, <2>2 DEF JobsOK, JobGoesOn, JobOK
<1>13. ASSUME complete, kept = {}, prs = Labelled PROVE Leases'
  <2>1. ThreadsOK'
    BY <1>4, <1>5 DEF ThreadsOK, Builds
  <2>2. ASSUME NEW pr \in mine
        PROVE  /\ obj'[links'[pr]].idx = net[pr].sub /\ obj'[links'[pr]].named
               /\ obj'[links'[pr]].nid = net[pr].nid
    <3>1. obj'[links'[pr]] = AdoptedLink(pr, ns)
      BY <1>2
    <3> QED
      BY <3>1 DEF AdoptedLink
  <2>3. IndicesOK'
    <3>1. \A pr, qr \in mine : links'[pr] = links'[qr] \/ obj'[links'[pr]].idx = obj'[links'[qr]].idx => pr = qr
      BY <1>2, <2>2
    <3>2. {net[pr].sub : pr \in mine} = {obj'[links'[pr]].idx : pr \in mine}
      BY <2>2
    <3> QED
      BY <1>3, <1>6, <1>13, <3>1, <3>2 DEF IndicesOK
  <2>4. ASSUME NEW pr \in Pair PROVE LinkOK(pr)'
    <3>1. net'[pr].att \subseteq Ends(pr)
      BY <1>3 DEF Lasts
    <3>2. CASE pr \in mine
      BY <1>2, <1>3, <2>2, <3>1, <3>2 DEF LinkOK, Bare
    <3>3. CASE pr \notin mine
      <4>1. net'[pr].nid = NoId
        <5>1. CASE pr \in Labelled
          BY <1>3, <1>13, <3>3, <5>1 DEF NoNetwork
        <5>2. CASE pr \notin Labelled
          <6>1. net[pr].nid = NoId
            BY <5>2 DEF Labelled, RecInv, NetsOK, Past
          <6> QED
            BY <1>3, <6>1 DEF Lasts
        <5> QED
          BY <5>1, <5>2
      <4> QED
        BY <1>2, <3>1, <3>3, <4>1 DEF LinkOK, Bare
    <3> QED
      BY <3>2, <3>3
  <2> QED
    BY <1>8, <1>9, <2>1, <2>3, <2>4 DEF Leases
<1> QED
  BY <1>7, <1>8, <1>9, <1>10, <1>11, <1>12, <1>13 DEF RecInv

\* A restart, whatever comes of reconcile().
LEMMA RestartKeeps ==
  ASSUME RecInv, Restart
  PROVE  RecInv' /\ SeededInv'
<1>1. /\ UNCHANGED <<ctr, disk, started>> /\ cfgDir' = [n \in Node |-> NoId]
      /\ pc' = [p \in Proc |-> "idle"] /\ loc' = [p \in Proc |-> NoLocal]
      /\ job' = [p \in Proc |-> NoJob]
  BY DEF Restart
<1>2. \E ns, kept : \E prs \in SUBSET Labelled, complete \in BOOLEAN :
        /\ Reconciled(ns, prs, kept, complete) /\ (complete => prs = Labelled)
        /\ \E label : NoFault \/ Fails(label)
  <2>1. CASE Reconciled(Containers, Labelled, {}, TRUE) /\ NoFault
    BY <2>1
  <2>2. CASE \E pr \in Labelled : Fails("reap") /\ Reconciled(Containers, Labelled, {pr}, TRUE)
    BY <2>2
  <2>3. CASE Fails("reconcile") /\ Reconciled({}, {}, {}, FALSE)
    BY <2>3
  <2>4. CASE \E prs \in SUBSET Labelled : Fails("reconcile") /\ Reconciled(Containers, prs, {}, FALSE)
    BY <2>4
  <2> QED
    BY <2>1, <2>2, <2>3, <2>4 DEF Restart
<1>3. PICK ns, kept : \E prs \in SUBSET Labelled, complete \in BOOLEAN :
        /\ Reconciled(ns, prs, kept, complete) /\ (complete => prs = Labelled)
        /\ \E label : NoFault \/ Fails(label)
  BY <1>2
<1>4. PICK prs \in SUBSET Labelled, complete \in BOOLEAN :
        /\ Reconciled(ns, prs, kept, complete) /\ (complete => prs = Labelled)
        /\ \E label : NoFault \/ Fails(label)
  BY <1>3
<1>5. PICK label : NoFault \/ Fails(label)
  BY <1>4
<1>6. RecInv' /\ (complete /\ kept = {} /\ prs = Labelled => Leases')
  BY <1>1, <1>4, <1>5, ReconciledRestores
<1>7. seeded' = (complete /\ kept = {})
  BY <1>4 DEF Reconciled
<1> QED
  BY <1>4, <1>6, <1>7 DEF SeededInv

\* A restart keeps the containers, and at most takes networks away.
LEMMA RestartKeepsEnds ==
  ASSUME RecInv, EndsRun, Restart
  PROVE  EndsRun'
<1>1. IInv /\ net \in [Pair -> Network] /\ UNCHANGED ctr
  BY DEF RecInv, IInv, TypeOK, Restart
<1>2. \E gone : net' = [pr \in Pair |-> IF pr \in gone THEN NoNetwork ELSE net[pr]]
  BY DEF Restart, Reconciled
<1>3. \A pr \in Pair : net'[pr] = NoNetwork \/ net'[pr] = net[pr]
  BY <1>2
<1>4. \A pr \in Pair : net'[pr].att \subseteq net[pr].att
  BY <1>3 DEF NoNetwork
<1> QED
  BY <1>1, <1>4, EndsLast

\* A restart removes whole networks.
LEMMA RestartKeepsTidy ==
  ASSUME Tidy, Restart
  PROVE  Tidy'
<1>1. UNCHANGED ctr /\ pc' = [p \in Proc |-> "idle"]
  BY DEF Restart
<1>2. \E gone : net' = [pr \in Pair |-> IF pr \in gone THEN NoNetwork ELSE net[pr]]
  BY DEF Restart, Reconciled
<1>3. \A pr \in Pair : net'[pr] = NoNetwork \/ net'[pr] = net[pr]
  BY <1>2
<1> QED
  BY <1>1, <1>3 DEF Tidy, CtrTidy, NetTidy, HasIdentity

\* What a restart adopts when reconcile() comes to its end.
LEMMA RestartAdoptsLive ==
  ASSUME RecInv, EndsRun, Restart, seeded', NEW pr \in Pair
  PROVE  /\ links'[pr] = NoId => net'[pr].nid \in {NoId, Boot}
         /\ links'[pr] # NoId /\ obj'[links'[pr]].st = "up" =>
              \A n \in Ends(pr) : ctr[n].up /\ n \in net'[pr].att /\ nodes'[n].st = "running"
<1>1. Reconciled(Containers, Labelled, {}, TRUE)
  BY DEF Restart, Reconciled
<1>2. PICK mine : mine = {q \in Labelled : ~Orphan(q)}
  OBVIOUS
<1>3. /\ mine \subseteq Pair
      /\ links' = [q \in Pair |-> IF q \in mine THEN net[q].nid ELSE NoId]
      /\ nodes' = [n \in Node |-> IF n \in Containers THEN AdoptedNode(n, mine) ELSE NoNode]
      /\ obj' = [i \in Id |-> IF \E q \in mine : net[q].nid = i
                              THEN AdoptedLink(CHOOSE q \in mine : net[q].nid = i, Containers)
                              ELSE NoLink]
      /\ net' = [q \in Pair |-> IF q \in Labelled \ {} /\ Orphan(q) THEN NoNetwork ELSE net[q]]
  BY <1>1, <1>2 DEF Reconciled, Labelled
<1>4. net[pr] \in Network
  BY DEF RecInv, IInv, TypeOK
<1>5. ASSUME links'[pr] = NoId PROVE net'[pr].nid \in {NoId, Boot}
  <2>1. pr \in mine => net[pr].nid # NoId
    BY <1>2 DEF Labelled
  <2>2. pr \notin mine
    BY <1>3, <1>5, <2>1
  <2>3. CASE pr \in Labelled
    BY <1>2, <1>3, <2>2, <2>3 DEF NoNetwork
  <2>4. CASE pr \notin Labelled
    BY <1>3, <2>4 DEF Labelled
  <2> QED
    BY <2>3, <2>4
<1>6. ASSUME links'[pr] # NoId, obj'[links'[pr]].st = "up", NEW n \in Ends(pr)
      PROVE  ctr[n].up /\ n \in net'[pr].att /\ nodes'[n].st = "running"
  <2>1. pr \in mine /\ links'[pr] = net[pr].nid
    BY <1>3, <1>6
  <2>2. PICK i \in Id : i = net[pr].nid
    BY <1>2, <1>4, <2>1 DEF Labelled, Network
  <2>3. (CHOOSE q \in mine : net[q].nid = i) = pr
    <3>1. \A q \in mine : net[q].nid = i => q = pr
      BY <1>2, <1>3, <2>1, <2>2 DEF RecInv, NetsOK, Labelled
    <3> QED
      BY <2>1, <2>2, <3>1
  <2>4. obj'[i] = AdoptedLink(pr, Containers)
    BY <1>3, <2>1, <2>2, <2>3
  <2>5. Healthy(pr, Containers)
    BY <1>6, <2>1, <2>2, <2>4 DEF AdoptedLink
  <2>6. n \in Containers /\ n \in net[pr].att /\ n \in Node
    BY <2>5 DEF Healthy, Containers
  <2>7. ctr[n].up
    BY <2>6 DEF EndsRun
  <2>8. net'[pr] = net[pr]
    BY <1>2, <1>3, <2>1
  <2>9. nodes'[n].st = "running"
    BY <1>3, <2>6, <2>7 DEF AdoptedNode, StatusOfContainer
  <2> QED
    BY <2>6, <2>7, <2>8, <2>9
<1> QED
  BY <1>5, <1>6

\* At the start.
LEMMA InitRec == RecInit => RecInv /\ SeededInv
<1> SUFFICES ASSUME RecInit PROVE RecInv /\ SeededInv
  OBVIOUS
<1>1. Init /\ job = [p \in Proc |-> NoJob]
  BY DEF RecInit
<1>2. IInv /\ Leases
  BY <1>1, InitIInv, InitLeases
<1>3. \A p \in Proc : pc[p] = "idle"
  BY <1>1 DEF Init
<1>4. \A pr \in Pair : links[pr] = NoId /\ net[pr] = NoNetwork
  BY <1>1 DEF Init
<1>5. started = 0
  BY <1>1 DEF Init
<1>6. "idle" \notin CreateLinkLabel
  BY DEF CreateLinkLabel
<1>7. NetsOK
  <2>1. Past(NoId)
    BY <1>5 DEF Past, NoId, Boot
  <2> QED
    BY <1>3, <1>4, <1>6, <2>1 DEF NetsOK, NoNetwork
<1>8. LayersOK
  BY <1>4 DEF LayersOK, LinkNames
<1>9. JobsOK
  <2>1. JobGoesOn("idle", NoJob)
    BY DEF JobGoesOn, NoJob
  <2> QED
    BY <1>1, <1>3, <2>1, NoJobOK DEF JobsOK
<1> QED
  BY <1>2, <1>7, <1>8, <1>9 DEF RecInv, SeededInv, Leases

-----------------------------------------------------------------------------
(* Nodes and their containers, one call at a time                          *)

Building(n) == \E p \in Proc : pc[p] \in CreateNodeLabel /\ loc[p].n = n

\* A node in the table whose container is there has the one that its commit was about, and
\* until then nobody else has made one of that name.
NodesOwn ==
  /\ \A n \in Node : Present(n) /\ ctr[n].cid # NoId /\ ~Building(n) =>
       nodes[n].ref = [op |-> ctr[n].cid, named |-> TRUE]
  /\ \A p \in Proc : pc[p] \in {"cn_check", "cn_commit"} => ctr[loc[p].n].cid \in {NoId, loc[p].op}

\* A thread that goes on with the node it makes, or that makes none.
GoesOnMaking(p) ==
  \/ /\ pc[p] \in CreateNodeLabel /\ pc'[p] \in CreateNodeLabel /\ loc'[p].n = loc[p].n
     /\ pc'[p] \in {"cn_check", "cn_commit"} =>
          pc[p] \in {"cn_check", "cn_commit"} /\ loc'[p].op = loc[p].op
  \/ pc[p] \notin CreateNodeLabel /\ pc'[p] \notin CreateNodeLabel

\* A Node object that stays, or a node that goes.
NodeLasts(n) ==
  (nodes'[n].ref = nodes[n].ref /\ nodes'[n].st = nodes[n].st) \/ nodes'[n] = NoNode

\* Nothing is committed, and containers at most go.
LEMMA OwnLasts ==
  ASSUME IInv, NodesOwn, \A p \in Proc : GoesOnMaking(p), \A n \in Node : NodeLasts(n),
         \A n \in Node : ctr'[n].cid \in {NoId, ctr[n].cid}
  PROVE  NodesOwn'
<1>1. \A n \in Node : Building(n)' <=> Building(n)
  BY DEF Building, GoesOnMaking
<1>2. ASSUME NEW n \in Node, Present(n)', ctr'[n].cid # NoId, ~Building(n)'
      PROVE  nodes'[n].ref = [op |-> ctr'[n].cid, named |-> TRUE]
  <2>1. nodes'[n].ref = nodes[n].ref /\ nodes'[n].st = nodes[n].st
    BY <1>2 DEF NodeLasts, NoNode, Present
  <2>2. ctr'[n].cid = ctr[n].cid /\ Present(n) /\ ~Building(n)
    BY <1>1, <1>2, <2>1 DEF Present
  <2> QED
    BY <1>2, <2>1, <2>2 DEF NodesOwn
<1>3. ASSUME NEW p \in Proc, pc'[p] \in {"cn_check", "cn_commit"}
      PROVE  ctr'[loc'[p].n].cid \in {NoId, loc'[p].op}
  <2>1. pc[p] \in {"cn_check", "cn_commit"} /\ pc[p] \in CreateNodeLabel
        /\ loc'[p].op = loc[p].op /\ loc'[p].n = loc[p].n
    BY <1>3 DEF GoesOnMaking, CreateNodeLabel
  <2>2. loc[p].n \in Node
    BY <2>1, ThreadFacts DEF LocalOK, NodeLabel
  <2> QED
    BY <2>1, <2>2 DEF NodesOwn
<1> QED
  BY <1>2, <1>3 DEF NodesOwn

\* Threads that stay where they are.
LEMMA StaysMaking ==
  ASSUME UNCHANGED <<pc, loc>>
  PROVE  \A p \in Proc : GoesOnMaking(p)
BY DEF GoesOnMaking

\* The step of one thread.
LEMMA OneGoesOnMaking ==
  ASSUME IInv, NEW p \in Proc, NEW label, NEW l, Goto(p, label, l),
         \/ /\ pc[p] \in CreateNodeLabel /\ label \in CreateNodeLabel \ {"cn_check", "cn_commit"}
            /\ l.n = loc[p].n
         \/ pc[p] \notin CreateNodeLabel /\ label \notin CreateNodeLabel
  PROVE  \A q \in Proc : GoesOnMaking(q)
<1>1. /\ pc'[p] = label /\ loc'[p] = l
      /\ \A q \in Proc \ {p} : pc'[q] = pc[q] /\ loc'[q] = loc[q]
  BY DEF Goto, IInv, TypeOK
<1>2. GoesOnMaking(p)
  BY <1>1 DEF GoesOnMaking
<1>3. \A q \in Proc \ {p} : GoesOnMaking(q)
  BY <1>1 DEF GoesOnMaking
<1> QED
  BY <1>2, <1>3

\* What the steps of the operations on links do to nodes and containers.
LEMMA LinkStepKeepsOwn ==
  ASSUME IInv, NodesOwn, NEW p \in Proc, LinkStep(p)
  PROVE  NodesOwn'
<1>1. ctr \in [Node -> Container] /\ nodes \in [Node -> NodeObject]
  BY DEF IInv, TypeOK
<1>2. \A q \in Proc : GoesOnMaking(q)
  <2>1. pc[p] \in LinkLabel
    BY DEF LinkStep, ClGet, ClNew, ClRace, ClAdopt, ClContainers, ClConnect, ClReady, ClConfig,
       ClCommit, ClUndo, ClUnnet, ClUnreserve, DlIon, DlGet, DlDisconnect, DlRemove, DlFinish,
       LinkLabel, CreateLinkLabel, DeleteLinkLabel
  <2>2. \E label \in LinkLabel \union {"idle", "dn_next"} : \E l : Goto(p, label, l)
    <3> USE DEF LinkLabel, CreateLinkLabel, DeleteLinkLabel
    <3>1. CASE ClGet(p) \/ ClNew(p) \/ ClRace(p)
      BY <3>1 DEF ClGet, ClNew, ClRace, HaveNetwork, Undo
    <3>2. CASE ClAdopt(p) \/ ClContainers(p) \/ ClConnect(p)
      BY <3>2 DEF ClAdopt, ClContainers, ClConnect, Undo
    <3>3. CASE ClReady(p) \/ ClConfig(p) \/ ClCommit(p)
      BY <3>3 DEF ClReady, ClConfig, ClCommit, Undo, Finish
    <3>4. CASE ClUndo(p) \/ ClUnnet(p) \/ ClUnreserve(p)
      BY <3>4 DEF ClUndo, ClUnnet, ClUnreserve, AfterDisconnect, Finish
    <3>5. CASE DlIon(p) \/ DlGet(p)
      BY <3>5 DEF DlIon, DlGet, DlReturn, Finish
    <3>6. CASE DlDisconnect(p) \/ DlRemove(p) \/ DlFinish(p)
      BY <3>6 DEF DlDisconnect, DlRemove, Refusal, DlFinish, DlReturn, Finish
    <3> QED
      BY <3>1, <3>2, <3>3, <3>4, <3>5, <3>6 DEF LinkStep
  <2>3. pc[p] \notin CreateNodeLabel
        /\ \A label \in LinkLabel \union {"idle", "dn_next"} : label \notin CreateNodeLabel
    BY <2>1 DEF LinkLabel, CreateLinkLabel, DeleteLinkLabel, CreateNodeLabel
  <2>4. PICK label \in LinkLabel \union {"idle", "dn_next"} : \E l : Goto(p, label, l)
    BY <2>2
  <2>5. PICK l : Goto(p, label, l)
    BY <2>4
  <2> QED
    BY <2>3, <2>5, OneGoesOnMaking
<1>3. \A n \in Node : NodeLasts(n)
  <2>1. CASE ClCommit(p) \/ ClUnreserve(p) \/ DlFinish(p)
    <3>1. \E set \in BOOLEAN : nodes' = WithIps(loc[p].ref, loc[p].pr, set)
      BY <2>1 DEF ClCommit, ClUnreserve, DlFinish, IpsSet, IpsPopped
    <3> QED
      BY <3>1, IpsKeepRefs DEF IInv, NodeLasts
  <2>2. CASE ~(ClCommit(p) \/ ClUnreserve(p) \/ DlFinish(p))
    <3>1. UNCHANGED nodes
      BY <2>2 DEF LinkStep, ClGet, ClNew, ClRace, ClAdopt, ClContainers, ClConnect, ClReady,
         ClConfig, ClUndo, ClUnnet, DlIon, DlGet, DlDisconnect, DlRemove, tableVars, nodeTables
    <3> QED
      BY <3>1 DEF NodeLasts
  <2> QED
    BY <2>1, <2>2
<1>4. \A n \in Node : ctr'[n].cid = ctr[n].cid
  <2>1. CASE ClConfig(p)
    <3>1. PICK n, peer, duct : n = At(loc[p].pr, loc[p].side) /\ peer = At(loc[p].pr, Other(loc[p].side))
                               /\ duct = <<loc[p].idx, Other(loc[p].side), loc[p].cl>>
      OBVIOUS
    <3>2. UNCHANGED ctr \/ \E k \in 0..2 : ctr' = [ctr EXCEPT ![n] = ConfiguredUpTo(k, ctr[n], peer, duct)]
      <4>1. 2 \in 0..2 /\ \A k \in 0..1 : k \in 0..2
        OBVIOUS
      <4> QED
        BY <2>1, <3>1, <4>1 DEF ClConfig
    <3> QED
      BY <1>1, <3>2, IonLeavesIdentity
  <2>2. CASE DlIon(p)
    <3>1. PICK l : l = [loc[p] EXCEPT !.idx = IF loc[p].side = "a" THEN obj[loc[p].lid].idx ELSE @]
      OBVIOUS
    <3>2. PICK n, plan : n = At(l.pr, l.side) /\ plan = WithoutPlan(ctr[n], At(l.pr, Other(l.side)))
      OBVIOUS
    <3>3. \/ UNCHANGED ctr
          \/ ctr' = [ctr EXCEPT ![n] = WithoutDuct(plan, <<l.idx, Other(l.side), "tcp">>)]
          \/ \E c \in {ctr[n], plan} : ctr' = [ctr EXCEPT ![n] = c]
      BY <2>2, <3>1, <3>2 DEF DlIon, DuctDropped
    <3>4. n \in Node => plan.cid = ctr[n].cid /\ \A d : WithoutDuct(plan, d).cid = ctr[n].cid
      BY <1>1, <3>2, IonLeavesIdentity
    <3> QED
      BY <1>1, <3>3, <3>4
  <2>3. CASE ~(ClConfig(p) \/ DlIon(p))
    <3>1. UNCHANGED ctr
      BY <2>3 DEF LinkStep, ClGet, ClNew, ClRace, ClAdopt, ClContainers, ClConnect, ClReady,
         ClCommit, ClUndo, ClUnnet, ClUnreserve, DlGet, DlDisconnect, DlRemove, DlFinish, dockerVars
    <3> QED
      BY <3>1
  <2> QED
    BY <2>1, <2>2, <2>3
<1> QED
  BY <1>2, <1>3, <1>4, OwnLasts

\* And those of the operations on nodes.
LEMMA NodeStepKeepsOwn ==
  ASSUME IInv, \A p, q \in Proc : p = q, NodesOwn, NEW p \in Proc, NodeStep(p)
  PROVE  NodesOwn'
<1>1. ctr \in [Node -> Container] /\ nodes \in [Node -> NodeObject] /\ pc \in [Proc -> Label]
      /\ loc \in [Proc -> Local] /\ DOMAIN loc[p] = DOMAIN NoLocal
  BY DEF IInv, TypeOK, Local, NoLocal
<1>2. PICK n : n = loc[p].n /\ (pc[p] \in CreateNodeLabel \union DeleteNodeLabel => n \in Node)
  BY ThreadFacts DEF LocalOK, NodeLabel
<1>3. UNCHANGED nodes => \A m \in Node : NodeLasts(m)
  BY DEF NodeLasts
<1>4. UNCHANGED ctr \/ ctr' = [ctr EXCEPT ![n] = NoContainer] =>
        \A m \in Node : ctr'[m].cid \in {NoId, ctr[m].cid}
  BY <1>1 DEF NoContainer
<1>5. CASE CnStale(p) \/ CnDir(p) \/ CnUndo(p)
  <2>1. pc[p] \in CreateNodeLabel
        /\ \E label \in {"cn_dir", "cn_run", "cn_undo", "cn_unres"} : \E l : Goto(p, label, l) /\ l.n = n
    BY <1>1, <1>2, <1>5 DEF CnStale, CnDir, CnUndo, CnRaise, CreateNodeLabel, NoLocal
  <2>2. PICK label \in {"cn_dir", "cn_run", "cn_undo", "cn_unres"} : \E l : Goto(p, label, l) /\ l.n = n
    BY <2>1
  <2>3. label \in CreateNodeLabel \ {"cn_check", "cn_commit"}
    BY DEF CreateNodeLabel
  <2>4. \A q \in Proc : GoesOnMaking(q)
    BY <1>2, <2>1, <2>2, <2>3, OneGoesOnMaking
  <2>5. UNCHANGED nodes /\ (UNCHANGED ctr \/ ctr' = [ctr EXCEPT ![n] = NoContainer])
    BY <1>2, <1>5 DEF CnStale, CnDir, CnUndo, RemoveContainer, tableVars, dockerVars
  <2> QED
    BY <1>3, <1>4, <2>4, <2>5, OwnLasts
<1>6. CASE CnCheck(p)
  <2>1. \E label \in {"cn_commit", "cn_undo"} : \E l : Goto(p, label, l) /\ l.n = n /\ l.op = loc[p].op
    BY <1>1, <1>2, <1>6 DEF CnCheck, CnRaise, NoLocal
  <2>2. PICK label \in {"cn_commit", "cn_undo"} : \E l : Goto(p, label, l) /\ l.n = n /\ l.op = loc[p].op
    BY <2>1
  <2>3. PICK l : Goto(p, label, l) /\ l.n = n /\ l.op = loc[p].op
    BY <2>2
  <2>4. pc'[p] = label /\ loc'[p] = l
    BY <1>1, <2>3 DEF Goto
  <2>5. pc[p] = "cn_check" /\ UNCHANGED <<nodes, ctr>>
    BY <1>6 DEF CnCheck, tableVars, dockerVars
  <2>6. GoesOnMaking(p)
    BY <1>2, <2>3, <2>4, <2>5 DEF GoesOnMaking, CreateNodeLabel
  <2>7. \A q \in Proc : GoesOnMaking(q)
    <3>1. \A q \in Proc : q = p
      OBVIOUS
    <3> QED
      BY <2>6, <3>1
  <2> QED
    BY <1>3, <1>4, <2>5, <2>7, OwnLasts
<1>7. CASE DnNext(p) \/ DnContainer(p)
  <2>1. pc[p] \notin CreateNodeLabel
        /\ \E label \in {"dl_ion", "dn_next", "dn_ctr", "dn_finish", "idle"} : \E l : Goto(p, label, l)
    BY <1>7 DEF DnNext, DnContainer, Finish, CreateNodeLabel
  <2>2. PICK label \in {"dl_ion", "dn_next", "dn_ctr", "dn_finish", "idle"} : \E l : Goto(p, label, l)
    BY <2>1
  <2>3. label \notin CreateNodeLabel
    BY DEF CreateNodeLabel
  <2>4. \A q \in Proc : GoesOnMaking(q)
    BY <2>1, <2>2, <2>3, OneGoesOnMaking
  <2>5. UNCHANGED nodes /\ (UNCHANGED ctr \/ ctr' = [ctr EXCEPT ![n] = NoContainer])
    BY <1>2, <1>7 DEF DnNext, DnContainer, RemoveContainer, tableVars, dockerVars
  <2> QED
    BY <1>3, <1>4, <2>4, <2>5, OwnLasts
<1>8. CASE DnFinish(p)
  <2>1. Goto(p, "idle", NoLocal) /\ pc[p] \notin CreateNodeLabel /\ "idle" \notin CreateNodeLabel
        /\ UNCHANGED ctr /\ nodes' = [nodes EXCEPT ![n] = NoNode]
    BY <1>2, <1>8 DEF DnFinish, Finish, CreateNodeLabel, dockerVars
  <2>2. \A q \in Proc : GoesOnMaking(q)
    BY <2>1, OneGoesOnMaking
  <2>3. \A m \in Node : NodeLasts(m)
    BY <1>1, <2>1 DEF NodeLasts
  <2> QED
    BY <1>4, <2>1, <2>2, <2>3, OwnLasts
<1>9. CASE CnRun(p) \/ CnCommit(p) \/ CnUnreserve(p)
  <2>1. pc[p] \in CreateNodeLabel /\ n \in Node
    BY <1>2, <1>9 DEF CnRun, CnCommit, CnUnreserve, CreateNodeLabel
  <2>2. \A m \in Node \ {n} : nodes'[m] = nodes[m] /\ ctr'[m] = ctr[m] /\ ~Building(m)
    <3>1. \A m \in Node \ {n} : ~Building(m)
      BY <1>2 DEF Building
    <3>2. \A m \in Node \ {n} : nodes'[m] = nodes[m] /\ ctr'[m] = ctr[m]
      BY <1>1, <1>2, <1>9 DEF CnRun, CnCommit, CnUnreserve, tableVars, dockerVars
    <3> QED
      BY <3>1, <3>2
  <2>3. \A m \in Node \ {n} : Present(m)' /\ ctr'[m].cid # NoId => nodes'[m].ref = [op |-> ctr'[m].cid, named |-> TRUE]
    BY <2>2 DEF NodesOwn, Present
  <2>4. CASE CnRun(p)
    <3>1. \/ Goto(p, "cn_check", [loc[p] EXCEPT !.cid["a"] = loc[p].op]) /\ ctr'[n].cid = loc[p].op
          \/ Goto(p, "cn_undo", loc[p])
      BY <1>1, <1>2, <2>1, <2>4 DEF CnRun, CnRaise, FreshContainer, NoContainer
    <3>2. loc'[p].n = n /\ loc'[p].op = loc[p].op /\ pc'[p] \in {"cn_check", "cn_undo"}
          /\ (pc'[p] = "cn_check" => ctr'[n].cid = loc[p].op)
      BY <1>1, <1>2, <3>1 DEF Goto, NoLocal
    <3>3. Building(n)'
      BY <3>2 DEF Building, CreateNodeLabel
    <3>4. \A q \in Proc : pc'[q] \in {"cn_check", "cn_commit"} => ctr'[loc'[q].n].cid \in {NoId, loc'[q].op}
      <4>1. \A q \in Proc : q = p
        OBVIOUS
      <4> QED
        BY <3>2, <4>1
    <3> QED
      BY <2>3, <3>3, <3>4 DEF NodesOwn
  <2>5. CASE CnCommit(p) \/ CnUnreserve(p)
    <3>1. pc'[p] = "idle" /\ UNCHANGED ctr
      BY <1>1, <2>5 DEF CnCommit, CnUnreserve, Finish, Goto, dockerVars
    <3>2. \A q \in Proc : pc'[q] \notin {"cn_check", "cn_commit"}
      <4>1. \A q \in Proc : q = p
        OBVIOUS
      <4> QED
        BY <3>1, <4>1
    <3>3. Present(n)' /\ ctr'[n].cid # NoId => nodes'[n].ref = [op |-> ctr'[n].cid, named |-> TRUE]
      <4>1. CASE CnCommit(p)
        <5>1. nodes'[n].ref = [op |-> loc[p].op, named |-> TRUE] /\ ctr[n].cid \in {NoId, loc[p].op}
          BY <1>1, <1>2, <2>1, <4>1 DEF CnCommit, NodesOwn
        <5> QED
          BY <3>1, <5>1
      <4>2. CASE CnUnreserve(p)
        <5>1. nodes'[n] = NoNode
          BY <1>1, <1>2, <2>1, <4>2 DEF CnUnreserve
        <5> QED
          BY <5>1 DEF Present, NoNode
      <4> QED
        BY <2>5, <4>1, <4>2
    <3> QED
      BY <2>3, <3>2, <3>3 DEF NodesOwn
  <2> QED
    BY <1>9, <2>4, <2>5
<1> QED
  BY <1>5, <1>6, <1>7, <1>8, <1>9 DEF NodeStep

\* Every step of the system below.
LEMMA NextKeepsOwn ==
  ASSUME IInv, \A p, q \in Proc : p = q, NodesOwn, "writer" \notin FaultAt, [Next]_vars
  PROVE  NodesOwn'
<1>1. ctr \in [Node -> Container] /\ nodes \in [Node -> NodeObject] /\ pc \in [Proc -> Label]
      /\ loc \in [Proc -> Local]
  BY DEF IInv, TypeOK
<1>2. UNCHANGED nodes => \A m \in Node : NodeLasts(m)
  BY DEF NodeLasts
<1>3. UNCHANGED ctr => \A m \in Node : ctr'[m].cid \in {NoId, ctr[m].cid}
  OBVIOUS
<1>4. CASE UNCHANGED vars
  BY <1>2, <1>3, <1>4, StaysMaking, OwnLasts DEF vars
<1>5. ASSUME NEW p \in Proc, Step(p) PROVE NodesOwn'
  BY <1>5, LinkStepKeepsOwn, NodeStepKeepsOwn DEF Step
<1>6. ASSUME NEW p \in Proc, LinkCall(p) \/ \E n \in Node : DeleteNode(p, n) PROVE NodesOwn'
  <2>1. UNCHANGED <<nodes, ctr>> /\ pc[p] = "idle"
        /\ (UNCHANGED <<pc, loc>> \/ \E label \in {"cl_get", "dl_ion", "dn_next"} : \E l : Goto(p, label, l))
    BY <1>6 DEF LinkCall, CreateLink, DeleteLink, DeleteNode, Begin, tableVars, nodeTables, dockerVars
  <2>2. CASE UNCHANGED <<pc, loc>>
    BY <1>2, <1>3, <2>1, <2>2, StaysMaking, OwnLasts
  <2>3. CASE ~UNCHANGED <<pc, loc>>
    <3>1. PICK label \in {"cl_get", "dl_ion", "dn_next"} : \E l : Goto(p, label, l)
      BY <2>1, <2>3
    <3>2. PICK l : Goto(p, label, l)
      BY <3>1
    <3>3. label \notin CreateNodeLabel /\ pc[p] \notin CreateNodeLabel
      BY <2>1 DEF CreateNodeLabel
    <3> QED
      BY <1>2, <1>3, <2>1, <3>2, <3>3, OneGoesOnMaking, OwnLasts
  <2> QED
    BY <2>2, <2>3
<1>7. ASSUME NEW p \in Proc, NEW n \in Node, CreateNode(p, n) PROVE NodesOwn'
  <2>1. /\ UNCHANGED ctr /\ pc[p] = "idle"
        /\ \A m \in Node \ {n} : nodes'[m] = nodes[m]
    BY <1>1, <1>7 DEF CreateNode, Begin, dockerVars
  <2>2. \E l : Goto(p, "cn_stale", l) /\ l.n = n
    <3>1. PICK l : l = [NoLocal EXCEPT !.op = NewId, !.call = "create_node", !.n = n]
      OBVIOUS
    <3>2. l.n = n
      BY <3>1 DEF NoLocal
    <3> QED
      BY <1>7, <3>1, <3>2 DEF CreateNode
  <2>3. pc'[p] = "cn_stale" /\ loc'[p].n = n
    BY <1>1, <2>2 DEF Goto
  <2>4. \A q \in Proc : q = p
    OBVIOUS
  <2>5. \A m \in Node : ~Building(m)
    BY <2>1, <2>4 DEF Building, CreateNodeLabel
  <2>6. Building(n)'
    BY <2>3 DEF Building, CreateNodeLabel
  <2> QED
    BY <2>1, <2>3, <2>4, <2>5, <2>6 DEF NodesOwn, Present
<1>8. ASSUME NEW n \in Node, ContainerExits(n) PROVE NodesOwn'
  <2>1. UNCHANGED <<nodes, pc, loc>> /\ ctr' = [ctr EXCEPT ![n] = [NoContainer EXCEPT !.cid = ctr[n].cid]]
    BY <1>8 DEF ContainerExits, tableVars
  <2>2. \A m \in Node : ctr'[m].cid = ctr[m].cid
    BY <1>1, <2>1 DEF NoContainer
  <2> QED
    BY <1>2, <2>1, <2>2, StaysMaking, OwnLasts
<1> QED
  BY <1>4, <1>5, <1>6, <1>7, <1>8 DEF Next, Call, NodeCall, OtherWriter, Fails

\* Every step but a restart.
LEMMA LifeKeepsOwn ==
  ASSUME RecInv, \A p, q \in Proc : p = q, NodesOwn, "writer" \notin FaultAt,
         [RecNext]_recVars, ~Restart
  PROVE  NodesOwn'
<1>1. IInv /\ JobsOK /\ LayersOK /\ ctr \in [Node -> Container]
  BY DEF RecInv, IInv, TypeOK
<1>2. [Next]_vars => NodesOwn'
  BY <1>1, NextKeepsOwn
<1>3. ASSUME UNCHANGED <<nodes, pc, loc>>, \A n \in Node : ctr'[n].cid \in {NoId, ctr[n].cid} PROVE NodesOwn'
  BY <1>1, <1>3, StaysMaking, OwnLasts DEF NodeLasts
<1>4. ASSUME NEW p \in Proc, SweepRemove(p) PROVE NodesOwn'
  <2>1. PICK x : RemoveContainer(x[1]) \/ UNCHANGED ctr \/ UNCHANGED dockerVars
    BY <1>1, <1>4, SweepRemoveGoes
  <2>2. UNCHANGED <<nodes, pc, loc>>
    BY <1>4 DEF SweepRemove, tableVars
  <2>3. UNCHANGED ctr \/ ctr' = [ctr EXCEPT ![x[1]] = NoContainer]
    BY <2>1 DEF RemoveContainer, dockerVars
  <2>4. \A n \in Node : ctr'[n].cid \in {NoId, ctr[n].cid}
    BY <1>1, <2>3 DEF NoContainer
  <2> QED
    BY <1>3, <2>2, <2>4
<1>5. ASSUME NEW p \in Proc, RepairEnd(p) PROVE NodesOwn'
  <2>1. PICK x \in job[p].found :
          /\ UNCHANGED <<nodes, pc, loc>>
          /\ \/ UNCHANGED ctr
             \/ \E k \in 0..2 : \E peer, duct :
                  ctr' = [ctr EXCEPT ![At(x[1], x[2])] =
                            ConfiguredUpTo(k, ctr[At(x[1], x[2])], peer, duct)]
    BY <1>5 DEF RepairEnd, InPhase, tableVars
  <2>2. PICK n : n = At(x[1], x[2])
    OBVIOUS
  <2>3. ASSUME NEW k \in 0..2, NEW peer, NEW duct,
               ctr' = [ctr EXCEPT ![n] = ConfiguredUpTo(k, ctr[n], peer, duct)]
        PROVE  \A m \in Node : ctr'[m].cid = ctr[m].cid
    BY <1>1, <2>3, IonLeavesIdentity
  <2>4. \A m \in Node : ctr'[m].cid = ctr[m].cid
    BY <2>1, <2>2, <2>3
  <2> QED
    BY <1>3, <2>1, <2>4
<1>6. ASSUME NEW p \in Proc, JobStep(p) PROVE NodesOwn'
  <2>1. CASE RunStep(p)
    BY <1>2, <2>1 DEF RunStep, Next
  <2>2. CASE Clean(p) \/ SweepNext(p) \/ MakeNode(p) \/ MakeLink(p)
    BY <1>1, <1>2, <2>2, CleanGoes, SweepNextGoes, MakeNodeGoes, MakeLinkGoes
  <2>3. CASE RepairStart(p) \/ RepairDone(p) \/ RollBack(p)
    BY <1>1, <1>2, <2>3, RepairStartGoes, RepairDoneGoes, RollBackGoes
  <2>4. CASE SweepList(p) \/ MakeDisrupted(p)
    BY <1>3, <2>4 DEF SweepList, MakeDisrupted, tableVars, dockerVars
  <2> QED
    BY <1>4, <1>5, <1>6, <2>1, <2>2, <2>3, <2>4 DEF JobStep
<1>7. ASSUME NEW p \in Proc, ClientCall(p) PROVE NodesOwn'
  BY <1>2, <1>7 DEF ClientCall, Next
<1>8. ASSUME NEW p \in Proc, NEW f, StartJob(p, f) PROVE NodesOwn'
  BY <1>2, <1>8 DEF StartJob
<1>9. CASE Outside
  BY <1>2, <1>9 DEF Outside, Next
<1>10. CASE UNCHANGED recVars
  BY <1>2, <1>10 DEF recVars
<1> QED
  BY <1>6, <1>7, <1>8, <1>9, <1>10 DEF RecNext

\* A restart makes a Node object of each container, with its identity.
LEMMA RestartKeepsOwn ==
  ASSUME Restart
  PROVE  NodesOwn'
<1>1. UNCHANGED ctr /\ pc' = [p \in Proc |-> "idle"]
  BY DEF Restart
<1>2. ASSUME NEW ns, NEW prs, NEW kept, NEW complete, Reconciled(ns, prs, kept, complete)
      PROVE  \A n \in Node : Present(n)' => nodes'[n].ref = [op |-> ctr[n].cid, named |-> TRUE]
  BY <1>2 DEF Reconciled, AdoptedNode, Present, NoNode
<1>3. \E ns, prs, kept, complete : Reconciled(ns, prs, kept, complete)
  BY DEF Restart
<1>4. \A n \in Node : Present(n)' => nodes'[n].ref = [op |-> ctr[n].cid, named |-> TRUE]
  BY <1>2, <1>3
<1> QED
  BY <1>1, <1>4 DEF NodesOwn

-----------------------------------------------------------------------------
(* Link objects and the subnets of their networks, one call at a time      *)

\* The index that a creator is about to have: that of the network it adopts.
Settling(label, l) == IF label = "cl_adopt" THEN l.real ELSE l.idx

\* It has the index of the network it has, if that is still there, and no Link object has
\* the identity that it will give to a network of its own.
BuilderSub(label, l) ==
  /\ Past(l.nid)
  /\ \A pr \in Pair : net[pr].nid # NoId /\ l.nid = net[pr].nid => Settling(label, l) = net[pr].sub
  /\ label \in {"cl_get", "cl_new", "cl_race"} => l.nid = NoId
  /\ label \in {"cl_get", "cl_new"} => \A i \in Id : obj[i].nid # l.op

\* A Link object has the subnet of its network, if that is still there.
ObjSub(i) ==
  /\ Past(obj[i].nid)
  /\ \A pr \in Pair : net[pr].nid # NoId /\ obj[i].nid = net[pr].nid => obj[i].idx = net[pr].sub

ObjSubs == \A i \in Id : ObjSub(i)

SubsOK ==
  /\ ObjSubs
  /\ \A p \in Proc : pc[p] \in CreateLinkLabel => BuilderSub(pc[p], loc[p])

\* A network that stays keeps its identity and its subnet.
SubLasts(pr) == net'[pr].nid = NoId \/ (net'[pr].nid = net[pr].nid /\ net'[pr].sub = net[pr].sub)

\* A creator that goes on with the network it has, or that has come to its end.
GoesOnLinking(p) ==
  pc'[p] \in CreateLinkLabel =>
    /\ pc[p] \in CreateLinkLabel /\ loc'[p].nid = loc[p].nid /\ loc'[p].op = loc[p].op
    /\ Settling(pc'[p], loc'[p]) = Settling(pc[p], loc[p])
    /\ pc'[p] \in {"cl_get", "cl_new", "cl_race"} => pc[p] \in {"cl_get", "cl_new", "cl_race"}
    /\ pc'[p] \in {"cl_get", "cl_new"} => pc[p] \in {"cl_get", "cl_new"}

\* What is bounded by a count stays bounded when the count grows.
LEMMA LaterBound ==
  \A a, b, i \in Nat : a <= b /\ i <= a + 1 => i <= b + 1
  OBVIOUS

\* No network is made, and no object gets another one.
LEMMA SubsLast ==
  ASSUME IInv, SubsOK, UNCHANGED obj, started' \in Nat, started <= started',
         \A pr \in Pair : SubLasts(pr), \A p \in Proc : GoesOnLinking(p)
  PROVE  SubsOK'
<1>1. \A i \in Nat : Past(i) => Past(i)'
  <2>1. started \in Nat
    BY IdsAreNat
  <2> QED
    BY <2>1, LaterBound DEF Past
<1>2. (\A i \in Id : obj[i].nid \in Nat) /\ (\A p \in Proc : loc[p].nid \in Nat)
  <2>1. Id \union {NoId} \subseteq Nat
    BY BoundAssumption DEF Id, Boot, NoId
  <2>2. \A i \in Id : obj[i].nid \in Id \union {NoId}
    BY DEF IInv, TypeOK, LinkObject
  <2>3. \A p \in Proc : loc[p].nid \in Id \union {NoId}
    BY ThreadFacts DEF Local
  <2> QED
    BY <2>1, <2>2, <2>3
<1>3. \A i \in Id : Past(obj[i].nid)' /\ \A pr \in Pair : net'[pr].nid # NoId /\ obj'[i].nid = net'[pr].nid => obj'[i].idx = net'[pr].sub
  BY <1>1, <1>2 DEF SubsOK, ObjSubs, ObjSub, SubLasts, Past
<1>4. ASSUME NEW p \in Proc, pc'[p] \in CreateLinkLabel PROVE BuilderSub(pc[p], loc[p])'
  <2>1. BuilderSub(pc[p], loc[p]) /\ loc'[p].nid = loc[p].nid
        /\ Settling(pc'[p], loc'[p]) = Settling(pc[p], loc[p])
    BY <1>4 DEF SubsOK, GoesOnLinking
  <2>2. Past(loc[p].nid)'
    BY <1>1, <1>2, <2>1 DEF BuilderSub, Past
  <2>3. \A pr \in Pair : net'[pr].nid # NoId /\ loc'[p].nid = net'[pr].nid => Settling(pc'[p], loc'[p]) = net'[pr].sub
    BY <2>1 DEF BuilderSub, SubLasts
  <2> QED
    BY <1>4, <2>1, <2>2, <2>3 DEF BuilderSub, GoesOnLinking
<1> QED
  BY <1>3, <1>4 DEF SubsOK, ObjSubs, ObjSub

\* The step of one thread.
LEMMA OneGoesOnLinking ==
  ASSUME IInv, \A p, q \in Proc : p = q, NEW p \in Proc, NEW label, NEW l, Goto(p, label, l),
         label \in CreateLinkLabel =>
           /\ pc[p] \in CreateLinkLabel /\ l.nid = loc[p].nid /\ l.op = loc[p].op
           /\ Settling(label, l) = Settling(pc[p], loc[p])
           /\ label \in {"cl_get", "cl_new", "cl_race"} => pc[p] \in {"cl_get", "cl_new", "cl_race"}
           /\ label \in {"cl_get", "cl_new"} => pc[p] \in {"cl_get", "cl_new"}
  PROVE  \A q \in Proc : GoesOnLinking(q)
<1>1. pc'[p] = label /\ loc'[p] = l /\ \A q \in Proc : q = p
  BY DEF Goto, IInv, TypeOK
<1>2. GoesOnLinking(p)
  BY <1>1 DEF GoesOnLinking
<1> QED
  BY <1>1, <1>2

\* A creator that has come to a network.
LEMMA HaveNetworkSub ==
  ASSUME IInv, \A p, q \in Proc : p = q, NEW p \in Proc, NEW nid, NEW real, NEW made \in BOOLEAN,
         HaveNetwork(p, nid, real, made), nid # Boot, nid <= started' + 1, ObjSubs',
         \A pr \in Pair : net'[pr].nid # NoId /\ nid = net'[pr].nid => real = net'[pr].sub
  PROVE  SubsOK'
<1>1. DOMAIN loc[p] = DOMAIN NoLocal /\ pc \in [Proc -> Label] /\ loc \in [Proc -> Local]
  BY DEF IInv, TypeOK, Local, NoLocal
<1>2. PICK l : l = [loc[p] EXCEPT !.nid = nid, !.real = real, !.made = made]
  OBVIOUS
<1>3. l.nid = nid /\ l.real = real
  BY <1>1, <1>2 DEF NoLocal
<1>4. loc'[p] = l /\ pc'[p] = IF real = l.idx THEN "cl_ctrs" ELSE "cl_adopt"
  BY <1>1, <1>2 DEF HaveNetwork, Goto
<1>5. Settling(pc'[p], loc'[p]) = real
  BY <1>3, <1>4 DEF Settling
<1>6. BuilderSub(pc[p], loc[p])'
  BY <1>3, <1>4, <1>5 DEF BuilderSub, Past
<1>7. \A q \in Proc : q = p
  OBVIOUS
<1> QED
  BY <1>6, <1>7 DEF SubsOK

\* The steps at which a creator comes to its network.
LEMMA FoundNetworkSub ==
  ASSUME IInv, \A p, q \in Proc : p = q, NetsOK, SubsOK, NEW p \in Proc, ClGet(p) \/ ClRace(p)
  PROVE  SubsOK'
<1>1. pc[p] \in {"cl_get", "cl_race"} /\ pc[p] \in CreateLinkLabel /\ UNCHANGED <<net, obj, started>>
  BY DEF ClGet, ClRace, CreateLinkLabel, tableVars, dockerVars
<1>2. PICK pr \in Pair : pr = loc[p].pr
  BY <1>1, LinkFacts DEF LinkLabel
<1>3. CASE net[pr].nid # NoId /\ HaveNetwork(p, net[pr].nid, net[pr].sub, FALSE)
  <2>1. \A qr \in Pair : net'[qr].nid # NoId /\ net[pr].nid = net'[qr].nid => net[pr].sub = net'[qr].sub
    BY <1>1 DEF NetsOK
  <2>2. ObjSubs'
    BY <1>1 DEF SubsOK, ObjSubs, ObjSub, Past
  <2>3. PICK nid, real : nid = net[pr].nid /\ real = net[pr].sub
    OBVIOUS
  <2>4. nid # Boot /\ nid <= started' + 1
    BY <1>1, <2>3 DEF NetsOK, Past
  <2>5. \E made \in BOOLEAN : HaveNetwork(p, nid, real, made)
    BY <1>3, <2>3
  <2>6. \A qr \in Pair : net'[qr].nid # NoId /\ nid = net'[qr].nid => real = net'[qr].sub
    BY <2>1, <2>3
  <2> QED
    BY <2>2, <2>4, <2>5, <2>6, HaveNetworkSub
<1>4. CASE ~(net[pr].nid # NoId /\ HaveNetwork(p, net[pr].nid, net[pr].sub, FALSE))
  <2>1. Goto(p, "cl_undo", loc[p]) \/ (pc[p] = "cl_get" /\ Goto(p, "cl_new", loc[p]))
    BY <1>2, <1>4 DEF ClGet, ClRace, Undo
  <2>2. \A q \in Proc : GoesOnLinking(q)
    BY <1>1, <2>1, OneGoesOnLinking DEF Settling, CreateLinkLabel
  <2>3. started' \in Nat /\ started <= started'
    BY <1>1, IdsAreNat
  <2> QED
    BY <1>1, <2>2, <2>3, SubsLast DEF SubLasts
<1> QED
  BY <1>3, <1>4

\* The network that a creator makes has its index, and no object has its identity yet.
LEMMA ClNewSub ==
  ASSUME IInv, \A p, q \in Proc : p = q, NetsOK, SubsOK, NEW p \in Proc, ClNew(p)
  PROVE  SubsOK'
<1>1. /\ pc[p] = "cl_new" /\ pc[p] \in CreateLinkLabel /\ UNCHANGED <<obj, started>>
      /\ net \in [Pair -> Network] /\ BuilderSub(pc[p], loc[p]) /\ pc \in [Proc -> Label] /\ loc \in [Proc -> Local]
  BY DEF ClNew, CreateLinkLabel, tableVars, IInv, TypeOK, SubsOK
<1>2. PICK at \in Pair, id \in Id, idx \in Index : at = loc[p].pr /\ id = loc[p].op /\ idx = loc[p].idx
  BY <1>1, LinkFacts, ThreadFacts DEF LocalOK, LinkLabel
<1>3. CASE UNCHANGED net /\ (Goto(p, "cl_race", loc[p]) \/ Undo(p))
  <2>1. \A q \in Proc : GoesOnLinking(q)
    BY <1>1, <1>3, OneGoesOnLinking DEF Settling, CreateLinkLabel, Undo
  <2>2. started' \in Nat /\ started <= started'
    BY <1>1, IdsAreNat
  <2> QED
    BY <1>1, <1>3, <2>1, <2>2, SubsLast DEF SubLasts
<1>4. CASE ~(UNCHANGED net /\ (Goto(p, "cl_race", loc[p]) \/ Undo(p)))
  <2>1. PICK k : k = [nid |-> id, sub |-> idx, att |-> {}]
    OBVIOUS
  <2>2. net' = [net EXCEPT ![at] = k] /\ (HaveNetwork(p, id, idx, TRUE) \/ Undo(p))
    BY <1>2, <1>4, <2>1 DEF ClNew
  <2>3. k.nid = id /\ k.sub = idx
    BY <2>1
  <2>4. net'[at] = k /\ \A pr \in Pair \ {at} : net'[pr] = net[pr] /\ net[pr].nid # id
    BY <1>1, <1>2, <2>2 DEF NetsOK
  <2>5. ObjSubs'
    <3>1. \A i \in Id : obj[i].nid # id /\ Past(obj[i].nid)
                        /\ \A pr \in Pair : net[pr].nid # NoId /\ obj[i].nid = net[pr].nid => obj[i].idx = net[pr].sub
      BY <1>1, <1>2 DEF BuilderSub, SubsOK, ObjSubs, ObjSub
    <3> QED
      BY <1>1, <2>3, <2>4, <3>1 DEF ObjSubs, ObjSub, Past
  <2>6. id # Boot /\ id <= started' + 1
    BY <1>1, <1>2 DEF NetsOK, Past
  <2>7. CASE HaveNetwork(p, id, idx, TRUE)
    <3>1. \A pr \in Pair : net'[pr].nid # NoId /\ id = net'[pr].nid => idx = net'[pr].sub
      BY <2>3, <2>4
    <3>2. \E made \in BOOLEAN : HaveNetwork(p, id, idx, made)
      BY <2>7
    <3> QED
      BY <2>5, <2>6, <3>1, <3>2, HaveNetworkSub
  <2>8. CASE Undo(p)
    <3>1. pc'[p] = "cl_undo" /\ loc'[p] = loc[p] /\ loc[p].nid = NoId
      BY <1>1, <2>8 DEF Undo, Goto, BuilderSub
    <3>2. BuilderSub(pc[p], loc[p])'
      BY <1>1, <3>1 DEF BuilderSub, Past
    <3>3. \A q \in Proc : q = p
      OBVIOUS
    <3> QED
      BY <2>5, <3>2, <3>3 DEF SubsOK
  <2> QED
    BY <2>2, <2>7, <2>8
<1> QED
  BY <1>3, <1>4

\* The commit gives the object the network of its creator, and the index of that network.
LEMMA ClCommitSub ==
  ASSUME IInv, \A p, q \in Proc : p = q, SubsOK, NEW p \in Proc, ClCommit(p)
  PROVE  SubsOK'
<1>1. /\ pc[p] = "cl_commit" /\ pc[p] \in CreateLinkLabel /\ UNCHANGED <<net, started>>
      /\ BuilderSub(pc[p], loc[p]) /\ pc \in [Proc -> Label] /\ obj \in [Id -> LinkObject]
  BY DEF ClCommit, CreateLinkLabel, dockerVars, IInv, TypeOK, SubsOK
<1>2. CASE links[loc[p].pr] = NoId
  <2>1. Goto(p, "cl_undo", loc[p]) /\ UNCHANGED obj
    BY <1>2 DEF ClCommit, Undo
  <2>2. \A q \in Proc : GoesOnLinking(q)
    BY <1>1, <2>1, OneGoesOnLinking DEF Settling
  <2>3. started' \in Nat /\ started <= started'
    BY <1>1, IdsAreNat
  <2> QED
    BY <1>1, <2>1, <2>2, <2>3, SubsLast DEF SubLasts
<1>3. CASE links[loc[p].pr] # NoId
  <2>1. PICK i \in Id : i = links[loc[p].pr]
    BY <1>1, <1>3, LinkFacts DEF LinkLabel
  <2>2. PICK k : k = [obj[i] EXCEPT !.named = TRUE, !.nid = loc[p].nid, !.idx = loc[p].idx, !.st = LinkStatus(loc[p])]
    OBVIOUS
  <2>3. k.nid = loc[p].nid /\ k.idx = loc[p].idx
    BY <1>1, <2>2 DEF LinkObject
  <2>4. obj' = [obj EXCEPT ![i] = k] /\ Goto(p, "idle", NoLocal)
    BY <1>3, <2>1, <2>2 DEF ClCommit, Finish
  <2>5. obj'[i] = k /\ \A x \in Id \ {i} : obj'[x] = obj[x]
    BY <1>1, <2>4
  <2>6. /\ Past(loc[p].nid)
        /\ \A pr \in Pair : net[pr].nid # NoId /\ loc[p].nid = net[pr].nid => loc[p].idx = net[pr].sub
    BY <1>1 DEF BuilderSub, Settling
  <2>7. ObjSubs'
    <3>1. ASSUME NEW x \in Id
          PROVE  Past(obj'[x].nid) /\ \A pr \in Pair : net[pr].nid # NoId /\ obj'[x].nid = net[pr].nid => obj'[x].idx = net[pr].sub
      <4>1. CASE x = i
        BY <2>3, <2>5, <2>6, <4>1
      <4>2. CASE x # i
        BY <2>5, <4>2 DEF SubsOK, ObjSubs, ObjSub
      <4> QED
        BY <4>1, <4>2
    <3> QED
      BY <1>1, <3>1 DEF ObjSubs, ObjSub, Past
  <2>8. \A q \in Proc : pc'[q] \notin CreateLinkLabel
    <3>1. \A q \in Proc : q = p
      OBVIOUS
    <3> QED
      BY <1>1, <2>4, <3>1 DEF Goto, CreateLinkLabel
  <2> QED
    BY <2>7, <2>8 DEF SubsOK
<1> QED
  BY <1>2, <1>3

\* Every step of the four operations.
LEMMA StepKeepsSubs ==
  ASSUME IInv, \A p, q \in Proc : p = q, NetsOK, SubsOK, NEW p \in Proc, Step(p)
  PROVE  SubsOK'
<1>1. CASE ClGet(p) \/ ClRace(p) \/ ClNew(p) \/ ClCommit(p)
  BY <1>1, FoundNetworkSub, ClNewSub, ClCommitSub
<1>2. CASE ~(ClGet(p) \/ ClRace(p) \/ ClNew(p) \/ ClCommit(p))
  <2>1. UNCHANGED <<obj, started>>
    BY <1>2 DEF Step, LinkStep, NodeStep, ClAdopt, ClContainers, ClConnect, ClReady, ClConfig,
       ClUndo, ClUnnet, ClUnreserve, DlIon, DlGet, DlDisconnect, DlRemove, DlFinish, CnStale,
       CnDir, CnRun, CnCheck, CnCommit, CnUndo, CnUnreserve, DnNext, DnContainer, DnFinish,
       tableVars, nodeOpUnchanged
  <2>2. started' \in Nat /\ started <= started'
    BY <2>1, IdsAreNat
  <2>3. \A pr \in Pair : SubLasts(pr)
    BY <1>2, StepNets DEF Lasts, SubLasts
  <2>4. \A q \in Proc : GoesOnLinking(q)
    <3>1. DOMAIN loc[p] = DOMAIN NoLocal
      BY DEF IInv, TypeOK, Local, NoLocal
    <3>2. CASE pc'[p] \notin CreateLinkLabel
      <4>1. \A q \in Proc : q = p
        OBVIOUS
      <4> QED
        BY <3>2, <4>1 DEF GoesOnLinking
    <3>3. CASE pc'[p] \in CreateLinkLabel
      <4>1. pc[p] \in CreateLinkLabel
        BY <3>3, StepLabels
      <4>2. \E label \in CreateLinkLabel \ {"cl_get", "cl_new", "cl_race", "cl_adopt"} : \E l :
              /\ Goto(p, label, l) /\ l.nid = loc[p].nid /\ l.op = loc[p].op
              /\ l.idx = Settling(pc[p], loc[p])
        <5> USE DEF CreateLinkLabel
        <5>1. \A l : ~Goto(p, "idle", l)
          BY <3>3 DEF Goto, IInv, TypeOK
        <5>2. CASE ClAdopt(p)
          BY <3>1, <5>2 DEF ClAdopt, Settling, NoLocal
        <5>3. CASE ClContainers(p)
          BY <3>1, <5>3 DEF ClContainers, Undo, Settling, NoLocal
        <5>4. CASE ClConnect(p)
          <6>1. PICK l : l = [loc[p] EXCEPT !.con = @ \union {loc[p].side}, !.side = Other(@)]
            OBVIOUS
          <6>2. l.nid = loc[p].nid /\ l.op = loc[p].op /\ l.idx = loc[p].idx
            BY <3>1, <6>1 DEF NoLocal
          <6>3. \E label \in {"cl_connect", "cl_ready"} : Goto(p, label, l) \/ Goto(p, "cl_undo", loc[p])
            BY <5>4, <6>1 DEF ClConnect, Undo
          <6>4. pc[p] = "cl_connect"
            BY <5>4 DEF ClConnect
          <6> QED
            BY <6>2, <6>3, <6>4 DEF Settling
        <5>5. CASE ClReady(p)
          <6>1. pc[p] = "cl_ready" /\ \E ups : Goto(p, "cl_config", [loc[p] EXCEPT !.rdy = ups])
            BY <5>5 DEF ClReady
          <6>2. PICK ups : Goto(p, "cl_config", [loc[p] EXCEPT !.rdy = ups])
            BY <6>1
          <6>3. PICK l : l = [loc[p] EXCEPT !.rdy = ups]
            OBVIOUS
          <6>4. l.nid = loc[p].nid /\ l.op = loc[p].op /\ l.idx = loc[p].idx
            BY <3>1, <6>3 DEF NoLocal
          <6> QED
            BY <6>1, <6>2, <6>3, <6>4 DEF Settling
        <5>6. CASE ClConfig(p)
          <6>1. pc[p] = "cl_config"
            BY <5>6 DEF ClConfig
          <6>2. \E ok : \E label \in {"cl_config", "cl_commit"} :
                  \/ Goto(p, label, [loc[p] EXCEPT !.side = Other(@), !.ok = @ /\ ok])
                  \/ Goto(p, "cl_undo", loc[p])
            BY <5>6 DEF ClConfig, Undo
          <6>3. PICK ok : \E label \in {"cl_config", "cl_commit"} :
                  \/ Goto(p, label, [loc[p] EXCEPT !.side = Other(@), !.ok = @ /\ ok])
                  \/ Goto(p, "cl_undo", loc[p])
            BY <6>2
          <6>4. PICK l : l = [loc[p] EXCEPT !.side = Other(@), !.ok = @ /\ ok]
            OBVIOUS
          <6>5. l.nid = loc[p].nid /\ l.op = loc[p].op /\ l.idx = loc[p].idx
            BY <3>1, <6>4 DEF NoLocal
          <6> QED
            BY <6>1, <6>3, <6>4, <6>5 DEF Settling
        <5>7. CASE ClUndo(p) \/ ClUnnet(p)
          BY <5>7 DEF ClUndo, ClUnnet, AfterDisconnect, Settling
        <5>8. CASE ClUnreserve(p)
          BY <5>1, <5>8 DEF ClUnreserve, Finish
        <5>9. ~(DlIon(p) \/ DlGet(p) \/ DlDisconnect(p) \/ DlRemove(p) \/ DlFinish(p) \/ NodeStep(p))
          BY <4>1 DEF NodeStep, DlIon, DlGet, DlDisconnect, DlRemove, DlFinish, CnStale, CnDir,
             CnRun, CnCheck, CnCommit, CnUndo, CnUnreserve, DnNext, DnContainer, DnFinish
        <5> QED
          BY <1>2, <5>2, <5>3, <5>4, <5>5, <5>6, <5>7, <5>8, <5>9 DEF Step, LinkStep
      <4>3. PICK label \in CreateLinkLabel \ {"cl_get", "cl_new", "cl_race", "cl_adopt"} : \E l :
              /\ Goto(p, label, l) /\ l.nid = loc[p].nid /\ l.op = loc[p].op
              /\ l.idx = Settling(pc[p], loc[p])
        BY <4>2
      <4>4. PICK l : /\ Goto(p, label, l) /\ l.nid = loc[p].nid /\ l.op = loc[p].op
                     /\ l.idx = Settling(pc[p], loc[p])
        BY <4>3
      <4>5. Settling(label, l) = l.idx
        BY <4>3 DEF Settling
      <4> QED
        BY <4>1, <4>3, <4>4, <4>5, OneGoesOnLinking
    <3> QED
      BY <3>2, <3>3
  <2> QED
    BY <2>1, <2>2, <2>3, <2>4, SubsLast
<1> QED
  BY <1>1, <1>2

\* The reservation of create_link takes an identity that no object has as its network's.
LEMMA CreateLinkSub ==
  ASSUME IInv, \A p, q \in Proc : p = q, SubsOK, NEW p \in Proc, NEW pr \in Pair, NEW cl \in CL,
         CreateLink(p, pr, cl)
  PROVE  SubsOK'
<1>1. /\ UNCHANGED net /\ started' = started + 1 /\ obj \in [Id -> LinkObject]
      /\ pc \in [Proc -> Label] /\ loc \in [Proc -> Local]
  BY DEF CreateLink, Begin, dockerVars, IInv, TypeOK
<1>2. PICK s \in Nat : s = started
  BY IdsAreNat
<1>3. started' \in Nat /\ started <= started' /\ started' = s + 1
  BY <1>1, <1>2
<1>4. CASE UNCHANGED <<obj, pc, loc>>
  <2>1. \A q \in Proc : GoesOnLinking(q)
    BY <1>4 DEF GoesOnLinking
  <2> QED
    BY <1>1, <1>3, <1>4, <2>1, SubsLast DEF SubLasts
<1>5. CASE ~UNCHANGED <<obj, pc, loc>>
  <2>1. PICK new \in Nat : new = NewId /\ new = s + 2 /\ new # NoId
    BY <1>2 DEF NewId, NoId
  <2>2. \E k, l : /\ obj' = [obj EXCEPT ![new] = k] /\ k.nid = NoId
                  /\ Goto(p, "cl_get", l) /\ l.op = new /\ l.nid = NoId
    <3>1. PICK k : k = [idx |-> Issued(pool), named |-> FALSE, nid |-> NoId, cl |-> cl, st |-> "down"]
      OBVIOUS
    <3>2. PICK l : l = [NoLocal EXCEPT !.op = NewId, !.call = "create_link", !.pr = pr, !.cl = cl,
                                       !.idx = Issued(pool), !.ref = [x \in Side |-> nodes[At(pr, x)].ref]]
      OBVIOUS
    <3>3. l.op = NewId /\ l.nid = NoId
      BY <3>2 DEF NoLocal
    <3>4. obj' = [obj EXCEPT ![NewId] = k] /\ Goto(p, "cl_get", l)
      BY <1>5, <3>1, <3>2 DEF CreateLink
    <3>5. k.nid = NoId /\ obj' = [obj EXCEPT ![new] = k] /\ l.op = new
      BY <2>1, <3>1, <3>3, <3>4
    <3> QED
      BY <3>3, <3>4, <3>5
  <2>3. PICK k, l : /\ obj' = [obj EXCEPT ![new] = k] /\ k.nid = NoId
                    /\ Goto(p, "cl_get", l) /\ l.op = new /\ l.nid = NoId
    BY <2>2
  <2>4. pc'[p] = "cl_get" /\ loc'[p] = l /\ \A q \in Proc : q = p
    BY <1>1, <2>3 DEF Goto
  <2>5. \A i \in Id : obj[i].nid # new /\ obj[i].nid # Boot /\ obj[i].nid <= started' + 1
    <3>1. \A i \in Id : obj[i].nid \in Id \union {NoId}
      BY <1>1 DEF LinkObject
    <3>2. Id \union {NoId} \subseteq Nat
      BY BoundAssumption DEF Id, Boot, NoId
    <3>3. \A i \in Id : obj[i].nid # Boot /\ obj[i].nid <= s + 1
      BY <1>2 DEF SubsOK, ObjSubs, ObjSub, Past
    <3>4. \A i \in Id : obj[i].nid <= (s + 1) + 1 /\ obj[i].nid # s + 2
      BY <3>1, <3>2, <3>3, NextIdentity
    <3> QED
      BY <1>3, <2>1, <3>3, <3>4
  <2>6. NoId # Boot /\ NoId <= started' + 1 /\ NoId # new
    BY <1>3, <2>1 DEF NoId, Boot
  <2>7. \A i \in Id : obj'[i] = obj[i] \/ obj'[i].nid = NoId
    BY <1>1, <2>3
  <2>8. \A i \in Id : obj'[i].nid # new /\ obj'[i].nid # Boot /\ obj'[i].nid <= started' + 1
    BY <2>5, <2>6, <2>7
  <2>9. ObjSubs'
    <3>1. \A i \in Id, qr \in Pair : net'[qr].nid # NoId /\ obj'[i].nid = net'[qr].nid => obj'[i].idx = net'[qr].sub
      BY <1>1, <2>7 DEF SubsOK, ObjSubs, ObjSub
    <3> QED
      BY <2>8, <3>1 DEF ObjSubs, ObjSub, Past
  <2>10. BuilderSub(pc[p], loc[p])'
    BY <2>3, <2>4, <2>6, <2>8 DEF BuilderSub, Past
  <2> QED
    BY <2>4, <2>9, <2>10 DEF SubsOK
<1> QED
  BY <1>4, <1>5

\* Every step of the system below.
LEMMA NextKeepsSubs ==
  ASSUME IInv, \A p, q \in Proc : p = q, NetsOK, SubsOK, "writer" \notin FaultAt, [Next]_vars
  PROVE  SubsOK'
<1>1. ASSUME UNCHANGED <<obj, pc, loc, started>>, \A pr \in Pair : SubLasts(pr) PROVE SubsOK'
  <2>1. \A q \in Proc : GoesOnLinking(q)
    BY <1>1 DEF GoesOnLinking
  <2>2. started' \in Nat /\ started <= started'
    BY <1>1, IdsAreNat
  <2> QED
    BY <1>1, <2>1, <2>2, SubsLast
<1>2. CASE UNCHANGED vars
  BY <1>1, <1>2 DEF vars, SubLasts
<1>3. ASSUME NEW p \in Proc, Step(p) PROVE SubsOK'
  BY <1>3, StepKeepsSubs
<1>4. ASSUME NEW p \in Proc, (\E pr \in Pair : DeleteLink(p, pr)) \/ NodeCall(p) PROVE SubsOK'
  <2>1. UNCHANGED <<net, obj>> /\ started' = started + 1
        /\ \E label \in {"dl_ion", "cn_stale", "dn_next"} : \E l : Goto(p, label, l)
    BY <1>4 DEF NodeCall, DeleteLink, CreateNode, DeleteNode, Begin, tableVars, nodeOpUnchanged, dockerVars
  <2>2. PICK label \in {"dl_ion", "cn_stale", "dn_next"} : \E l : Goto(p, label, l)
    BY <2>1
  <2>3. label \notin CreateLinkLabel
    BY DEF CreateLinkLabel
  <2>4. \A q \in Proc : GoesOnLinking(q)
    BY <2>2, <2>3, OneGoesOnLinking
  <2>5. started' \in Nat /\ started <= started'
    BY <2>1, IdsAreNat
  <2> QED
    BY <2>1, <2>4, <2>5, SubsLast DEF SubLasts
<1>5. ASSUME NEW n \in Node, ContainerExits(n) PROVE SubsOK'
  <2>1. UNCHANGED <<obj, pc, loc, started>> /\ net' = DetachedEverywhere(n)
    BY <1>5 DEF ContainerExits, tableVars
  <2>2. \A pr \in Pair : NetKept(pr)
    BY <2>1, NetsKept
  <2> QED
    BY <1>1, <2>1, <2>2 DEF NetKept, SubLasts
<1> QED
  BY <1>2, <1>3, <1>4, <1>5, CreateLinkSub DEF Next, Call, LinkCall, OtherWriter, Fails

\* Every step but a restart.
LEMMA LifeKeepsSubs ==
  ASSUME RecInv, \A p, q \in Proc : p = q, SubsOK, "writer" \notin FaultAt,
         [RecNext]_recVars, ~Restart
  PROVE  SubsOK'
<1>1. IInv /\ JobsOK /\ LayersOK /\ NetsOK /\ net \in [Pair -> Network]
  BY DEF RecInv, IInv, TypeOK
<1>2. [Next]_vars => SubsOK'
  BY <1>1, NextKeepsSubs
<1>3. ASSUME UNCHANGED <<obj, pc, loc, started>>, \A pr \in Pair : SubLasts(pr) PROVE SubsOK'
  <2>1. \A q \in Proc : GoesOnLinking(q)
    BY <1>3 DEF GoesOnLinking
  <2>2. started' \in Nat /\ started <= started'
    BY <1>1, <1>3, IdsAreNat
  <2> QED
    BY <1>1, <1>3, <2>1, <2>2, SubsLast
<1>4. UNCHANGED net => \A pr \in Pair : SubLasts(pr)
  BY DEF SubLasts
<1>5. ASSUME NEW p \in Proc, SweepRemove(p) PROVE SubsOK'
  <2>1. PICK x : /\ Head(job[p].entries) = "containers" => x[1] \in Node
                 /\ \/ RemoveContainer(x[1]) /\ Head(job[p].entries) = "containers"
                    \/ net' = [net EXCEPT ![x[1]] = NoNetwork]
                    \/ UNCHANGED dockerVars
    BY <1>1, <1>5, SweepRemoveGoes
  <2>2. UNCHANGED <<obj, pc, loc, started>>
    BY <1>5 DEF SweepRemove, tableVars
  <2>3. CASE RemoveContainer(x[1]) /\ Head(job[p].entries) = "containers"
    <3>0. PICK n \in Node : n = x[1]
      BY <2>1, <2>3
    <3>1. \A pr \in Pair : NetKept(pr)
      BY <1>1, <2>3, <3>0, NetsKept DEF RemoveContainer
    <3> QED
      BY <1>3, <2>2, <3>1 DEF NetKept, SubLasts
  <2>4. CASE net' = [net EXCEPT ![x[1]] = NoNetwork]
    <3>1. \A pr \in Pair : net'[pr] = net[pr] \/ net'[pr] = NoNetwork
      BY <1>1, <2>4
    <3> QED
      BY <1>3, <2>2, <3>1 DEF SubLasts, NoNetwork
  <2> QED
    BY <1>3, <1>4, <2>1, <2>2, <2>3, <2>4 DEF dockerVars
<1>6. ASSUME NEW p \in Proc, JobStep(p) PROVE SubsOK'
  <2>1. CASE RunStep(p)
    BY <1>2, <2>1 DEF RunStep, Next
  <2>2. CASE Clean(p) \/ SweepNext(p) \/ MakeNode(p) \/ MakeLink(p)
    BY <1>1, <1>2, <2>2, CleanGoes, SweepNextGoes, MakeNodeGoes, MakeLinkGoes
  <2>3. CASE RepairStart(p) \/ RepairDone(p) \/ RollBack(p)
    BY <1>1, <1>2, <2>3, RepairStartGoes, RepairDoneGoes, RollBackGoes
  <2>4. CASE SweepList(p) \/ MakeDisrupted(p) \/ RepairEnd(p)
    BY <1>3, <1>4, <2>4 DEF SweepList, MakeDisrupted, RepairEnd, tableVars, dockerVars
  <2> QED
    BY <1>5, <1>6, <2>1, <2>2, <2>3, <2>4 DEF JobStep
<1>7. ASSUME NEW p \in Proc, ClientCall(p) PROVE SubsOK'
  BY <1>2, <1>7 DEF ClientCall, Next
<1>8. ASSUME NEW p \in Proc, NEW f, StartJob(p, f) PROVE SubsOK'
  BY <1>2, <1>8 DEF StartJob
<1>9. CASE Outside
  BY <1>2, <1>9 DEF Outside, Next
<1>10. CASE UNCHANGED recVars
  BY <1>2, <1>10 DEF recVars
<1> QED
  BY <1>6, <1>7, <1>8, <1>9, <1>10 DEF RecNext

\* A restart makes an object of each network that it adopts, with its subnet.
LEMMA RestartKeepsSubs ==
  ASSUME RecInv, Restart
  PROVE  SubsOK'
<1>1. /\ pc' = [p \in Proc |-> "idle"] /\ UNCHANGED started /\ net \in [Pair -> Network] /\ NetsOK
      /\ \A p \in Proc : pc'[p] \notin CreateLinkLabel
  BY DEF Restart, RecInv, IInv, TypeOK, CreateLinkLabel
<1>2. ASSUME NEW ns, NEW prs \in SUBSET Pair, NEW kept, NEW complete \in BOOLEAN,
             Reconciled(ns, prs, kept, complete)
      PROVE  ObjSubs'
  <2>1. PICK mine : mine = {pr \in prs : ~Orphan(pr)}
    OBVIOUS
  <2>2. /\ mine \subseteq Pair
        /\ obj' = [i \in Id |-> IF \E pr \in mine : net[pr].nid = i
                                THEN AdoptedLink(CHOOSE pr \in mine : net[pr].nid = i, ns)
                                ELSE NoLink]
        /\ \E gone : net' = [pr \in Pair |-> IF pr \in gone THEN NoNetwork ELSE net[pr]]
    BY <1>2, <2>1 DEF Reconciled
  <2>3. \A pr \in Pair : net'[pr] = NoNetwork \/ net'[pr] = net[pr]
    BY <2>2
  <2>4. ASSUME NEW i \in Id
        PROVE  /\ obj'[i].nid # Boot /\ obj'[i].nid <= started + 1
               /\ \A pr \in Pair : net'[pr].nid # NoId /\ obj'[i].nid = net'[pr].nid => obj'[i].idx = net'[pr].sub
    <3>1. CASE \E pr \in mine : net[pr].nid = i
      <4>1. PICK at \in Pair : at = (CHOOSE pr \in mine : net[pr].nid = i) /\ net[at].nid = i
        BY <2>2, <3>1
      <4>2. obj'[i].nid = net[at].nid /\ obj'[i].idx = net[at].sub
        BY <2>2, <3>1, <4>1 DEF AdoptedLink
      <4> QED
        BY <1>1, <2>3, <4>2 DEF NetsOK, Past, NoNetwork
    <3>2. CASE ~\E pr \in mine : net[pr].nid = i
      <4>1. obj'[i].nid = NoId
        BY <2>2, <3>2 DEF NoLink
      <4>2. NoId # Boot /\ NoId <= started + 1
        BY IdsAreNat DEF RecInv, NoId, Boot
      <4> QED
        BY <4>1, <4>2
    <3> QED
      BY <3>1, <3>2
  <2> QED
    BY <1>1, <2>4 DEF ObjSubs, ObjSub, Past
<1>3. \E ns, kept : \E prs \in SUBSET Pair, complete \in BOOLEAN : Reconciled(ns, prs, kept, complete)
  <2>1. Labelled \subseteq Pair /\ {} \subseteq Pair
    BY DEF Labelled
  <2>2. CASE Reconciled(Containers, Labelled, {}, TRUE)
    BY <2>1, <2>2
  <2>3. CASE \E pr \in Labelled : Reconciled(Containers, Labelled, {pr}, TRUE)
    BY <2>1, <2>3
  <2>4. CASE Reconciled({}, {}, {}, FALSE)
    BY <2>1, <2>4
  <2>5. CASE \E prs \in SUBSET Labelled : Reconciled(Containers, prs, {}, FALSE)
    BY <2>1, <2>5
  <2> QED
    BY <2>2, <2>3, <2>4, <2>5 DEF Restart
<1>4. ObjSubs'
  BY <1>2, <1>3
<1> QED
  BY <1>1, <1>4 DEF SubsOK

\* What a restart between two calls leaves to its clients.
LEMMA RestartChangesNothing ==
  ASSUME RecInv, EndsRun, Tidy, NodesOwn, SubsOK, Quiet, Restart, seeded'
  PROVE  /\ \A n \in Node : Present(n) /\ ctr[n].cid # NoId => nodes'[n].ref = nodes[n].ref
         /\ \A pr \in LinkNames :
              LET old == obj[links[pr]]
                  new == obj'[links'[pr]]
              IN old.nid = net[pr].nid /\ pr \in Labelled /\ ~Orphan(pr) =>
                   /\ links'[pr] # NoId /\ new.idx = old.idx
                   /\ old.st = "up" /\ net[pr].att = Ends(pr) => new.st = "up"
                   /\ \A n \in Ends(pr) : pr \in nodes[n].ips /\ ctr[n].cid # NoId => pr \in nodes'[n].ips
<1>1. Reconciled(Containers, Labelled, {}, TRUE)
  BY DEF Restart, Reconciled
<1>2. PICK mine : mine = {q \in Labelled : ~Orphan(q)}
  OBVIOUS
<1>3. /\ mine \subseteq Pair
      /\ links' = [q \in Pair |-> IF q \in mine THEN net[q].nid ELSE NoId]
      /\ nodes' = [n \in Node |-> IF n \in Containers THEN AdoptedNode(n, mine) ELSE NoNode]
      /\ obj' = [i \in Id |-> IF \E q \in mine : net[q].nid = i
                              THEN AdoptedLink(CHOOSE q \in mine : net[q].nid = i, Containers)
                              ELSE NoLink]
  BY <1>1, <1>2 DEF Reconciled, Labelled
<1>4. ASSUME NEW n \in Node, Present(n), ctr[n].cid # NoId PROVE nodes'[n].ref = nodes[n].ref
  <2>1. ~Building(n)
    BY DEF Building, Quiet, CreateNodeLabel
  <2>2. nodes[n].ref = [op |-> ctr[n].cid, named |-> TRUE]
    BY <1>4, <2>1 DEF NodesOwn
  <2>3. nodes'[n] = AdoptedNode(n, mine)
    BY <1>3, <1>4 DEF Containers
  <2> QED
    BY <2>2, <2>3 DEF AdoptedNode
<1>5. ASSUME NEW pr \in LinkNames, obj[links[pr]].nid = net[pr].nid, pr \in Labelled, ~Orphan(pr)
      PROVE  /\ links'[pr] # NoId /\ obj'[links'[pr]].idx = obj[links[pr]].idx
             /\ obj[links[pr]].st = "up" /\ net[pr].att = Ends(pr) => obj'[links'[pr]].st = "up"
             /\ \A n \in Ends(pr) : pr \in nodes[n].ips /\ ctr[n].cid # NoId => pr \in nodes'[n].ips
  <2>1. /\ pr \in Pair /\ pr \in mine /\ net[pr].nid # NoId /\ links'[pr] = net[pr].nid
        /\ net[pr] \in Network /\ links[pr] \in Id
    BY <1>2, <1>3, <1>5 DEF LinkNames, Labelled, RecInv, IInv, TypeOK
  <2>2. PICK i \in Id : i = net[pr].nid
    BY <2>1 DEF Network
  <2>3. (CHOOSE q \in mine : net[q].nid = i) = pr
    <3>1. \A q \in mine : net[q].nid = i => q = pr
      BY <1>3, <2>1, <2>2 DEF RecInv, NetsOK
    <3> QED
      BY <2>1, <2>2, <3>1
  <2>4. obj'[links'[pr]] = AdoptedLink(pr, Containers)
    BY <1>3, <2>1, <2>2, <2>3
  <2>5. obj[links[pr]].idx = net[pr].sub
    BY <1>5, <2>1 DEF SubsOK, ObjSubs, ObjSub
  <2>6. Ends(pr) \subseteq Node
    BY <2>1, PairAssumption DEF Ends
  <2>7. ASSUME net[pr].att = Ends(pr) PROVE obj'[links'[pr]].st = "up"
    <3>1. \A n \in Ends(pr) : ctr[n].cid # NoId
      BY <2>1, <2>6, <2>7, UpHasIdentity DEF EndsRun, Tidy
    <3>2. Healthy(pr, Containers)
      BY <2>6, <2>7, <3>1 DEF Healthy, Containers
    <3> QED
      BY <2>4, <3>2 DEF AdoptedLink
  <2>8. ASSUME NEW n \in Ends(pr), ctr[n].cid # NoId PROVE pr \in nodes'[n].ips
    <3>1. nodes'[n] = AdoptedNode(n, mine)
      BY <1>3, <2>6, <2>8 DEF Containers
    <3> QED
      BY <2>1, <2>8, <3>1 DEF AdoptedNode
  <2> QED
    BY <2>1, <2>4, <2>5, <2>7, <2>8 DEF AdoptedLink
<1> QED
  BY <1>4, <1>5

-----------------------------------------------------------------------------
(* Sweeps, of a thread that has the daemon to itself                       *)

CtrsGone == \A n \in Node : ctr[n] = NoContainer
NetsGone == \A pr \in Pair : net[pr] = NoNetwork

CtrsListed(fs) == \A n \in Node : ctr[n].cid # NoId => <<n, ctr[n].cid>> \in fs
NetsListed(fs) == \A pr \in Pair : net[pr].nid # NoId => <<pr, net[pr].nid>> \in fs

Sweeping(j) == j.phase \in Sweeps \union {"sweep"}

\* What a sweep has done, and what its listing has found.
Swept(j) ==
  /\ j.phase \in {"networks", "leftovers"} => CtrsGone
  /\ j.phase = "sweep" =>
       IF Head(j.entries) = "containers" THEN CtrsListed(j.found) ELSE CtrsGone
  /\ j.phase = "sweep" /\ Head(j.entries) = "leftovers" => NetsListed(j.found)

\* A job in its sweep makes no calls, and does what it should unless something fails.
SweepSound(label, j) ==
  /\ j.mark <= faults
  /\ j.phase # "done" => j.end = "none"
  /\ Sweeping(j) => label = "idle"
  /\ j.phase = "sweep" => \E i \in 1..3 : j.entries = SubSeq(SweepOrder, i, 3)
  /\ j.mark = faults => Swept(j)

\* Whatever fails is counted.
LEMMA FaultsCounted ==
  ASSUME IInv, NEW label, NoFault \/ Fails(label) \/ ReplyLost(label)
  PROVE  faults <= faults' /\ (~NoFault => faults < faults')
BY BoundAssumption DEF IInv, TypeOK, NoFault, Fails, ReplyLost

\* By the steps of calls ...
LEMMA StepCounts ==
  ASSUME IInv, NEW p \in Proc, Step(p)
  PROVE  faults <= faults'
<1>1. \E label : NoFault \/ Fails(label) \/ ReplyLost(label)
  <2>1. CASE ClGet(p) \/ ClNew(p) \/ ClRace(p) \/ ClAdopt(p) \/ ClContainers(p) \/ ClConnect(p)
             \/ ClReady(p) \/ ClConfig(p)
    BY <2>1 DEF ClGet, ClNew, ClRace, ClAdopt, ClContainers, ClConnect, ClReady, ClConfig, NoFault
  <2>2. CASE ClCommit(p) \/ ClUndo(p) \/ ClUnnet(p) \/ ClUnreserve(p)
    BY <2>2 DEF ClCommit, ClUndo, ClUnnet, ClUnreserve, NoFault
  <2>3. CASE DlIon(p) \/ DlGet(p) \/ DlDisconnect(p) \/ DlRemove(p) \/ DlFinish(p)
    BY <2>3 DEF DlIon, DlGet, DlDisconnect, DlRemove, DlFinish, NoFault
  <2>4. CASE CnStale(p) \/ CnDir(p) \/ CnRun(p) \/ CnCheck(p) \/ CnCommit(p)
    BY <2>4 DEF CnStale, CnDir, CnRun, CnCheck, CnCommit, NoFault
  <2>5. CASE CnUndo(p) \/ CnUnreserve(p) \/ DnNext(p) \/ DnContainer(p) \/ DnFinish(p)
    BY <2>5 DEF CnUndo, CnUnreserve, DnNext, DnContainer, DnFinish, NoFault
  <2> QED
    BY <2>1, <2>2, <2>3, <2>4, <2>5 DEF Step, LinkStep, NodeStep
<1> QED
  BY <1>1, FaultsCounted

\* ... and by every other.
LEMMA NextCounts ==
  ASSUME IInv, [Next]_vars
  PROVE  faults <= faults'
<1>1. faults \in Nat
  BY BoundAssumption DEF IInv, TypeOK
<1>2. ASSUME NEW p \in Proc, Call(p) PROVE faults <= faults'
  <2>1. UNCHANGED faults
    BY <1>2 DEF Call, LinkCall, NodeCall, CreateLink, DeleteLink, CreateNode, DeleteNode
  <2> QED
    BY <1>1, <2>1
<1>3. ASSUME NEW p \in Proc, Step(p) PROVE faults <= faults'
  BY <1>3, StepCounts
<1>4. CASE \/ \E n \in Node : ContainerExits(n)
           \/ \E pr \in Pair, idx \in Index : OtherWriter(pr, idx)
  BY <1>1, <1>4 DEF ContainerExits, OtherWriter, Fails
<1>5. CASE UNCHANGED vars
  BY <1>1, <1>5 DEF vars
<1> QED
  BY <1>2, <1>3, <1>4, <1>5 DEF Next

\* Steps after which thread p is not in a sweep, or at its beginning.
Elsewhere(p) ==
  LET k == job'[p]
  IN /\ k.phase \notin {"sweep", "networks", "leftovers"}
     /\ k.phase = "containers" => pc'[p] = "idle"
     /\ k.mark \in {job[p].mark, faults', 0}
     /\ k.phase # "done" => k.end = "none"
     /\ job[p].phase # "done" => k.end # "cleaned"

\* There is nothing to be said of the sweep then.
LEMMA ElsewhereSound ==
  ASSUME IInv, NEW p \in Proc, SweepSound(pc[p], job[p]), JobOK(job[p]), faults <= faults',
         faults' \in Nat, Elsewhere(p)
  PROVE  SweepSound(pc[p], job[p])'
<1>1. job[p].mark \in Nat /\ faults \in Nat /\ job[p].mark <= faults
  BY BoundAssumption DEF JobOK, SweepSound, IInv, TypeOK
<1>2. PICK k : k = job'[p]
  OBVIOUS
<1>3. k.mark <= faults'
  BY <1>1, <1>2 DEF Elsewhere
<1>4. /\ k.phase \notin {"sweep", "networks", "leftovers"} /\ (k.phase = "containers" => pc'[p] = "idle")
      /\ k.phase # "done" => k.end = "none"
  BY <1>2 DEF Elsewhere
<1> QED
  BY <1>2, <1>3, <1>4 DEF SweepSound, Swept, Sweeping, Sweeps

\* A job that is now at something else.
LEMMA GoesElsewhere ==
  ASSUME JobsOK, NEW p \in Proc, NEW k, Become(p, k), k.mark \in {job[p].mark, faults', 0},
         k.phase \notin {"sweep", "networks", "leftovers", "containers"},
         k.end = "none" \/ (k.phase = "done" /\ k.end # "cleaned")
  PROVE  Elsewhere(p)
<1>1. job'[p] = k
  BY DEF Become, JobsOK
<1> QED
  BY <1>1 DEF Elsewhere

\* Or stays outside a sweep.
LEMMA StaysElsewhere ==
  ASSUME NEW p \in Proc, SweepSound(pc[p], job[p]), job'[p] = job[p], ~Sweeping(job[p])
  PROVE  Elsewhere(p)
BY DEF SweepSound, Sweeping, Sweeps, Elsewhere

\* A job that rolls back.
LEMMA RollsBackElsewhere ==
  ASSUME JobsOK, NEW p \in Proc, SweepSound(pc[p], job[p]), job[p].phase # "done",
         Become(p, RolledBack(job[p]))
  PROVE  Elsewhere(p)
<1>1. JobOK(job[p]) /\ job[p].end = "none"
  BY DEF JobsOK, SweepSound
<1>2. PICK k : k = RolledBack(job[p])
  OBVIOUS
<1>3. k.phase = "rb_links" /\ k.mark = faults' /\ k.end = "none"
  BY <1>1, <1>2, JobKeys DEF RolledBack, JobOK
<1> QED
  BY <1>2, <1>3, GoesElsewhere

\* A call within a job.
LEMMA RunStepElsewhere ==
  ASSUME IInv, JobsOK, NEW p \in Proc, SweepSound(pc[p], job[p]), RunStep(p)
  PROVE  Elsewhere(p)
<1>1. pc[p] # "idle" /\ JobOK(job[p]) /\ DOMAIN job = Proc
  BY StepLabels DEF RunStep, JobsOK
<1>2. ~Sweeping(job[p])
  BY <1>1 DEF SweepSound
<1>3. PICK j : j = job[p] /\ DOMAIN j = DOMAIN NoJob
  BY <1>1 DEF JobOK
<1>4. CASE pc'[p] # "idle"
  <2>1. Become(p, job[p])
    BY <1>4 DEF RunStep
  <2>2. job'[p] = job[p]
    BY <1>1, <2>1 DEF Become
  <2> QED
    BY <1>2, <2>2, StaysElsewhere
<1>5. CASE pc'[p] = "idle"
  <2>1. PICK raised \in BOOLEAN : raised = (pc[p] \in Raising)
    <3> WITNESS (pc[p] \in Raising) \in BOOLEAN
    <3> QED
      OBVIOUS
  <2>2. PICK k : k = Returned(j, raised) /\ Become(p, k)
    BY <1>3, <1>5, <2>1 DEF RunStep
  <2>3. CASE j.phase \in {"mk_nodes", "mk_links"} /\ raised
    <3>1. k = RolledBack(j)
      BY <2>2, <2>3 DEF Returned
    <3> QED
      BY <1>3, <2>2, <2>3, <3>1, RollsBackElsewhere
  <2>4. CASE j.phase = "mk_nodes" /\ ~raised
    <3>1. k = [j EXCEPT !.madeNodes = @ \union {Min(j.nodes)}, !.nodes = @ \ {Min(j.nodes)}]
      BY <2>2, <2>4 DEF Returned
    <3>2. k.phase = "mk_nodes" /\ k.mark = j.mark /\ k.end = j.end
      BY <1>3, <2>4, <3>1, JobKeys
    <3> QED
      BY <1>3, <2>2, <2>4, <3>2, GoesElsewhere DEF SweepSound
  <2>5. CASE j.phase = "mk_links" /\ ~raised
    <3>1. PICK ph \in {"disrupt", "mk_links"} :
            ph = IF Head(j.entries).pr \in j.file.netem THEN "disrupt" ELSE j.phase
      BY <2>5
    <3>2. k = [j EXCEPT !.madeLinks = @ \union {Head(j.entries).pr}, !.entries = Tail(@), !.phase = ph]
      BY <2>2, <2>5, <3>1 DEF Returned
    <3>3. k.phase = ph /\ k.mark = j.mark /\ k.end = j.end
      BY <1>3, <3>2, JobKeys
    <3> QED
      BY <1>3, <2>2, <2>5, <3>1, <3>3, GoesElsewhere DEF SweepSound
  <2>6. CASE j.phase \notin {"mk_nodes", "mk_links"}
    <3>1. k = j
      BY <2>2, <2>6 DEF Returned
    <3>2. job'[p] = job[p]
      BY <1>1, <1>3, <2>2, <3>1 DEF Become
    <3> QED
      BY <1>2, <3>2, StaysElsewhere
  <2> QED
    BY <2>3, <2>4, <2>5, <2>6
<1> QED
  BY <1>4, <1>5

\* The beginning of calls and of jobs.
LEMMA BeginsElsewhere ==
  ASSUME IInv, JobsOK, NEW p \in Proc, NEW f, ClientCall(p) \/ StartJob(p, f)
  PROVE  Elsewhere(p) /\ faults <= faults'
<1>1. CASE ClientCall(p)
  <2>1. Become(p, NoJob) /\ [Next]_vars
    BY <1>1 DEF ClientCall, Next
  <2>2. NoJob.mark = 0 /\ NoJob.phase = "none" /\ NoJob.end = "none"
    BY DEF NoJob
  <2> QED
    BY <2>1, <2>2, GoesElsewhere, NextCounts
<1>2. CASE StartJob(p, f)
  <2>1. Become(p, Cleanup(f)) /\ [Next]_vars /\ faults' = faults
    BY <1>2 DEF StartJob, vars
  <2>2. Cleanup(f).mark = faults /\ Cleanup(f).phase = "links" /\ Cleanup(f).end = "none"
    BY DEF Cleanup, NoJob
  <2> QED
    BY <2>1, <2>2, GoesElsewhere, NextCounts
<1> QED
  BY <1>1, <1>2

\* The loops of deletions, of a cleanup or of a rollback.
LEMMA LoopsElsewhere ==
  ASSUME IInv, JobsOK, NEW p \in Proc, SweepSound(pc[p], job[p]), Clean(p) \/ RollBack(p)
  PROVE  Elsewhere(p)
<1>1. PICK j : j = job[p] /\ DOMAIN j = DOMAIN NoJob
  BY DEF JobsOK, JobOK
<1>2. j.phase \in {"links", "nodes", "rb_links", "rb_nodes"} /\ pc[p] = "idle"
  BY <1>1 DEF Clean, RollBack, DeleteLinks, DeleteNodes, InPhase
<1>3. j.end = "none"
  BY <1>1, <1>2 DEF SweepSound
<1>4. \/ \E x : Become(p, [j EXCEPT !.links = @ \ {x}])
      \/ \E x : Become(p, [j EXCEPT !.nodes = @ \ {x}])
      \/ \E ph \in {"nodes", "rb_nodes"} : Become(p, [j EXCEPT !.phase = ph])
      \/ Become(p, [j EXCEPT !.phase = "containers", !.mark = faults]) /\ UNCHANGED vars
      \/ Become(p, Ended(j, "rolled_back"))
  <2>1. CASE Clean(p)
    BY <1>1, <2>1 DEF Clean, DeleteLinks, DeleteNodes, SweepOrder, Phase
  <2>2. CASE RollBack(p)
    BY <1>1, <2>2 DEF RollBack, DeleteLinks, DeleteNodes, Phase
  <2> QED
    BY <2>1, <2>2
<1>5. ASSUME NEW x, Become(p, [j EXCEPT !.links = @ \ {x}]) PROVE Elsewhere(p)
  <2>1. PICK k : k = [j EXCEPT !.links = @ \ {x}] /\ Become(p, k)
    BY <1>5
  <2>2. k.phase = j.phase /\ k.mark = j.mark /\ k.end = j.end
    BY <1>1, <2>1, JobKeys
  <2> QED
    BY <1>1, <1>2, <1>3, <2>1, <2>2, GoesElsewhere
<1>6. ASSUME NEW x, Become(p, [j EXCEPT !.nodes = @ \ {x}]) PROVE Elsewhere(p)
  <2>1. PICK k : k = [j EXCEPT !.nodes = @ \ {x}] /\ Become(p, k)
    BY <1>6
  <2>2. k.phase = j.phase /\ k.mark = j.mark /\ k.end = j.end
    BY <1>1, <2>1, JobKeys
  <2> QED
    BY <1>1, <1>2, <1>3, <2>1, <2>2, GoesElsewhere
<1>7. ASSUME NEW ph \in {"nodes", "rb_nodes"}, Become(p, [j EXCEPT !.phase = ph]) PROVE Elsewhere(p)
  <2>1. PICK k : k = [j EXCEPT !.phase = ph] /\ Become(p, k)
    BY <1>7
  <2>2. k.phase = ph /\ k.mark = j.mark /\ k.end = j.end
    BY <1>1, <2>1, JobKeys
  <2> QED
    BY <1>1, <1>3, <2>1, <2>2, GoesElsewhere
<1>8. ASSUME Become(p, [j EXCEPT !.phase = "containers", !.mark = faults]), UNCHANGED vars
      PROVE  Elsewhere(p)
  <2>1. PICK k : k = [j EXCEPT !.phase = "containers", !.mark = faults] /\ Become(p, k)
    BY <1>8
  <2>2. k.phase = "containers" /\ k.mark = faults /\ k.end = "none"
    BY <1>1, <1>3, <2>1, JobKeys
  <2>3. job'[p] = k /\ pc'[p] = "idle" /\ faults' = faults
    BY <1>2, <1>8, <2>1 DEF Become, JobsOK, vars
  <2> QED
    BY <2>2, <2>3 DEF Elsewhere
<1>9. ASSUME Become(p, Ended(j, "rolled_back")) PROVE Elsewhere(p)
  <2>1. PICK k : k = Ended(j, "rolled_back") /\ Become(p, k)
    BY <1>9
  <2>2. k.phase = "done" /\ k.mark = j.mark /\ k.end = "rolled_back"
    BY <1>1, <2>1, JobKeys DEF Ended
  <2> QED
    BY <1>1, <2>1, <2>2, GoesElsewhere
<1> QED
  BY <1>4, <1>5, <1>6, <1>7, <1>8, <1>9

\* The steps of an import.
LEMMA ImportElsewhere ==
  ASSUME IInv, JobsOK, NEW p \in Proc, SweepSound(pc[p], job[p]),
         MakeNode(p) \/ MakeLink(p) \/ MakeDisrupted(p)
  PROVE  Elsewhere(p)
<1>1. PICK j : j = job[p] /\ DOMAIN j = DOMAIN NoJob
  BY DEF JobsOK, JobOK
<1>2. j.phase \in {"mk_nodes", "mk_links", "disrupt"}
  BY <1>1 DEF MakeNode, MakeLink, MakeDisrupted, InPhase
<1>3. j.end = "none" /\ ~Sweeping(j)
  BY <1>1, <1>2 DEF SweepSound, Sweeping, Sweeps
<1>4. \/ UNCHANGED job
      \/ Become(p, RolledBack(j))
      \/ \E ph \in {"mk_links", "repair"} : Become(p, [j EXCEPT !.phase = ph])
  BY <1>1 DEF MakeNode, MakeLink, MakeDisrupted, Phase
<1>5. CASE UNCHANGED job
  BY <1>1, <1>3, <1>5, StaysElsewhere
<1>6. CASE Become(p, RolledBack(j))
  BY <1>1, <1>2, <1>6, RollsBackElsewhere
<1>7. ASSUME NEW ph \in {"mk_links", "repair"}, Become(p, [j EXCEPT !.phase = ph]) PROVE Elsewhere(p)
  <2>1. PICK k : k = [j EXCEPT !.phase = ph] /\ Become(p, k)
    BY <1>7
  <2>2. k.phase = ph /\ k.mark = j.mark /\ k.end = j.end
    BY <1>1, <2>1, JobKeys
  <2> QED
    BY <1>1, <1>3, <2>1, <2>2, GoesElsewhere
<1> QED
  BY <1>4, <1>5, <1>6, <1>7

\* The steps of the repair that follows.
LEMMA RepairElsewhere ==
  ASSUME IInv, JobsOK, NEW p \in Proc, SweepSound(pc[p], job[p]),
         RepairStart(p) \/ RepairEnd(p) \/ RepairDone(p)
  PROVE  Elsewhere(p)
<1>1. PICK j : j = job[p] /\ DOMAIN j = DOMAIN NoJob
  BY DEF JobsOK, JobOK
<1>2. j.phase \in {"repair", "repairing"}
  BY <1>1 DEF RepairStart, RepairEnd, RepairDone, InPhase
<1>3. j.end = "none"
  BY <1>1, <1>2 DEF SweepSound
<1>4. CASE RepairStart(p)
  <2>1. PICK k : k = [j EXCEPT !.phase = "repairing", !.found = EndsToRepair] /\ Become(p, k)
    BY <1>1, <1>4 DEF RepairStart
  <2>2. k.phase = "repairing" /\ k.mark = j.mark /\ k.end = j.end
    BY <1>1, <2>1, JobKeys
  <2> QED
    BY <1>1, <1>3, <2>1, <2>2, GoesElsewhere
<1>5. CASE RepairEnd(p)
  <2>1. PICK x : \/ Become(p, [j EXCEPT !.found = @ \ {x}])
                 \/ Become(p, [[j EXCEPT !.found = @ \ {x}] EXCEPT !.errors = TRUE])
                 \/ Become(p, Ended([j EXCEPT !.found = @ \ {x}], "failed"))
    BY <1>1, <1>5 DEF RepairEnd
  <2>2. PICK k : \/ k = [j EXCEPT !.found = @ \ {x}] /\ Become(p, k)
                 \/ k = [[j EXCEPT !.found = @ \ {x}] EXCEPT !.errors = TRUE] /\ Become(p, k)
                 \/ k = Ended([j EXCEPT !.found = @ \ {x}], "failed") /\ Become(p, k)
    BY <2>1
  <2>3. k.mark = j.mark /\ ((k.phase = j.phase /\ k.end = j.end) \/ (k.phase = "done" /\ k.end = "failed"))
    BY <1>1, <2>2, JobKeys DEF Ended
  <2> QED
    BY <1>1, <1>2, <1>3, <2>2, <2>3, GoesElsewhere
<1>6. CASE RepairDone(p)
  <2>1. PICK k : k = Ended(j, "imported") /\ Become(p, k)
    BY <1>1, <1>6 DEF RepairDone
  <2>2. k.phase = "done" /\ k.mark = j.mark /\ k.end = "imported"
    BY <1>1, <2>1, JobKeys DEF Ended
  <2> QED
    BY <1>1, <2>1, <2>2, GoesElsewhere
<1> QED
  BY <1>4, <1>5, <1>6

\* The listings that are still to come.
LEMMA RestFacts ==
  ASSUME NEW i \in 1..3
  PROVE  /\ Head(SubSeq(SweepOrder, i, 3)) = SweepOrder[i]
         /\ Tail(SubSeq(SweepOrder, i, 3)) = SubSeq(SweepOrder, i + 1, 3)
         /\ i = 3 => Tail(SubSeq(SweepOrder, i, 3)) = <<>>
         /\ i # 3 => Tail(SubSeq(SweepOrder, i, 3)) # <<>> /\ i + 1 \in 1..3
         /\ SweepOrder[1] = "containers" /\ SweepOrder[2] = "networks" /\ SweepOrder[3] = "leftovers"
<1>1. SweepOrder \in Seq(Sweeps) /\ Len(SweepOrder) = 3 /\ DOMAIN SweepOrder = 1..3
  BY DEF SweepOrder, Sweeps
<1>2. /\ Head(SubSeq(SweepOrder, i, 3)) = SweepOrder[i]
      /\ Tail(SubSeq(SweepOrder, i, 3)) = SubSeq(SweepOrder, i + 1, 3)
  BY <1>1, HeadTailOfSubSeq
<1>3. i = 3 => Tail(SubSeq(SweepOrder, i, 3)) = <<>>
  BY <1>2, SubSeqEmpty
<1>4. i # 3 => i + 1 \in 1..3
  OBVIOUS
<1>5. i # 3 => Tail(SubSeq(SweepOrder, i, 3)) # <<>>
  BY <1>1, <1>2, <1>4, SweepFacts
<1> QED
  BY <1>2, <1>3, <1>4, <1>5 DEF SweepOrder

\* The next listing of a sweep finds all that is there.
LEMMA SweepListSound ==
  ASSUME IInv, IInv', JobsOK, NEW p \in Proc, SweepSound(pc[p], job[p]), SweepList(p)
  PROVE  SweepSound(pc[p], job[p])' /\ job'[p].end # "cleaned"
<1>1. PICK j : j = job[p] /\ DOMAIN j = DOMAIN NoJob /\ JobOK(j)
  BY DEF JobsOK, JobOK
<1>2. faults \in Nat /\ faults' \in Nat /\ DOMAIN job = Proc
  BY BoundAssumption DEF IInv, TypeOK, JobsOK
<1>3. PICK i \in DOMAIN SweepOrder :
        /\ InPhase(p, SweepOrder[i]) /\ UNCHANGED <<pc, dockerVars>>
        /\ \/ Become(p, [j EXCEPT !.phase = "sweep", !.found = Found(SweepOrder[i]),
                                  !.entries = SubSeq(SweepOrder, i, 3)]) /\ NoFault
           \/ Fails("list") /\ Become(p, Ended(j, "failed"))
  BY <1>1 DEF SweepList
<1>4. i \in 1..3 /\ j.phase = SweepOrder[i] /\ j.phase \in Sweeps /\ pc[p] = "idle" /\ j.end = "none"
  <2>1. DOMAIN SweepOrder = 1..3
    BY DEF SweepOrder
  <2>2. j.phase = SweepOrder[i] /\ j.phase \in Sweeps /\ pc[p] = "idle"
    BY <1>1, <1>3, SweepFacts DEF InPhase
  <2> QED
    BY <1>1, <1>3, <2>1, <2>2 DEF SweepSound, Sweeps
<1>5. CASE Fails("list") /\ Become(p, Ended(j, "failed"))
  <2>1. PICK k : k = Ended(j, "failed") /\ Become(p, k)
    BY <1>5
  <2>2. k.phase = "done" /\ k.mark = j.mark /\ k.end = "failed"
    BY <1>1, <2>1, JobKeys DEF Ended
  <2>3. Elsewhere(p)
    BY <1>1, <2>1, <2>2, GoesElsewhere
  <2>4. faults <= faults'
    BY <1>5, FaultsCounted
  <2>5. job'[p].end = "failed"
    BY <1>2, <2>1, <2>2 DEF Become
  <2> QED
    BY <1>1, <1>2, <2>3, <2>4, <2>5, ElsewhereSound
<1>6. CASE NoFault /\ ~(Fails("list") /\ Become(p, Ended(j, "failed")))
  <2>1. PICK fs : fs = Found(SweepOrder[i])
    OBVIOUS
  <2>2. PICK k : k = [j EXCEPT !.phase = "sweep", !.found = fs, !.entries = SubSeq(SweepOrder, i, 3)]
                 /\ Become(p, k)
    BY <1>3, <1>6, <2>1
  <2>3. /\ k.phase = "sweep" /\ k.mark = j.mark /\ k.end = "none"
        /\ k.found = fs /\ k.entries = SubSeq(SweepOrder, i, 3)
    BY <1>1, <1>4, <2>2, JobKeys
  <2>4. job'[p] = k
    BY <1>2, <2>2 DEF Become
  <2>5. Head(k.entries) = j.phase
    BY <1>4, <2>3, RestFacts
  <2>6. faults' = faults /\ UNCHANGED <<pc, ctr, net>>
    BY <1>3, <1>6 DEF NoFault, dockerVars
  <2>7. j.phase = "containers" => CtrsListed(fs)
    BY <1>4, <2>1 DEF Found, Containers, CtrsListed
  <2>8. j.phase = "leftovers" => NetsListed(fs)
    BY <1>4, <2>1 DEF Found, NetsListed
  <2>9. j.mark = faults /\ j.phase # "containers" => CtrsGone
    BY <1>1, <1>4 DEF SweepSound, Swept, Sweeps
  <2>10. k.mark = faults' => Swept(k)'
    <3>1. SUFFICES ASSUME j.mark = faults PROVE Swept(k)'
      BY <2>3, <2>6
    <3>2. (Head(k.entries) = "containers" => CtrsListed(fs)') /\ (Head(k.entries) # "containers" => CtrsGone')
      BY <2>5, <2>6, <2>7, <2>9, <3>1 DEF CtrsListed, CtrsGone
    <3>3. Head(k.entries) = "leftovers" => NetsListed(fs)'
      BY <2>5, <2>6, <2>8 DEF NetsListed
    <3> QED
      BY <2>3, <3>2, <3>3 DEF Swept
  <2>11. SweepSound(pc[p], k)'
    BY <1>1, <1>4, <2>3, <2>6, <2>10 DEF SweepSound
  <2> QED
    BY <2>3, <2>4, <2>11
<1> QED
  BY <1>3, <1>5, <1>6

\* A removal takes what was found, or it is counted as a failure, or it is gone by now.
LEMMA SweepRemoveSound ==
  ASSUME RecInv, RecInv', EndsRun, NEW p \in Proc, SweepSound(pc[p], job[p]), SweepRemove(p)
  PROVE  SweepSound(pc[p], job[p])' /\ job'[p].end # "cleaned"
<1>0. /\ IInv /\ JobsOK /\ faults \in Nat /\ faults' \in Nat /\ DOMAIN job = Proc
      /\ ctr \in [Node -> Container] /\ net \in [Pair -> Network]
  BY BoundAssumption DEF RecInv, IInv, TypeOK, JobsOK
<1>1. PICK j : j = job[p] /\ DOMAIN j = DOMAIN NoJob /\ JobOK(j)
  BY <1>0 DEF JobsOK, JobOK
<1>2. PICK what : what = Head(j.entries)
  OBVIOUS
<1>3. PICK x \in j.found :
        /\ InPhase(p, "sweep") /\ UNCHANGED pc /\ Become(p, [j EXCEPT !.found = @ \ {x}])
        /\ \/ Removable(what, x) /\ what = "containers" /\ RemoveContainer(x[1]) /\ NoFault
           \/ /\ Removable(what, x) /\ what # "containers" /\ NoFault
              /\ net' = [net EXCEPT ![x[1]] = NoNetwork] /\ UNCHANGED ctr
           \/ ~Removable(what, x) /\ NoFault /\ UNCHANGED dockerVars
           \/ Fails("sweep") /\ UNCHANGED dockerVars
  BY <1>1, <1>2 DEF SweepRemove
<1>4. j.phase = "sweep" /\ pc[p] = "idle" /\ pc'[p] = "idle" /\ j.end = "none" /\ j.mark <= faults /\ j.mark \in Nat
  BY <1>1, <1>3 DEF InPhase, SweepSound, JobOK
<1>5. x \in (IF what = "containers" THEN Node ELSE Pair) \X Id
  BY <1>1, <1>2, <1>4 DEF JobOK
<1>6. PICK k : k = [j EXCEPT !.found = @ \ {x}] /\ Become(p, k)
  BY <1>3
<1>7. /\ k.phase = "sweep" /\ k.mark = j.mark /\ k.end = "none" /\ k.found = j.found \ {x}
      /\ k.entries = j.entries /\ job'[p] = k
  BY <1>0, <1>1, <1>4, <1>6, JobKeys DEF Become
<1>8. \E i \in 1..3 : k.entries = SubSeq(SweepOrder, i, 3)
  BY <1>1, <1>4, <1>7 DEF SweepSound
<1>9. faults <= faults' /\ (~NoFault => faults < faults')
  BY <1>0, <1>3, FaultsCounted
<1>10. ASSUME j.mark = faults, NoFault PROVE Swept(k)'
  <2>1. Swept(j)
    BY <1>1, <1>10 DEF SweepSound
  <2>4. ~Fails("sweep")
    BY <1>0, <1>10 DEF Fails, NoFault
  <2>2. CASE what = "containers"
    <3>1. CtrsListed(j.found) /\ x[1] \in Node /\ x = <<x[1], x[2]>>
      BY <1>2, <1>4, <1>5, <2>1, <2>2 DEF Swept
    <3>2. UNCHANGED ctr \/ ctr' = [ctr EXCEPT ![x[1]] = NoContainer]
      BY <1>3, <1>10, <2>2 DEF RemoveContainer, dockerVars
    <3>3. ctr'[x[1]].cid = NoId \/ <<x[1], ctr'[x[1]].cid>> # x
      <4>1. CASE ctr' = [ctr EXCEPT ![x[1]] = NoContainer]
        BY <1>0, <3>1, <4>1 DEF NoContainer
      <4>2. CASE ctr' # [ctr EXCEPT ![x[1]] = NoContainer]
        <5>1. ~Removable(what, x) /\ UNCHANGED ctr
          BY <1>3, <2>2, <2>4, <4>2 DEF RemoveContainer, dockerVars
        <5> QED
          BY <2>2, <3>1, <5>1 DEF Removable
      <4> QED
        BY <4>1, <4>2
    <3>4. \A n \in Node \ {x[1]} : ctr'[n] = ctr[n] /\ <<n, ctr'[n].cid>> # x
      BY <1>0, <3>1, <3>2
    <3>5. CtrsListed(k.found)'
      <4>1. ASSUME NEW n \in Node, ctr'[n].cid # NoId PROVE <<n, ctr'[n].cid>> \in k.found
        <5>1. <<n, ctr'[n].cid>> # x
          BY <3>3, <3>4, <4>1
        <5>2. CASE n = x[1]
          <6>1. ctr'[n] = ctr[n]
            BY <1>0, <3>2, <4>1, <5>2 DEF NoContainer
          <6> QED
            BY <1>7, <3>1, <4>1, <5>1, <6>1 DEF CtrsListed
        <5>3. CASE n # x[1]
          BY <1>7, <3>1, <3>4, <4>1, <5>1, <5>3 DEF CtrsListed
        <5> QED
          BY <5>2, <5>3
      <4> QED
        BY <4>1 DEF CtrsListed
    <3> QED
      BY <1>2, <1>7, <2>2, <3>5 DEF Swept
  <2>3. CASE what # "containers"
    <3>1. CtrsGone /\ UNCHANGED ctr /\ x[1] \in Pair /\ x = <<x[1], x[2]>>
      BY <1>2, <1>3, <1>4, <1>5, <2>1, <2>3 DEF Swept, dockerVars
    <3>2. CtrsGone'
      BY <3>1 DEF CtrsGone
    <3>3. ASSUME what = "leftovers" PROVE NetsListed(k.found)'
      <4>1. NetsListed(j.found)
        BY <1>2, <1>4, <2>1, <3>3 DEF Swept
      <4>2. UNCHANGED net \/ net' = [net EXCEPT ![x[1]] = NoNetwork]
        BY <1>3, <2>3 DEF dockerVars
      <4>3. net'[x[1]].nid = NoId \/ <<x[1], net'[x[1]].nid>> # x
        <5>1. CASE net' = [net EXCEPT ![x[1]] = NoNetwork]
          BY <1>0, <3>1, <5>1 DEF NoNetwork
        <5>2. CASE net' # [net EXCEPT ![x[1]] = NoNetwork]
          <6>1. ~Removable(what, x) /\ UNCHANGED net
            BY <1>3, <2>3, <2>4, <5>2 DEF dockerVars
          <6>2. net[x[1]].att = {}
            <7>1. net[x[1]].att \subseteq Node
              BY <1>0, <3>1 DEF Network
            <7>2. \A n \in net[x[1]].att : ctr[n].up
              BY <3>1 DEF EndsRun
            <7> QED
              BY <3>1, <7>1, <7>2 DEF CtrsGone, NoContainer
          <6> QED
            BY <2>3, <3>1, <6>1, <6>2 DEF Removable
        <5> QED
          BY <5>1, <5>2
      <4>4. \A pr \in Pair \ {x[1]} : net'[pr] = net[pr] /\ <<pr, net'[pr].nid>> # x
        BY <1>0, <3>1, <4>2
      <4>5. ASSUME NEW pr \in Pair, net'[pr].nid # NoId PROVE <<pr, net'[pr].nid>> \in k.found
        <5>1. <<pr, net'[pr].nid>> # x
          BY <4>3, <4>4, <4>5
        <5>2. net'[pr] = net[pr]
          BY <1>0, <4>2, <4>5 DEF NoNetwork
        <5> QED
          BY <1>7, <4>1, <4>5, <5>1, <5>2 DEF NetsListed
      <4> QED
        BY <4>5 DEF NetsListed
    <3> QED
      BY <1>2, <1>7, <2>3, <3>2, <3>3 DEF Swept
  <2> QED
    BY <2>2, <2>3
<1>11. k.mark <= faults' /\ (k.mark = faults' => Swept(k)')
  BY <1>0, <1>4, <1>7, <1>9, <1>10 DEF NoFault
<1>12. SweepSound(pc[p], k)'
  BY <1>4, <1>7, <1>8, <1>11 DEF SweepSound
<1> QED
  BY <1>7, <1>12

\* When all that was found has been dealt with, it is gone.
LEMMA SweepNextSound ==
  ASSUME IInv, Tidy, JobsOK, NEW p \in Proc, SweepSound(pc[p], job[p]), SweepNext(p)
  PROVE  /\ SweepSound(pc[p], job[p])'
         /\ job'[p].end = "cleaned" /\ faults = job[p].mark => CtrsGone /\ NetsGone
<1>0. faults \in Nat /\ faults' = faults /\ DOMAIN job = Proc /\ UNCHANGED <<ctr, net, pc>>
  BY BoundAssumption DEF IInv, TypeOK, JobsOK, SweepNext, vars, dockerVars
<1>1. PICK j : j = job[p] /\ DOMAIN j = DOMAIN NoJob /\ JobOK(j)
  BY DEF JobsOK, JobOK
<1>2. j.phase = "sweep" /\ pc[p] = "idle" /\ j.end = "none" /\ j.mark <= faults /\ j.found = {}
  BY <1>1 DEF SweepNext, InPhase, SweepSound
<1>3. PICK i \in 1..3 : j.entries = SubSeq(SweepOrder, i, 3)
  BY <1>1, <1>2 DEF SweepSound
<1>4. PICK rest : rest = Tail(j.entries)
  OBVIOUS
<1>5. /\ Head(j.entries) = SweepOrder[i] /\ (i = 3 => rest = <<>>)
      /\ i # 3 => rest # <<>> /\ i + 1 \in 1..3 /\ Head(rest) = SweepOrder[i + 1]
      /\ SweepOrder[1] = "containers" /\ SweepOrder[2] = "networks" /\ SweepOrder[3] = "leftovers"
  <2>1. i # 3 => i + 1 \in 1..3 /\ Head(SubSeq(SweepOrder, i + 1, 3)) = SweepOrder[i + 1]
    BY RestFacts
  <2> QED
    BY <1>3, <1>4, <2>1, RestFacts
<1>6. ASSUME j.mark = faults
      PROVE  CtrsGone /\ (i = 3 => NetsGone)
  <2>1. Swept(j)
    BY <1>1, <1>6 DEF SweepSound
  <2>2. CtrsGone
    <3>1. CASE i = 1
      <4>1. \A n \in Node : ctr[n].cid = NoId
        BY <1>2, <1>5, <2>1, <3>1 DEF Swept, CtrsListed
      <4> QED
        BY <4>1 DEF CtrsGone, Tidy, CtrTidy
    <3>2. CASE i # 1
      <4>1. Head(j.entries) # "containers"
        BY <1>5, <3>2
      <4> QED
        BY <1>2, <2>1, <4>1 DEF Swept
    <3> QED
      BY <3>1, <3>2
  <2>3. ASSUME i = 3 PROVE NetsGone
    <3>1. \A pr \in Pair : net[pr].nid = NoId
      BY <1>2, <1>5, <2>1, <2>3 DEF Swept, NetsListed
    <3> QED
      BY <3>1 DEF NetsGone, Tidy, NetTidy
  <2> QED
    BY <2>2, <2>3
<1> DEFINE m == [j EXCEPT !.entries = rest]
           on == [m EXCEPT !.phase = Head(rest)]
           mk == [m EXCEPT !.phase = "mk_nodes", !.nodes = m.file.nodes, !.entries = m.file.links,
                           !.first = NewId]
<1>7. /\ m.entries = rest
      /\ on.phase = Head(rest) /\ on.mark = j.mark /\ on.end = "none"
      /\ mk.phase = "mk_nodes" /\ mk.mark = j.mark /\ mk.end = "none"
      /\ Ended(m, "cleaned").phase = "done" /\ Ended(m, "cleaned").mark = j.mark
  BY <1>1, <1>2, JobKeys DEF Ended
<1>8. Become(p, IF rest # <<>> THEN on ELSE IF m.file = NoFile THEN Ended(m, "cleaned") ELSE mk)
  <2>1. Become(p, LET y == [j EXCEPT !.entries = Tail(@)]
                  IN IF y.entries # <<>> THEN [y EXCEPT !.phase = Head(y.entries)]
                     ELSE IF y.file = NoFile THEN Ended(y, "cleaned")
                     ELSE [y EXCEPT !.phase = "mk_nodes", !.nodes = y.file.nodes,
                                    !.entries = y.file.links, !.first = NewId])
    BY <1>1 DEF SweepNext
  <2> QED
    BY <1>4, <1>7, <2>1
<1>9. job'[p] = IF rest # <<>> THEN on ELSE IF m.file = NoFile THEN Ended(m, "cleaned") ELSE mk
  BY <1>0, <1>8 DEF Become
<1> HIDE DEF m, on, mk
<1>10. PICK k : k = job'[p]
  OBVIOUS
<1>11. CASE i # 3
  <2>1. k.phase = SweepOrder[i + 1] /\ k.mark = j.mark /\ k.end = "none" /\ (i = 1 \/ i = 2)
    BY <1>5, <1>7, <1>9, <1>10, <1>11
  <2>2. k.phase \in {"networks", "leftovers"}
    BY <1>5, <2>1
  <2>3. k.mark = faults' => Swept(k)'
    BY <1>0, <1>6, <2>1, <2>2 DEF Swept, CtrsGone
  <2>4. SweepSound(pc[p], k)'
    BY <1>0, <1>2, <2>1, <2>2, <2>3 DEF SweepSound
  <2> QED
    BY <1>10, <2>1, <2>4
<1>12. CASE i = 3
  <2>1. k.phase \in {"mk_nodes", "done"} /\ k.mark = j.mark /\ (k.phase # "done" => k.end = "none")
    BY <1>5, <1>7, <1>9, <1>10, <1>12
  <2>2. SweepSound(pc[p], k)'
    BY <1>0, <1>2, <2>1 DEF SweepSound, Swept, Sweeping, Sweeps
  <2> QED
    BY <1>1, <1>6, <1>10, <1>12, <2>2
<1> QED
  BY <1>11, <1>12

\* Every step of a system with one thread.
LEMMA AloneSound ==
  ASSUME \A p, q \in Proc : p = q, "writer" \notin FaultAt, RecInv, RecInv', EndsRun, Tidy,
         NEW p \in Proc, SweepSound(pc[p], job[p]), [RecNext]_recVars
  PROVE  /\ SweepSound(pc[p], job[p])'
         /\ job[p].phase # "done" /\ job'[p].end = "cleaned" /\ faults = job[p].mark
              => CtrsGone /\ NetsGone
<1>1. IInv /\ IInv' /\ JobsOK /\ LayersOK /\ JobOK(job[p]) /\ faults \in Nat /\ faults' \in Nat
  BY BoundAssumption DEF RecInv, JobsOK, IInv, TypeOK
<1>2. ASSUME Elsewhere(p), faults <= faults'
      PROVE  SweepSound(pc[p], job[p])' /\ (job[p].phase # "done" => job'[p].end # "cleaned")
  BY <1>1, <1>2, ElsewhereSound DEF Elsewhere
<1>3. ASSUME NEW q \in Proc, NEW f, ClientCall(q) \/ StartJob(q, f)
      PROVE  Elsewhere(p) /\ faults <= faults'
  BY <1>1, <1>3, BeginsElsewhere
<1>4. CASE \E q \in Proc : JobStep(q)
  <2>1. JobStep(p)
    BY <1>4
  <2>2. CASE RunStep(p)
    <3>1. faults <= faults'
      BY <1>1, <2>2, StepCounts DEF RunStep
    <3> QED
      BY <1>1, <1>2, <2>2, <3>1, RunStepElsewhere
  <2>3. CASE Clean(p) \/ RollBack(p)
    <3>1. faults <= faults'
      BY <1>1, <2>3, CleanGoes, RollBackGoes, NextCounts
    <3> QED
      BY <1>1, <1>2, <2>3, <3>1, LoopsElsewhere
  <2>4. CASE MakeNode(p) \/ MakeLink(p) \/ MakeDisrupted(p)
    <3>1. faults <= faults'
      <4>1. CASE MakeNode(p) \/ MakeLink(p)
        BY <1>1, <4>1, MakeNodeGoes, MakeLinkGoes, NextCounts
      <4>2. CASE MakeDisrupted(p)
        BY <1>1, <4>2, FaultsCounted DEF MakeDisrupted
      <4> QED
        BY <2>4, <4>1, <4>2
    <3> QED
      BY <1>1, <1>2, <2>4, <3>1, ImportElsewhere
  <2>5. CASE RepairStart(p) \/ RepairEnd(p) \/ RepairDone(p)
    <3>1. faults <= faults'
      <4>1. CASE RepairStart(p) \/ RepairDone(p)
        BY <1>1, <4>1, RepairStartGoes, RepairDoneGoes, NextCounts
      <4>2. CASE RepairEnd(p)
        <5>1. NoFault \/ Fails("repair")
          BY <4>2 DEF RepairEnd
        <5> QED
          BY <1>1, <5>1, FaultsCounted
      <4> QED
        BY <2>5, <4>1, <4>2
    <3> QED
      BY <1>1, <1>2, <2>5, <3>1, RepairElsewhere
  <2>6. CASE SweepList(p)
    BY <1>1, <2>6, SweepListSound
  <2>7. CASE SweepRemove(p)
    BY <2>7, SweepRemoveSound
  <2>8. CASE SweepNext(p)
    BY <1>1, <2>8, SweepNextSound
  <2> QED
    BY <2>1, <2>2, <2>3, <2>4, <2>5, <2>6, <2>7, <2>8 DEF JobStep
<1>5. ASSUME Restart PROVE Elsewhere(p) /\ faults <= faults'
  <2>1. job'[p] = NoJob
    BY <1>5 DEF Restart
  <2>2. \E label : NoFault \/ Fails(label)
    BY <1>5 DEF Restart
  <2>3. faults <= faults'
    BY <1>1, <2>2, FaultsCounted
  <2> QED
    BY <2>1, <2>3 DEF Elsewhere, NoJob
<1>6. CASE Outside
  <2>1. UNCHANGED <<job, pc>> /\ \E label : Fails(label)
    BY <1>6 DEF Outside, ContainerExits, OtherWriter
  <2>2. faults < faults' /\ job[p].mark \in Nat /\ job[p].mark <= faults
    BY <1>1, <2>1 DEF Fails, JobOK, SweepSound
  <2>3. job[p].mark <= faults' /\ job[p].mark # faults'
    BY <1>1, <2>2
  <2> QED
    BY <2>1, <2>3 DEF SweepSound
<1>7. CASE UNCHANGED recVars
  <2>1. UNCHANGED <<job, pc, ctr, net, faults>>
    BY <1>7 DEF recVars, vars, dockerVars
  <2> QED
    BY <2>1 DEF SweepSound, Swept, CtrsGone, CtrsListed, NetsListed, Sweeping
<1> QED
  BY <1>2, <1>3, <1>4, <1>5, <1>6, <1>7 DEF RecNext

-----------------------------------------------------------------------------
(* The theorems                                                            *)

\* The counters of the bounds, and whether a reconcile() came to its end.
Counted ==
  /\ seeded \in BOOLEAN
  /\ calls \in 0..MaxCalls /\ jobs \in 0..MaxJobs /\ boots \in 0..MaxBoots

\* Every step, a restart included.
LEMMA RecNextKeeps ==
  ASSUME RecInv, "writer" \notin FaultAt, [RecNext]_recVars
  PROVE  RecInv' /\ (SeededInv /\ OneDeletes /\ NetworksTidy => SeededInv')
<1>1. CASE Restart
  BY <1>1, RestartKeeps
<1>2. CASE ~Restart
  BY <1>2, LifeKeeps DEF SeededInv
<1> QED
  BY <1>1, <1>2

\* The counters stay within their bounds.
LEMMA CountersKept ==
  ASSUME Counted, [RecNext]_recVars
  PROVE  Counted'
<1>1. CASE Restart
  <2>1. \E complete \in BOOLEAN : \E kept : seeded' = (complete /\ kept = {})
    BY <1>1 DEF Restart, Reconciled
  <2>2. boots' \in 0..MaxBoots /\ UNCHANGED <<calls, jobs>>
    BY <1>1, LimitAssumption DEF Restart, Counted
  <2> QED
    BY <2>1, <2>2 DEF Counted
<1>2. ASSUME NEW p \in Proc, ClientCall(p) PROVE Counted'
  BY <1>2, LimitAssumption DEF ClientCall, Counted
<1>3. ASSUME NEW p \in Proc, JobStep(p) PROVE Counted'
  BY <1>3 DEF JobStep, Counted, bounds
<1>4. ASSUME NEW p \in Proc, NEW f, StartJob(p, f) PROVE Counted'
  BY <1>4, LimitAssumption DEF StartJob, Counted
<1>5. CASE Outside
  BY <1>5 DEF Outside, Counted, bounds
<1>6. CASE UNCHANGED recVars
  BY <1>6 DEF recVars, Counted
<1> QED
  BY <1>1, <1>2, <1>3, <1>4, <1>5, <1>6 DEF RecNext

\* Unless another writer makes networks of the same names, the state keeps its types
\* through calls, jobs, failures and restarts: what reconcile() adopts is fit for every
\* operation that follows, and each loop of a cleanup, an import or a rollback works on
\* what it was meant for (docker_manager.py:104-180, 825-856; scenarios.py:120-202).
THEOREM RestartsKeepTypes ==
  ASSUME "writer" \notin FaultAt
  PROVE  RecSpec => []RecTypeOK
<1>1. RecInit => RecInv /\ Counted
  <2>1. RecInit => Counted
    BY LimitAssumption DEF RecInit, Counted
  <2> QED
    BY <2>1, InitRec
<1>2. RecInv /\ Counted /\ [RecNext]_recVars => RecInv' /\ Counted'
  BY RecNextKeeps, CountersKept
<1>3. RecInv /\ Counted => RecTypeOK
  BY DEF RecInv, IInv, JobsOK, Counted, RecTypeOK
<1> QED
  BY <1>1, <1>2, <1>3, PTL DEF RecSpec

\* If one thread at a time deletes, nobody else makes networks of the same names, and
\* rollbacks succeed, then after a crash at any point whose reconcile() came to its end,
\* and through the calls, cleanups and imports that follow, the pool holds the index of
\* each link, each link one of its own, and the subnet of each labelled network
\* (docker_manager.py:173-180; subnet_pool.py:9, 16-19).
THEOREM IndicesOutliveCrashes ==
  ASSUME OneDeletes, NetworksTidy
  PROVE  RecSpec => []IndicesSurvive
<1>1. "writer" \notin FaultAt
  BY DEF NetworksTidy
<1>2. RecInit => RecInv /\ SeededInv
  BY InitRec
<1>3. RecInv /\ SeededInv /\ [RecNext]_recVars => RecInv' /\ SeededInv'
  BY <1>1, RecNextKeeps
<1>4. RecInv /\ SeededInv => IndicesSurvive
  BY LeasedIndices, LeasedNetworks DEF RecInv, SeededInv, IndicesSurvive
<1> QED
  BY <1>2, <1>3, <1>4, PTL DEF RecSpec

\* Unless another writer makes networks of the same names: whatever was going on when the
\* process died, when reconcile() comes to its end an UP link has both ends, running and
\* attached, and no labelled network escapes the tables. What was half-built is ERROR or
\* reaped (docker_manager.py:137-163).
THEOREM WhatIsAdoptedIsLive ==
  ASSUME "writer" \notin FaultAt
  PROVE  RecSpec => RestartAdopts
<1> DEFINE Live == RecInv /\ EndsRun
           AdoptsLive ==
             Adopts =>
               \A pr \in Pair :
                 LET k == obj'[links'[pr]]
                 IN /\ links'[pr] = NoId => net'[pr].nid \in {NoId, Boot}
                    /\ links'[pr] # NoId /\ k.st = "up" =>
                         \A n \in Ends(pr) : ctr[n].up /\ n \in net'[pr].att /\ nodes'[n].st = "running"
<1>1. RecInit => Live
  <2>1. ASSUME RecInit PROVE EndsRun
    <3>1. \A pr \in Pair : net[pr].att = {}
      BY <2>1 DEF RecInit, Init, NoNetwork
    <3> QED
      BY <3>1 DEF EndsRun
  <2> QED
    BY <2>1, InitRec
<1>2. Live /\ [RecNext]_recVars => Live'
  <2>1. ASSUME Live, [RecNext]_recVars PROVE EndsRun'
    <3>1. CASE Restart
      BY <2>1, <3>1, RestartKeepsEnds
    <3>2. CASE ~Restart
      BY <2>1, <3>2, LifeKeepsEnds
    <3> QED
      BY <3>1, <3>2
  <2> QED
    BY <2>1, RecNextKeeps
<1>3. ASSUME Live, [RecNext]_recVars PROVE AdoptsLive
  <2>1. SUFFICES ASSUME boots' # boots, seeded' PROVE AdoptsLive
    BY DEF Adopts
  <2>2. Restart
    <3>1. ~(\E p \in Proc : ClientCall(p) \/ JobStep(p)) /\ ~Outside /\ ~UNCHANGED recVars
      BY <2>1 DEF ClientCall, JobStep, Outside, bounds, recVars
    <3>2. ~(\E p \in Proc : \E f : StartJob(p, f))
      BY <2>1 DEF StartJob
    <3> QED
      BY <1>3, <3>1, <3>2 DEF RecNext
  <2> QED
    BY <1>3, <2>1, <2>2, RestartAdoptsLive
<1>4. Live /\ [RecNext]_recVars => [AdoptsLive]_recVars
  BY <1>3
<1> HIDE DEF Live, AdoptsLive
<1>5. RecSpec => [][AdoptsLive]_recVars
  BY <1>1, <1>2, <1>4, PTL DEF RecSpec
<1> QED
  BY <1>5 DEF RestartAdopts, AdoptsLive

\* If calls and jobs are one at a time and nobody else makes networks of the same names: a
\* cleanup whose sweep did not fail leaves no container and no network on the daemon, whatever
\* failed before it, whatever a crash had left there, and however often the containers stop by
\* themselves (docker_manager.py:825-856). Containers go first, which takes the endpoints off
\* the networks; a removed resource leaves no trace; and the last listing sees every network.
THEOREM CleanupsEmptyDocker ==
  ASSUME \A p, q \in Proc : p = q, "writer" \notin FaultAt
  PROVE  RecSpec => SweepEmptiesDocker
<1> DEFINE Sound == RecInv /\ EndsRun /\ Tidy /\ \A p \in Proc : SweepSound(pc[p], job[p])
           Empties ==
             \A p \in Proc : JobEnds(p, "cleaned") /\ faults = job[p].mark =>
               /\ \A n \in Node : ctr[n] = NoContainer
               /\ \A pr \in Pair : net[pr] = NoNetwork
<1>1. RecInit => Sound
  <2>1. ASSUME RecInit PROVE EndsRun /\ Tidy /\ \A p \in Proc : SweepSound(pc[p], job[p])
    <3>1. /\ \A pr \in Pair : net[pr] = NoNetwork
          /\ ctr = [n \in Node |-> IF n \in BootNodes THEN FreshContainer(Boot) ELSE NoContainer]
          /\ faults = 0 /\ job = [p \in Proc |-> NoJob] /\ pc = [p \in Proc |-> "idle"]
      BY <2>1 DEF RecInit, Init
    <3>2. Boot # NoId /\ FreshContainer(Boot).cid = Boot
      BY DEF Boot, NoId, FreshContainer, NoContainer
    <3>3. EndsRun
      BY <3>1 DEF EndsRun, NoNetwork
    <3>4. Tidy
      BY <3>1, <3>2 DEF Tidy, CtrTidy, NetTidy, HasIdentity
    <3>5. \A p \in Proc : SweepSound(pc[p], job[p])
      BY <3>1 DEF SweepSound, Swept, Sweeping, Sweeps, NoJob
    <3> QED
      BY <3>3, <3>4, <3>5
  <2> QED
    BY <2>1, InitRec
<1>2. Sound /\ [RecNext]_recVars => Sound' /\ Empties
  <2> SUFFICES ASSUME Sound, [RecNext]_recVars PROVE Sound' /\ Empties
    OBVIOUS
  <2>1. RecInv'
    BY RecNextKeeps
  <2>2. EndsRun' /\ Tidy'
    <3>1. CASE Restart
      BY <3>1, RestartKeepsEnds, RestartKeepsTidy
    <3>2. CASE ~Restart
      BY <3>2, LifeKeepsEnds, LifeKeepsTidy
    <3> QED
      BY <3>1, <3>2
  <2>3. \A p \in Proc :
          /\ SweepSound(pc[p], job[p])'
          /\ job[p].phase # "done" /\ job'[p].end = "cleaned" /\ faults = job[p].mark
               => CtrsGone /\ NetsGone
    BY <2>1, AloneSound
  <2>4. Empties
    BY <2>3 DEF JobEnds, CtrsGone, NetsGone
  <2> QED
    BY <2>1, <2>2, <2>3, <2>4
<1>3. Sound /\ [RecNext]_recVars => Sound' /\ [Empties]_recVars
  BY <1>2
<1> HIDE DEF Sound, Empties
<1>4. RecSpec => [][Empties]_recVars
  BY <1>1, <1>3, PTL DEF RecSpec
<1> QED
  BY <1>4 DEF SweepEmptiesDocker, Empties

\* If calls and jobs are one at a time and nobody else makes networks of the same names: a
\* restart between two calls whose reconcile() comes to its end loses no node that has its
\* container, and no link that has an endpoint left, whatever calls, jobs and restarts came
\* before and whatever failed in them. They keep their Node objects' identity, their index,
\* their addresses and, when both ends are attached, an UP status (docker_manager.py:85-91;
\* main.py:57-66).
THEOREM RestartsAreTransparent ==
  ASSUME \A p, q \in Proc : p = q, "writer" \notin FaultAt
  PROVE  RecSpec => RestartTransparent
<1> DEFINE Sound == RecInv /\ EndsRun /\ Tidy /\ NodesOwn /\ SubsOK
           Transparent ==
             Adopts /\ Quiet =>
               /\ \A n \in Node : Present(n) /\ ctr[n].cid # NoId => nodes'[n].ref = nodes[n].ref
               /\ \A pr \in LinkNames :
                    LET old == obj[links[pr]]
                        new == obj'[links'[pr]]
                    IN old.nid = net[pr].nid /\ pr \in Labelled /\ ~Orphan(pr) =>
                         /\ links'[pr] # NoId /\ new.idx = old.idx
                         /\ old.st = "up" /\ net[pr].att = Ends(pr) => new.st = "up"
                         /\ \A n \in Ends(pr) : pr \in nodes[n].ips /\ ctr[n].cid # NoId => pr \in nodes'[n].ips
<1>1. RecInit => Sound
  <2>1. ASSUME RecInit PROVE EndsRun /\ Tidy /\ NodesOwn /\ SubsOK
    <3>1. /\ \A pr \in Pair : net[pr] = NoNetwork
          /\ ctr = [n \in Node |-> IF n \in BootNodes THEN FreshContainer(Boot) ELSE NoContainer]
          /\ pc = [p \in Proc |-> "idle"] /\ started = 0 /\ \A i \in Id : obj[i] = NoLink
          /\ nodes = [n \in Node |-> IF n \in BootNodes
                                     THEN [ref |-> [op |-> Boot, named |-> TRUE],
                                           st |-> "running", ips |-> {}]
                                     ELSE NoNode]
      BY <2>1 DEF RecInit, Init
    <3>2. Boot # NoId /\ FreshContainer(Boot).cid = Boot /\ NoId # Boot /\ NoId <= 0 + 1
      BY DEF Boot, NoId, FreshContainer, NoContainer
    <3>3. EndsRun
      BY <3>1 DEF EndsRun, NoNetwork
    <3>4. Tidy
      BY <3>1, <3>2 DEF Tidy, CtrTidy, NetTidy, HasIdentity
    <3>5. NodesOwn
      BY <3>1, <3>2 DEF NodesOwn, Present, NoNode
    <3>6. \A p \in Proc : pc[p] \notin CreateLinkLabel
      BY <3>1 DEF CreateLinkLabel
    <3>7. ObjSubs
      <4>1. NoLink.nid = NoId
        BY DEF NoLink
      <4>2. \A i \in Id : obj[i].nid = NoId
        BY <3>1, <4>1
      <4> QED
        BY <3>1, <3>2, <4>2 DEF ObjSubs, ObjSub, Past
    <3>8. SubsOK
      BY <3>6, <3>7 DEF SubsOK
    <3> QED
      BY <3>3, <3>4, <3>5, <3>8
  <2> QED
    BY <2>1, InitRec
<1>2. Sound /\ [RecNext]_recVars => Sound' /\ Transparent
  <2> SUFFICES ASSUME Sound, [RecNext]_recVars PROVE Sound' /\ Transparent
    OBVIOUS
  <2>1. RecInv'
    BY RecNextKeeps
  <2>2. EndsRun' /\ Tidy' /\ NodesOwn' /\ SubsOK'
    <3>1. CASE Restart
      BY <3>1, RestartKeepsEnds, RestartKeepsTidy, RestartKeepsOwn, RestartKeepsSubs
    <3>2. CASE ~Restart
      BY <3>2, LifeKeepsEnds, LifeKeepsTidy, LifeKeepsOwn, LifeKeepsSubs
    <3> QED
      BY <3>1, <3>2
  <2>3. ASSUME Adopts, Quiet PROVE Transparent
    <3>1. ~(\E p \in Proc : ClientCall(p) \/ JobStep(p)) /\ ~Outside /\ ~UNCHANGED recVars
      BY <2>3 DEF Adopts, ClientCall, JobStep, Outside, bounds, recVars
    <3>2. ~(\E p \in Proc : \E f : StartJob(p, f))
      BY <2>3 DEF Adopts, StartJob
    <3>3. Restart /\ seeded'
      BY <2>3, <3>1, <3>2 DEF RecNext, Adopts
    <3> QED
      BY <2>3, <3>3, RestartChangesNothing
  <2> QED
    BY <2>1, <2>2, <2>3
<1>3. Sound /\ [RecNext]_recVars => Sound' /\ [Transparent]_recVars
  BY <1>2
<1> HIDE DEF Sound, Transparent
<1>4. RecSpec => [][Transparent]_recVars
  BY <1>1, <1>3, PTL DEF RecSpec
<1> QED
  BY <1>4 DEF RestartTransparent, Transparent
=============================================================================
